---------------------- MODULE AgentProvisioningProofs ----------------------
(***************************************************************************)
(* Proofs about AgentProvisioning, for any number of organisations, slugs, *)
(* handlers, requests and faults.  The invariants speak of one slug, or of *)
(* one organisation, at a time.                                            *)
(***************************************************************************)
EXTENDS AgentProvisioning, FiniteSetTheorems, TLAPS

\* The request adds an agent.
New(h) == kind[h] \in {"create", "bootstrap"}

\* Where a request can be, by its kind.
KindFits(p, k) ==
    /\ p \in {"lookup", "count"} => k = "create"
    /\ p \in {"govern", "governing", "insert", "compensate", "compensating"} =>
          k \in {"create", "bootstrap"}
    /\ p = "resnapshot" => k = "bootstrap"
    /\ p = "inject" => k \in {"bootstrap", "repair"}
    /\ p \in {"snapshot", "provision", "provisioning"} => k # "delete"
    /\ p \in {"remove", "removing", "deleteRow"} => k = "delete"

\* What goes together in a handler.
HandlerForm(h) ==
    /\ pc[h] = "idle" <=> org[h] = None
    /\ IF pc[h] \in {"idle", "lookup"} THEN slug[h] = {} ELSE \E s \in Slugs : slug[h] = {s}
    /\ pc[h] \in Awaiting =>
          write[h] # None /\ write[h].op = pc[h] /\ write[h].slug \in slug[h]
    /\ pc[h] \notin Awaiting \cup {"idle"} => write[h] = None
    /\ KindFits(pc[h], kind[h])

TypeInv ==
    /\ agents \in [Slugs -> Orgs \cup {None}]
    /\ file \in Configs
    /\ memory \in Configs
    /\ write \in [Handlers -> Writes \cup {None}]
    /\ pc \in [Handlers -> Labels]
    /\ kind \in [Handlers -> {"create", "bootstrap", "repair", "delete"}]
    /\ org \in [Handlers -> Orgs \cup {None}]
    /\ slug \in [Handlers -> SUBSET Slugs]
    /\ held \in [Handlers -> Configs]
    /\ requests \in 0 .. MaxRequests
    /\ faults \in 0 .. MaxFaults
    /\ mishaps \subseteq Slugs \X {"overlap", "taken", "lost", "swallowed", "rowLeft",
                                   "died", "overwritten", "stale"}
    /\ overruns \subseteq Orgs \X {"overlap", "uncounted", "bootstrap"}
    /\ \A h \in Handlers : HandlerForm(h)

\* What a write will change is what it was asked for, until another one comes
\* in between.
PatchInv(h) ==
    write[h] # None /\ ~write[h].written /\ ~write[h].raced =>
        /\ \A s \in Slugs : write[h].next.list[s] # file.list[s] =>
              s = write[h].slug /\ write[h].op # "governing"
        /\ write[h].next.primary # file.primary => write[h].op = "governing"

Clean(s) == \A m \in mishaps : m[1] # s

\* A write that nobody waits for is one whose answer was lost.
OwnerInv(h) ==
    write[h] # None => write[h].slug \in slug[h] \/ ~Clean(write[h].slug)

Unborn == {"count", "snapshot", "govern", "governing", "resnapshot", "provision",
           "provisioning"}

\* The gateway has no agent for the request h: not yet, or no longer.
Absent(h) ==
    \/ New(h) /\ pc[h] \in Unborn /\ ~(pc[h] = "provisioning" /\ write[h].written)
    \/ pc[h] \in {"compensating", "removing"} /\ write[h].written
    \/ pc[h] = "deleteRow"

\* How far the request h about s is tells what the table and the gateway have.
Stage(h, s) ==
    /\ agents[s] = IF New(h) /\ pc[h] # "inject" THEN None ELSE org[h]
    /\ file.list[s] = IF Absent(h) THEN None ELSE org[h]
    /\ pc[h] \in Awaiting /\ ~write[h].written =>
          write[h].next.list[s] = IF pc[h] = "provisioning" THEN org[h] ELSE None
    /\ New(h) /\ pc[h] \in {"govern", "governing", "provision"} => held[h].list[s] = None

\* As long as nothing befell s, at most one request is at work on it, and when
\* none is the table and the gateway agree.
SlugInv(s) ==
    Clean(s) =>
        /\ \A g, h \in Handlers : s \in slug[g] /\ s \in slug[h] => g = h
        /\ (\A h \in Handlers : s \notin slug[h]) => file.list[s] = agents[s]
        /\ \A h \in Handlers : s \in slug[h] => Stage(h, s)

\* The request was let in to add an agent to o, and has not added it yet.
Admitted(h, o) == org[h] = o /\ New(h) /\ pc[h] \notin {"idle", "lookup", "count"}
Added == {"inject", "compensate", "compensating"}

\* As long as nothing met the limit of o, one request at a time is let in, and
\* what it is about to add has its place.
LimitInv(o) ==
    /\ IsFiniteSet(RowsOf(o))
    /\ (\A x \in overruns : x[1] # o) =>
          /\ Cardinality(RowsOf(o)) <= Limit
          /\ \A g, h \in Handlers : Admitted(g, o) /\ Admitted(h, o) => g = h
          /\ \A h \in Handlers : Admitted(h, o) /\ pc[h] \notin Added =>
                Cardinality(RowsOf(o)) < Limit

IInv ==
    /\ TypeInv
    /\ \A h \in Handlers : PatchInv(h) /\ OwnerInv(h)
    /\ \A s \in Slugs : SlugInv(s)
    /\ \A o \in Orgs : LimitInv(o)

-----------------------------------------------------------------------------
(* What a step of one handler leaves alone.                                 *)

Kinds == {"create", "bootstrap", "repair", "delete"}

HandlerAct(h) ==
    \/ Work(h)
    \/ \E o \in Orgs : PostAgent(h, o) \/ PostBootstrap(h, o) \/ DeleteAgent(h, o)

\* The request of h is set to these values.
Becomes(h, p, k, o, sl, c) ==
    /\ pc' = [pc EXCEPT ![h] = p]
    /\ kind' = [kind EXCEPT ![h] = k]
    /\ org' = [org EXCEPT ![h] = o]
    /\ slug' = [slug EXCEPT ![h] = sl]
    /\ held' = [held EXCEPT ![h] = c]

\* A write of somebody else may be raced, and once it is done what it reads
\* back may change.
SameWrite(g) ==
    IF write[g] = None THEN write'[g] = None
    ELSE /\ write'[g] \in Writes
         /\ write'[g].op = write[g].op /\ write'[g].slug = write[g].slug
         /\ write'[g].written = write[g].written
         /\ ~write[g].written => write'[g].next = write[g].next

Elsewhere(h) ==
    \A g \in Handlers \ {h} :
        /\ pc'[g] = pc[g] /\ kind'[g] = kind[g] /\ org'[g] = org[g]
        /\ slug'[g] = slug[g] /\ held'[g] = held[g]
        /\ SameWrite(g)

LEMMA EmptyConfig == Empty \in Configs
BY DEF Empty, Configs

LEMMA SlugOfIs ==
    ASSUME NEW h \in Handlers, NEW s, slug[h] = {s}
    PROVE  SlugOf(h) = s
BY DEF SlugOf

\* Who is at work on an agent has one slug.
LEMMA HasSlug ==
    ASSUME TypeInv, NEW h \in Handlers, pc[h] \notin {"idle", "lookup"}
    PROVE  /\ SlugOf(h) \in Slugs /\ slug[h] = {SlugOf(h)}
           /\ org[h] \in Orgs
<1>1. HandlerForm(h) /\ org[h] \in Orgs \cup {None}
  BY DEF TypeInv
<1>2. PICK s \in Slugs : slug[h] = {s}
  BY <1>1 DEF HandlerForm
<1>3. SlugOf(h) = s
  BY <1>2, SlugOfIs
<1> QED  BY <1>1, <1>2, <1>3 DEF HandlerForm

LEMMA GoToBecomes ==
    ASSUME TypeInv, NEW h \in Handlers, NEW label, GoTo(h, label)
    PROVE  Becomes(h, label, kind[h], org[h], slug[h], held[h])
BY DEF TypeInv, GoTo, Becomes

LEMMA EndBecomes ==
    ASSUME TypeInv, NEW h \in Handlers, End(h)
    PROVE  Becomes(h, "idle", "create", None, {}, Empty)
BY DEF End, Becomes

\* Nothing else of the request changes when it moves on to a label.
Settles(h) == \E label \in Labels : GoTo(h, label)

LEMMA MergedConfigs ==
    ASSUME TypeInv, NEW h \in Handlers, pc[h] \notin {"idle", "lookup"}
    PROVE  /\ [file EXCEPT !.primary = org[h]] \in Configs
           /\ [memory EXCEPT !.list[SlugOf(h)] = None] \in Configs
           /\ WithAgent(h) \in Configs
<1>1. SlugOf(h) \in Slugs /\ org[h] \in Orgs
  BY HasSlug
<1>2. file \in Configs /\ held[h] \in Configs /\ memory \in Configs
  BY DEF TypeInv
<1>3. [s \in Slugs |->
          IF s \in slug[h] THEN org[h]
          ELSE IF held[h].list[s] # None THEN held[h].list[s]
          ELSE file.list[s]] \in [Slugs -> Orgs \cup {None}]
  <2>1. \A s \in Slugs : held[h].list[s] \in Orgs \cup {None} /\ file.list[s] \in Orgs \cup {None}
    BY <1>2 DEF Configs
  <2> QED  BY <1>1, <2>1
<1>4. WithAgent(h) \in Configs
  BY <1>2, <1>3 DEF WithAgent, Configs
<1>5. [file EXCEPT !.primary = org[h]] \in Configs
  BY <1>1, <1>2 DEF Configs
<1>6. [memory EXCEPT !.list[SlugOf(h)] = None] \in Configs
  BY <1>1, <1>2 DEF Configs
<1> QED  BY <1>4, <1>5, <1>6

LEMMA AsksTypes ==
    ASSUME TypeInv, NEW h \in Handlers, pc[h] \notin {"idle", "lookup"},
           NEW op \in Awaiting, NEW next \in Configs,
           Writing(h, op, next, FALSE) \/ Writing(h, op, next, memory # file)
    PROVE  /\ write' \in [Handlers -> Writes \cup {None}]
           /\ write'[h] \in Writes /\ write'[h] # None
           /\ write'[h].op = op /\ write'[h].slug = SlugOf(h)
           /\ write'[h].next = next /\ ~write'[h].written
           /\ \A g \in Handlers \ {h} : write'[g] = write[g]
<1>1. PICK w : /\ w \in Writes /\ w.op = op /\ w.slug = SlugOf(h) /\ w.next = next
               /\ ~w.written /\ write' = [write EXCEPT ![h] = w]
  <2>1. SlugOf(h) \in Slugs
    BY HasSlug
  <2>2. ASSUME NEW b \in {TRUE, FALSE}
        PROVE  LET w == [op |-> op, slug |-> SlugOf(h), next |-> next,
                         raced |-> b, written |-> FALSE]
               IN  /\ w \in Writes /\ w.op = op /\ w.slug = SlugOf(h) /\ w.next = next
                   /\ ~w.written
    BY <2>1 DEF Writes
  <2>3. \E b \in {TRUE, FALSE} :
           write' = [write EXCEPT ![h] = [op |-> op, slug |-> SlugOf(h), next |-> next,
                                          raced |-> b, written |-> FALSE]]
    <3>1. CASE Writing(h, op, next, FALSE)
      BY <3>1 DEF Writing
    <3>2. CASE Writing(h, op, next, memory # file) /\ memory = file
      BY <3>2 DEF Writing
    <3>3. CASE Writing(h, op, next, memory # file) /\ memory # file
      BY <3>3 DEF Writing
    <3> QED  BY <3>1, <3>2, <3>3
  <2> QED  BY <2>2, <2>3
<1>2. write'[h] = w /\ write' \in [Handlers -> Writes \cup {None}]
  BY <1>1 DEF TypeInv
<1>3. \A g \in Handlers \ {h} : write'[g] = write[g]
  BY <1>1 DEF TypeInv
<1>4. w # None
  BY <1>1, NoWriteAssumption
<1> QED  BY <1>1, <1>2, <1>3, <1>4

\* A write made of the copy counts as raced where the copy is not the file.
LEMMA AsksRaced ==
    ASSUME TypeInv, NEW h \in Handlers, NEW op, NEW next,
           Writing(h, op, next, memory # file), memory # file
    PROVE  write'[h].raced
BY DEF Writing, TypeInv

\* What becomes of a request when it asks for a patch.
LEMMA PatchOutcome ==
    ASSUME TypeInv, NEW h \in Handlers, NEW op, NEW merged, NEW after,
           Patch(h, op, merged, after)
    PROVE  \/ End(h) /\ write' = write
           \/ GoTo(h, after) /\ write' = write /\ merged = file /\ held[h] = file
           \/ GoTo(h, op) /\ Writing(h, op, merged, FALSE) /\ held[h] = file
BY DEF Patch

Sets(h) ==
    \E p \in Labels, k \in Kinds, o \in Orgs \cup {None}, sl \in SUBSET Slugs, c \in Configs :
        Becomes(h, p, k, o, sl, c)

LEMMA MoveSets ==
    ASSUME TypeInv, NEW h \in Handlers,
           End(h) \/ UNCHANGED requestVars \/ \E p \in Labels : GoTo(h, p)
    PROVE  Sets(h)
<1>1. /\ kind[h] \in Kinds /\ org[h] \in Orgs \cup {None} /\ slug[h] \in SUBSET Slugs
      /\ held[h] \in Configs /\ pc[h] \in Labels
  BY DEF TypeInv, Kinds
<1>2. CASE End(h)
  <2>1. "idle" \in Labels /\ "create" \in Kinds
    BY DEF Labels, Kinds
  <2> QED  BY <1>2, <2>1, EndBecomes, EmptyConfig DEF Sets
<1>3. CASE UNCHANGED requestVars
  <2>1. Becomes(h, pc[h], kind[h], org[h], slug[h], held[h])
    BY <1>3 DEF requestVars, Becomes, TypeInv
  <2> QED  BY <1>1, <2>1 DEF Sets
<1>4. ASSUME NEW p \in Labels, GoTo(h, p)
      PROVE  Sets(h)
  BY <1>1, <1>4, GoToBecomes DEF Sets
<1> QED  BY <1>2, <1>3, <1>4

LEMMA LabelsAre ==
    Labels = {"idle", "lookup", "count", "snapshot", "govern", "resnapshot", "provision",
              "insert", "inject", "compensate", "remove", "deleteRow", "governing",
              "provisioning", "compensating", "removing"}
BY DEF Labels, Awaiting

LEMMA RequestSets ==
    ASSUME TypeInv, NEW h \in Handlers, NEW k \in Kinds, NEW o \in Orgs,
           NEW s \in SUBSET Slugs, NEW label \in Labels, Request(h, k, o, s, label)
    PROVE  Becomes(h, label, k, o, s, held[h])
BY DEF Request, Becomes, TypeInv

LEMMA ActSets ==
    ASSUME TypeInv, NEW h \in Handlers, HandlerAct(h)
    PROVE  Sets(h)
<1> USE LabelsAre
<1>0. /\ kind[h] \in Kinds /\ org[h] \in Orgs \cup {None} /\ slug[h] \in SUBSET Slugs
      /\ held[h] \in Configs /\ file \in Configs /\ BootstrapSlug \in [Orgs -> Slugs]
  BY ProvisioningAssumption DEF TypeInv, Kinds
<1>1. ASSUME NEW o \in Orgs, PostAgent(h, o) \/ PostBootstrap(h, o) \/ DeleteAgent(h, o)
      PROVE  Sets(h)
  <2>1. \E k \in Kinds, s \in SUBSET Slugs, label \in Labels : Request(h, k, o, s, label)
    <3>1. CASE PostAgent(h, o)
      BY <3>1 DEF PostAgent, Kinds
    <3>2. CASE PostBootstrap(h, o)
      BY <1>0, <3>2 DEF PostBootstrap, Kinds, RowsOf
    <3>3. CASE DeleteAgent(h, o)
      BY <3>3 DEF DeleteAgent, Kinds, RowsOf
    <3> QED  BY <1>1, <3>1, <3>2, <3>3
  <2> QED  BY <1>0, <2>1, RequestSets DEF Sets
<1>2. CASE ResolveSlug(h)
  <2>1. PICK s \in Slugs : Becomes(h, "count", kind[h], org[h], {s}, held[h])
    BY <1>2 DEF ResolveSlug, Becomes, TypeInv
  <2> QED  BY <1>0, <2>1 DEF Sets
<1>3. CASE GetConfigSnapshot(h)
  <2>1. CASE End(h)
    BY <2>1, MoveSets
  <2>2. CASE ~End(h)
    <3>1. \E p \in Labels : Becomes(h, p, kind[h], org[h], slug[h], file)
      BY <1>3, <2>2 DEF GetConfigSnapshot, Becomes, TypeInv
    <3> QED  BY <1>0, <3>1 DEF Sets
  <2> QED  BY <2>1, <2>2
<1>4. CASE ApplyModelGovernance(h) \/ ProvisionAgent(h)
  <2>1. End(h) \/ \E p \in Labels : GoTo(h, p)
    BY <1>4, PatchOutcome DEF ApplyModelGovernance, ProvisionAgent, AfterGovernance,
       AfterProvision
  <2> QED  BY <2>1, MoveSets
<1>5. CASE CountAgents(h) \/ InsertAgentMetadata(h) \/ InjectAgentContext(h)
  <2>1. End(h) \/ \E p \in Labels : GoTo(h, p)
    BY <1>5 DEF CountAgents, InsertAgentMetadata, InjectAgentContext
  <2> QED  BY <2>1, MoveSets
<1>6. CASE Compensate(h) \/ RemoveAgent(h) \/ DeleteRow(h) \/ CallLost(h) \/ Die(h)
  <2>1. End(h) \/ \E p \in Labels : GoTo(h, p)
    BY <1>6 DEF Compensate, RemoveAgent, Remove, DeleteRow, CallLost, Die
  <2> QED  BY <2>1, MoveSets
<1>7. CASE Commit(h) \/ Publish(h)
  <2>1. End(h) \/ UNCHANGED requestVars \/ \E p \in Labels : GoTo(h, p)
    BY <1>7 DEF Commit, Publish, After, AfterGovernance, AfterProvision
  <2> QED  BY <2>1, MoveSets
<1> QED  BY <1>1, <1>2, <1>3, <1>4, <1>5, <1>6, <1>7 DEF HandlerAct, Work

\* The steps that ask the gateway to write.
Asks(h) == ApplyModelGovernance(h) \/ ProvisionAgent(h) \/ Compensate(h) \/ RemoveAgent(h)

LEMMA Asked ==
    ASSUME TypeInv, NEW h \in Handlers, Asks(h), write' # write
    PROVE  /\ write' \in [Handlers -> Writes \cup {None}]
           /\ write'[h] \in Writes /\ write'[h] # None
           /\ GoTo(h, write'[h].op)
           /\ write'[h].slug = SlugOf(h) /\ ~write'[h].written
           /\ \A g \in Handlers \ {h} : write'[g] = write[g]
           /\ \/ /\ write'[h].op = "governing" /\ pc[h] = "govern"
                 /\ write'[h].next = [file EXCEPT !.primary = org[h]]
              \/ /\ write'[h].op = "provisioning" /\ pc[h] = "provision" /\ held[h] = file
                 /\ write'[h].next = WithAgent(h)
              \/ /\ \/ write'[h].op = "compensating" /\ pc[h] = "compensate"
                    \/ write'[h].op = "removing" /\ pc[h] = "remove"
                 /\ write'[h].next = [memory EXCEPT !.list[SlugOf(h)] = None]
                 /\ memory = file \/ write'[h].raced
<1>0. pc[h] \in {"govern", "provision", "compensate", "remove"}
  BY DEF Asks, ApplyModelGovernance, ProvisionAgent, Compensate, RemoveAgent
<1>1. /\ [file EXCEPT !.primary = org[h]] \in Configs
      /\ [memory EXCEPT !.list[SlugOf(h)] = None] \in Configs
      /\ WithAgent(h) \in Configs
  BY <1>0, MergedConfigs
<1>2. Awaiting = {"governing", "provisioning", "compensating", "removing"}
  BY DEF Awaiting
<1>3. CASE ApplyModelGovernance(h)
  <2>1. /\ pc[h] = "govern" /\ GoTo(h, "governing")
        /\ Writing(h, "governing", [file EXCEPT !.primary = org[h]], FALSE)
    BY <1>3, PatchOutcome DEF ApplyModelGovernance
  <2> QED  BY <1>1, <1>2, <2>1, AsksTypes
<1>4. CASE ProvisionAgent(h)
  <2>1. /\ pc[h] = "provision" /\ GoTo(h, "provisioning") /\ held[h] = file
        /\ Writing(h, "provisioning", WithAgent(h), FALSE)
    BY <1>4, PatchOutcome DEF ProvisionAgent
  <2> QED  BY <1>1, <1>2, <2>1, AsksTypes
<1>5. CASE Compensate(h) \/ RemoveAgent(h)
  <2>1. PICK op \in {"compensating", "removing"} :
           /\ pc[h] = IF op = "removing" THEN "remove" ELSE "compensate"
           /\ GoTo(h, op)
           /\ Writing(h, op, [memory EXCEPT !.list[SlugOf(h)] = None], memory # file)
    BY <1>5 DEF Compensate, RemoveAgent, Remove
  <2>2. memory = file \/ write'[h].raced
    BY <2>1, AsksRaced
  <2>3. /\ write' \in [Handlers -> Writes \cup {None}]
        /\ write'[h] \in Writes /\ write'[h] # None
        /\ write'[h].op = op /\ write'[h].slug = SlugOf(h)
        /\ write'[h].next = [memory EXCEPT !.list[SlugOf(h)] = None] /\ ~write'[h].written
        /\ \A g \in Handlers \ {h} : write'[g] = write[g]
    <3>1. pc[h] \notin {"idle", "lookup"} /\ op \in Awaiting
      BY <1>0, <1>2
    <3> QED  BY <1>1, <2>1, <3>1, AsksTypes
  <2> QED  BY <2>1, <2>2, <2>3
<1> QED  BY <1>3, <1>4, <1>5 DEF Asks

\* A commit marks the write as done, and races every other one.
LEMMA CommitWrites ==
    ASSUME TypeInv, NEW h \in Handlers, Commit(h)
    PROVE  /\ write' \in [Handlers -> Writes \cup {None}]
           /\ write[h] \in Writes /\ file' = write[h].next
           /\ ~write[h].written
           /\ write'[h] \in Writes /\ write'[h].written
           /\ write'[h].op = write[h].op /\ write'[h].slug = write[h].slug
           /\ \A g \in Handlers \ {h} :
                 SameWrite(g) /\ (write[g] # None => write'[g].raced)
<1>0. ASSUME NEW w \in Writes
      PROVE  /\ [w EXCEPT !.written = TRUE] \in Writes
             /\ [w EXCEPT !.written = TRUE].written
             /\ [w EXCEPT !.written = TRUE].op = w.op
             /\ [w EXCEPT !.written = TRUE].slug = w.slug
             /\ w.next \in Configs
  BY DEF Writes
<1>1. ASSUME NEW w \in Writes, NEW c \in Configs
      PROVE  /\ [w EXCEPT !.raced = TRUE, !.next = c] \in Writes
             /\ [w EXCEPT !.raced = TRUE, !.next = c].raced
             /\ [w EXCEPT !.raced = TRUE, !.next = c].next = c
             /\ [w EXCEPT !.raced = TRUE, !.next = c].op = w.op
             /\ [w EXCEPT !.raced = TRUE, !.next = c].slug = w.slug
             /\ [w EXCEPT !.raced = TRUE, !.next = c].written = w.written
  BY DEF Writes
<1>2. write[h] \in Writes /\ file' = write[h].next /\ ~write[h].written
  BY DEF Commit, TypeInv
<1>3. PICK readBack \in SUBSET {g \in Handlers \ {h} : write[g] # None /\ write[g].written} :
         write' = [g \in Handlers |->
              IF g = h THEN [write[g] EXCEPT !.written = TRUE]
              ELSE IF write[g] = None THEN None
              ELSE [write[g] EXCEPT !.raced = TRUE,
                                    !.next = IF g \in readBack THEN write[h].next ELSE @]]
  BY DEF Commit
<1>4. write'[h] = [write[h] EXCEPT !.written = TRUE]
  BY <1>3
<1>5. ASSUME NEW g \in Handlers \ {h}, write[g] # None
      PROVE  SameWrite(g) /\ write'[g] \in Writes /\ write'[g].raced
  <2>1. write[g] \in Writes
    BY <1>5 DEF TypeInv
  <2>2. PICK c \in Configs : /\ ~write[g].written => c = write[g].next
                             /\ write'[g] = [write[g] EXCEPT !.raced = TRUE, !.next = c]
    <3>1. CASE g \in readBack
      <4>1. write[g].written
        BY <1>3, <3>1
      <4>2. write'[g] = [write[g] EXCEPT !.raced = TRUE, !.next = write[h].next]
        BY <1>3, <1>5, <3>1
      <4> QED  BY <1>0, <1>2, <4>1, <4>2
    <3>2. CASE g \notin readBack
      <4>1. write'[g] = [write[g] EXCEPT !.raced = TRUE, !.next = write[g].next]
        BY <1>3, <1>5, <3>2
      <4> QED  BY <1>0, <2>1, <4>1
    <3> QED  BY <3>1, <3>2
  <2>3. /\ write'[g] \in Writes /\ write'[g].raced /\ write'[g].next = c
        /\ write'[g].op = write[g].op /\ write'[g].slug = write[g].slug
        /\ write'[g].written = write[g].written
    <3> DEFINE v == [write[g] EXCEPT !.raced = TRUE, !.next = c]
    <3>1. /\ v \in Writes /\ v.raced /\ v.next = c
          /\ v.op = write[g].op /\ v.slug = write[g].slug /\ v.written = write[g].written
      BY ONLY <1>1, <2>1, c \in Configs
    <3>2. write'[g] = v
      BY <2>2
    <3> HIDE DEF v
    <3> QED  BY <3>1, <3>2
  <2> QED  BY <1>5, <2>2, <2>3 DEF SameWrite
<1>6. \A g \in Handlers \ {h} : write[g] = None => write'[g] = None
  BY <1>3
<1>7. write' \in [Handlers -> Writes \cup {None}]
  <2>0. write'[h] \in Writes
    BY <1>0, <1>2, <1>4
  <2>1. \A g \in Handlers : write'[g] \in Writes \cup {None}
    BY <1>5, <1>6, <2>0
  <2> QED  BY <1>3, <2>1
<1>8. /\ write'[h] \in Writes /\ write'[h].written
      /\ write'[h].op = write[h].op /\ write'[h].slug = write[h].slug
  BY <1>0, <1>2, <1>4
<1>9. \A g \in Handlers \ {h} : SameWrite(g) /\ (write[g] # None => write'[g].raced)
  BY <1>5, <1>6 DEF SameWrite
<1> QED  BY <1>2, <1>7, <1>8, <1>9

\* What the gateway is about to write for whom.
LEMMA ActWrites ==
    ASSUME TypeInv, NEW h \in Handlers, HandlerAct(h)
    PROVE  /\ write' \in [Handlers -> Writes \cup {None}]
           /\ \A g \in Handlers \ {h} : SameWrite(g)
<1>1. CASE write' = write
  BY <1>1 DEF TypeInv, SameWrite
<1>2. CASE Asks(h) /\ write' # write
  <2>1. /\ write' \in [Handlers -> Writes \cup {None}]
        /\ \A g \in Handlers \ {h} : write'[g] = write[g]
    BY <1>2, Asked
  <2> QED  BY <2>1 DEF SameWrite, TypeInv
<1>3. CASE Commit(h)
  BY <1>3, CommitWrites
<1>4. CASE Publish(h)
  <2>1. write' = [write EXCEPT ![h] = None]
    BY <1>4 DEF Publish
  <2> QED  BY <2>1 DEF SameWrite, TypeInv
<1>5. CASE ~(Asks(h) \/ Commit(h) \/ Publish(h))
  <2>1. write' = write
    BY <1>5 DEF HandlerAct, Work, Asks, PostAgent, PostBootstrap, DeleteAgent, Request,
       ResolveSlug, CountAgents, GetConfigSnapshot, InsertAgentMetadata, InjectAgentContext,
       DeleteRow, CallLost, Die
  <2> QED  BY <1>1, <2>1
<1> QED  BY <1>1, <1>2, <1>3, <1>4, <1>5

LEMMA ActElsewhere ==
    ASSUME TypeInv, NEW h \in Handlers, HandlerAct(h)
    PROVE  Elsewhere(h)
<1>1. PICK p, k, o, sl, c : Becomes(h, p, k, o, sl, c)
  BY ActSets DEF Sets
<1> QED  BY <1>1, ActWrites DEF Becomes, Elsewhere, TypeInv

-----------------------------------------------------------------------------
(* Types.                                                                   *)

LEMMA FormElsewhere ==
    ASSUME TypeInv, NEW h \in Handlers, HandlerAct(h), NEW g \in Handlers \ {h}
    PROVE  HandlerForm(g)'
<1>1. /\ pc'[g] = pc[g] /\ kind'[g] = kind[g] /\ org'[g] = org[g] /\ slug'[g] = slug[g]
      /\ SameWrite(g)
  BY ActElsewhere DEF Elsewhere
<1>2. HandlerForm(g) /\ write[g] \in Writes \cup {None}
  BY DEF TypeInv
<1>3. /\ write'[g] = None <=> write[g] = None
      /\ write[g] # None => write'[g].op = write[g].op /\ write'[g].slug = write[g].slug
  BY <1>1, NoWriteAssumption DEF SameWrite
<1> QED  BY <1>1, <1>2, <1>3 DEF HandlerForm

LEMMA FormEnd ==
    ASSUME TypeInv, NEW h \in Handlers, End(h)
    PROVE  HandlerForm(h)'
<1>1. pc'[h] = "idle" /\ org'[h] = None /\ slug'[h] = {}
  BY EndBecomes DEF Becomes, TypeInv
<1> QED  BY <1>1 DEF HandlerForm, KindFits, Awaiting

\* A request that has its agent goes on.
LEMMA FormGoTo ==
    ASSUME TypeInv, NEW h \in Handlers, NEW label, GoTo(h, label),
           pc[h] \notin {"idle", "lookup"}, label \notin {"idle", "lookup"},
           KindFits(label, kind[h]),
           IF label \in Awaiting
           THEN write'[h] # None /\ write'[h].op = label /\ write'[h].slug = SlugOf(h)
           ELSE write'[h] = None
    PROVE  HandlerForm(h)'
<1>1. /\ pc'[h] = label /\ kind'[h] = kind[h] /\ org'[h] = org[h] /\ slug'[h] = slug[h]
  BY GoToBecomes DEF Becomes, TypeInv
<1>2. SlugOf(h) \in Slugs /\ slug[h] = {SlugOf(h)} /\ org[h] # None
  BY HasSlug, ProvisioningAssumption
<1> QED  BY <1>1, <1>2 DEF HandlerForm

LEMMA FormBegin ==
    ASSUME TypeInv, NEW h \in Handlers, NEW o \in Orgs,
           PostAgent(h, o) \/ PostBootstrap(h, o) \/ DeleteAgent(h, o)
    PROVE  HandlerForm(h)'
<1>1. ASSUME NEW k \in Kinds, NEW s \in SUBSET Slugs, NEW label \in Labels,
             Request(h, k, o, s, label), label \notin Awaiting \cup {"idle"},
             KindFits(label, k),
             IF label = "lookup" THEN s = {} ELSE \E t \in Slugs : s = {t}
      PROVE  HandlerForm(h)'
  <2>1. /\ pc'[h] = label /\ kind'[h] = k /\ org'[h] = o /\ slug'[h] = s
    BY <1>1, RequestSets DEF Becomes, TypeInv
  <2>2. write'[h] = None /\ o # None
    BY <1>1, ProvisioningAssumption DEF Request
  <2> QED  BY <1>1, <2>1, <2>2 DEF HandlerForm
<1>2. /\ Kinds = {"create", "bootstrap", "repair", "delete"}
      /\ {"lookup", "snapshot", "remove"} \subseteq Labels \ (Awaiting \cup {"idle"})
      /\ BootstrapSlug[o] \in Slugs
  BY ProvisioningAssumption DEF Kinds, Labels, Awaiting
<1>3. CASE PostAgent(h, o)
  BY <1>1, <1>2, <1>3 DEF PostAgent, KindFits
<1>4. CASE PostBootstrap(h, o)
  <2>1. \E k \in {"bootstrap", "repair"}, s \in Slugs : Request(h, k, o, {s}, "snapshot")
    BY <1>2, <1>4 DEF PostBootstrap, RowsOf
  <2> QED  BY <1>1, <1>2, <2>1 DEF KindFits
<1>5. CASE DeleteAgent(h, o)
  <2>1. \E s \in Slugs : Request(h, "delete", o, {s}, "remove")
    BY <1>5 DEF DeleteAgent, RowsOf
  <2> QED  BY <1>1, <1>2, <2>1 DEF KindFits
<1> QED  BY <1>3, <1>4, <1>5

LEMMA FormWork ==
    ASSUME TypeInv, NEW h \in Handlers, Work(h)
    PROVE  HandlerForm(h)'
<1>0. /\ HandlerForm(h) /\ pc[h] \in Labels /\ kind[h] \in Kinds
      /\ write[h] \in Writes \cup {None}
  BY DEF TypeInv, Kinds
<1>a. KindFits(pc[h], kind[h])
  BY <1>0 DEF HandlerForm
<1>b. pc[h] \notin Awaiting \cup {"idle"} => write[h] = None
  BY <1>0 DEF HandlerForm
<1>c. ASSUME NEW label, GoTo(h, label), write' = write,
             pc[h] \notin Awaiting \cup {"idle", "lookup"},
             label \notin Awaiting \cup {"idle", "lookup"}, KindFits(label, kind[h])
      PROVE  HandlerForm(h)'
  BY <1>b, <1>c, FormGoTo
<1> USE FormEnd
<1>1. CASE ResolveSlug(h)
  <2>1. /\ pc'[h] = "count" /\ kind'[h] = kind[h] /\ org'[h] = org[h]
        /\ \E s \in Slugs : slug'[h] = {s}
        /\ write' = write /\ pc[h] = "lookup"
    BY <1>1 DEF ResolveSlug, TypeInv
  <2> QED  BY <1>0, <2>1 DEF HandlerForm, KindFits, Awaiting
<1>2. CASE CountAgents(h)
  <2>1. pc[h] = "count" /\ write' = write /\ (End(h) \/ GoTo(h, "snapshot"))
    BY <1>2 DEF CountAgents
  <2> QED  BY <1>a, <1>c, <2>1 DEF KindFits, Awaiting
<1>3. CASE GetConfigSnapshot(h)
  <2>1. CASE End(h)
    BY <2>1
  <2>2. CASE ~End(h)
    <3>1. /\ pc[h] \in {"snapshot", "resnapshot"} /\ write' = write
          /\ pc'[h] = IF pc[h] = "resnapshot" \/ kind[h] = "repair" THEN "provision"
                      ELSE "govern"
          /\ kind'[h] = kind[h] /\ org'[h] = org[h] /\ slug'[h] = slug[h]
      BY <1>3, <2>2 DEF GetConfigSnapshot, TypeInv
    <3> QED  BY <1>0, <3>1 DEF HandlerForm, KindFits, Awaiting, Kinds
  <2> QED  BY <2>1, <2>2
<1>4. CASE ApplyModelGovernance(h) /\ write' = write
  <2>1. pc[h] = "govern" /\ AfterGovernance(h) \in {"resnapshot", "provision"}
    BY <1>4 DEF ApplyModelGovernance, AfterGovernance
  <2>2. KindFits(AfterGovernance(h), kind[h])
    BY <1>a, <2>1 DEF KindFits, AfterGovernance
  <2>3. \/ End(h) \/ GoTo(h, AfterGovernance(h))
        \/ Writing(h, "governing", [file EXCEPT !.primary = org[h]], FALSE)
    BY <1>4, PatchOutcome DEF ApplyModelGovernance
  <2>5. Writing(h, "governing", [file EXCEPT !.primary = org[h]], FALSE) => write'[h] # None
    BY <2>1, AsksTypes, MergedConfigs DEF Awaiting
  <2>4. write[h] = None
    BY <1>b, <2>1 DEF Awaiting
  <2> QED  BY <1>4, <1>c, <2>1, <2>2, <2>3, <2>4, <2>5 DEF Awaiting
<1>5. CASE ProvisionAgent(h) /\ write' = write
  <2>1. pc[h] = "provision" /\ AfterProvision(h) \in {"inject", "insert"}
    BY <1>5 DEF ProvisionAgent, AfterProvision
  <2>2. /\ KindFits(AfterProvision(h), kind[h])
        /\ kind[h] # "repair" => KindFits("insert", kind[h])
    BY <1>0, <1>a, <2>1 DEF KindFits, AfterProvision, Kinds
  <2>3. \/ End(h)
        \/ GoTo(h, AfterProvision(h))
        \/ GoTo(h, "insert") /\ kind[h] # "repair"
        \/ Writing(h, "provisioning", WithAgent(h), FALSE)
    BY <1>5, PatchOutcome DEF ProvisionAgent
  <2>5. Writing(h, "provisioning", WithAgent(h), FALSE) => write'[h] # None
    BY <2>1, AsksTypes, MergedConfigs DEF Awaiting
  <2>4. write[h] = None
    BY <1>b, <2>1 DEF Awaiting
  <2> QED  BY <1>5, <1>c, <2>1, <2>2, <2>3, <2>4, <2>5 DEF Awaiting
<1>6. CASE InsertAgentMetadata(h)
  <2>1. /\ pc[h] = "insert" /\ write' = write
        /\ \/ End(h)
           \/ GoTo(h, "inject") /\ kind[h] = "bootstrap"
           \/ GoTo(h, "compensate")
    BY <1>6 DEF InsertAgentMetadata
  <2> QED  BY <1>a, <1>c, <2>1 DEF KindFits, Awaiting
<1>7. CASE InjectAgentContext(h)
  <2>1. /\ pc[h] = "inject" /\ write' = write
        /\ End(h) \/ (GoTo(h, "compensate") /\ kind[h] = "bootstrap")
    BY <1>7 DEF InjectAgentContext
  <2> QED  BY <1>c, <2>1 DEF KindFits, Awaiting
<1>8. CASE (Compensate(h) \/ RemoveAgent(h)) /\ write' = write
  <2>1. pc[h] \in {"compensate", "remove"} /\ write[h] = None
    BY <1>8, <1>b DEF Compensate, RemoveAgent, Awaiting
  <2>2. ASSUME NEW op \in Awaiting,
               Writing(h, op, [memory EXCEPT !.list[SlugOf(h)] = None], memory # file)
        PROVE  FALSE
    BY <1>8, <2>1, <2>2, AsksTypes, MergedConfigs
  <2>3. End(h) \/ (pc[h] = "remove" /\ GoTo(h, "deleteRow"))
    <3>1. "compensating" \in Awaiting /\ "removing" \in Awaiting
      BY DEF Awaiting
    <3>2. CASE Compensate(h)
      BY <2>2, <3>1, <3>2 DEF Compensate, Remove
    <3>3. CASE RemoveAgent(h)
      BY <2>2, <3>1, <3>3 DEF RemoveAgent, Remove
    <3> QED  BY <1>8, <3>2, <3>3
  <2> QED  BY <1>8, <1>a, <1>c, <2>1, <2>3 DEF KindFits, Awaiting
<1>e. CASE Asks(h) /\ write' # write
  <2>1. /\ GoTo(h, write'[h].op) /\ write'[h] # None /\ write'[h].slug = SlugOf(h)
        /\ \/ write'[h].op = "governing" /\ pc[h] = "govern"
           \/ write'[h].op = "provisioning" /\ pc[h] = "provision"
           \/ write'[h].op = "compensating" /\ pc[h] = "compensate"
           \/ write'[h].op = "removing" /\ pc[h] = "remove"
    BY <1>e, Asked
  <2>2. pc[h] \notin {"idle", "lookup"} /\ KindFits(write'[h].op, kind[h])
    BY <1>a, <2>1 DEF KindFits
  <2>3. write'[h].op \in Awaiting
    BY <2>1 DEF Awaiting
  <2> QED  BY <2>1, <2>2, <2>3, FormGoTo DEF Awaiting
<1>9. CASE DeleteRow(h) \/ CallLost(h) \/ Die(h)
  BY <1>9 DEF DeleteRow, CallLost, Die
<1>10. CASE Commit(h)
  <2>1. /\ pc'[h] = pc[h] /\ kind'[h] = kind[h] /\ org'[h] = org[h] /\ slug'[h] = slug[h]
    BY <1>10 DEF Commit, requestVars
  <2>2. /\ write[h] # None /\ write'[h] # None
        /\ write'[h].op = write[h].op /\ write'[h].slug = write[h].slug
    BY <1>10, CommitWrites, NoWriteAssumption
  <2> QED  BY <1>0, <2>1, <2>2 DEF HandlerForm
<1>11. CASE Publish(h)
  <2>1. write[h] # None /\ write'[h] = None
    BY <1>11 DEF Publish, TypeInv
  <2>2. CASE pc[h] \notin Awaiting
    <3>1. /\ pc[h] = "idle" /\ pc'[h] = "idle" /\ org'[h] = org[h] /\ slug'[h] = slug[h]
      BY <1>0, <1>11, <2>1, <2>2 DEF Publish, requestVars, HandlerForm
    <3> QED  BY <1>0, <3>1 DEF HandlerForm, KindFits, Awaiting
  <2>3. CASE pc[h] \in Awaiting
    <3>1. /\ End(h) \/ GoTo(h, After(h))
          /\ After(h) # "idle" => GoTo(h, After(h))
      BY <1>11, <2>3 DEF Publish
    <3>2. After(h) # "idle" =>
             /\ After(h) \notin Awaiting \cup {"idle", "lookup"}
             /\ KindFits(After(h), kind[h])
      BY <1>0, <1>a, <2>3 DEF After, AfterGovernance, AfterProvision, KindFits, Awaiting, Kinds
    <3>3. pc[h] \notin {"idle", "lookup"}
      BY <2>3 DEF Awaiting
    <3>4. CASE After(h) = "idle"
      BY <1>11, <2>3, <3>4 DEF Publish
    <3> QED  BY <2>1, <3>1, <3>2, <3>3, <3>4, FormGoTo
  <2> QED  BY <2>2, <2>3
<1> QED  BY <1>1, <1>2, <1>3, <1>4, <1>5, <1>6, <1>7, <1>8, <1>9, <1>10, <1>11, <1>e
         DEF Work, Asks

MishapKinds == {"overlap", "taken", "lost", "swallowed", "rowLeft", "died", "overwritten",
                "stale"}

LEMMA MishapTypes ==
    ASSUME TypeInv, NEW h \in Handlers, HandlerAct(h)
    PROVE  mishaps \subseteq mishaps' /\ mishaps' \subseteq Slugs \X MishapKinds
<1>0. mishaps \subseteq Slugs \X MishapKinds
  BY DEF TypeInv, MishapKinds
<1>1. CASE mishaps' = mishaps
  BY <1>0, <1>1
<1>2. ASSUME NEW s \in Slugs, NEW what \in MishapKinds, Mishap(s, what)
      PROVE  mishaps \subseteq mishaps' /\ mishaps' \subseteq Slugs \X MishapKinds
  BY <1>0, <1>2 DEF Mishap
<1>3. ASSUME NEW s \in Slugs, NEW new, TakeUp(h, s, new)
      PROVE  mishaps \subseteq mishaps' /\ mishaps' \subseteq Slugs \X MishapKinds
  BY <1>0, <1>3 DEF TakeUp, MishapKinds
<1>4. {"lost", "swallowed", "rowLeft", "died"} \subseteq MishapKinds
  BY DEF MishapKinds
<1>5. pc[h] \notin {"idle", "lookup"} => SlugOf(h) \in Slugs
  BY HasSlug
<1>6. CASE Commit(h)
  <2>1. \E S \in SUBSET Slugs : mishaps' = mishaps \cup {<<s, "overwritten">> : s \in S}
    BY <1>6 DEF Commit
  <2> QED  BY <1>0, <2>1 DEF MishapKinds
<1>7. ASSUME NEW o \in Orgs, PostAgent(h, o) \/ PostBootstrap(h, o) \/ DeleteAgent(h, o)
      PROVE  mishaps \subseteq mishaps' /\ mishaps' \subseteq Slugs \X MishapKinds
  <2>1. BootstrapSlug[o] \in Slugs
    BY ProvisioningAssumption
  <2> QED  BY <1>1, <1>3, <1>7, <2>1 DEF PostAgent, PostBootstrap, DeleteAgent, RowsOf
<1>8. CASE ResolveSlug(h)
  BY <1>3, <1>8 DEF ResolveSlug
<1>9. CASE CountAgents(h) \/ GetConfigSnapshot(h) \/ ApplyModelGovernance(h)
           \/ ProvisionAgent(h) \/ Publish(h)
  BY <1>1, <1>9 DEF CountAgents, GetConfigSnapshot, ApplyModelGovernance, ProvisionAgent,
     Publish, historyVars
<1>10. CASE InsertAgentMetadata(h) \/ InjectAgentContext(h) \/ DeleteRow(h)
  <2>1. SlugOf(h) \in Slugs
    BY <1>5, <1>10 DEF InsertAgentMetadata, InjectAgentContext, DeleteRow
  <2> QED  BY <1>1, <1>2, <1>4, <1>10, <2>1
           DEF InsertAgentMetadata, InjectAgentContext, DeleteRow
<1>12. CASE Compensate(h) \/ RemoveAgent(h)
  <2>1. SlugOf(h) \in Slugs
    BY <1>5, <1>12 DEF Compensate, RemoveAgent
  <2>2. Stale(h) => mishaps' \in {mishaps, mishaps \cup {<<SlugOf(h), "stale">>}}
    BY DEF Stale
  <2>3. Stale(h) \/ mishaps' = mishaps \/ Mishap(SlugOf(h), "swallowed")
    BY <1>12 DEF Compensate, RemoveAgent
  <2>4. CASE Stale(h)
    BY <1>0, <2>1, <2>2, <2>4 DEF MishapKinds
  <2> QED  BY <1>1, <1>2, <1>4, <2>1, <2>3, <2>4
<1>11. CASE CallLost(h) \/ Die(h)
  <2>1. SlugOf(h) \in Slugs
    BY <1>5, <1>11 DEF CallLost, Die, Awaiting
  <2> QED  BY <1>2, <1>4, <1>11, <2>1 DEF CallLost, Die
<1> QED  BY <1>6, <1>7, <1>8, <1>9, <1>10, <1>11, <1>12 DEF HandlerAct, Work

LEMMA OverrunTypes ==
    ASSUME TypeInv, NEW h \in Handlers, HandlerAct(h)
    PROVE  /\ overruns \subseteq overruns'
           /\ overruns' \subseteq Orgs \X {"overlap", "uncounted", "bootstrap"}
<1>0. overruns \subseteq Orgs \X {"overlap", "uncounted", "bootstrap"}
  BY DEF TypeInv
<1>1. CASE overruns' = overruns
  BY <1>0, <1>1
<1>2. ASSUME NEW o \in Orgs, PostBootstrap(h, o)
      PROVE  /\ overruns \subseteq overruns'
             /\ overruns' \subseteq Orgs \X {"overlap", "uncounted", "bootstrap"}
  <2>1. overruns' = overruns \/ overruns' = overruns \cup {<<o, "bootstrap">>}
    BY <1>2 DEF PostBootstrap
  <2> QED  BY <1>0, <2>1
<1>3. CASE CountAgents(h)
  <2>1. org[h] \in Orgs
    BY <1>3, HasSlug DEF CountAgents
  <2> QED  BY <1>0, <1>3, <2>1 DEF CountAgents
<1>4. CASE ~CountAgents(h) /\ \A o \in Orgs : ~PostBootstrap(h, o)
  <2>1. overruns' = overruns
    BY <1>4 DEF HandlerAct, Work, PostAgent, DeleteAgent, ResolveSlug, GetConfigSnapshot,
       ApplyModelGovernance, ProvisionAgent, InsertAgentMetadata, InjectAgentContext,
       Compensate, RemoveAgent, DeleteRow, Commit, Publish, CallLost, Die, historyVars
  <2> QED  BY <1>1, <2>1
<1> QED  BY <1>2, <1>3, <1>4

LEMMA CounterTypes ==
    ASSUME TypeInv, NEW h \in Handlers, HandlerAct(h)
    PROVE  requests' \in 0 .. MaxRequests /\ faults' \in 0 .. MaxFaults
<1>1. /\ MaxRequests \in Nat /\ MaxFaults \in Nat
      /\ requests \in 0 .. MaxRequests /\ faults \in 0 .. MaxFaults
  BY ProvisioningAssumption DEF TypeInv
<1>2. requests' = requests \/ (requests < MaxRequests /\ requests' = requests + 1)
  BY DEF HandlerAct, Work, PostAgent, PostBootstrap, DeleteAgent, Request, ResolveSlug,
     CountAgents, GetConfigSnapshot, ApplyModelGovernance, ProvisionAgent,
     InsertAgentMetadata, InjectAgentContext, Compensate, RemoveAgent, DeleteRow, Commit,
     Publish, CallLost, Die, historyVars
<1>3. faults' = faults \/ Fault
  BY DEF HandlerAct, Work, PostAgent, PostBootstrap, DeleteAgent, Request, ResolveSlug,
     CountAgents, GetConfigSnapshot, ApplyModelGovernance, ProvisionAgent,
     InsertAgentMetadata, InjectAgentContext, Compensate, RemoveAgent, DeleteRow, Commit,
     Publish, CallLost, Die
<1> QED  BY <1>1, <1>2, <1>3 DEF Fault

\* Only two steps write the table, one writes the file, and one the copy of it.
LEMMA TableAndFile ==
    ASSUME TypeInv, NEW h \in Handlers, HandlerAct(h)
    PROVE  /\ \/ agents' = agents
              \/ InsertAgentMetadata(h) /\ agents[SlugOf(h)] = None
                    /\ agents' = [agents EXCEPT ![SlugOf(h)] = org[h]]
              \/ DeleteRow(h) /\ agents[SlugOf(h)] = org[h]
                    /\ agents' = [agents EXCEPT ![SlugOf(h)] = None]
           /\ \/ file' = file
              \/ Commit(h) /\ file' = write[h].next
           /\ \/ memory' = memory
              \/ Publish(h) /\ write[h] # None /\ memory' = write[h].next
<1>1. agents' = agents \/ InsertAgentMetadata(h) \/ DeleteRow(h)
  BY DEF HandlerAct, Work, PostAgent, PostBootstrap, DeleteAgent, Request, ResolveSlug,
     CountAgents, GetConfigSnapshot, ApplyModelGovernance, ProvisionAgent,
     InjectAgentContext, Compensate, RemoveAgent, Commit, Publish, CallLost, Die
<1>0. file' = file \/ Commit(h)
  BY DEF HandlerAct, Work, PostAgent, PostBootstrap, DeleteAgent, Request, ResolveSlug,
     CountAgents, GetConfigSnapshot, ApplyModelGovernance, ProvisionAgent,
     InjectAgentContext, Compensate, RemoveAgent, CallLost, Die, InsertAgentMetadata,
     DeleteRow, Publish
<1>5. memory' = memory \/ Publish(h)
  BY DEF HandlerAct, Work, PostAgent, PostBootstrap, DeleteAgent, Request, ResolveSlug,
     CountAgents, GetConfigSnapshot, ApplyModelGovernance, ProvisionAgent,
     InjectAgentContext, Compensate, RemoveAgent, CallLost, Die, InsertAgentMetadata,
     DeleteRow, Commit
<1>2. CASE InsertAgentMetadata(h)
  BY <1>2 DEF InsertAgentMetadata
<1>3. CASE DeleteRow(h)
  <2>1. file' = file /\ memory' = memory
    BY <1>3 DEF DeleteRow
  <2>2. \/ agents' = agents
        \/ agents' = [agents EXCEPT ![SlugOf(h)] = IF @ = org[h] THEN None ELSE @]
    BY <1>3 DEF DeleteRow
  <2>3. agents[SlugOf(h)] # org[h] =>
           [agents EXCEPT ![SlugOf(h)] = IF @ = org[h] THEN None ELSE @] = agents
    BY DEF TypeInv
  <2>4. agents[SlugOf(h)] = org[h] =>
           [agents EXCEPT ![SlugOf(h)] = IF @ = org[h] THEN None ELSE @]
               = [agents EXCEPT ![SlugOf(h)] = None]
    BY DEF TypeInv
  <2> QED  BY <1>3, <2>1, <2>2, <2>3, <2>4
<1>4. /\ Commit(h) => file' = write[h].next
      /\ Publish(h) => write[h] # None /\ memory' = write[h].next
  BY DEF Commit, Publish
<1> QED  BY <1>0, <1>1, <1>2, <1>3, <1>4, <1>5

\* A step is one of a handler, or touches at most the copy.
LEMMA NextIs ==
    ASSUME [Next]_vars
    PROVE  \/ UNCHANGED vars
           \/ memory' = file /\ UNCHANGED <<agents, file, write, requestVars, historyVars, faults>>
           \/ \E h \in Handlers : HandlerAct(h)
BY DEF Next, Rest, Reload, HandlerAct

LEMMA TypeStep == TypeInv /\ [Next]_vars => TypeInv'
<1> SUFFICES ASSUME TypeInv, [Next]_vars
             PROVE  TypeInv'
  OBVIOUS
<1>1. CASE UNCHANGED <<agents, file, write, requestVars, historyVars, faults>>
              /\ memory' \in {memory, file}
  BY <1>1 DEF requestVars, historyVars, TypeInv, HandlerForm
<1>2. ASSUME NEW h \in Handlers, HandlerAct(h)
      PROVE  TypeInv'
  <2>1. agents' \in [Slugs -> Orgs \cup {None}]
    <3>1. agents \in [Slugs -> Orgs \cup {None}] /\ org[h] \in Orgs \cup {None}
      BY DEF TypeInv
    <3> QED  BY <1>2, <3>1, TableAndFile
  <2>2. file' \in Configs /\ memory' \in Configs
    <3>1. Commit(h) \/ Publish(h) => write[h] \in Writes
      BY DEF Commit, Publish, TypeInv
    <3>2. file \in Configs /\ memory \in Configs /\ \A w \in Writes : w.next \in Configs
      BY DEF TypeInv, Writes
    <3> QED  BY <1>2, <3>1, <3>2, TableAndFile
  <2>3. /\ pc' \in [Handlers -> Labels] /\ kind' \in [Handlers -> Kinds]
        /\ org' \in [Handlers -> Orgs \cup {None}]
        /\ slug' \in [Handlers -> SUBSET Slugs] /\ held' \in [Handlers -> Configs]
    <3>1. PICK p \in Labels, k \in Kinds, o \in Orgs \cup {None}, sl \in SUBSET Slugs,
               c \in Configs : Becomes(h, p, k, o, sl, c)
      BY <1>2, ActSets DEF Sets
    <3> QED  BY <3>1 DEF Becomes, TypeInv, Kinds
  <2>4. ASSUME NEW g \in Handlers
        PROVE  HandlerForm(g)'
    <3>1. HandlerForm(h)'
      BY <1>2, FormWork, FormBegin DEF HandlerAct
    <3> QED  BY <1>2, <3>1, FormElsewhere
  <2>5. /\ write' \in [Handlers -> Writes \cup {None}]
        /\ mishaps' \subseteq Slugs \X MishapKinds
        /\ overruns' \subseteq Orgs \X {"overlap", "uncounted", "bootstrap"}
        /\ requests' \in 0 .. MaxRequests /\ faults' \in 0 .. MaxFaults
    BY <1>2, ActWrites, MishapTypes, OverrunTypes, CounterTypes
  <2> QED  BY <2>1, <2>2, <2>3, <2>4, <2>5 DEF TypeInv, Kinds, MishapKinds
<1> QED  BY <1>1, <1>2, NextIs DEF vars

LEMMA InitType == Init => TypeInv
<1> SUFFICES ASSUME Init
             PROVE  TypeInv
  OBVIOUS
<1>1. /\ agents \in [Slugs -> Orgs \cup {None}] /\ file \in Configs /\ memory \in Configs
      /\ write \in [Handlers -> Writes \cup {None}]
  BY EmptyConfig DEF Init
<1>2. /\ pc \in [Handlers -> Labels]
      /\ kind \in [Handlers -> {"create", "bootstrap", "repair", "delete"}]
      /\ org \in [Handlers -> Orgs \cup {None}]
      /\ slug \in [Handlers -> SUBSET Slugs]
      /\ held \in [Handlers -> Configs]
  BY EmptyConfig DEF Init, Labels
<1>3. /\ requests \in 0 .. MaxRequests /\ faults \in 0 .. MaxFaults
      /\ mishaps = {} /\ overruns = {}
  BY ProvisioningAssumption DEF Init
<1>4. \A h \in Handlers : HandlerForm(h)
  BY DEF Init, HandlerForm, KindFits, Awaiting
<1> QED  BY <1>1, <1>2, <1>3, <1>4 DEF TypeInv

LEMMA TypeInvImplies == TypeInv => TypeOK
<1> SUFFICES ASSUME TypeInv
             PROVE  TypeOK
  OBVIOUS
<1>1. ASSUME NEW h \in Handlers
      PROVE  Cardinality(slug[h]) = (IF pc[h] \in {"idle", "lookup"} THEN 0 ELSE 1)
  <2>1. HandlerForm(h)
    BY DEF TypeInv
  <2>2. CASE pc[h] \in {"idle", "lookup"}
    BY <2>1, <2>2, FS_EmptySet DEF HandlerForm
  <2>3. CASE pc[h] \notin {"idle", "lookup"}
    <3>1. PICK s \in Slugs : slug[h] = {s}
      BY <2>1, <2>3 DEF HandlerForm
    <3> QED  BY <2>3, <3>1, FS_Singleton
  <2> QED  BY <2>2, <2>3
<1>2. ASSUME NEW h \in Handlers
      PROVE  /\ (pc[h] = "idle") = (org[h] = None)
             /\ pc[h] \in Awaiting =>
                   write[h] # None /\ write[h].op = pc[h] /\ write[h].slug \in slug[h]
             /\ pc[h] \notin Awaiting \cup {"idle"} => write[h] = None
             /\ write[h] = None \/ write[h] \in Writes
  <2>1. HandlerForm(h) /\ write[h] \in Writes \cup {None}
    BY DEF TypeInv
  <2> QED  BY <2>1 DEF HandlerForm
<1> QED  BY <1>1, <1>2 DEF TypeInv, TypeOK

\* The types hold, and a request waits for the gateway only while the gateway
\* is at work for it, for any handlers and faults.
THEOREM TypeCorrect == Spec => []TypeOK
<1> QED  BY InitType, TypeStep, TypeInvImplies, PTL DEF Spec

-----------------------------------------------------------------------------
(* What a write changes, and whose it is.                                   *)

\* next differs from the file only in what op is for.
Upserts(op, s, next) ==
    /\ \A t \in Slugs : next.list[t] # file.list[t] => t = s /\ op # "governing"
    /\ next.primary # file.primary => op = "governing"

LEMMA MergedUpserts ==
    ASSUME TypeInv, NEW h \in Handlers, pc[h] \notin {"idle", "lookup"}
    PROVE  /\ Upserts("governing", SlugOf(h), [file EXCEPT !.primary = org[h]])
           /\ held[h] = file => Upserts("provisioning", SlugOf(h), WithAgent(h))
           /\ memory = file =>
                 \A op \in {"compensating", "removing"} :
                    Upserts(op, SlugOf(h), [memory EXCEPT !.list[SlugOf(h)] = None])
<1>1. /\ SlugOf(h) \in Slugs /\ slug[h] = {SlugOf(h)} /\ org[h] \in Orgs
      /\ file \in Configs
  BY HasSlug DEF TypeInv
<1>2. Upserts("governing", SlugOf(h), [file EXCEPT !.primary = org[h]])
  BY <1>1 DEF Upserts, Configs
<1>3. ASSUME held[h] = file
      PROVE  Upserts("provisioning", SlugOf(h), WithAgent(h))
  <2>1. WithAgent(h).primary = file.primary
    BY <1>1 DEF WithAgent, Configs
  <2>2. \A t \in Slugs \ {SlugOf(h)} : WithAgent(h).list[t] = file.list[t]
    BY <1>1, <1>3 DEF WithAgent, Configs
  <2> QED  BY <2>1, <2>2 DEF Upserts
<1>4. ASSUME memory = file, NEW op \in {"compensating", "removing"}
      PROVE  Upserts(op, SlugOf(h), [memory EXCEPT !.list[SlugOf(h)] = None])
  BY <1>1, <1>4 DEF Upserts, Configs
<1> QED  BY <1>2, <1>3, <1>4

\* What the gateway is newly asked to write, and by whom.
LEMMA NewWrite ==
    ASSUME TypeInv, NEW h \in Handlers, HandlerAct(h), ~Commit(h), ~Publish(h),
           write' # write
    PROVE  /\ Asks(h) /\ file' = file
           /\ write'[h].raced \/ Upserts(write'[h].op, write'[h].slug, write'[h].next)
<1>1. Asks(h)
  BY DEF HandlerAct, Work, Asks, PostAgent, PostBootstrap, DeleteAgent, Request, ResolveSlug,
     CountAgents, GetConfigSnapshot, InsertAgentMetadata, InjectAgentContext, DeleteRow,
     CallLost, Die
<1>2. pc[h] \notin {"idle", "lookup"}
  BY <1>1 DEF Asks, ApplyModelGovernance, ProvisionAgent, Compensate, RemoveAgent
<1>3. file' = file
  BY TableAndFile
<1> QED  BY <1>1, <1>2, <1>3, Asked, MergedUpserts

LEMMA PatchStep ==
    ASSUME TypeInv, \A h \in Handlers : PatchInv(h), [Next]_vars
    PROVE  \A h \in Handlers : PatchInv(h)'
<1>1. CASE UNCHANGED <<file, write>>
  BY <1>1 DEF PatchInv
<1>2. ASSUME NEW h \in Handlers, Commit(h), NEW g \in Handlers
      PROVE  PatchInv(g)'
  <2>1. CASE g = h
    BY <1>2, <2>1, CommitWrites DEF PatchInv
  <2>2. CASE g # h
    BY <1>2, <2>2, CommitWrites DEF PatchInv, SameWrite
  <2> QED  BY <2>1, <2>2
<1>3. ASSUME NEW h \in Handlers, Publish(h), NEW g \in Handlers
      PROVE  PatchInv(g)'
  <2>1. file' = file /\ write' = [write EXCEPT ![h] = None]
    BY <1>3 DEF Publish
  <2>2. write'[g] \in {None, write[g]}
    BY <2>1 DEF TypeInv
  <2> QED  BY <2>1, <2>2 DEF PatchInv
<1>4. ASSUME NEW h \in Handlers, HandlerAct(h), ~Commit(h), ~Publish(h), write' # write,
             NEW g \in Handlers
      PROVE  PatchInv(g)'
  <2>1. file' = file /\ Asks(h)
    BY <1>4, NewWrite
  <2>2. CASE g = h
    <3>1. write'[h].raced \/ Upserts(write'[h].op, write'[h].slug, write'[h].next)
      BY <1>4, NewWrite
    <3> QED  BY <2>1, <2>2, <3>1 DEF PatchInv, Upserts
  <2>3. CASE g # h
    <3>1. write'[g] = write[g]
      BY <1>4, <2>1, <2>3, Asked
    <3> QED  BY <2>1, <3>1 DEF PatchInv
  <2> QED  BY <2>2, <2>3
<1>5. ASSUME NEW h \in Handlers, HandlerAct(h), ~Commit(h)
      PROVE  file' = file
  BY <1>5, TableAndFile
<1> QED  BY <1>1, <1>2, <1>3, <1>4, <1>5, NextIs DEF vars

\* A write that no other came in between of changes the entry it was asked for
\* and nothing else, or the governance and nothing else.
THEOREM PatchesAreUpserts == Spec => PatchesUpsert
<1> DEFINE Written(h) == /\ write[h] # None /\ ~write[h].written /\ ~write[h].raced
                         /\ write'[h] # None /\ write'[h].written
<1>1. Init => \A h \in Handlers : PatchInv(h)
  BY DEF Init, PatchInv
<1>2. ASSUME TypeInv, \A h \in Handlers : PatchInv(h), [Next]_vars,
             NEW h \in Handlers, Written(h)
      PROVE  /\ \A s \in Slugs : file'.list[s] # file.list[s] =>
                   s = write[h].slug /\ write[h].op # "governing"
             /\ file'.primary # file.primary => write[h].op = "governing"
  <2>1. write' # write
    BY <1>2
  <2>2. PICK g \in Handlers : HandlerAct(g)
    BY <1>2, <2>1, NextIs DEF vars
  <2>3. g = h
    BY <1>2, <2>2, ActElsewhere DEF Elsewhere, SameWrite
  <2>4. Commit(h)
    <3>1. ~Publish(h)
      BY <1>2 DEF Publish, TypeInv
    <3>2. CASE ~Commit(h)
      <4>1. Asks(h)
        BY <1>2, <2>1, <2>2, <2>3, <3>1, <3>2, NewWrite
      <4> QED  BY <1>2, <2>1, <4>1, Asked
    <3> QED  BY <3>2
  <2> QED  BY <1>2, <2>4, CommitWrites DEF PatchInv
<1>3. TypeInv /\ (\A h \in Handlers : PatchInv(h)) /\ [Next]_vars =>
         [\A h \in Handlers :
             Written(h) =>
                 /\ \A s \in Slugs : file'.list[s] # file.list[s] =>
                       s = write[h].slug /\ write[h].op # "governing"
                 /\ file'.primary # file.primary => write[h].op = "governing"]_vars
  BY <1>2
<1>4. (\A h \in Handlers : PatchInv(h)) /\ TypeInv /\ [Next]_vars =>
         (\A h \in Handlers : PatchInv(h))'
  BY PatchStep
<1> QED  BY <1>1, <1>3, <1>4, InitType, TypeStep, PTL DEF Spec, PatchesUpsert

LEMMA OwnerStep ==
    ASSUME TypeInv, \A h \in Handlers : OwnerInv(h), [Next]_vars
    PROVE  \A h \in Handlers : OwnerInv(h)'
<1>1. CASE UNCHANGED <<write, requestVars, historyVars>>
  BY <1>1 DEF requestVars, historyVars, OwnerInv, Clean
<1>2. ASSUME NEW h \in Handlers, HandlerAct(h), NEW g \in Handlers
      PROVE  OwnerInv(g)'
  <2>0. \A s : Clean(s)' => Clean(s)
    BY <1>2, MishapTypes DEF Clean
  <2>1. CASE g # h
    <3>1. slug'[g] = slug[g] /\ SameWrite(g)
      BY <1>2, <2>1, ActElsewhere DEF Elsewhere
    <3>2. write'[g] # None => write[g] # None /\ write'[g].slug = write[g].slug
      BY <3>1 DEF SameWrite
    <3> QED  BY <2>0, <3>1, <3>2 DEF OwnerInv
  <2>2. CASE g = h /\ Commit(h)
    <3>1. slug'[h] = slug[h] /\ write[h] # None
      BY <2>2 DEF Commit, requestVars
    <3>2. write'[h].slug = write[h].slug
      BY <2>2, CommitWrites
    <3> QED  BY <2>0, <2>2, <3>1, <3>2 DEF OwnerInv
  <2>5. CASE g = h /\ Publish(h)
    <3>1. write'[h] = None
      BY <2>5 DEF Publish, TypeInv
    <3> QED  BY <2>5, <3>1 DEF OwnerInv
  <2>3. CASE g = h /\ ~Commit(h) /\ ~Publish(h) /\ write' # write
    <3>1. Asks(h)
      BY <1>2, <2>3, NewWrite
    <3>2. write'[h].slug = SlugOf(h) /\ slug'[h] = slug[h]
      BY <2>3, <3>1, Asked DEF GoTo
    <3>3. SlugOf(h) \in slug[h]
      BY <3>1, HasSlug
      DEF Asks, ApplyModelGovernance, ProvisionAgent, Compensate, RemoveAgent
    <3> QED  BY <2>3, <3>2, <3>3 DEF OwnerInv
  <2>4. CASE g = h /\ ~Commit(h) /\ ~Publish(h) /\ write' = write
    <3> SUFFICES ASSUME write[h] # None
                 PROVE  OwnerInv(h)'
      BY <2>4 DEF OwnerInv
    <3>1. HandlerForm(h)
      BY DEF TypeInv
    <3>2. pc[h] \in Awaiting \cup {"idle"}
      BY <3>1 DEF HandlerForm
    <3>3. CallLost(h)
      BY <1>2, <2>4, <3>2 DEF HandlerAct, Work, PostAgent, PostBootstrap, DeleteAgent, Request,
         ResolveSlug, CountAgents, GetConfigSnapshot, ApplyModelGovernance, ProvisionAgent,
         InsertAgentMetadata, InjectAgentContext, Compensate, RemoveAgent, DeleteRow, Die,
         Awaiting
    <3>4. pc[h] \in Awaiting /\ <<SlugOf(h), "lost">> \in mishaps'
      BY <3>3 DEF CallLost, Mishap
    <3>5. write[h].slug = SlugOf(h)
      BY <3>1, <3>4, HasSlug DEF HandlerForm, Awaiting
    <3> QED  BY <2>4, <3>4, <3>5 DEF OwnerInv, Clean
  <2> QED  BY <2>1, <2>2, <2>3, <2>4, <2>5
<1> QED  BY <1>1, <1>2, NextIs DEF vars

-----------------------------------------------------------------------------
(* One slug.                                                                *)

\* Another handler's part in s stays as it is, as long as nothing befalls s
\* and its row and its entry stay.
LEMMA StageElsewhere ==
    ASSUME TypeInv, NEW h \in Handlers, HandlerAct(h), NEW g \in Handlers \ {h},
           NEW s \in Slugs, s \in slug[g], Stage(g, s),
           agents'[s] = agents[s], file'.list[s] = file.list[s]
    PROVE  Stage(g, s)'
<1>1. /\ pc'[g] = pc[g] /\ kind'[g] = kind[g] /\ org'[g] = org[g] /\ held'[g] = held[g]
      /\ SameWrite(g)
  BY ActElsewhere DEF Elsewhere
<1>2. pc[g] \in Awaiting =>
         /\ write'[g].written = write[g].written
         /\ ~write[g].written => write'[g].next = write[g].next
  <2>1. HandlerForm(g)
    BY DEF TypeInv
  <2> QED  BY <1>1, <2>1 DEF SameWrite, HandlerForm
<1>3. Absent(g)' <=> Absent(g)
  BY <1>1, <1>2 DEF Absent, New, Awaiting
<1> QED  BY <1>1, <1>2, <1>3 DEF Stage, New

\* A step of a request that is not about s.
LEMMA SlugElsewhere ==
    ASSUME TypeInv, NEW h \in Handlers, HandlerAct(h), OwnerInv(h),
           NEW s \in Slugs, SlugInv(s), s \notin slug[h], s \notin slug'[h]
    PROVE  SlugInv(s)'
<1> SUFFICES ASSUME Clean(s)'
             PROVE  /\ \A f, g \in Handlers : s \in slug'[f] /\ s \in slug'[g] => f = g
                    /\ (\A g \in Handlers : s \notin slug'[g]) =>
                          file'.list[s] = agents'[s]
                    /\ \A g \in Handlers : s \in slug'[g] => Stage(g, s)'
  BY DEF SlugInv
<1>1. Clean(s)
  BY MishapTypes DEF Clean
<1>2. \A g \in Handlers \ {h} : slug'[g] = slug[g]
  BY ActElsewhere DEF Elsewhere
<1>3. agents'[s] = agents[s]
  <2>1. InsertAgentMetadata(h) \/ DeleteRow(h) => SlugOf(h) \in slug[h]
    BY HasSlug DEF InsertAgentMetadata, DeleteRow
  <2> QED  BY <2>1, TableAndFile DEF TypeInv
<1>4. file'.list[s] = file.list[s]
  <2>1. CASE file' = file
    BY <2>1
  <2>2. CASE Commit(h)
    <3>1. write[h] # None
      BY <2>2 DEF Commit
    <3>2. write[h].slug # s
      BY <1>1, <3>1 DEF OwnerInv
    <3>3. file'.list[s] # file.list[s] => <<s, "overwritten">> \in mishaps'
      BY <2>2, <3>2 DEF Commit
    <3> QED  BY <3>3 DEF Clean
  <2> QED  BY <2>1, <2>2, TableAndFile
<1>5. ASSUME NEW g \in Handlers, s \in slug'[g]
      PROVE  s \in slug[g] /\ Stage(g, s)'
  <2>1. g # h /\ s \in slug[g]
    BY <1>2, <1>5
  <2>2. Stage(g, s)
    BY <1>1, <2>1 DEF SlugInv
  <2> QED  BY <1>3, <1>4, <2>1, <2>2, StageElsewhere
<1>6. (\A g \in Handlers : s \notin slug'[g]) => \A g \in Handlers : s \notin slug[g]
  BY <1>2
<1> QED  BY <1>1, <1>3, <1>4, <1>5, <1>6 DEF SlugInv

\* How the request h about s goes on while nothing befalls s.
Advances(h, s) ==
    \/ slug'[h] = slug[h] /\ Stage(h, s)'
    \/ slug'[h] = {} /\ file'.list[s] = agents'[s]

\* Its steps that write neither the table nor the file.
LEMMA StagePrepare ==
    ASSUME TypeInv, NEW h \in Handlers,
           CountAgents(h) \/ GetConfigSnapshot(h) \/ ApplyModelGovernance(h)
               \/ ProvisionAgent(h),
           NEW s \in Slugs, slug[h] = {s}, Stage(h, s)
    PROVE  Advances(h, s)
<1>0. /\ SlugOf(h) = s /\ org[h] \in Orgs /\ org[h] # None
      /\ KindFits(pc[h], kind[h]) /\ kind[h] \in Kinds
  <2>1. HandlerForm(h)
    BY DEF TypeInv
  <2>2. pc[h] \notin {"idle", "lookup"}
    BY <2>1 DEF HandlerForm
  <2> QED  BY <2>1, <2>2, SlugOfIs, HasSlug, ProvisioningAssumption
           DEF HandlerForm, TypeInv, Kinds
<1>1. agents' = agents /\ file' = file
  BY DEF CountAgents, GetConfigSnapshot, ApplyModelGovernance, ProvisionAgent
<1>p. pc[h] \in {"count", "snapshot", "govern", "resnapshot", "provision"}
  BY DEF CountAgents, GetConfigSnapshot, ApplyModelGovernance, ProvisionAgent
<1>2. file.list[s] = agents[s]
  BY <1>0, <1>p DEF Stage, Absent, New, Unborn, KindFits, Kinds
<1>3. End(h) => Advances(h, s)
  <2>1. End(h) => slug'[h] = {}
    BY DEF End, TypeInv
  <2> QED  BY <1>1, <1>2, <2>1 DEF Advances
<1>4. \A label : GoTo(h, label) =>
         /\ pc'[h] = label /\ kind'[h] = kind[h] /\ org'[h] = org[h] /\ slug'[h] = slug[h]
         /\ held'[h] = held[h]
  BY DEF GoTo, TypeInv
<1>5. CASE CountAgents(h)
  <2>1. pc[h] = "count" /\ (End(h) \/ GoTo(h, "snapshot"))
    BY <1>5 DEF CountAgents
  <2>2. CASE GoTo(h, "snapshot")
    BY <1>0, <1>1, <1>4, <2>1, <2>2
    DEF Advances, Stage, Absent, New, Unborn, KindFits, Awaiting
  <2> QED  BY <1>3, <2>1, <2>2
<1>6. CASE GetConfigSnapshot(h)
  <2>1. pc[h] \in {"snapshot", "resnapshot"}
    BY <1>6 DEF GetConfigSnapshot
  <2>2. CASE ~End(h)
    <3>1. /\ pc'[h] = IF pc[h] = "resnapshot" \/ kind[h] = "repair" THEN "provision"
                      ELSE "govern"
          /\ kind'[h] = kind[h] /\ org'[h] = org[h] /\ slug'[h] = slug[h]
          /\ held'[h] = file
      BY <1>6, <2>2 DEF GetConfigSnapshot, TypeInv
    <3>2. Stage(h, s)'
      BY <1>0, <1>1, <2>1, <3>1 DEF Stage, Absent, New, Unborn, KindFits, Awaiting, Kinds
    <3> QED  BY <3>1, <3>2 DEF Advances
  <2> QED  BY <1>3, <2>2
<1>7. CASE ApplyModelGovernance(h)
  <2>1. pc[h] = "govern" /\ New(h) /\ AfterGovernance(h) \in {"resnapshot", "provision"}
    BY <1>0, <1>7 DEF ApplyModelGovernance, AfterGovernance, KindFits, New
  <2>2. \/ End(h)
        \/ GoTo(h, AfterGovernance(h))
        \/ /\ GoTo(h, "governing")
           /\ Writing(h, "governing", [file EXCEPT !.primary = org[h]], FALSE)
    BY <1>7, PatchOutcome DEF ApplyModelGovernance
  <2>3. CASE GoTo(h, AfterGovernance(h))
    <3>1. Stage(h, s)'
      BY <1>0, <1>1, <1>4, <2>1, <2>3 DEF Stage, Absent, New, Unborn, Awaiting
    <3> QED  BY <1>4, <2>3, <3>1 DEF Advances
  <2>4. CASE /\ GoTo(h, "governing")
             /\ Writing(h, "governing", [file EXCEPT !.primary = org[h]], FALSE)
    <3>1. write'[h].next = [file EXCEPT !.primary = org[h]]
      BY <2>1, <2>4, AsksTypes, MergedConfigs DEF Awaiting
    <3>2. write'[h].next.list[s] = file.list[s]
      BY <3>1 DEF TypeInv, Configs
    <3>3. Stage(h, s)'
      BY <1>0, <1>1, <1>4, <2>1, <2>4, <3>2 DEF Stage, Absent, New, Unborn, Awaiting
    <3> QED  BY <1>4, <2>4, <3>3 DEF Advances
  <2> QED  BY <1>3, <2>2, <2>3, <2>4
<1>8. CASE ProvisionAgent(h)
  <2>1. pc[h] = "provision" /\ kind[h] # "delete"
    BY <1>0, <1>8 DEF ProvisionAgent, KindFits
  <2>2. \/ End(h)
        \/ GoTo(h, AfterProvision(h)) /\ WithAgent(h) = file
        \/ GoTo(h, "insert") /\ kind[h] # "repair" /\ held[h].list[s] = org[h]
        \/ GoTo(h, "provisioning") /\ Writing(h, "provisioning", WithAgent(h), FALSE)
    BY <1>0, <1>8, PatchOutcome DEF ProvisionAgent
  <2>3. WithAgent(h).list[s] = org[h]
    BY DEF WithAgent, TypeInv, Configs
  <2>4. CASE GoTo(h, AfterProvision(h)) /\ WithAgent(h) = file
    <3>1. ~New(h)
      BY <1>0, <2>1, <2>3, <2>4 DEF Stage, Absent, Unborn
    <3>2. kind[h] = "repair" /\ pc'[h] = "inject"
      BY <1>0, <1>4, <2>1, <2>4, <3>1 DEF New, Kinds, AfterProvision
    <3>3. Stage(h, s)'
      BY <1>1, <1>4, <2>1, <2>4, <3>1, <3>2 DEF Stage, Absent, New, Unborn, Awaiting
    <3> QED  BY <1>4, <2>4, <3>3 DEF Advances
  <2>5. ~(kind[h] # "repair" /\ held[h].list[s] = org[h])
    BY <1>0, <2>1 DEF Stage, New, Kinds
  <2>6. CASE GoTo(h, "provisioning") /\ Writing(h, "provisioning", WithAgent(h), FALSE)
    <3>1. write'[h].next = WithAgent(h) /\ ~write'[h].written
      BY <2>1, <2>6, AsksTypes, MergedConfigs DEF Awaiting
    <3>2. Stage(h, s)'
      BY <1>0, <1>1, <1>4, <2>1, <2>3, <2>6, <3>1 DEF Stage, Absent, New, Unborn, Awaiting
    <3> QED  BY <1>4, <2>6, <3>2 DEF Advances
  <2> QED  BY <1>3, <2>2, <2>4, <2>5, <2>6
<1> QED  BY <1>5, <1>6, <1>7, <1>8

\* Its other steps.
LEMMA StageFinish ==
    ASSUME TypeInv, NEW h \in Handlers,
           InsertAgentMetadata(h) \/ InjectAgentContext(h) \/ Compensate(h)
               \/ RemoveAgent(h) \/ DeleteRow(h) \/ Commit(h) \/ Publish(h)
               \/ CallLost(h) \/ Die(h),
           NEW s \in Slugs, slug[h] = {s}, Stage(h, s), Clean(s)'
    PROVE  Advances(h, s)
<1>0. /\ SlugOf(h) = s /\ org[h] \in Orgs /\ org[h] # None
      /\ KindFits(pc[h], kind[h]) /\ kind[h] \in Kinds
      /\ pc[h] \notin {"idle", "lookup"}
  <2>1. HandlerForm(h)
    BY DEF TypeInv
  <2>2. pc[h] \notin {"idle", "lookup"}
    BY <2>1 DEF HandlerForm
  <2> QED  BY <2>1, <2>2, SlugOfIs, HasSlug, ProvisioningAssumption
           DEF HandlerForm, TypeInv, Kinds
<1>1. /\ \A label : GoTo(h, label) =>
            /\ pc'[h] = label /\ kind'[h] = kind[h] /\ org'[h] = org[h]
            /\ slug'[h] = slug[h] /\ held'[h] = held[h]
      /\ End(h) => slug'[h] = {}
  BY DEF GoTo, End, TypeInv
<1>2. ASSUME NEW what, Mishap(s, what)
      PROVE  FALSE
  <2>1. <<s, what>> \in mishaps' /\ <<s, what>>[1] = s
    BY <1>2 DEF Mishap
  <2> QED  BY <2>1 DEF Clean
<1>3. HandlerAct(h)
  BY DEF HandlerAct, Work
<1>4. CASE InsertAgentMetadata(h)
  <2>1. /\ pc[h] = "insert" /\ New(h) /\ file' = file
        /\ agents[s] = None /\ file.list[s] = org[h]
    BY <1>0, <1>4 DEF InsertAgentMetadata, KindFits, New, Stage, Absent, Unborn
  <2>2. \/ agents' = [agents EXCEPT ![s] = org[h]]
              /\ IF kind[h] = "bootstrap" THEN GoTo(h, "inject") ELSE End(h)
        \/ agents' = agents /\ GoTo(h, "compensate")
    BY <1>0, <1>2, <1>4, <2>1 DEF InsertAgentMetadata
  <2>3. CASE agents' = [agents EXCEPT ![s] = org[h]]
                /\ IF kind[h] = "bootstrap" THEN GoTo(h, "inject") ELSE End(h)
    <3>1. agents'[s] = org[h] /\ file'.list[s] = org[h]
      BY <2>1, <2>3 DEF TypeInv
    <3>2. CASE End(h)
      BY <1>1, <3>1, <3>2 DEF Advances
    <3>3. CASE kind[h] = "bootstrap" /\ GoTo(h, "inject")
      <4>1. Stage(h, s)'
        BY <1>1, <3>1, <3>3 DEF Stage, Absent, New, Unborn, Awaiting
      <4> QED  BY <1>1, <3>3, <4>1 DEF Advances
    <3> QED  BY <2>3, <3>2, <3>3
  <2>4. CASE agents' = agents /\ GoTo(h, "compensate")
    <3>1. Stage(h, s)'
      BY <1>1, <2>1, <2>4 DEF Stage, Absent, New, Unborn, Awaiting
    <3> QED  BY <1>1, <2>4, <3>1 DEF Advances
  <2> QED  BY <2>2, <2>3, <2>4
<1>5. CASE InjectAgentContext(h)
  <2>1. pc[h] = "inject" /\ agents' = agents /\ file' = file
    BY <1>5 DEF InjectAgentContext
  <2>2. End(h)
    BY <1>0, <1>2, <1>5 DEF InjectAgentContext
  <2>3. agents[s] = org[h] /\ file.list[s] = org[h]
    BY <2>1 DEF Stage, Absent, Unborn
  <2> QED  BY <1>1, <2>1, <2>2, <2>3 DEF Advances
<1>6. CASE Compensate(h) \/ RemoveAgent(h)
  <2>1. /\ pc[h] \in {"compensate", "remove"} /\ agents' = agents /\ file' = file
        /\ pc[h] = "compensate" => New(h)
        /\ pc[h] = "remove" => kind[h] = "delete"
    BY <1>0, <1>6 DEF Compensate, RemoveAgent, KindFits, New
  <2>2. file.list[s] = org[h] /\ (pc[h] = "remove" => agents[s] = org[h])
    BY <2>1 DEF Stage, Absent, Unborn, New
  <2>3. ~(Stale(h) /\ memory.list[s] = None)
    <3>1. Stale(h) /\ memory.list[s] = None => Mishap(s, "stale")
      BY <1>0, <2>2 DEF Stale, Mishap
    <3> QED  BY <1>2, <3>1
  <2>4. \/ pc[h] = "remove" /\ End(h)
        \/ \E op \in {"compensating", "removing"} :
              /\ pc[h] = IF op = "removing" THEN "remove" ELSE "compensate"
              /\ GoTo(h, op)
              /\ Writing(h, op, [memory EXCEPT !.list[s] = None], memory # file)
    BY <1>0, <1>2, <1>6, <2>3 DEF Compensate, RemoveAgent, Remove
  <2>5. CASE pc[h] = "remove" /\ End(h)
    BY <1>1, <2>1, <2>2, <2>5 DEF Advances
  <2>6. ASSUME NEW op \in {"compensating", "removing"},
               pc[h] = IF op = "removing" THEN "remove" ELSE "compensate",
               GoTo(h, op), Writing(h, op, [memory EXCEPT !.list[s] = None], memory # file)
        PROVE  Advances(h, s)
    <3>1. write'[h].next = [memory EXCEPT !.list[s] = None] /\ ~write'[h].written
      <4>1. [memory EXCEPT !.list[s] = None] \in Configs
        BY <1>0, MergedConfigs
      <4>2. op \in Awaiting
        BY DEF Awaiting
      <4>3. \A next \in Configs :
               Writing(h, op, next, memory # file) => write'[h].next = next /\ ~write'[h].written
        BY <1>0, <4>2, AsksTypes
      <4> QED  BY <2>6, <4>1, <4>3
    <3>2. write'[h].next.list[s] = None
      BY <3>1 DEF TypeInv, Configs
    <3>3. Stage(h, s)'
      BY <1>0, <1>1, <2>1, <2>2, <2>6, <3>1, <3>2 DEF Stage, Absent, New, Unborn, Awaiting
    <3> QED  BY <1>1, <2>6, <3>3 DEF Advances
  <2> QED  BY <2>4, <2>5, <2>6
<1>7. CASE DeleteRow(h)
  <2>1. /\ pc[h] = "deleteRow" /\ kind[h] = "delete" /\ file' = file
        /\ agents[s] = org[h] /\ file.list[s] = None
    BY <1>0, <1>7 DEF DeleteRow, KindFits, Stage, Absent, New
  <2>2. /\ agents' = [agents EXCEPT ![s] = IF @ = org[h] THEN None ELSE @]
        /\ End(h)
    BY <1>0, <1>2, <1>7 DEF DeleteRow
  <2>3. agents'[s] = None
    BY <2>1, <2>2 DEF TypeInv
  <2> QED  BY <1>1, <2>1, <2>2, <2>3 DEF Advances
<1>w. Commit(h) \/ Publish(h) =>
         /\ pc[h] \in Awaiting /\ agents' = agents
         /\ New(h) <=> pc[h] # "removing" /\ kind[h] # "repair"
         /\ pc[h] \in {"governing", "compensating"} => New(h)
  <2>1. HandlerForm(h)
    BY DEF TypeInv
  <2>2. Commit(h) \/ Publish(h) => write[h] # None /\ agents' = agents
    BY DEF Commit, Publish
  <2>3. write[h] # None => pc[h] \in Awaiting
    BY <1>0, <2>1 DEF HandlerForm
  <2>4. pc[h] \in Awaiting =>
           /\ New(h) <=> pc[h] # "removing" /\ kind[h] # "repair"
           /\ pc[h] \in {"governing", "compensating"} => New(h)
    BY <1>0 DEF KindFits, New, Kinds, Awaiting
  <2> QED  BY <2>2, <2>3, <2>4
<1>8. CASE Commit(h)
  <2>1. ~write[h].written /\ write'[h].written /\ file' = write[h].next
    BY <1>8, CommitWrites
  <2>2. file'.list[s] = IF pc[h] = "provisioning" THEN org[h] ELSE None
    BY <1>8, <1>w, <2>1 DEF Stage
  <2>3. /\ pc'[h] = pc[h] /\ kind'[h] = kind[h] /\ org'[h] = org[h] /\ slug'[h] = slug[h]
        /\ held'[h] = held[h]
    BY <1>8 DEF Commit, requestVars
  <2>4. Absent(h)' <=> pc[h] # "provisioning"
    BY <1>8, <1>w, <2>1, <2>3 DEF Absent, New, Unborn, Awaiting
  <2> QED  BY <1>8, <1>w, <2>1, <2>2, <2>3, <2>4 DEF Advances, Stage, New
<1>10. CASE Publish(h)
  <2>1. file' = file /\ write[h].written
    BY <1>10 DEF Publish
  <2>2. file.list[s] = IF pc[h] = "provisioning" THEN org[h] ELSE None
    <3>1. Absent(h) <=> pc[h] # "provisioning"
      BY <1>10, <1>w, <2>1 DEF Absent, Unborn, Awaiting
    <3> QED  BY <3>1 DEF Stage
  <2>3. IF After(h) = "idle" THEN End(h) ELSE GoTo(h, After(h))
    BY <1>10, <1>w DEF Publish
  <2>4. CASE pc[h] = "governing"
    <3>1. New(h) /\ After(h) \in {"resnapshot", "provision"}
      BY <1>10, <1>w, <2>4 DEF After, AfterGovernance
    <3>2. Stage(h, s)'
      BY <1>0, <1>1, <1>10, <1>w, <2>1, <2>2, <2>3, <2>4, <3>1
      DEF Stage, Absent, New, Unborn, Awaiting
    <3> QED  BY <1>1, <2>3, <3>1, <3>2 DEF Advances
  <2>5. CASE pc[h] = "provisioning"
    <3>1. After(h) = IF kind[h] = "repair" THEN "inject" ELSE "insert"
      BY <2>5 DEF After, AfterProvision
    <3>2. Stage(h, s)'
      BY <1>0, <1>1, <1>10, <1>w, <2>1, <2>2, <2>3, <2>5, <3>1
      DEF Stage, Absent, New, Unborn, Awaiting
    <3> QED  BY <1>1, <2>3, <3>1, <3>2 DEF Advances
  <2>6. CASE pc[h] = "compensating"
    <3>1. End(h) /\ New(h)
      BY <1>10, <1>w, <2>3, <2>6 DEF After
    <3>2. agents[s] = None
      BY <2>6, <3>1 DEF Stage
    <3> QED  BY <1>1, <1>10, <1>w, <2>1, <2>2, <2>6, <3>1, <3>2 DEF Advances
  <2>7. CASE pc[h] = "removing"
    <3>1. GoTo(h, "deleteRow") /\ ~New(h)
      BY <1>10, <1>w, <2>3, <2>7 DEF After
    <3>2. Stage(h, s)'
      BY <1>1, <1>10, <1>w, <2>1, <2>2, <2>7, <3>1 DEF Stage, Absent, New, Unborn, Awaiting
    <3> QED  BY <1>1, <3>1, <3>2 DEF Advances
  <2> QED  BY <1>10, <1>w, <2>4, <2>5, <2>6, <2>7 DEF Awaiting
<1>9. ~(CallLost(h) \/ Die(h))
  BY <1>0, <1>2 DEF CallLost, Die
<1> QED  BY <1>4, <1>5, <1>6, <1>7, <1>8, <1>9, <1>10

\* A step of the request that is about s.
LEMMA SlugOwn ==
    ASSUME TypeInv, NEW h \in Handlers, HandlerAct(h), NEW s \in Slugs, SlugInv(s),
           s \in slug[h]
    PROVE  SlugInv(s)'
<1> SUFFICES ASSUME Clean(s)'
             PROVE  SlugInv(s)'
  BY DEF SlugInv
<1>1. Clean(s)
  BY MishapTypes DEF Clean
<1>2. slug[h] = {s} /\ pc[h] \notin {"idle", "lookup"}
  <2>1. HandlerForm(h)
    BY DEF TypeInv
  <2> QED  BY <2>1 DEF HandlerForm
<1>3. Stage(h, s) /\ \A g \in Handlers \ {h} : s \notin slug[g]
  BY <1>1 DEF SlugInv
<1>4. Advances(h, s)
  <2>1. Work(h) /\ ~ResolveSlug(h)
    BY <1>2 DEF HandlerAct, PostAgent, PostBootstrap, DeleteAgent, Request, ResolveSlug
  <2> QED  BY <1>2, <1>3, <2>1, StagePrepare, StageFinish DEF Work
<1>5. \A g \in Handlers \ {h} : s \notin slug'[g]
  BY <1>3, ActElsewhere DEF Elsewhere
<1> QED  BY <1>2, <1>4, <1>5 DEF SlugInv, Advances

\* A request takes up s.
LEMMA SlugTaken ==
    ASSUME TypeInv, NEW h \in Handlers, HandlerAct(h), NEW s \in Slugs, SlugInv(s),
           s \notin slug[h], s \in slug'[h]
    PROVE  SlugInv(s)'
<1> SUFFICES ASSUME Clean(s)'
             PROVE  SlugInv(s)'
  BY DEF SlugInv
<1>1. Clean(s)
  BY MishapTypes DEF Clean
<1>2. ASSUME NEW new, TakeUp(h, s, new)
      PROVE  /\ \A g \in Handlers : s \notin slug[g]
             /\ file.list[s] = agents[s]
             /\ new => agents[s] = None
  <2>1. ~Busy(h, s) /\ (new => agents[s] = None)
    <3>1. /\ Busy(h, s) => <<s, "overlap">> \in mishaps'
          /\ new /\ agents[s] # None => <<s, "taken">> \in mishaps'
      BY <1>2 DEF TakeUp
    <3>2. <<s, "overlap">>[1] = s /\ <<s, "taken">>[1] = s
      OBVIOUS
    <3> QED  BY <3>1, <3>2 DEF Clean
  <2>2. \A g \in Handlers : s \notin slug[g]
    BY <2>1 DEF Busy
  <2> QED  BY <1>1, <2>1, <2>2 DEF SlugInv
<1>3. ASSUME NEW new, TakeUp(h, s, new), slug'[h] = {s},
             agents' = agents, file' = file,
             \/ new = TRUE /\ New(h)' /\ pc'[h] \in {"count", "snapshot"}
             \/ /\ \/ kind'[h] = "repair" /\ pc'[h] = "snapshot"
                   \/ kind'[h] = "delete" /\ pc'[h] = "remove"
                /\ agents[s] = org'[h]
      PROVE  SlugInv(s)'
  <2>1. /\ \A g \in Handlers : s \notin slug[g]
        /\ file.list[s] = agents[s]
        /\ new => agents[s] = None
    BY <1>2, <1>3
  <2>2. Stage(h, s)'
    BY <1>3, <2>1 DEF Stage, Absent, New, Unborn, Awaiting
  <2>3. \A g \in Handlers \ {h} : s \notin slug'[g]
    BY <2>1, ActElsewhere DEF Elsewhere
  <2> QED  BY <1>3, <2>2, <2>3 DEF SlugInv
<1>4. ASSUME NEW o \in Orgs, PostAgent(h, o) \/ PostBootstrap(h, o) \/ DeleteAgent(h, o)
      PROVE  SlugInv(s)'
  <2>0. ASSUME NEW k, NEW sl, NEW label, Request(h, k, o, sl, label)
        PROVE  /\ pc'[h] = label /\ kind'[h] = k /\ org'[h] = o /\ slug'[h] = sl
               /\ agents' = agents /\ file' = file
    BY <2>0 DEF Request, TypeInv
  <2>1. CASE PostAgent(h, o)
    <3>1. slug'[h] = {}
      BY <2>0, <2>1 DEF PostAgent
    <3> QED  BY <3>1
  <2>2. CASE Request(h, "bootstrap", o, {BootstrapSlug[o]}, "snapshot")
               /\ TakeUp(h, BootstrapSlug[o], TRUE)
    <3>1. /\ pc'[h] = "snapshot" /\ kind'[h] = "bootstrap" /\ slug'[h] = {BootstrapSlug[o]}
          /\ agents' = agents /\ file' = file
      BY <2>0, <2>2
    <3>2. s = BootstrapSlug[o]
      BY <3>1
    <3>3. New(h)'
      BY <3>1 DEF New
    <3> QED  BY <1>3, <2>2, <3>1, <3>2, <3>3
  <2>3. ASSUME NEW t \in RowsOf(o), Request(h, "repair", o, {t}, "snapshot"),
               TakeUp(h, t, FALSE)
        PROVE  SlugInv(s)'
    <3>1. /\ pc'[h] = "snapshot" /\ kind'[h] = "repair" /\ org'[h] = o /\ slug'[h] = {t}
          /\ agents' = agents /\ file' = file
      BY <2>0, <2>3
    <3>2. s = t /\ agents[t] = o
      BY <2>3, <3>1 DEF RowsOf
    <3> QED  BY <1>3, <2>3, <3>1, <3>2
  <2>4. ASSUME NEW t \in RowsOf(o), Request(h, "delete", o, {t}, "remove"),
               TakeUp(h, t, FALSE)
        PROVE  SlugInv(s)'
    <3>1. /\ pc'[h] = "remove" /\ kind'[h] = "delete" /\ org'[h] = o /\ slug'[h] = {t}
          /\ agents' = agents /\ file' = file
      BY <2>0, <2>4
    <3>2. s = t /\ agents[t] = o
      BY <2>4, <3>1 DEF RowsOf
    <3> QED  BY <1>3, <2>4, <3>1, <3>2
  <2> QED  BY <1>4, <2>1, <2>2, <2>3, <2>4 DEF PostBootstrap, DeleteAgent
<1>5. CASE ResolveSlug(h)
  <2>1. PICK t \in Slugs : slug' = [slug EXCEPT ![h] = {t}] /\ TakeUp(h, t, TRUE)
    BY <1>5 DEF ResolveSlug
  <2>2. slug'[h] = {t}
    BY <2>1 DEF TypeInv
  <2>3. /\ pc'[h] = "count" /\ kind'[h] = kind[h] /\ pc[h] = "lookup"
        /\ agents' = agents /\ file' = file
    BY <1>5 DEF ResolveSlug, TypeInv
  <2>4. New(h)'
    <3>1. HandlerForm(h)
      BY DEF TypeInv
    <3> QED  BY <2>3, <3>1 DEF HandlerForm, KindFits, New
  <2> QED  BY <1>3, <2>1, <2>2, <2>3, <2>4
<1>6. CASE Work(h) /\ ~ResolveSlug(h)
  <2>1. slug'[h] \in {slug[h], {}}
    <3>1. CASE GetConfigSnapshot(h)
      BY <3>1 DEF GetConfigSnapshot, End, TypeInv
    <3>2. CASE ~GetConfigSnapshot(h)
      <4>1. End(h) \/ UNCHANGED requestVars \/ \E p : GoTo(h, p)
        BY <1>6, <3>2, PatchOutcome DEF Work, CountAgents, ApplyModelGovernance, ProvisionAgent,
           InsertAgentMetadata, InjectAgentContext, Compensate, RemoveAgent, Remove,
           DeleteRow, Commit, Publish, CallLost, Die
      <4> QED  BY <4>1 DEF End, GoTo, requestVars, TypeInv
    <3> QED  BY <3>1, <3>2
  <2> QED  BY <2>1
<1> QED  BY <1>4, <1>5, <1>6 DEF HandlerAct

LEMMA SlugStep ==
    ASSUME TypeInv, \A h \in Handlers : OwnerInv(h), [Next]_vars,
           NEW s \in Slugs, SlugInv(s)
    PROVE  SlugInv(s)'
<1>1. CASE UNCHANGED <<agents, file, write, requestVars, historyVars>>
  BY <1>1 DEF requestVars, historyVars, SlugInv, Clean, Stage, Absent, New
<1>2. ASSUME NEW h \in Handlers, HandlerAct(h)
      PROVE  SlugInv(s)'
  BY <1>2, SlugElsewhere, SlugOwn, SlugTaken
<1> QED  BY <1>1, <1>2, NextIs DEF vars

-----------------------------------------------------------------------------
(* One organisation.                                                        *)

\* A step adds one row to those of o, for a request that adds an agent, or
\* takes one away.
LEMMA RowsChange ==
    ASSUME TypeInv, NEW h \in Handlers, HandlerAct(h), NEW o \in Orgs
    PROVE  \/ RowsOf(o)' = RowsOf(o)
           \/ /\ InsertAgentMetadata(h) /\ org[h] = o
              /\ RowsOf(o)' = RowsOf(o) \cup {SlugOf(h)}
           \/ RowsOf(o)' = RowsOf(o) \ {SlugOf(h)}
<1>1. agents \in [Slugs -> Orgs \cup {None}] /\ None \notin Orgs
  BY ProvisioningAssumption DEF TypeInv
<1>2. CASE agents' = agents
  BY <1>2 DEF RowsOf
<1>3. CASE InsertAgentMetadata(h) /\ agents[SlugOf(h)] = None
              /\ agents' = [agents EXCEPT ![SlugOf(h)] = org[h]]
  <2>1. SlugOf(h) \in Slugs
    BY <1>3, HasSlug DEF InsertAgentMetadata
  <2>2. CASE org[h] = o
    <3>1. RowsOf(o)' = RowsOf(o) \cup {SlugOf(h)}
      BY <1>1, <1>3, <2>1, <2>2 DEF RowsOf
    <3> QED  BY <1>3, <2>2, <3>1
  <2>3. CASE org[h] # o
    <3>1. RowsOf(o)' = RowsOf(o)
      BY <1>1, <1>3, <2>1, <2>3 DEF RowsOf
    <3> QED  BY <3>1
  <2> QED  BY <2>2, <2>3
<1>4. CASE DeleteRow(h) /\ agents[SlugOf(h)] = org[h]
              /\ agents' = [agents EXCEPT ![SlugOf(h)] = None]
  <2>1. SlugOf(h) \in Slugs
    BY <1>4, HasSlug DEF DeleteRow
  <2>2. CASE org[h] = o
    <3>1. RowsOf(o)' = RowsOf(o) \ {SlugOf(h)}
      BY <1>1, <1>4, <2>1, <2>2 DEF RowsOf
    <3> QED  BY <3>1
  <2>3. CASE org[h] # o
    <3>1. RowsOf(o)' = RowsOf(o)
      BY <1>1, <1>4, <2>1, <2>3 DEF RowsOf
    <3> QED  BY <3>1
  <2> QED  BY <2>2, <2>3
<1> QED  BY <1>2, <1>3, <1>4, TableAndFile

\* Nobody else is let in where nobody is adding.
LEMMA AdmittedIsAdding ==
    ASSUME NEW h \in Handlers, NEW g \in Handlers \ {h}, NEW o \in Orgs, Admitted(g, o)
    PROVE  Adding(h, o)
BY DEF Admitted, Adding, New

\* Where nothing meets the limit of o, a request is let in only when no other
\* is and there is a place, and one that has added its agent adds no second.
LEMMA Admission ==
    ASSUME TypeInv, NEW h \in Handlers, HandlerAct(h), NEW o \in Orgs,
           \A x \in overruns' : x[1] # o, Admitted(h, o)'
    PROVE  \/ Admitted(h, o) /\ (pc[h] \in Added => pc'[h] \in Added)
           \/ /\ \A g \in Handlers \ {h} : ~Admitted(g, o)
              /\ Cardinality(RowsOf(o)) < Limit
<1>0. /\ <<o, "overlap">>[1] = o /\ <<o, "uncounted">>[1] = o /\ <<o, "bootstrap">>[1] = o
  OBVIOUS
<1>1. ASSUME NEW q \in Orgs, PostAgent(h, q) \/ PostBootstrap(h, q) \/ DeleteAgent(h, q)
      PROVE  /\ \A g \in Handlers \ {h} : ~Admitted(g, o)
             /\ Cardinality(RowsOf(o)) < Limit
  <2>0. ASSUME NEW k, NEW sl, NEW label, Request(h, k, q, sl, label)
        PROVE  pc'[h] = label /\ kind'[h] = k /\ org'[h] = q
    BY <2>0 DEF Request, TypeInv
  <2>1. ~PostAgent(h, q)
    BY <2>0 DEF PostAgent, Admitted
  <2>2. ~DeleteAgent(h, q)
    <3>1. ASSUME NEW s, Request(h, "delete", q, {s}, "remove")
          PROVE  FALSE
      BY <2>0, <3>1 DEF Admitted, New
    <3> QED  BY <3>1 DEF DeleteAgent
  <2>3. ASSUME NEW s, Request(h, "repair", q, {s}, "snapshot")
        PROVE  FALSE
    BY <2>0, <2>3 DEF Admitted, New
  <2>4. /\ Request(h, "bootstrap", q, {BootstrapSlug[q]}, "snapshot")
        /\ overruns' = IF RowsOf(q) # {} \/ Adding(h, q)
                       THEN overruns \cup {<<q, "bootstrap">>} ELSE overruns
    BY <1>1, <2>1, <2>2, <2>3 DEF PostBootstrap
  <2>5. q = o
    BY <2>0, <2>4 DEF Admitted
  <2>6. RowsOf(o) = {} /\ ~Adding(h, o)
    BY <1>0, <2>4, <2>5
  <2>7. Cardinality(RowsOf(o)) = 0
    BY <2>6, FS_EmptySet
  <2> QED  BY <2>6, <2>7, AdmittedIsAdding, ProvisioningAssumption
<1>2. CASE CountAgents(h)
  <2>1. ~End(h)
    BY DEF End, Admitted, TypeInv
  <2>2. org'[h] = org[h]
    BY <1>2, <2>1 DEF CountAgents, GoTo
  <2>3. org[h] = o
    BY <2>2 DEF Admitted
  <2>4. Cardinality(RowsOf(o)) < Limit /\ ~Adding(h, o)
    BY <1>0, <1>2, <2>1, <2>3 DEF CountAgents
  <2> QED  BY <2>4, AdmittedIsAdding
<1>3. CASE Work(h) /\ ~CountAgents(h)
  <2>1. ~End(h)
    BY DEF End, Admitted, TypeInv
  <2>2. ~ResolveSlug(h)
    BY DEF ResolveSlug, Admitted, TypeInv
  <2>3. CASE UNCHANGED requestVars
    BY <2>3 DEF requestVars, Admitted, New
  <2>4. CASE ~UNCHANGED requestVars
    <3>1. pc[h] \notin {"idle", "lookup", "count"}
      <4>1. CASE Commit(h) \/ Publish(h)
        BY <2>4, <4>1 DEF Commit, Publish, Awaiting
      <4>2. CASE ~Commit(h) /\ ~Publish(h)
        BY <1>3, <2>2, <4>2 DEF Work, GetConfigSnapshot, ApplyModelGovernance,
           ProvisionAgent, InsertAgentMetadata, InjectAgentContext, Compensate,
           RemoveAgent, DeleteRow, CallLost, Die, Awaiting
      <4> QED  BY <4>1, <4>2
    <3>2. org'[h] = org[h] /\ kind'[h] = kind[h]
      <4>1. CASE GetConfigSnapshot(h)
        BY <2>1, <4>1 DEF GetConfigSnapshot
      <4>2. CASE ~GetConfigSnapshot(h)
        <5>1. \E p : GoTo(h, p)
          BY <1>3, <2>1, <2>2, <2>4, <4>2, PatchOutcome DEF Work, ApplyModelGovernance,
             ProvisionAgent, InsertAgentMetadata, InjectAgentContext, Compensate,
             RemoveAgent, Remove, DeleteRow, Commit, Publish, CallLost, Die
        <5> QED  BY <5>1 DEF GoTo
      <4> QED  BY <4>1, <4>2
    <3>3. pc[h] \in Added => pc'[h] \in Added
      <4>1. CASE pc[h] = "inject"
        <5>1. InjectAgentContext(h)
          BY <1>3, <2>1, <2>2, <2>4, <4>1 DEF Work, GetConfigSnapshot, ApplyModelGovernance,
             ProvisionAgent, InsertAgentMetadata, Compensate, RemoveAgent, DeleteRow,
             Commit, Publish, CallLost, Die, Awaiting
        <5>2. pc'[h] = "compensate"
          BY <2>1, <5>1 DEF InjectAgentContext, GoTo, TypeInv
        <5> QED  BY <5>2 DEF Added
      <4>2. CASE pc[h] = "compensate"
        <5>1. Compensate(h)
          BY <1>3, <2>1, <2>2, <2>4, <4>2 DEF Work, GetConfigSnapshot, ApplyModelGovernance,
             ProvisionAgent, InsertAgentMetadata, InjectAgentContext, RemoveAgent, DeleteRow,
             Commit, Publish, CallLost, Die, Awaiting
        <5>2. pc'[h] = "compensating"
          BY <2>1, <5>1 DEF Compensate, Remove, GoTo, TypeInv
        <5> QED  BY <5>2 DEF Added
      <4>3. CASE pc[h] = "compensating"
        <5>1. Publish(h)
          BY <1>3, <2>1, <2>2, <2>4, <4>3 DEF Work, Commit, GetConfigSnapshot, ApplyModelGovernance,
             ProvisionAgent, InsertAgentMetadata, InjectAgentContext, Compensate,
             RemoveAgent, DeleteRow, CallLost, Die, Awaiting
        <5>2. After(h) = "idle"
          BY <4>3 DEF After
        <5> QED  BY <2>1, <2>4, <5>1, <5>2 DEF Publish
      <4> QED  BY <4>1, <4>2, <4>3 DEF Added
    <3>4. Admitted(h, o)
      BY <3>1, <3>2 DEF Admitted, New
    <3> QED  BY <3>3, <3>4
  <2> QED  BY <2>3, <2>4
<1> QED  BY <1>1, <1>2, <1>3 DEF HandlerAct

LEMMA LimitStep ==
    ASSUME TypeInv, [Next]_vars, NEW o \in Orgs, LimitInv(o)
    PROVE  LimitInv(o)'
<1>1. CASE UNCHANGED <<agents, requestVars, historyVars>>
  BY <1>1 DEF requestVars, historyVars, LimitInv, RowsOf, Admitted, New
<1>2. ASSUME NEW h \in Handlers, HandlerAct(h)
      PROVE  LimitInv(o)'
  <2> DEFINE n == Cardinality(RowsOf(o))
  <2>1. IsFiniteSet(RowsOf(o)) /\ n \in Nat /\ Limit \in Nat
    BY FS_CardinalityType, ProvisioningAssumption DEF LimitInv
  <2>2. \/ RowsOf(o)' = RowsOf(o)
        \/ /\ InsertAgentMetadata(h) /\ org[h] = o
           /\ RowsOf(o)' = RowsOf(o) \cup {SlugOf(h)}
        \/ RowsOf(o)' = RowsOf(o) \ {SlugOf(h)}
    BY <1>2, RowsChange
  <2>3. \A x : IsFiniteSet(RowsOf(o) \cup {x}) /\ Cardinality(RowsOf(o) \cup {x}) \in {n, n + 1}
    BY <2>1, FS_AddElement
  <2>4. \A x : /\ IsFiniteSet(RowsOf(o) \ {x})
               /\ Cardinality(RowsOf(o) \ {x}) \in Nat
               /\ Cardinality(RowsOf(o) \ {x}) \in {n, n - 1}
    BY <2>1, FS_RemoveElement, FS_CardinalityType
  <2>5. IsFiniteSet(RowsOf(o)')
    BY <2>1, <2>2, <2>3, <2>4
  <2>6. ASSUME \A x \in overruns' : x[1] # o
        PROVE  /\ Cardinality(RowsOf(o)') <= Limit
               /\ \A f, g \in Handlers : Admitted(f, o)' /\ Admitted(g, o)' => f = g
               /\ \A g \in Handlers : Admitted(g, o)' /\ pc'[g] \notin Added =>
                     Cardinality(RowsOf(o)') < Limit
    <3>1. /\ n <= Limit
          /\ \A f, g \in Handlers : Admitted(f, o) /\ Admitted(g, o) => f = g
          /\ \A g \in Handlers : Admitted(g, o) /\ pc[g] \notin Added => n < Limit
      <4>1. \A x \in overruns : x[1] # o
        BY <1>2, <2>6, OverrunTypes
      <4> QED  BY <4>1 DEF LimitInv
    <3>2. \A g \in Handlers \ {h} : pc'[g] = pc[g] /\ (Admitted(g, o)' <=> Admitted(g, o))
      BY <1>2, ActElsewhere DEF Elsewhere, Admitted, New
    <3>3. Admitted(h, o)' =>
             \/ Admitted(h, o) /\ (pc[h] \in Added => pc'[h] \in Added)
             \/ (\A g \in Handlers \ {h} : ~Admitted(g, o)) /\ n < Limit
      BY <1>2, <2>6, Admission
    <3>4. \A f, g \in Handlers : Admitted(f, o)' /\ Admitted(g, o)' => f = g
      <4>1. Admitted(h, o)' => \A g \in Handlers \ {h} : ~Admitted(g, o)
        BY <3>1, <3>3
      <4> QED  BY <3>1, <3>2, <4>1
    <3>5. \A g \in Handlers : Admitted(g, o)' /\ pc'[g] \notin Added => n < Limit
      BY <3>1, <3>2, <3>3
    <3>6. CASE InsertAgentMetadata(h) /\ org[h] = o
                  /\ RowsOf(o)' = RowsOf(o) \cup {SlugOf(h)}
      <4>1. Admitted(h, o) /\ pc[h] \notin Added
        <5>1. HandlerForm(h)
          BY DEF TypeInv
        <5> QED  BY <3>6, <5>1 DEF InsertAgentMetadata, HandlerForm, KindFits, Admitted, New,
                    Added
      <4>2. n < Limit /\ Cardinality(RowsOf(o)') <= Limit
        <5>1. Cardinality(RowsOf(o)') \in {n, n + 1}
          BY <2>3, <3>6
        <5> QED  BY <2>1, <3>1, <4>1, <5>1
      <4>3. \A g \in Handlers \ {h} : ~Admitted(g, o)'
        BY <3>1, <3>2, <4>1
      <4>4. pc'[h] \in Added \cup {"idle"}
        BY <3>6 DEF InsertAgentMetadata, GoTo, End, Added, TypeInv
      <4>5. \A g \in Handlers : Admitted(g, o)' => pc'[g] \in Added
        BY <4>3, <4>4 DEF Admitted
      <4> QED  BY <3>4, <4>2, <4>5
    <3>7. CASE RowsOf(o)' = RowsOf(o) \/ RowsOf(o)' = RowsOf(o) \ {SlugOf(h)}
      <4>1. Cardinality(RowsOf(o)') \in {n, n - 1} /\ Cardinality(RowsOf(o)') \in Nat
        BY <2>1, <2>4, <3>7
      <4>2. Cardinality(RowsOf(o)') <= n
        BY <2>1, <4>1
      <4>3. Cardinality(RowsOf(o)') <= Limit
        BY <2>1, <3>1, <4>1, <4>2
      <4>4. \A g \in Handlers : Admitted(g, o)' /\ pc'[g] \notin Added =>
               Cardinality(RowsOf(o)') < Limit
        BY <2>1, <3>5, <4>1, <4>2
      <4> QED  BY <3>4, <4>3, <4>4
    <3> QED  BY <2>2, <3>6, <3>7
  <2> QED  BY <2>5, <2>6 DEF LimitInv
<1> QED  BY <1>1, <1>2, NextIs DEF vars

-----------------------------------------------------------------------------
(* The invariant.                                                           *)

LEMMA InitIInv == Init => IInv
<1> SUFFICES ASSUME Init
             PROVE  IInv
  OBVIOUS
<1>1. \A h \in Handlers : PatchInv(h) /\ OwnerInv(h)
  BY DEF Init, PatchInv, OwnerInv
<1>2. \A s \in Slugs : SlugInv(s)
  <2>1. \A s \in Slugs : file.list[s] = None /\ agents[s] = None
    BY DEF Init, Empty
  <2>2. \A h \in Handlers : slug[h] = {}
    BY DEF Init
  <2> QED  BY <2>1, <2>2 DEF SlugInv
<1>3. ASSUME NEW o \in Orgs
      PROVE  LimitInv(o)
  <2>1. RowsOf(o) = {}
    BY ProvisioningAssumption DEF Init, RowsOf
  <2>2. IsFiniteSet(RowsOf(o)) /\ Cardinality(RowsOf(o)) = 0
    BY <2>1, FS_EmptySet
  <2>3. \A h \in Handlers : ~Admitted(h, o)
    BY DEF Init, Admitted
  <2> QED  BY <2>2, <2>3, ProvisioningAssumption DEF LimitInv
<1> QED  BY <1>1, <1>2, <1>3, InitType DEF IInv

LEMMA InvStep == IInv /\ [Next]_vars => IInv'
<1> SUFFICES ASSUME IInv, [Next]_vars
             PROVE  IInv'
  OBVIOUS
<1>1. TypeInv /\ TypeInv'
  BY TypeStep DEF IInv
<1>2. /\ \A h \in Handlers : PatchInv(h)
      /\ \A h \in Handlers : OwnerInv(h)
      /\ \A s \in Slugs : SlugInv(s)
      /\ \A o \in Orgs : LimitInv(o)
  BY DEF IInv
<1>3. \A h \in Handlers : PatchInv(h)'
  BY <1>1, <1>2, PatchStep
<1>4. \A h \in Handlers : OwnerInv(h)'
  BY <1>1, <1>2, OwnerStep
<1>5. \A s \in Slugs : SlugInv(s)'
  BY <1>1, <1>2, SlugStep
<1>6. \A o \in Orgs : LimitInv(o)'
  BY <1>1, <1>2, LimitStep
<1> QED  BY <1>1, <1>3, <1>4, <1>5, <1>6 DEF IInv

LEMMA Invariant == Spec => []IInv
<1> QED  BY InitIInv, InvStep, PTL DEF Spec

\* An agent that nobody is at work on has a row exactly when the gateway has
\* it, for the same organisation, unless something befell its slug.
THEOREM RowsAndGatewayAgree == Spec => []RowsMatchAgents
<1>1. IInv => RowsMatchAgents
  <2> SUFFICES ASSUME IInv, NEW s \in Slugs
               PROVE  \/ file.list[s] = agents[s]
                      \/ \E h \in Handlers : s \in slug[h]
                      \/ \E m \in mishaps : m[1] = s
    BY DEF RowsMatchAgents
  <2>1. SlugInv(s)
    BY DEF IInv
  <2> QED  BY <2>1 DEF SlugInv, Clean
<1> QED  BY <1>1, Invariant, PTL

\* No organisation has more agents than its plan allows, unless something met
\* its limit: requests side by side, a failed count, or a bootstrap.
THEOREM PlanLimitHolds == Spec => []LimitHolds
<1>1. IInv => LimitHolds
  <2> SUFFICES ASSUME IInv, NEW o \in Orgs, Cardinality(RowsOf(o)) > Limit
               PROVE  \E x \in overruns : x[1] = o
    BY DEF LimitHolds
  <2>1. LimitInv(o) /\ Limit \in Nat
    BY ProvisioningAssumption DEF IInv
  <2>2. Cardinality(RowsOf(o)) \in Nat
    BY <2>1, FS_CardinalityType DEF LimitInv
  <2> QED  BY <2>1, <2>2 DEF LimitInv
<1> QED  BY <1>1, Invariant, PTL

=============================================================================
