------------------------- MODULE AgentProvisioning -------------------------
(***************************************************************************)
(* Agents live in two places: a row of the table agents, and an entry of   *)
(* agents.list in the configuration file of the gateway.  The routes       *)
(* POST /api/agents, POST /api/openclaw/bootstrap and                      *)
(* DELETE /api/agents/[id] write the one after the other, without a        *)
(* transaction around both; organisations share a hosted gateway.          *)
(*                                                                         *)
(* A route reads the configuration, sends a patch with the hash it read,   *)
(* and the gateway checks the hash, merges and writes.  Nothing serialises *)
(* the gateway's handlers: each reads the file in one step, writes it in a *)
(* later one, and then brings the gateway's copy in memory up to date,     *)
(* which is what agents.delete starts from.  A call that fails may be      *)
(* carried out all the same, as in GatewayCalls.  A hash stands for what   *)
(* it is the hash of.                                                      *)
(*                                                                         *)
(* An entry is the organisation whose workspace it names, and a governance *)
(* the organisation whose policy it states.  Left out: models and          *)
(* identities of agents and the PATCH route that changes them, channel     *)
(* bindings, knowledge, assignments, the files in a workspace and the      *)
(* budget of control-plane writes (a refusal for it is a failed call).     *)
(***************************************************************************)
EXTENDS Naturals, FiniteSets

CONSTANTS
    Orgs,
    Slugs,          \* openclaw_agent_id: what names come to
    Handlers,       \* concurrent executions of the routes
    BootstrapSlug,  \* BootstrapSlug[o]: what the bootstrap of o's member calls its agent
    Limit,          \* getPlanAgentLimit
    None,           \* no organisation, no write
    MaxRequests,    \* bound: how many requests are made
    MaxFaults       \* bound: failed calls and statements, lost answers, deaths

ASSUME ProvisioningAssumption ==
    /\ None \notin Orgs
    /\ BootstrapSlug \in [Orgs -> Slugs]
    /\ Limit \in Nat \ {0}
    /\ {MaxRequests, MaxFaults} \subseteq Nat

Configs == [list : [Slugs -> Orgs \cup {None}], primary : Orgs \cup {None}]
Empty == [list |-> [s \in Slugs |-> None], primary |-> None]

\* Where a request waits for a write of the gateway, and what the gateway is
\* about to write for it, or has written and is about to publish.
Awaiting == {"governing", "provisioning", "compensating", "removing"}
Writes == [op : Awaiting, slug : Slugs, next : Configs,
           raced : BOOLEAN, written : BOOLEAN]

ASSUME NoWriteAssumption == None \notin Writes

VARIABLES
    agents,     \* agents[s]: organisation of the row with this slug
    file,       \* the gateway's configuration file
    memory,     \* the gateway's copy of it, getRuntimeConfig
    write,      \* write[h]: what the gateway writes for h
    pc,         \* pc[h]: where the request is
    kind,       \* kind[h]: create, bootstrap, repair or delete
    org,        \* org[h]: the organisation it is for
    slug,       \* slug[h]: the agent it is about, a set of at most one
    held,       \* held[h]: the snapshot of the configuration it holds
    requests,   \* history: how many requests were made
    faults,     \* history: how many faults happened
    mishaps,    \* history: pairs of a slug and what happened to it
    overruns    \* history: pairs of an organisation and what its limit met

requestVars == <<pc, kind, org, slug, held>>
historyVars == <<requests, mishaps, overruns>>
vars == <<agents, file, memory, write, requestVars, historyVars, faults>>

Init ==
    /\ agents = [s \in Slugs |-> None]
    /\ file = Empty
    /\ memory = Empty
    /\ write = [h \in Handlers |-> None]
    /\ pc = [h \in Handlers |-> "idle"]
    /\ kind = [h \in Handlers |-> "create"]
    /\ org = [h \in Handlers |-> None]
    /\ slug = [h \in Handlers |-> {}]
    /\ held = [h \in Handlers |-> Empty]
    /\ requests = 0
    /\ faults = 0
    /\ mishaps = {}
    /\ overruns = {}

-----------------------------------------------------------------------------

RowsOf(o) == {s \in Slugs : agents[s] = o}
Fault == faults < MaxFaults /\ faults' = faults + 1
Mishap(s, what) == mishaps' = mishaps \cup {<<s, what>>}

GoTo(h, label) ==
    /\ pc' = [pc EXCEPT ![h] = label]
    /\ UNCHANGED <<kind, org, slug, held>>

\* The request is answered, well or not.
End(h) ==
    /\ pc' = [pc EXCEPT ![h] = "idle"]
    /\ kind' = [kind EXCEPT ![h] = "create"]
    /\ org' = [org EXCEPT ![h] = None]
    /\ slug' = [slug EXCEPT ![h] = {}]
    /\ held' = [held EXCEPT ![h] = Empty]

\* Another request is at work on s, or the gateway still is.
Busy(h, s) ==
    \E g \in Handlers : \/ g # h /\ s \in slug[g]
                        \/ write[g] # None /\ write[g].slug = s

\* What is remembered when h takes up slug s: whether somebody else is at
\* work on it, and whether a new agent is given a slug that a row has.
TakeUp(h, s, new) ==
    mishaps' = mishaps \cup (IF Busy(h, s) THEN {<<s, "overlap">>} ELSE {})
                       \cup (IF new /\ agents[s] # None THEN {<<s, "taken">>} ELSE {})

\* Other requests that may still add an agent to o.
Adding(h, o) ==
    \E g \in Handlers \ {h} :
        org[g] = o /\ kind[g] \in {"create", "bootstrap"} /\ pc[g] # "lookup"

Request(h, k, o, s, label) ==
    /\ requests < MaxRequests
    /\ pc[h] = "idle"
    /\ write[h] = None
    /\ requests' = requests + 1
    /\ pc' = [pc EXCEPT ![h] = label]
    /\ kind' = [kind EXCEPT ![h] = k]
    /\ org' = [org EXCEPT ![h] = o]
    /\ slug' = [slug EXCEPT ![h] = s]
    /\ UNCHANGED <<held, agents, file, memory, write, faults>>

PostAgent(h, o) ==
    /\ Request(h, "create", o, {}, "lookup")
    /\ UNCHANGED <<mishaps, overruns>>

\* The bootstrap repairs the agent the member sees, and creates one when he
\* sees none: whatever the organisation has, and whatever its plan allows.
PostBootstrap(h, o) ==
    \/ /\ Request(h, "bootstrap", o, {BootstrapSlug[o]}, "snapshot")
       /\ TakeUp(h, BootstrapSlug[o], TRUE)
       /\ overruns' = IF RowsOf(o) # {} \/ Adding(h, o)
                      THEN overruns \cup {<<o, "bootstrap">>} ELSE overruns
    \/ \E s \in RowsOf(o) : /\ Request(h, "repair", o, {s}, "snapshot")
                            /\ TakeUp(h, s, FALSE)
                            /\ UNCHANGED overruns

DeleteAgent(h, o) ==
    \E s \in RowsOf(o) : /\ Request(h, "delete", o, {s}, "remove")
                         /\ TakeUp(h, s, FALSE)
                         /\ UNCHANGED overruns

\* resolveAvailableAgentSlug: the name's slug, or a random one when the
\* organisation has it.  A failed query finds nothing.
ResolveSlug(h) ==
    /\ pc[h] = "lookup"
    /\ \E s \in Slugs :
          /\ \/ agents[s] # org[h] /\ UNCHANGED faults
             \/ (\E base \in RowsOf(org[h]) : TRUE) /\ UNCHANGED faults
                /\ agents[s] = None /\ file.list[s] = None /\ ~Busy(h, s)
             \/ agents[s] = org[h] /\ Fault
          /\ slug' = [slug EXCEPT ![h] = {s}]
          /\ TakeUp(h, s, TRUE)
    /\ pc' = [pc EXCEPT ![h] = "count"]
    /\ UNCHANGED <<kind, org, held, agents, file, memory, write, requests, overruns>>

\* Mutant: the limit is compared with one agent too few.
CountAgentsOffByOne(h) ==
    /\ pc[h] = "count"
    /\ overruns' = IF Adding(h, org[h]) THEN overruns \cup {<<org[h], "overlap">>} ELSE overruns
    /\ IF Cardinality(RowsOf(org[h])) <= Limit THEN GoTo(h, "snapshot") ELSE End(h)
    /\ UNCHANGED <<agents, file, memory, write, requests, mishaps, faults>>

\* getAgentCount and canProvisionAnotherAgent; a failed count counts as none.
CountAgents(h) ==
    /\ pc[h] = "count"
    /\ \/ /\ overruns' = IF Adding(h, org[h])
                         THEN overruns \cup {<<org[h], "overlap">>} ELSE overruns
          /\ IF Cardinality(RowsOf(org[h])) < Limit THEN GoTo(h, "snapshot") ELSE End(h)
          /\ UNCHANGED faults
       \/ /\ Fault
          /\ overruns' = overruns \cup {<<org[h], "uncounted">>}
          /\ GoTo(h, "snapshot")
    /\ UNCHANGED <<agents, file, memory, write, requests, mishaps>>

-----------------------------------------------------------------------------

SlugOf(h) == CHOOSE s \in slug[h] : TRUE

\* config.get.  The bootstrap reads again before its second patch.
GetConfigSnapshot(h) ==
    /\ pc[h] \in {"snapshot", "resnapshot"}
    /\ \/ /\ held' = [held EXCEPT ![h] = file]
          /\ pc' = [pc EXCEPT ![h] =
                IF @ = "resnapshot" \/ kind[h] = "repair" THEN "provision" ELSE "govern"]
          /\ UNCHANGED <<kind, org, slug, faults>>
       \/ Fault /\ End(h)
    /\ UNCHANGED <<agents, file, memory, write, historyVars>>

AfterGovernance(h) == IF kind[h] = "bootstrap" THEN "resnapshot" ELSE "provision"
AfterProvision(h) == IF kind[h] = "repair" THEN "inject" ELSE "insert"

\* The gateway is about to write next, which it made of the file as it is,
\* unless it is raced from the start.
Writing(h, op, next, raced) ==
    write' = [write EXCEPT ![h] =
        [op |-> op, slug |-> SlugOf(h), next |-> next,
         raced |-> raced, written |-> FALSE]]

\* Mutant: config.patch does not compare the hash.
PatchUnfenced(h, op, merged, after) ==
    IF merged = file
    THEN GoTo(h, after) /\ UNCHANGED write
    ELSE GoTo(h, op) /\ Writing(h, op, merged, FALSE)

\* config.patch up to its write: a stale hash is refused, and the request
\* with it; a merge that changes nothing is answered without a write.
Patch(h, op, merged, after) ==
    IF held[h] # file
    THEN End(h) /\ UNCHANGED write
    ELSE IF merged = file
    THEN GoTo(h, after) /\ UNCHANGED write
    ELSE GoTo(h, op) /\ Writing(h, op, merged, FALSE)

\* applyModelGovernance.  The comparison with the snapshot expects a list of
\* models where the gateway keeps a record, so it is patched every time.
ApplyModelGovernance(h) ==
    /\ pc[h] = "govern"
    /\ \/ /\ Patch(h, "governing", [file EXCEPT !.primary = org[h]], AfterGovernance(h))
          /\ UNCHANGED faults
       \/ Fault /\ End(h) /\ UNCHANGED write
    /\ UNCHANGED <<agents, file, memory, historyVars>>

\* upsertAgentListEntry on the snapshot, merged into the file by id.
WithAgent(h) ==
    [file EXCEPT !.list = [s \in Slugs |->
        IF s \in slug[h] THEN org[h]
        ELSE IF held[h].list[s] # None THEN held[h].list[s]
        ELSE file.list[s]]]

\* provisionAgent, and ensureManagedAgentRuntimeConfig in a repair.  An entry
\* that the snapshot shows in place needs no patch, unless its model differs.
ProvisionAgent(h) ==
    /\ pc[h] = "provision"
    /\ \/ /\ Patch(h, "provisioning", WithAgent(h), AfterProvision(h))
          /\ UNCHANGED faults
       \/ /\ kind[h] # "repair"
          /\ held[h].list[SlugOf(h)] = org[h]
          /\ GoTo(h, "insert")
          /\ UNCHANGED <<write, faults>>
       \/ Fault /\ End(h) /\ UNCHANGED write
    /\ UNCHANGED <<agents, file, memory, historyVars>>

\* insertAgentMetadata.  A slug that any organisation has violates the unique
\* constraint; an answer that is lost looks like a failure.
InsertAgentMetadata(h) ==
    LET s == SlugOf(h)
    IN  /\ pc[h] = "insert"
        /\ \/ /\ agents[s] = None
              /\ agents' = [agents EXCEPT ![s] = org[h]]
              /\ IF kind[h] = "bootstrap" THEN GoTo(h, "inject") ELSE End(h)
              /\ UNCHANGED <<mishaps, faults>>
           \/ /\ agents[s] = None
              /\ agents' = [agents EXCEPT ![s] = org[h]]
              /\ Fault
              /\ Mishap(s, "lost")
              /\ GoTo(h, "compensate")
           \/ /\ IF agents[s] # None THEN UNCHANGED faults ELSE Fault
              /\ GoTo(h, "compensate")
              /\ UNCHANGED <<agents, mishaps>>
        /\ UNCHANGED <<file, memory, write, requests, overruns>>

\* injectAgentContext.  The bootstrap takes back the agent when it fails, and
\* leaves the row; a repair just fails.
InjectAgentContext(h) ==
    /\ pc[h] = "inject"
    /\ \/ End(h) /\ UNCHANGED <<mishaps, faults>>
       \/ /\ Fault
          /\ IF kind[h] = "bootstrap"
             THEN GoTo(h, "compensate") /\ Mishap(SlugOf(h), "rowLeft")
             ELSE End(h) /\ UNCHANGED mishaps
    /\ UNCHANGED <<agents, file, memory, write, requests, overruns>>

\* agents.delete up to its write, which is the gateway's copy without the
\* agent.  An agent that the copy does not have is refused, in the file or not.
Remove(h, op, after) ==
    IF memory.list[SlugOf(h)] = None
    THEN (IF after = "idle" THEN End(h) ELSE GoTo(h, after)) /\ UNCHANGED write
    ELSE /\ GoTo(h, op)
         /\ Writing(h, op, [memory EXCEPT !.list[SlugOf(h)] = None], memory # file)

\* What is remembered of it: that the copy misses an agent the file has.
Stale(h) ==
    mishaps' = IF memory.list[SlugOf(h)] = None /\ file.list[SlugOf(h)] # None
               THEN mishaps \cup {<<SlugOf(h), "stale">>} ELSE mishaps

\* Mutant: the catch blocks forget the gateway.
CompensateNot(h) ==
    /\ pc[h] = "compensate"
    /\ End(h)
    /\ UNCHANGED <<agents, file, memory, write, faults, historyVars>>

\* The catch blocks delete the agent by its slug, whoever it belongs to, and
\* swallow the failure to.
Compensate(h) ==
    /\ pc[h] = "compensate"
    /\ \/ Remove(h, "compensating", "idle") /\ Stale(h) /\ UNCHANGED faults
       \/ Fault /\ End(h) /\ Mishap(SlugOf(h), "swallowed") /\ UNCHANGED write
    /\ UNCHANGED <<agents, file, memory, requests, overruns>>

\* DELETE asks the gateway first, and goes on when it knows no such agent.
RemoveAgent(h) ==
    /\ pc[h] = "remove"
    /\ \/ Remove(h, "removing", "deleteRow") /\ Stale(h) /\ UNCHANGED faults
       \/ Fault /\ End(h) /\ UNCHANGED <<write, mishaps>>
    /\ UNCHANGED <<agents, file, memory, requests, overruns>>

DeleteRow(h) ==
    /\ pc[h] = "deleteRow"
    /\ \/ /\ agents' = [agents EXCEPT ![SlugOf(h)] = IF @ = org[h] THEN None ELSE @]
          /\ UNCHANGED <<mishaps, faults>>
       \/ /\ Fault
          /\ Mishap(SlugOf(h), "rowLeft")
          /\ UNCHANGED agents
    /\ End(h)
    /\ UNCHANGED <<file, memory, write, requests, overruns>>

-----------------------------------------------------------------------------

After(h) ==
    CASE pc[h] = "governing" -> AfterGovernance(h)
      [] pc[h] = "provisioning" -> AfterProvision(h)
      [] pc[h] = "removing" -> "deleteRow"
      [] OTHER -> "idle"

\* The gateway writes what it merged, over whatever the file has become.  It
\* reads the file back before it publishes it, so others that have written and
\* not yet published may find this write there.
Commit(h) ==
    /\ write[h] # None
    /\ ~write[h].written
    /\ file' = write[h].next
    /\ \E readBack \in SUBSET {g \in Handlers \ {h} : write[g] # None /\ write[g].written} :
          write' = [g \in Handlers |->
              IF g = h THEN [write[g] EXCEPT !.written = TRUE]
              ELSE IF write[g] = None THEN None
              ELSE [write[g] EXCEPT !.raced = TRUE,
                                    !.next = IF g \in readBack THEN write[h].next ELSE @]]
    /\ mishaps' = mishaps \cup
          {<<s, "overwritten">> : s \in {s \in Slugs \ {write[h].slug} :
                                            file'.list[s] # file.list[s]}}
    /\ UNCHANGED <<requestVars, agents, memory, faults, requests, overruns>>

\* Mutant: the gateway writes and does not answer.
PublishUnanswered(h) ==
    /\ write[h] # None
    /\ write[h].written
    /\ memory' = write[h].next
    /\ write' = [write EXCEPT ![h] = None]
    /\ UNCHANGED <<requestVars, agents, file, faults, historyVars>>

\* The gateway's copy becomes what was read back, whatever others have written
\* since, and the gateway answers if somebody waits.
Publish(h) ==
    /\ write[h] # None
    /\ write[h].written
    /\ memory' = write[h].next
    /\ write' = [write EXCEPT ![h] = None]
    /\ IF pc[h] \notin Awaiting
       THEN UNCHANGED requestVars
       ELSE IF After(h) = "idle" THEN End(h) ELSE GoTo(h, After(h))
    /\ UNCHANGED <<agents, file, faults, historyVars>>

\* The gateway's watcher finds the file changed and reads it.
Reload ==
    /\ memory # file
    /\ memory' = file
    /\ UNCHANGED <<agents, file, write, requestVars, historyVars, faults>>

\* A call to the gateway fails for the caller, or the caller dies, while the
\* gateway is at it: it goes on.
CallLost(h) ==
    /\ pc[h] \in Awaiting
    /\ Fault
    /\ Mishap(SlugOf(h), "lost")
    /\ End(h)
    /\ UNCHANGED <<agents, file, memory, write, requests, overruns>>

\* The server process dies between two calls.
Die(h) ==
    /\ pc[h] \notin Awaiting \cup {"idle", "lookup", "count"}
    /\ Fault
    /\ Mishap(SlugOf(h), "died")
    /\ End(h)
    /\ UNCHANGED <<agents, file, memory, write, requests, overruns>>

Work(h) ==
    \/ ResolveSlug(h) \/ CountAgents(h) \/ GetConfigSnapshot(h)
    \/ ApplyModelGovernance(h) \/ ProvisionAgent(h) \/ InsertAgentMetadata(h)
    \/ InjectAgentContext(h) \/ Compensate(h) \/ RemoveAgent(h) \/ DeleteRow(h)
    \/ Commit(h) \/ Publish(h) \/ CallLost(h) \/ Die(h)

\* Everything over.
Rest ==
    /\ requests = MaxRequests
    /\ \A h \in Handlers : pc[h] = "idle" /\ write[h] = None
    /\ UNCHANGED vars

Next ==
    \/ \E h \in Handlers : \/ Work(h)
                           \/ \E o \in Orgs : PostAgent(h, o) \/ PostBootstrap(h, o)
                                              \/ DeleteAgent(h, o)
    \/ Reload
    \/ Rest

Spec == Init /\ [][Next]_vars

-----------------------------------------------------------------------------

Labels == {"idle", "lookup", "count", "snapshot", "govern", "resnapshot", "provision",
           "insert", "inject", "compensate", "remove", "deleteRow"} \cup Awaiting

\* Types.  A request waits for the gateway only while the gateway is at work
\* for it, and has its slug once it has looked it up.
TypeOK ==
    /\ agents \in [Slugs -> Orgs \cup {None}]
    /\ file \in Configs
    /\ memory \in Configs
    /\ \A h \in Handlers : write[h] = None \/ write[h] \in Writes
    /\ pc \in [Handlers -> Labels]
    /\ kind \in [Handlers -> {"create", "bootstrap", "repair", "delete"}]
    /\ org \in [Handlers -> Orgs \cup {None}]
    /\ slug \in [Handlers -> SUBSET Slugs]
    /\ held \in [Handlers -> Configs]
    /\ requests \in 0 .. MaxRequests
    /\ faults \in 0 .. MaxFaults
    /\ mishaps \subseteq Slugs \X {"overlap", "taken", "lost", "swallowed", "rowLeft",
                                   "died", "overwritten", "stale"}
    /\ overruns \subseteq Orgs \X {"overlap", "uncounted", "bootstrap"}
    /\ \A h \in Handlers :
          /\ (pc[h] = "idle") = (org[h] = None)
          /\ Cardinality(slug[h]) = (IF pc[h] \in {"idle", "lookup"} THEN 0 ELSE 1)
          /\ pc[h] \in Awaiting =>
                write[h] # None /\ write[h].op = pc[h] /\ write[h].slug \in slug[h]
          /\ pc[h] \notin Awaiting \cup {"idle"} => write[h] = None

\* isolation-invariants.md: configuration patches upsert and never replace.
\* A write of the gateway changes the entry it was asked for and nothing else,
\* or the governance and nothing else, unless another write came between the
\* moment it took the configuration, from the file or from its copy, and the
\* moment it wrote.
PatchesUpsert ==
    [][\A h \in Handlers :
          /\ write[h] # None /\ ~write[h].written /\ ~write[h].raced
          /\ write'[h] # None /\ write'[h].written
          =>
              /\ \A s \in Slugs : file'.list[s] # file.list[s] =>
                    s = write[h].slug /\ write[h].op # "governing"
              /\ file'.primary # file.primary => write[h].op = "governing"]_vars

\* The rows and the gateway agree: an agent that nobody is at work on has a
\* row exactly when the gateway lists it, for the same organisation.  It takes
\* a named mishap to part them: two requests at work on one slug, a slug that
\* a row already had (a failed look-up, or another organisation's), an answer
\* that was lost or a process that died, a compensation that failed, a row
\* left behind on purpose or by a failed delete, an overwritten file, or an
\* agent that the gateway's copy did not have when it was to be deleted.
RowsMatchAgents ==
    \A s \in Slugs :
        \/ file.list[s] = agents[s]
        \/ \E h \in Handlers : s \in slug[h]
        \/ \E m \in mishaps : m[1] = s

\* No organisation has more agents than its plan allows, except by requests
\* that added agents side by side, a count that failed, or the bootstrap of a
\* member who sees none of the agents there are.
LimitHolds ==
    \A o \in Orgs : Cardinality(RowsOf(o)) > Limit => \E x \in overruns : x[1] = o

=============================================================================
