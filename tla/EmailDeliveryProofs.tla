------------------------ MODULE EmailDeliveryProofs ------------------------
(***************************************************************************)
(* Proofs about EmailDelivery, for any number of workers, tabs and faults. *)
(***************************************************************************)
EXTENDS EmailDelivery, FiniteSetTheorems, TLAPS

Steps == {"post", "sent", "failed"}

\* w is between its decision to post m and the record of what came of it.
Handles(w, m) == pc[w] \in Steps /\ Message(w) = m

\* No row, no copy: nothing is posted before it is reserved.
ReservedFirst ==
    /\ \A m \in Messages : event[m] = "none" => inbox[m] = 0
    /\ \A w \in Workers : pc[w] \in Steps => event[Message(w)] # "none"

\* What "sent" says, of a row or of a worker, is true.
SentIsDelivered ==
    /\ \A m \in Messages : event[m] = "sent" => inbox[m] > 0
    /\ \A w \in Workers : pc[w] = "sent" => inbox[Message(w)] > 0

\* Two workers that handle one message at a time leave it doubtful.
SideBySide ==
    \A v, w \in Workers : \A m \in Messages :
        v # w /\ Handles(v, m) /\ Handles(w, m) => m \in doubtful

\* A message that is delivered and not doubtful was delivered once, and its
\* row says so, or the one worker that handles it is about to write that.
Settled ==
    \A m \in Messages :
        inbox[m] > 0 /\ m \notin doubtful =>
            /\ inbox[m] = 1
            /\ \A w \in Workers : Handles(w, m) => pc[w] = "sent"
            /\ event[m] = "sent" \/ \E w \in Workers : Handles(w, m)

DeliveryInv == ReservedFirst /\ SentIsDelivered /\ SideBySide /\ Settled

-----------------------------------------------------------------------------
(* The messages of a batch.                                                 *)

LEMMA BatchType ==
    ASSUME NEW k \in Kinds
    PROVE  Batch[k] \in Seq(Messages)
<1>1. k \in {"session", "lifecycle", "weekly", "adminDigest", "usage", "agent"}
  BY EmailAssumption DEF Batch
<1>2. MessagesOf(k) \subseteq Messages
  BY DEF Messages
<1>3. \A s, a : s = <<a>> => DOMAIN s = {1} /\ s[1] = a
  OBVIOUS
<1>4. \A s, a, b : s = <<a, b>> => DOMAIN s = {1, 2} /\ s[1] = a /\ s[2] = b
  OBVIOUS
<1>5. \A S : \A a \in S : <<a>> \in Seq(S)
  OBVIOUS
<1>6. \A S : \A a, b \in S : <<a, b>> \in Seq(S)
  OBVIOUS
<1>7. CASE k \in {"lifecycle", "weekly"}
  <2>1. PICK a, b : Batch[k] = <<a, b>>
    BY <1>7 DEF Batch
  <2>2. a \in MessagesOf(k) /\ b \in MessagesOf(k)
    BY <2>1, <1>4 DEF MessagesOf
  <2> QED  BY <2>1, <2>2, <1>2, <1>6
<1>8. CASE k \notin {"lifecycle", "weekly"}
  <2>1. PICK a : Batch[k] = <<a>>
    BY <1>1, <1>8 DEF Batch
  <2>2. a \in MessagesOf(k)
    BY <2>1, <1>3 DEF MessagesOf
  <2> QED  BY <2>1, <2>2, <1>2
<1> QED  BY <1>7, <1>8

LEMMA DueType ==
    ASSUME NEW k \in Kinds
    PROVE  Due(k) \in Seq(Messages)
<1>1. Batch[k] \in Seq(Messages)
  BY BatchType
<1>2. CASE k = "lifecycle"
  <2>1. Batch[k] = <<"welcome-2", "welcome-3">>
    BY <1>2 DEF Batch
  <2>2. "welcome-2" \in Messages
    BY <1>1, <2>1
  <2> QED  BY <1>1, <1>2, <2>2 DEF Due
<1>3. CASE k = "weekly"
  <2>1. Batch[k] = <<"weekly-digest", "owner-use-cases">>
    BY <1>3 DEF Batch
  <2>2. "weekly-digest" \in Messages
    BY <1>1, <2>1
  <2> QED  BY <1>1, <1>3, <2>2 DEF Due
<1>4. CASE k \notin {"lifecycle", "weekly"}
  BY <1>1, <1>4 DEF Due
<1> QED  BY <1>2, <1>3, <1>4


-----------------------------------------------------------------------------
(* How a worker moves.                                                      *)

\* Whatever a batch goes on with, the worker is out of sendTemplatedEmail.
LEMMA GoOnMoves ==
    ASSUME NEW w \in Workers, NEW ms \in Seq(Messages), TypeOK, GoOn(w, ms)
    PROVE  /\ left' = [left EXCEPT ![w] = ms]
           /\ \E q \in {"idle", "select"} : pc' = [pc EXCEPT ![w] = q]
           /\ pc'[w] = "idle" <=> ms = <<>>
           /\ kind' = kind \/ (ms = <<>> /\ kind' = [kind EXCEPT ![w] = {}])
           /\ off' \in [Workers -> SUBSET Preferences]
           /\ blind' \subseteq Workers
           /\ ms # <<>> => kind' = kind
  BY DEF TypeOK, GoOn

\* The current message of a worker that has one.
LEMMA CurrentMessage ==
    ASSUME NEW w \in Workers, TypeOK, pc[w] # "idle"
    PROVE  Message(w) \in Messages /\ Tail(left[w]) \in Seq(Messages)
<1>1. left[w] \in Seq(Messages) /\ left[w] # <<>>
  BY DEF TypeOK
<1> QED  BY <1>1 DEF Message

-----------------------------------------------------------------------------
(* Types.                                                                   *)

\* The parts of TypeOK about the workers, and about everything else.
WorkersOK ==
    /\ pc \in [Workers -> {"idle", "preferences", "select", "insert", "post",
                           "sent", "failed"}]
    /\ kind \in [Workers -> SUBSET Kinds]
    /\ left \in [Workers -> Seq(Messages)]
    /\ \A w \in Workers :
          /\ pc[w] = "idle" <=> left[w] = <<>>
          /\ pc[w] = "idle" <=> kind[w] = {}
          /\ Cardinality(kind[w]) <= 1
    /\ off \in [Workers -> SUBSET Preferences]
    /\ blind \subseteq Workers

MailOK ==
    /\ event \in [Messages -> {"none", "queued", "sent", "failed"}]
    /\ inbox \in [Messages -> Nat]
    /\ doubtful \subseteq Messages
    /\ days \in 0..MaxDays
    /\ faults \in 0..MaxFaults

MemberOK ==
    /\ preferences \subseteq Preferences
    /\ page \in [Editors -> SUBSET SUBSET Preferences]
    /\ \A e \in Editors : Cardinality(page[e]) <= 1
    /\ toldOff \subseteq Preferences /\ clobbered \subseteq Preferences
    /\ crossed \subseteq Editors

LEMMA TypeParts == TypeOK <=> WorkersOK /\ MailOK /\ MemberOK
BY DEF TypeOK, WorkersOK, MailOK, MemberOK

LEMMA SmallSets ==
    /\ Cardinality({}) = 0
    /\ \A x : Cardinality({x}) = 1
BY FS_EmptySet, FS_Singleton

LEMMA EmptyBatch == <<>> \in Seq(Messages)
OBVIOUS

LEMMA InitType == Init => TypeOK
<1> SUFFICES ASSUME Init PROVE TypeOK
  OBVIOUS
<1>1. MailOK /\ MemberOK
  BY EmailAssumption, SmallSets DEF Init, MailOK, MemberOK, Preferences
<1>2. WorkersOK
  BY SmallSets DEF Init, WorkersOK
<1> QED  BY <1>1, <1>2, TypeParts

\* What a worker is set to has the types of a worker.
LEMMA WorkerSet ==
    ASSUME NEW w \in Workers, WorkersOK,
           NEW q \in {"idle", "preferences", "select", "insert", "post",
                      "sent", "failed"},
           NEW K \in SUBSET Kinds, Cardinality(K) <= 1,
           NEW ms \in Seq(Messages), NEW o \in SUBSET Preferences,
           q = "idle" <=> ms = <<>>, q = "idle" <=> K = {},
           pc' = [pc EXCEPT ![w] = q], kind' = [kind EXCEPT ![w] = K],
           left' = [left EXCEPT ![w] = ms], off' = [off EXCEPT ![w] = o],
           blind' \subseteq Workers
    PROVE  WorkersOK'
<1>1. /\ pc' \in [Workers -> {"idle", "preferences", "select", "insert", "post",
                              "sent", "failed"}]
      /\ kind' \in [Workers -> SUBSET Kinds]
  BY DEF WorkersOK
<1>2. left' \in [Workers -> Seq(Messages)] /\ off' \in [Workers -> SUBSET Preferences]
  BY DEF WorkersOK
<1>3. ASSUME NEW v \in Workers
      PROVE  /\ pc'[v] = "idle" <=> left'[v] = <<>>
             /\ pc'[v] = "idle" <=> kind'[v] = {}
             /\ Cardinality(kind'[v]) <= 1
  BY DEF WorkersOK
<1> QED  BY <1>1, <1>2, <1>3 DEF WorkersOK

\* A worker that stays in its message keeps its types.
LEMMA GoToType ==
    ASSUME NEW w \in Workers, TypeOK, pc[w] # "idle",
           NEW q \in {"select", "insert", "post", "sent", "failed"}, GoTo(w, q)
    PROVE  WorkersOK'
BY DEF TypeOK, WorkersOK, GoTo

LEMMA GoOnType ==
    ASSUME NEW w \in Workers, TypeOK, pc[w] # "idle",
           NEW ms \in Seq(Messages), GoOn(w, ms)
    PROVE  WorkersOK'
<1>0. WorkersOK
  BY TypeParts
<1>1. CASE ms = <<>>
  <2>1. /\ pc' = [pc EXCEPT ![w] = "idle"]
        /\ kind' = [kind EXCEPT ![w] = {}]
        /\ left' = [left EXCEPT ![w] = ms]
        /\ off' = [off EXCEPT ![w] = {}]
        /\ blind' = blind \ {w}
    BY <1>1 DEF GoOn
  <2>2. PICK K \in SUBSET Kinds : K = {} /\ Cardinality(K) <= 1
    BY SmallSets
  <2>3. PICK o \in SUBSET Preferences : o = {}
    OBVIOUS
  <2>4. blind' \subseteq Workers
    BY <2>1, <1>0 DEF WorkersOK
  <2> QED  BY <2>1, <2>2, <2>3, <2>4, <1>0, <1>1, WorkerSet
<1>2. CASE ms # <<>>
  <2>1. /\ pc' = [pc EXCEPT ![w] = "select"]
        /\ kind' = [kind EXCEPT ![w] = kind[w]]
        /\ left' = [left EXCEPT ![w] = ms]
        /\ off' = [off EXCEPT ![w] = off[w]]
        /\ blind' = blind
    BY <1>0, <1>2 DEF GoOn, WorkersOK
  <2>2. /\ kind[w] \in SUBSET Kinds /\ off[w] \in SUBSET Preferences
        /\ blind' \subseteq Workers /\ kind[w] # {} /\ Cardinality(kind[w]) <= 1
    BY <2>1, <1>0 DEF WorkersOK
  <2> QED  BY <2>1, <2>2, <1>0, <1>2, WorkerSet
<1> QED  BY <1>1, <1>2

LEMMA NextMessageType ==
    ASSUME NEW w \in Workers, TypeOK, pc[w] # "idle", NextMessage(w)
    PROVE  WorkersOK'
BY CurrentMessage, GoOnType DEF NextMessage

LEMMA StepType == TypeOK /\ [Next]_vars => TypeOK'
<1> SUFFICES ASSUME TypeOK, [Next]_vars PROVE TypeOK'
  OBVIOUS
<1>0. WorkersOK /\ MailOK /\ MemberOK
  BY TypeParts
<1>d. WorkersOK' /\ MailOK' /\ MemberOK' => TypeOK'
  BY DEF TypeOK, WorkersOK, MailOK, MemberOK
<1>a. UNCHANGED workerVars => WorkersOK'
  BY <1>0 DEF workerVars, WorkersOK
<1>b. UNCHANGED memberVars => MemberOK'
  BY <1>0 DEF memberVars, MemberOK
<1>c. Fault => faults' \in 0..MaxFaults
  BY <1>0, EmailAssumption DEF Fault, MailOK
<1>1. CASE GrowOlder
  BY <1>1, <1>0, <1>a, <1>b, <1>d, EmailAssumption DEF GrowOlder, mailVars, MailOK
<1>2. ASSUME NEW w \in Workers, NEW k \in Kinds, StartBatch(w, k)
      PROVE  TypeOK'
  <2>1. Due(k) \in Seq(Messages) /\ Due(k) # <<>>
    BY <1>2, DueType DEF StartBatch
  <2>2. WorkersOK'
    <3>1. PICK K \in SUBSET Kinds : K = {k} /\ Cardinality(K) <= 1
      <4>1. {k} \in SUBSET Kinds /\ Cardinality({k}) = 1
        BY SmallSets
      <4> QED  BY <4>1
    <3>2. PICK o \in SUBSET Preferences : o = toldOff \ clobbered
      BY <1>0 DEF MemberOK
    <3>3. PICK q \in {"select", "preferences"} : pc' = [pc EXCEPT ![w] = q]
      BY <1>2 DEF StartBatch
    <3>4. blind' \subseteq Workers
      BY <1>0, <1>2 DEF StartBatch, WorkersOK
    <3> QED  BY <1>0, <1>2, <2>1, <3>1, <3>2, <3>3, <3>4, WorkerSet DEF StartBatch
  <2> QED  BY <1>0, <1>d, <1>2, <2>2, <1>b DEF StartBatch, mailVars, MailOK
<1>3. ASSUME NEW w \in Workers, ReadPreferences(w)
      PROVE  TypeOK'
  <2>1. pc[w] = "preferences" /\ left[w] \in Seq(Messages)
    BY <1>0, <1>3 DEF ReadPreferences, WorkersOK
  <2>2. ASSUME \E k \in kind[w] :
                  GoOn(w, IF Needs(k) \subseteq preferences THEN left[w] ELSE <<>>)
        PROVE  WorkersOK'
    <3>1. \A ms \in Seq(Messages) : GoOn(w, ms) => WorkersOK'
      BY <2>1, GoOnType
    <3>2. PICK ms \in {left[w], <<>>} : GoOn(w, ms)
      BY <2>2
    <3>3. ms \in Seq(Messages)
      BY <2>1, EmptyBatch
    <3> QED  BY <3>1, <3>2, <3>3
  <2>3. ASSUME blind' = blind \cup {w},
               pc' = [pc EXCEPT ![w] = "select"],
               UNCHANGED <<kind, left, off>>
        PROVE  WorkersOK'
    <3>1. /\ kind' = [kind EXCEPT ![w] = kind[w]]
          /\ left' = [left EXCEPT ![w] = left[w]]
          /\ off' = [off EXCEPT ![w] = off[w]]
      BY <1>0, <2>3 DEF WorkersOK
    <3>2. /\ kind[w] \in SUBSET Kinds /\ off[w] \in SUBSET Preferences
          /\ blind' \subseteq Workers /\ Cardinality(kind[w]) <= 1
          /\ left[w] # <<>> /\ kind[w] # {}
      BY <1>0, <2>1, <2>3 DEF WorkersOK
    <3> QED  BY <1>0, <2>1, <2>3, <3>1, <3>2, WorkerSet
  <2>4. WorkersOK'
    BY <1>3, <2>2, <2>3 DEF ReadPreferences
  <2> QED  BY <1>0, <1>d, <1>3, <2>4, <1>b, <1>c DEF ReadPreferences, mailVars, MailOK
<1>4. ASSUME NEW w \in Workers, SelectEvent(w)
      PROVE  TypeOK'
  <2>1. pc[w] # "idle" /\ Message(w) \in Messages
    BY <1>4, CurrentMessage DEF SelectEvent
  <2>2. WorkersOK'
    BY <1>4, <2>1, GoToType, NextMessageType DEF SelectEvent
  <2> QED  BY <1>0, <1>d, <1>4, <2>1, <2>2, <1>b, <1>c DEF SelectEvent, MailOK
<1>5. ASSUME NEW w \in Workers, InsertEvent(w)
      PROVE  TypeOK'
  <2>1. pc[w] # "idle" /\ Message(w) \in Messages
    BY <1>5, CurrentMessage DEF InsertEvent
  <2>2. WorkersOK'
    BY <1>5, <2>1, GoToType, NextMessageType DEF InsertEvent
  <2> QED  BY <1>0, <1>d, <1>5, <2>1, <2>2, <1>b, <1>c DEF InsertEvent, MailOK
<1>6. ASSUME NEW w \in Workers, PostAccepted(w)
      PROVE  TypeOK'
  <2>1. pc[w] # "idle" /\ Message(w) \in Messages
    BY <1>6, CurrentMessage DEF PostAccepted
  <2>2. WorkersOK'
    BY <1>6, <2>1, GoToType, NextMessageType DEF PostAccepted
  <2> QED  BY <1>0, <1>d, <1>6, <2>1, <2>2, <1>b, <1>c DEF PostAccepted, MailOK
<1>7. ASSUME NEW w \in Workers, PostRefused(w)
      PROVE  TypeOK'
  <2>1. pc[w] # "idle"
    BY <1>7 DEF PostRefused
  <2>2. WorkersOK'
    BY <1>7, <2>1, GoToType, NextMessageType DEF PostRefused
  <2> QED  BY <1>0, <1>d, <1>7, <2>1, <2>2, <1>b, <1>c DEF PostRefused, mailVars, MailOK
<1>8. ASSUME NEW w \in Workers, RecordEvent(w)
      PROVE  TypeOK'
  <2>1. pc[w] # "idle" /\ Message(w) \in Messages
    BY <1>8, CurrentMessage DEF RecordEvent
  <2>2. WorkersOK'
    BY <1>8, <2>1, NextMessageType DEF RecordEvent
  <2> QED  BY <1>0, <1>d, <1>8, <2>1, <2>2, <1>b, <1>c DEF RecordEvent, MailOK
<1>9. ASSUME NEW w \in Workers, Die(w)
      PROVE  TypeOK'
  <2>1. pc[w] # "idle" /\ Message(w) \in Messages
    BY <1>9, CurrentMessage DEF Die
  <2>2. WorkersOK'
    BY <1>9, <2>1, EmptyBatch, GoOnType DEF Die
  <2> QED  BY <1>0, <1>d, <1>9, <2>1, <2>2, <1>b, <1>c DEF Die, MailOK
<1>10. ASSUME NEW e \in Editors, LoadPreferences(e)
       PROVE  TypeOK'
  <2>1. MemberOK'
    <3>1. page' = [page EXCEPT ![e] = {preferences}]
      BY <1>10 DEF LoadPreferences
    <3>2. page' \in [Editors -> SUBSET SUBSET Preferences]
      BY <1>0, <3>1 DEF MemberOK
    <3>3. Cardinality({preferences}) = 1
      BY SmallSets
    <3>4. \A f \in Editors : Cardinality(page'[f]) <= 1
      BY <1>0, <3>1, <3>3 DEF MemberOK
    <3> QED  BY <1>0, <1>10, <3>2, <3>4 DEF LoadPreferences, MemberOK
  <2> QED  BY <1>0, <1>d, <1>10, <2>1, <1>a DEF LoadPreferences, mailVars, MailOK
<1>11. ASSUME NEW e \in Editors, NEW row \in SUBSET Preferences,
              NEW on \in SUBSET Preferences, NEW against \in SUBSET Preferences,
              WritePreferences(e, row, on, against)
       PROVE  TypeOK'
  <2>1. MemberOK'
    BY <1>11, <1>0, SmallSets DEF WritePreferences, MemberOK
  <2>2. WorkersOK'
    BY <1>0, <1>11 DEF WritePreferences, WorkersOK
  <2> QED  BY <1>0, <1>d, <1>11, <2>1, <2>2, <1>c DEF WritePreferences, mailVars, MailOK
<1>12. ASSUME NEW e \in Editors, Unsubscribe(e) \/ SavePreferences(e)
       PROVE  TypeOK'
  <2>1. page[e] \subseteq SUBSET Preferences
    BY <1>0 DEF MemberOK
  <2>2. \A row, on, against \in SUBSET Preferences :
           WritePreferences(e, row, on, against) => TypeOK'
    BY <1>11
  <2>3. CASE Unsubscribe(e)
    <3>1. PICK seen \in page[e], p \in Preferences :
             WritePreferences(e, seen \ {p}, {}, {p})
      BY <2>3 DEF Unsubscribe
    <3>2. /\ seen \ {p} \in SUBSET Preferences
          /\ {} \in SUBSET Preferences /\ {p} \in SUBSET Preferences
      BY <2>1
    <3> QED  BY <2>2, <3>1, <3>2
  <2>4. CASE SavePreferences(e)
    <3>1. PICK seen \in page[e], row \in SUBSET Preferences :
             WritePreferences(e, row, row \ seen, seen \ row)
      BY <2>4 DEF SavePreferences
    <3>2. row \ seen \in SUBSET Preferences /\ seen \ row \in SUBSET Preferences
      BY <2>1
    <3> QED  BY <2>2, <3>1, <3>2
  <2> QED  BY <1>12, <2>3, <2>4
<1>13. CASE UNCHANGED vars
  BY <1>13, <1>0, <1>a, <1>b, <1>d DEF vars, mailVars, MailOK
<1> QED
  BY <1>1, <1>2, <1>3, <1>4, <1>5, <1>6, <1>7, <1>8, <1>9, <1>10, <1>12, <1>13
  DEF Next, WorkerStep

\* The types hold, for any number of workers, tabs and faults.
THEOREM EmailTypesHold == Spec => []TypeOK
<1>1. Init => TypeOK
  BY InitType
<1>2. TypeOK /\ [Next]_vars => TypeOK'
  BY StepType
<1> QED  BY <1>1, <1>2, PTL DEF Spec

-----------------------------------------------------------------------------
(* Delivery.                                                                *)

\* What the other workers do does not change with a step of w.
LEMMA NextMessageLeaves ==
    ASSUME NEW w \in Workers, TypeOK, pc[w] # "idle",
           NextMessage(w) \/ GoOn(w, <<>>)
    PROVE  /\ pc'[w] \notin Steps
           /\ \A v \in Workers \ {w} : pc'[v] = pc[v] /\ left'[v] = left[v]
<1>1. Tail(left[w]) \in Seq(Messages) /\ <<>> \in Seq(Messages)
  BY CurrentMessage, EmptyBatch
<1>2. PICK ms \in Seq(Messages) : GoOn(w, ms)
  BY <1>1 DEF NextMessage
<1>3. /\ left' = [left EXCEPT ![w] = ms]
      /\ \E q \in {"idle", "select"} : pc' = [pc EXCEPT ![w] = q]
  BY <1>2 DEF GoOn, TypeOK
<1> QED  BY <1>3 DEF TypeOK, Steps

LEMMA GoToKeeps ==
    ASSUME NEW w \in Workers, TypeOK, NEW q, GoTo(w, q)
    PROVE  /\ pc'[w] = q /\ left' = left
           /\ \A v \in Workers \ {w} : pc'[v] = pc[v]
BY DEF TypeOK, GoTo

\* A step that leaves the mail alone and takes no worker into a message.
LEMMA QuietStep ==
    ASSUME TypeOK, DeliveryInv, event' = event, inbox' = inbox,
           doubtful \subseteq doubtful',
           \A v \in Workers :
               \/ pc'[v] \notin Steps /\ (pc[v] = "sent" => Message(v) \in doubtful')
               \/ pc'[v] = pc[v] /\ left'[v] = left[v]
    PROVE  DeliveryInv'
<1> USE DEF DeliveryInv, Handles, Message
<1>1. ReservedFirst'
  BY DEF ReservedFirst
<1>2. SentIsDelivered'
  BY DEF SentIsDelivered, Steps
<1>3. SideBySide'
  BY DEF SideBySide
<1>4. Settled'
  BY DEF Settled, Steps
<1> QED  BY <1>1, <1>2, <1>3, <1>4

\* A worker goes to post a message whose row is on record.
LEMMA EnterPost ==
    ASSUME TypeOK, DeliveryInv, NEW w \in Workers, pc[w] # "idle", GoTo(w, "post"),
           pc[w] \notin Steps, inbox' = inbox,
           event' = event \/ (event[Message(w)] = "none" /\
                              event' = [event EXCEPT ![Message(w)] = "queued"]),
           event'[Message(w)] \in {"queued", "failed"},
           doubtful' = IF InFlight(w, Message(w))
                         THEN doubtful \cup {Message(w)} ELSE doubtful
    PROVE  DeliveryInv'
<1>1. /\ pc'[w] = "post" /\ left' = left
      /\ \A v \in Workers \ {w} : pc'[v] = pc[v]
  BY GoToKeeps
<1>2. Message(w) \in Messages
  BY CurrentMessage
<1>3. \A v \in Workers \ {w} : Handles(v, Message(w)) => Message(w) \in doubtful'
  BY DEF InFlight, Handles, Steps
<1> USE <1>1, <1>2 DEF DeliveryInv, Handles, Message, TypeOK
<1>4. ReservedFirst'
  BY DEF ReservedFirst, Steps
<1>5. SentIsDelivered'
  BY DEF SentIsDelivered
<1>6. SideBySide'
  <2>1. doubtful \subseteq doubtful'
    BY Zenon
  <2>2. ASSUME NEW v \in Workers \ {w}, NEW m \in Messages,
               Handles(v, m)', Handles(w, m)'
        PROVE  m \in doubtful'
    <3>1. m = Message(w) /\ Handles(v, m)
      BY <2>2
    <3> QED  BY <1>3, <3>1
  <2>3. ASSUME NEW v \in Workers \ {w}, NEW u \in Workers \ {w, v},
               NEW m \in Messages, Handles(v, m)', Handles(u, m)'
        PROVE  m \in doubtful'
    BY <2>1, <2>3 DEF SideBySide
  <2> QED  BY <2>2, <2>3 DEF SideBySide
<1>7. Settled'
  <2> SUFFICES ASSUME NEW m \in Messages, inbox[m] > 0, m \notin doubtful'
               PROVE  /\ inbox[m] = 1
                      /\ \A v \in Workers : Handles(v, m)' => pc'[v] = "sent"
                      /\ event'[m] = "sent" \/ \E v \in Workers : Handles(v, m)'
    BY DEF Settled
  <2>1. m \notin doubtful
    OBVIOUS
  <2>2. /\ inbox[m] = 1 /\ \A v \in Workers : Handles(v, m) => pc[v] = "sent"
        /\ event[m] = "sent" \/ \E v \in Workers : Handles(v, m)
    BY <2>1 DEF Settled
  <2>3. m # Message(w)
    BY <1>3, <2>2 DEF ReservedFirst
  <2> QED  BY <2>2, <2>3
<1> QED  BY <1>4, <1>5, <1>6, <1>7

\* Resend takes the message of a worker that has a row for it.
LEMMA PostKeeps ==
    ASSUME TypeOK, DeliveryInv, NEW w \in Workers, PostAccepted(w)
    PROVE  DeliveryInv'
<1> DEFINE m0 == Message(w)
<1>1. pc[w] = "post" /\ m0 \in Messages /\ inbox' = [inbox EXCEPT ![m0] = @ + 1]
  BY CurrentMessage DEF PostAccepted
<1>2. event' = event /\ event[m0] # "none"
  BY <1>1 DEF PostAccepted, DeliveryInv, ReservedFirst, Steps
<1>3. \A v \in Workers \ {w} : pc'[v] = pc[v] /\ left'[v] = left[v]
  BY <1>1, GoToKeeps, NextMessageLeaves DEF PostAccepted
<1>4. \/ pc'[w] = "sent" /\ left'[w] = left[w] /\ doubtful' = doubtful
      \/ pc'[w] \notin Steps /\ doubtful' = doubtful \cup {m0}
  BY <1>1, GoToKeeps, NextMessageLeaves DEF PostAccepted
<1>5. \A m \in Messages : inbox[m] \in Nat /\ inbox'[m] \in Nat
  BY <1>1 DEF TypeOK
<1>6. inbox[m0] > 0 => m0 \in doubtful
  BY <1>1 DEF DeliveryInv, Settled, Handles, Steps
<1>7. \A m \in Messages \ {m0} : inbox'[m] = inbox[m]
  BY <1>1 DEF TypeOK
<1>8. inbox'[m0] = inbox[m0] + 1
  BY <1>1 DEF TypeOK
<1> HIDE DEF m0
<1>9. \A v \in Workers \ {w} : \A m \in Messages : Handles(v, m)' <=> Handles(v, m)
  BY <1>3 DEF Handles, Message
<1>10. Message(w) = m0 /\ \A m \in Messages : Handles(w, m) <=> m = m0
  BY <1>1 DEF m0, Handles, Steps
<1>11. \A m \in Messages : Handles(w, m)' => m = m0 /\ pc'[w] = "sent"
  BY <1>4, <1>10 DEF Handles, Message
<1>12. ReservedFirst'
  BY <1>2, <1>3, <1>4, <1>7, <1>10 DEF DeliveryInv, ReservedFirst, Message
<1>13. SentIsDelivered'
  <2>1. \A m \in Messages : inbox[m] > 0 => inbox'[m] > 0
    BY <1>5, <1>7, <1>8
  <2>2. inbox'[m0] > 0
    BY <1>1, <1>5, <1>8
  <2>3. ASSUME NEW v \in Workers \ {w}, pc'[v] = "sent"
        PROVE  inbox'[Message(v)'] > 0
    <3>1. pc[v] = "sent" /\ Message(v)' = Message(v)
      BY <1>3, <2>3 DEF Message
    <3>2. Message(v) \in Messages
      BY <3>1, CurrentMessage
    <3> QED  BY <2>1, <3>1, <3>2 DEF DeliveryInv, SentIsDelivered
  <2>4. pc'[w] = "sent" => Message(w)' = m0
    BY <1>4, <1>10 DEF Message, Steps
  <2> QED  BY <1>2, <2>1, <2>2, <2>3, <2>4 DEF DeliveryInv, SentIsDelivered
<1>14. SideBySide'
  BY <1>4, <1>9, <1>10, <1>11 DEF DeliveryInv, SideBySide
<1>15. Settled'
  <2> SUFFICES ASSUME NEW m \in Messages, inbox'[m] > 0, m \notin doubtful'
               PROVE  /\ inbox'[m] = 1
                      /\ \A v \in Workers : Handles(v, m)' => pc'[v] = "sent"
                      /\ event'[m] = "sent" \/ \E v \in Workers : Handles(v, m)'
    BY DEF Settled
  <2>1. m \notin doubtful
    BY <1>4
  <2>2. CASE m = m0
    <3>1. inbox'[m] = 1
      BY <1>5, <1>6, <1>8, <2>1, <2>2
    <3>2. \A v \in Workers \ {w} : ~Handles(v, m)
      BY <1>10, <2>1, <2>2 DEF DeliveryInv, SideBySide
    <3>3. pc'[w] = "sent" /\ Handles(w, m)'
      BY <1>4, <1>10, <2>1, <2>2 DEF Handles, Message, Steps
    <3> QED  BY <1>9, <3>1, <3>2, <3>3
  <2>3. CASE m # m0
    <3>1. /\ inbox[m] = 1 /\ \A v \in Workers : Handles(v, m) => pc[v] = "sent"
          /\ event[m] = "sent" \/ \E v \in Workers : Handles(v, m)
      BY <1>7, <2>1, <2>3 DEF DeliveryInv, Settled
    <3> QED  BY <1>2, <1>3, <1>7, <1>9, <1>10, <1>11, <2>3, <3>1
  <2> QED  BY <2>2, <2>3
<1> QED  BY <1>12, <1>13, <1>14, <1>15 DEF DeliveryInv

\* A worker writes what came of its message.
LEMMA RecordKeeps ==
    ASSUME TypeOK, DeliveryInv, NEW w \in Workers, pc[w] \in {"sent", "failed"},
           NextMessage(w), event' = [event EXCEPT ![Message(w)] = pc[w]],
           inbox' = inbox, doubtful' = doubtful
    PROVE  DeliveryInv'
<1>1. /\ pc'[w] \notin Steps
      /\ \A v \in Workers \ {w} : pc'[v] = pc[v] /\ left'[v] = left[v]
  BY NextMessageLeaves
<1>2. Message(w) \in Messages
  BY CurrentMessage
<1>3. /\ event'[Message(w)] = pc[w]
      /\ \A m \in Messages \ {Message(w)} : event'[m] = event[m]
  BY <1>2 DEF TypeOK
<1>4. \A v \in Workers : pc[v] \in Steps => Message(v) \in Messages
  BY CurrentMessage DEF Steps
<1>5. pc[w] = "failed" /\ inbox[Message(w)] > 0 => Message(w) \in doubtful
  BY <1>2 DEF DeliveryInv, Settled, Handles, Steps
<1>6. pc[w] = "sent" => inbox[Message(w)] > 0
  BY DEF DeliveryInv, SentIsDelivered
<1> USE <1>1, <1>2, <1>3 DEF DeliveryInv
<1>7. ReservedFirst'
  <2>1. ASSUME NEW v \in Workers \ {w}, pc'[v] \in Steps
        PROVE  event'[Message(v)'] # "none"
    <3>1. pc[v] \in Steps /\ Message(v)' = Message(v)
      BY <2>1 DEF Message
    <3> QED  BY <1>4, <3>1 DEF ReservedFirst
  <2> QED  BY <2>1 DEF ReservedFirst
<1>8. SentIsDelivered'
  BY <1>6 DEF SentIsDelivered, Steps, Message
<1>9. SideBySide'
  BY DEF SideBySide, Handles, Message
<1>10. Settled'
  <2> SUFFICES ASSUME NEW m \in Messages, inbox[m] > 0, m \notin doubtful
               PROVE  /\ inbox[m] = 1
                      /\ \A v \in Workers : Handles(v, m)' => pc'[v] = "sent"
                      /\ event'[m] = "sent" \/ \E v \in Workers : Handles(v, m)'
    BY DEF Settled
  <2>1. /\ inbox[m] = 1 /\ \A v \in Workers : Handles(v, m) => pc[v] = "sent"
        /\ event[m] = "sent" \/ \E v \in Workers : Handles(v, m)
    BY DEF Settled
  <2>2. \A v \in Workers \ {w} : Handles(v, m)' <=> Handles(v, m)
    BY DEF Handles, Message
  <2>3. CASE m = Message(w)
    BY <1>5, <2>1, <2>2, <2>3 DEF Handles
  <2>4. CASE m # Message(w)
    BY <2>1, <2>2, <2>4 DEF Handles
  <2> QED  BY <2>3, <2>4
<1> QED  BY <1>7, <1>8, <1>9, <1>10

LEMMA StepDelivery == TypeOK /\ DeliveryInv /\ [Next]_vars => DeliveryInv'
<1> SUFFICES ASSUME TypeOK, DeliveryInv, [Next]_vars PROVE DeliveryInv'
  OBVIOUS
<1>1. CASE UNCHANGED <<mailVars, pc, left>>
  BY <1>1, QuietStep DEF mailVars
<1>2. ASSUME NEW w \in Workers, NEW k \in Kinds, StartBatch(w, k)
      PROVE  DeliveryInv'
  <2>1. /\ pc'[w] \notin Steps /\ pc[w] # "sent"
        /\ \A v \in Workers \ {w} : pc'[v] = pc[v] /\ left'[v] = left[v]
    <3>1. /\ pc[w] = "idle"
          /\ \E q \in {"select", "preferences"} : pc' = [pc EXCEPT ![w] = q]
          /\ left' = [left EXCEPT ![w] = Due(k)]
      BY <1>2 DEF StartBatch
    <3>2. pc[w] # "sent" /\ pc'[w] \notin Steps
      BY <3>1 DEF TypeOK, Steps
    <3>3. \A v \in Workers \ {w} : pc'[v] = pc[v] /\ left'[v] = left[v]
      BY <3>1 DEF TypeOK
    <3> QED  BY <3>2, <3>3
  <2> QED  BY <1>2, <2>1, QuietStep DEF StartBatch, mailVars
<1>3. ASSUME NEW w \in Workers, ReadPreferences(w)
      PROVE  DeliveryInv'
  <2>1. /\ pc'[w] \notin Steps /\ pc[w] # "sent"
        /\ \A v \in Workers \ {w} : pc'[v] = pc[v] /\ left'[v] = left[v]
    BY <1>3 DEF ReadPreferences, GoOn, TypeOK, Steps
  <2> QED  BY <1>3, <2>1, QuietStep DEF ReadPreferences, mailVars
<1>4. ASSUME NEW w \in Workers, SelectEvent(w)
      PROVE  DeliveryInv'
  <2>1. pc[w] = "select" /\ inbox' = inbox /\ event' = event
    BY <1>4 DEF SelectEvent
  <2>2. CASE GoTo(w, "insert") /\ UNCHANGED doubtful
    <3>1. /\ pc'[w] \notin Steps /\ pc[w] # "sent"
          /\ \A v \in Workers \ {w} : pc'[v] = pc[v] /\ left'[v] = left[v]
      BY <2>1, <2>2, GoToKeeps DEF Steps
    <3> QED  BY <2>1, <2>2, <3>1, QuietStep
  <2>3. CASE NextMessage(w) /\ UNCHANGED doubtful
    <3>1. /\ pc'[w] \notin Steps /\ pc[w] # "sent"
          /\ \A v \in Workers \ {w} : pc'[v] = pc[v] /\ left'[v] = left[v]
      BY <2>1, <2>3, NextMessageLeaves
    <3> QED  BY <2>1, <2>3, <3>1, QuietStep
  <2>4. CASE /\ event[Message(w)] \in {"queued", "failed"}
             /\ GoTo(w, "post")
             /\ doubtful' = IF InFlight(w, Message(w))
                              THEN doubtful \cup {Message(w)} ELSE doubtful
    BY <2>1, <2>4, EnterPost DEF Steps
  <2> QED  BY <1>4, <2>2, <2>3, <2>4 DEF SelectEvent
<1>5. ASSUME NEW w \in Workers, InsertEvent(w)
      PROVE  DeliveryInv'
  <2>1. pc[w] = "insert" /\ inbox' = inbox /\ doubtful' = doubtful
    BY <1>5 DEF InsertEvent
  <2>2. Message(w) \in Messages
    BY <2>1, CurrentMessage
  <2>3. CASE /\ event[Message(w)] = "none"
             /\ event' = [event EXCEPT ![Message(w)] = "queued"]
             /\ GoTo(w, "post")
    <3>1. event'[Message(w)] = "queued"
      BY <2>2, <2>3 DEF TypeOK
    <3>2. ~InFlight(w, Message(w))
      BY <2>3 DEF InFlight, DeliveryInv, ReservedFirst, Steps
    <3> QED  BY <2>1, <2>3, <3>1, <3>2, EnterPost DEF Steps
  <2>4. CASE /\ event[Message(w)] = "none"
             /\ event' = [event EXCEPT ![Message(w)] = "queued"]
             /\ NextMessage(w)
    <3>1. /\ pc'[w] \notin Steps
          /\ \A v \in Workers \ {w} : pc'[v] = pc[v] /\ left'[v] = left[v]
      BY <2>1, <2>4, NextMessageLeaves
    <3>2. /\ event'[Message(w)] = "queued" /\ inbox[Message(w)] = 0
          /\ \A m \in Messages \ {Message(w)} : event'[m] = event[m]
      BY <2>2, <2>4 DEF TypeOK, DeliveryInv, ReservedFirst
    <3>3. \A v \in Workers : pc[v] \in Steps =>
             Message(v) \in Messages /\ Message(v) # Message(w)
      BY <2>4, CurrentMessage DEF Steps, DeliveryInv, ReservedFirst
    <3>4. \A v \in Workers : pc'[v] \in Steps =>
             v # w /\ pc[v] = pc'[v] /\ Message(v)' = Message(v)
      BY <3>1 DEF Message
    <3> USE <2>1, <2>2, <3>1, <3>2, <3>3, <3>4 DEF DeliveryInv
    <3>5. ReservedFirst'
      BY DEF ReservedFirst
    <3>6. SentIsDelivered'
      BY DEF SentIsDelivered, Steps
    <3>7. SideBySide'
      BY DEF SideBySide, Handles
    <3>8. Settled'
      <4> SUFFICES ASSUME NEW m \in Messages, inbox[m] > 0, m \notin doubtful
                   PROVE  /\ inbox[m] = 1
                          /\ \A v \in Workers : Handles(v, m)' => pc'[v] = "sent"
                          /\ event'[m] = "sent" \/ \E v \in Workers : Handles(v, m)'
        BY DEF Settled
      <4>1. m # Message(w)
        OBVIOUS
      <4>2. /\ inbox[m] = 1 /\ \A v \in Workers : Handles(v, m) => pc[v] = "sent"
            /\ event[m] = "sent" \/ \E v \in Workers : Handles(v, m)
        BY DEF Settled
      <4>3. \A v \in Workers : Handles(v, m)' <=> Handles(v, m)
        BY <2>1, <3>1 DEF Handles, Message, Steps
      <4> QED  BY <4>1, <4>2, <4>3 DEF Handles
    <3> QED  BY <3>5, <3>6, <3>7, <3>8
  <2>5. CASE NextMessage(w) /\ UNCHANGED event
    <3>1. /\ pc'[w] \notin Steps /\ pc[w] # "sent"
          /\ \A v \in Workers \ {w} : pc'[v] = pc[v] /\ left'[v] = left[v]
      BY <2>1, <2>5, NextMessageLeaves
    <3> QED  BY <2>1, <2>5, <3>1, QuietStep
  <2> QED  BY <1>5, <2>3, <2>4, <2>5 DEF InsertEvent
<1>6. ASSUME NEW w \in Workers, PostAccepted(w)
      PROVE  DeliveryInv'
  BY <1>6, PostKeeps
<1>7. ASSUME NEW w \in Workers, PostRefused(w)
      PROVE  DeliveryInv'
  <2>1. pc[w] = "post" /\ UNCHANGED mailVars
    BY <1>7 DEF PostRefused
  <2>2. CASE NextMessage(w)
    <3>1. /\ pc'[w] \notin Steps /\ pc[w] # "sent"
          /\ \A v \in Workers \ {w} : pc'[v] = pc[v] /\ left'[v] = left[v]
      BY <2>1, <2>2, NextMessageLeaves
    <3> QED  BY <2>1, <3>1, QuietStep DEF mailVars
  <2>3. CASE GoTo(w, "failed")
    <3>1. /\ pc'[w] = "failed" /\ left' = left
          /\ \A v \in Workers \ {w} : pc'[v] = pc[v]
      BY <2>3, GoToKeeps
    <3> USE <2>1, <3>1 DEF DeliveryInv, Handles, Message, mailVars
    <3>2. ReservedFirst'
      BY DEF ReservedFirst, Steps
    <3>3. SentIsDelivered'
      BY DEF SentIsDelivered
    <3>4. SideBySide'
      BY DEF SideBySide, Steps
    <3>5. Settled'
      BY DEF Settled, Steps
    <3> QED  BY <3>2, <3>3, <3>4, <3>5
  <2> QED  BY <1>7, <2>2, <2>3 DEF PostRefused
<1>8. ASSUME NEW w \in Workers, RecordEvent(w)
      PROVE  DeliveryInv'
  <2>1. pc[w] \in {"sent", "failed"} /\ NextMessage(w) /\ inbox' = inbox
    BY <1>8 DEF RecordEvent
  <2>2. CASE /\ event' = [event EXCEPT ![Message(w)] = pc[w]]
             /\ doubtful' = doubtful
    BY <2>1, <2>2, RecordKeeps
  <2>3. CASE /\ doubtful' = IF pc[w] = "sent"
                              THEN doubtful \cup {Message(w)} ELSE doubtful
             /\ event' = event
    <3>1. /\ pc'[w] \notin Steps
          /\ pc[w] = "sent" => Message(w) \in doubtful'
          /\ doubtful \subseteq doubtful'
          /\ \A v \in Workers \ {w} : pc'[v] = pc[v] /\ left'[v] = left[v]
      BY <2>1, <2>3, NextMessageLeaves
    <3> QED  BY <2>1, <2>3, <3>1, QuietStep
  <2> QED  BY <1>8, <2>2, <2>3 DEF RecordEvent
<1>9. ASSUME NEW w \in Workers, Die(w)
      PROVE  DeliveryInv'
  <2>1. /\ pc[w] # "idle" /\ GoOn(w, <<>>) /\ inbox' = inbox /\ event' = event
        /\ doubtful' = IF pc[w] = "sent"
                         THEN doubtful \cup {Message(w)} ELSE doubtful
    BY <1>9 DEF Die
  <2>2. /\ pc'[w] \notin Steps
        /\ pc[w] = "sent" => Message(w) \in doubtful'
        /\ doubtful \subseteq doubtful'
        /\ \A v \in Workers \ {w} : pc'[v] = pc[v] /\ left'[v] = left[v]
    BY <2>1, NextMessageLeaves
  <2> QED  BY <2>1, <2>2, QuietStep
<1>10. ASSUME NEW e \in Editors,
              LoadPreferences(e) \/ Unsubscribe(e) \/ SavePreferences(e)
       PROVE  DeliveryInv'
  <2>1. UNCHANGED <<mailVars, pc, left>>
    BY <1>10
    DEF LoadPreferences, Unsubscribe, SavePreferences, WritePreferences, workerVars
  <2> QED  BY <1>1, <2>1
<1>11. CASE GrowOlder
  BY <1>1, <1>11 DEF GrowOlder, workerVars
<1>12. CASE UNCHANGED vars
  BY <1>1, <1>12 DEF vars, workerVars
<1> QED
  BY <1>2, <1>3, <1>4, <1>5, <1>6, <1>7, <1>8, <1>9, <1>10, <1>11, <1>12
  DEF Next, WorkerStep

LEMMA InitDelivery == Init => DeliveryInv
BY DEF Init, DeliveryInv, ReservedFirst, SentIsDelivered, SideBySide, Settled,
       Handles, Steps

\* The invariant of delivery says what the two properties say.
LEMMA DeliveryImplies ==
    TypeOK /\ DeliveryInv => SecondCopyHasCause /\ StatusIsTrue
<1> SUFFICES ASSUME TypeOK, DeliveryInv PROVE SecondCopyHasCause /\ StatusIsTrue
  OBVIOUS
<1>1. SecondCopyHasCause
  <2>1. \A m \in Messages : inbox[m] \in Nat
    BY DEF TypeOK
  <2> QED  BY <2>1 DEF DeliveryInv, Settled, SecondCopyHasCause
<1>2. StatusIsTrue
  BY DEF DeliveryInv, Settled, SentIsDelivered, Handles, StatusIsTrue
<1> QED  BY <1>1, <1>2

LEMMA DeliveryIsInvariant == Spec => [](TypeOK /\ DeliveryInv)
<1>1. Init => TypeOK /\ DeliveryInv
  BY InitType, InitDelivery
<1>2. TypeOK /\ DeliveryInv /\ [Next]_vars => TypeOK' /\ DeliveryInv'
  BY StepType, StepDelivery
<1> QED  BY <1>1, <1>2, PTL DEF Spec

\* No interleaving of any number of senders posts a message twice without two
\* of them having it in hand, or one that could not record it.
THEOREM EmailDeliveryHolds == Spec => []SecondCopyHasCause
BY DeliveryIsInvariant, DeliveryImplies, PTL

\* However senders interleave, fail and die, the status on record is true of
\* a message nobody works on, with the same causes for doubt.
THEOREM EmailStatusIsTrue == Spec => []StatusIsTrue
BY DeliveryIsInvariant, DeliveryImplies, PTL

-----------------------------------------------------------------------------
(* Preferences.                                                             *)

\* A tab that no other one crossed still shows what is on record.
PagesAreFresh ==
    \A e \in Editors \ crossed : page[e] \subseteq {preferences}

OptOutInv == OptOutsHold /\ PagesAreFresh

LEMMA StepOptOut == TypeOK /\ OptOutInv /\ [Next]_vars => OptOutInv'
<1> SUFFICES ASSUME TypeOK, OptOutInv, [Next]_vars PROVE OptOutInv'
  OBVIOUS
<1> USE DEF OptOutInv, OptOutsHold, PagesAreFresh
<1>1. CASE UNCHANGED memberVars
  BY <1>1 DEF memberVars
<1>2. ASSUME NEW e \in Editors, LoadPreferences(e)
      PROVE  OptOutInv'
  BY <1>2 DEF LoadPreferences, TypeOK
<1>3. ASSUME NEW e \in Editors, NEW seen \in page[e], NEW row, NEW on, NEW against,
             WritePreferences(e, row, on, against),
             row \ on \subseteq seen, against \cap row = {}
      PROVE  OptOutInv'
  <2>1. PagesAreFresh'
    BY <1>3 DEF WritePreferences, TypeOK
  <2>2. /\ preferences' = row
        /\ toldOff' \subseteq (toldOff \ on) \cup against
        /\ clobbered' = (IF e \in crossed THEN clobbered \cup (row \ on) ELSE clobbered)
                          \ against
    BY <1>3 DEF WritePreferences
  <2>3. e \notin crossed => seen = preferences
    OBVIOUS
  <2>4. OptOutsHold'
    BY <1>3, <2>2, <2>3
  <2> QED  BY <2>1, <2>4
<1>4. ASSUME NEW e \in Editors, Unsubscribe(e)
      PROVE  OptOutInv'
  <2>1. PICK seen \in page[e], p \in Preferences :
           WritePreferences(e, seen \ {p}, {}, {p})
    BY <1>4 DEF Unsubscribe
  <2> QED  BY <1>3, <2>1
<1>5. ASSUME NEW e \in Editors, SavePreferences(e)
      PROVE  OptOutInv'
  <2>1. PICK seen \in page[e], row \in SUBSET Preferences :
           WritePreferences(e, row, row \ seen, seen \ row)
    BY <1>5 DEF SavePreferences
  <2> QED  BY <1>3, <2>1
<1>6. ASSUME NEW w \in Workers,
             WorkerStep(w) \/ Die(w) \/ \E k \in Kinds : StartBatch(w, k)
      PROVE  OptOutInv'
  BY <1>1, <1>6 DEF WorkerStep, ReadPreferences, SelectEvent, InsertEvent,
                    PostAccepted, PostRefused, RecordEvent, Die, StartBatch
<1> QED
  BY <1>1, <1>2, <1>4, <1>5, <1>6 DEF Next, GrowOlder, vars

\* Whatever tabs are open and whichever queries fail, an option the member
\* was told is off comes back only by a tab that was open while another wrote.
THEOREM EmailOptOutsHold == Spec => []OptOutsHold
<1>1. Init => TypeOK /\ OptOutInv
  BY InitType DEF Init, OptOutInv, OptOutsHold, PagesAreFresh
<1>2. TypeOK /\ OptOutInv /\ [Next]_vars => TypeOK' /\ OptOutInv'
  BY StepType, StepOptOut
<1>3. OptOutInv => OptOutsHold
  BY DEF OptOutInv
<1> QED  BY <1>1, <1>2, <1>3, PTL DEF Spec

-----------------------------------------------------------------------------
(* What the opted-out member is sent.                                       *)

\* A batch works on messages of its own kind; once it has read the options,
\* none that it needs is among those the member was told are off.  What he
\* was told is off, and nobody undid, is off.
BatchInv ==
    \A w \in Workers :
        /\ off[w] \cap preferences = {}
        /\ \A k, l \in kind[w] : k = l
        /\ \A k \in kind[w] :
              /\ left[w] \in Seq(MessagesOf(k))
              /\ pc[w] # "preferences" /\ w \notin blind => Needs(k) \cap off[w] = {}

\* The link in a message turns off an option its batch asks for.
LEMMA LinkIsNeeded ==
    ASSUME NEW k \in Kinds, NEW m \in MessagesOf(k)
    PROVE  UnsubscribesFrom(m) \subseteq Needs(k)
<1>1. k \in {"session", "lifecycle", "weekly", "adminDigest", "usage", "agent"}
  BY EmailAssumption DEF Batch
<1>2. \A s, a : s = <<a>> => DOMAIN s = {1} /\ s[1] = a
  OBVIOUS
<1>3. \A s, a, b : s = <<a, b>> => DOMAIN s = {1, 2} /\ s[1] = a /\ s[2] = b
  OBVIOUS
<1>4. PICK i \in DOMAIN Batch[k] : m = Batch[k][i]
  BY DEF MessagesOf
<1>5. CASE k = "session"
  <2>1. Batch[k] = <<"welcome-1">>
    BY <1>5 DEF Batch
  <2> QED  BY <1>2, <1>4, <2>1 DEF UnsubscribesFrom
<1>6. CASE k = "lifecycle"
  <2>1. Batch[k] = <<"welcome-2", "welcome-3">>
    BY <1>6 DEF Batch
  <2> QED  BY <1>3, <1>4, <1>6, <2>1 DEF UnsubscribesFrom, Needs
<1>7. CASE k = "weekly"
  <2>1. Batch[k] = <<"weekly-digest", "owner-use-cases">>
    BY <1>7 DEF Batch
  <2> QED  BY <1>3, <1>4, <1>7, <2>1 DEF UnsubscribesFrom, Needs
<1>8. CASE k \in {"adminDigest", "usage", "agent"}
  <2>1. Batch[k] \in {<<"admin-workspace-digest">>, <<"usage-alert">>,
                      <<"agent-introduction">>}
    BY <1>8 DEF Batch
  <2>2. m \in {"admin-workspace-digest", "usage-alert", "agent-introduction"}
    BY <1>2, <1>4, <2>1
  <2> QED  BY <2>2 DEF UnsubscribesFrom
<1> QED  BY <1>1, <1>5, <1>6, <1>7, <1>8

LEMMA DueIsOfKind ==
    ASSUME NEW k \in Kinds
    PROVE  Due(k) \in Seq(MessagesOf(k))
<1>1. \A S : <<>> \in Seq(S)
  OBVIOUS
<1>2. \A s, a : s = <<a>> => DOMAIN s = {1} /\ s[1] = a
  OBVIOUS
<1>3. \A s, a, b : s = <<a, b>> => DOMAIN s = {1, 2} /\ s[1] = a /\ s[2] = b
  OBVIOUS
<1>4. \A S : \A a \in S : <<a>> \in Seq(S)
  OBVIOUS
<1>5. \A S : \A a, b \in S : <<a, b>> \in Seq(S)
  OBVIOUS
<1>6. k \in {"session", "lifecycle", "weekly", "adminDigest", "usage", "agent"}
  BY EmailAssumption DEF Batch
<1>7. CASE k \in {"lifecycle", "weekly"}
  <2>1. PICK a, b : Batch[k] = <<a, b>> /\ Due(k) \in {<<>>, <<a>>, <<a, b>>}
    BY <1>7 DEF Batch, Due
  <2>2. a \in MessagesOf(k) /\ b \in MessagesOf(k)
    BY <2>1, <1>3 DEF MessagesOf
  <2> QED  BY <1>1, <1>4, <1>5, <2>1, <2>2
<1>8. CASE k \notin {"lifecycle", "weekly"}
  <2>1. PICK a : Batch[k] = <<a>>
    BY <1>6, <1>8 DEF Batch
  <2>2. a \in MessagesOf(k)
    BY <2>1, <1>2 DEF MessagesOf
  <2>3. Due(k) \in {<<>>, <<a>>}
    BY <2>1, <1>8 DEF Due
  <2> QED  BY <1>1, <1>4, <2>2, <2>3
<1> QED  BY <1>7, <1>8

\* A worker that goes on within its batch, with what its batch still holds.
LEMMA WorkerKeepsBatch ==
    ASSUME TypeOK, BatchInv, NEW w \in Workers, preferences' = preferences,
           NEW q, pc' = [pc EXCEPT ![w] = q], UNCHANGED <<kind, off>>,
           NEW ms, left' = [left EXCEPT ![w] = ms],
           \A k \in kind[w] : ms \in Seq(MessagesOf(k)),
           blind' \in {blind, blind \cup {w}},
           pc[w] = "preferences" =>
               w \in blind' \/ \A k \in kind[w] : Needs(k) \cap off[w] = {}
    PROVE  BatchInv'
<1>1. \A v \in Workers \ {w} :
         pc'[v] = pc[v] /\ left'[v] = left[v] /\ (v \in blind' <=> v \in blind)
  BY DEF TypeOK
<1>2. left'[w] = ms
  BY DEF TypeOK
<1> QED  BY <1>1, <1>2 DEF BatchInv

LEMMA GoOnKeepsBatch ==
    ASSUME TypeOK, BatchInv, NEW w \in Workers, preferences' = preferences,
           NEW ms, GoOn(w, ms),
           \A k \in kind[w] : ms \in Seq(MessagesOf(k)),
           pc[w] = "preferences" /\ ms # <<>> =>
               \A k \in kind[w] : Needs(k) \cap off[w] = {}
    PROVE  BatchInv'
<1>1. CASE ms = <<>>
  <2>1. /\ kind'[w] = {} /\ off'[w] = {}
        /\ \A v \in Workers \ {w} :
              /\ pc'[v] = pc[v] /\ left'[v] = left[v] /\ kind'[v] = kind[v]
              /\ off'[v] = off[v] /\ (v \in blind' <=> v \in blind)
    BY <1>1 DEF TypeOK, GoOn
  <2> QED  BY <2>1 DEF BatchInv
<1>2. CASE ms # <<>>
  BY <1>2, WorkerKeepsBatch DEF GoOn
<1> QED  BY <1>1, <1>2

LEMMA NextKeepsBatch ==
    ASSUME TypeOK, BatchInv, NEW w \in Workers, preferences' = preferences,
           pc[w] \notin {"idle", "preferences"}, NextMessage(w)
    PROVE  BatchInv'
<1>1. left[w] # <<>>
  BY DEF TypeOK
<1>2. \A S : left[w] \in Seq(S) => Tail(left[w]) \in Seq(S)
  BY <1>1
<1> QED  BY <1>2, GoOnKeepsBatch DEF NextMessage, BatchInv

LEMMA GoToKeepsBatch ==
    ASSUME TypeOK, BatchInv, NEW w \in Workers, preferences' = preferences,
           pc[w] \notin {"idle", "preferences"}, NEW q, GoTo(w, q)
    PROVE  BatchInv'
<1>1. left' = [left EXCEPT ![w] = left[w]]
  BY DEF GoTo, TypeOK
<1> QED  BY <1>1, WorkerKeepsBatch DEF GoTo, BatchInv

LEMMA StepBatch ==
    TypeOK /\ OptOutInv /\ BatchInv /\ [Next]_vars => BatchInv'
<1> SUFFICES ASSUME TypeOK, OptOutInv, BatchInv, [Next]_vars PROVE BatchInv'
  OBVIOUS
<1>1. CASE UNCHANGED <<preferences, workerVars>>
  BY <1>1 DEF workerVars, BatchInv
<1>2. ASSUME NEW w \in Workers, NEW k \in Kinds, StartBatch(w, k)
      PROVE  BatchInv'
  <2>1. /\ pc'[w] = IF Needs(k) = {} THEN "select" ELSE "preferences"
        /\ kind'[w] = {k} /\ left'[w] = Due(k) /\ off'[w] = toldOff \ clobbered
        /\ \A v \in Workers \ {w} :
              /\ pc'[v] = pc[v] /\ left'[v] = left[v] /\ kind'[v] = kind[v]
              /\ off'[v] = off[v]
        /\ blind' = blind /\ preferences' = preferences
    BY <1>2 DEF TypeOK, StartBatch, memberVars
  <2>2. (toldOff \ clobbered) \cap preferences = {}
    BY DEF OptOutInv, OptOutsHold
  <2> QED  BY <2>1, <2>2, DueIsOfKind DEF BatchInv
<1>3. ASSUME NEW w \in Workers, ReadPreferences(w)
      PROVE  BatchInv'
  <2>1. preferences' = preferences /\ pc[w] = "preferences"
    BY <1>3 DEF ReadPreferences, memberVars
  <2>2. ASSUME NEW k \in kind[w],
               GoOn(w, IF Needs(k) \subseteq preferences THEN left[w] ELSE <<>>)
        PROVE  BatchInv'
    <3>1. kind[w] = {k}
      BY <2>2 DEF BatchInv
    <3>2. CASE Needs(k) \subseteq preferences
      <4>1. Needs(k) \cap off[w] = {}
        BY <3>2 DEF BatchInv
      <4> QED  BY <2>1, <2>2, <3>1, <3>2, <4>1, GoOnKeepsBatch DEF BatchInv
    <3>3. CASE ~(Needs(k) \subseteq preferences)
      <4>1. \A S : <<>> \in Seq(S)
        OBVIOUS
      <4> QED  BY <2>1, <2>2, <3>3, <4>1, GoOnKeepsBatch
    <3> QED  BY <3>2, <3>3
  <2>3. CASE /\ blind' = blind \cup {w} /\ pc' = [pc EXCEPT ![w] = "select"]
             /\ UNCHANGED <<kind, left, off>>
    <3>1. left' = [left EXCEPT ![w] = left[w]]
      BY <2>3 DEF TypeOK
    <3> QED  BY <2>1, <2>3, <3>1, WorkerKeepsBatch DEF BatchInv
  <2> QED  BY <1>3, <2>2, <2>3 DEF ReadPreferences
<1>4. ASSUME NEW w \in Workers,
             \/ SelectEvent(w) \/ InsertEvent(w) \/ PostAccepted(w)
             \/ PostRefused(w) \/ RecordEvent(w)
      PROVE  BatchInv'
  <2>1. /\ preferences' = preferences
        /\ pc[w] \notin {"idle", "preferences"}
        /\ NextMessage(w) \/ \E q : GoTo(w, q)
    BY <1>4 DEF SelectEvent, InsertEvent, PostAccepted, PostRefused, RecordEvent,
                memberVars
  <2> QED  BY <2>1, NextKeepsBatch, GoToKeepsBatch
<1>5. ASSUME NEW w \in Workers, Die(w)
      PROVE  BatchInv'
  <2>1. \A S : <<>> \in Seq(S)
    OBVIOUS
  <2> QED  BY <1>5, <2>1, GoOnKeepsBatch DEF Die, memberVars
<1>6. ASSUME NEW e \in Editors, Unsubscribe(e) \/ SavePreferences(e)
      PROVE  BatchInv'
  <2>1. PICK row, on, against : WritePreferences(e, row, on, against)
    BY <1>6 DEF Unsubscribe, SavePreferences
  <2>2. /\ preferences' = row /\ off' = [w \in Workers |-> off[w] \ row]
        /\ UNCHANGED <<pc, kind, left, blind>>
    BY <2>1 DEF WritePreferences
  <2> QED  BY <2>2 DEF BatchInv
<1>7. ASSUME NEW e \in Editors, LoadPreferences(e)
      PROVE  BatchInv'
  BY <1>1, <1>7 DEF LoadPreferences
<1> QED
  BY <1>1, <1>2, <1>3, <1>4, <1>5, <1>6, <1>7
  DEF Next, WorkerStep, GrowOlder, vars, memberVars

\* Only a worker that posts puts anything in the inbox, and it posts what its
\* batch holds.
LEMMA StepOptedOut ==
    ASSUME TypeOK, BatchInv, Next, NEW w \in Workers,
           inbox' # inbox, pc'[w] # pc[w], w \notin blind
    PROVE  UnsubscribesFrom(Message(w)) \cap off[w] = {}
<1>1. PICK v \in Workers : PostAccepted(v)
  BY DEF Next, WorkerStep, GrowOlder, ReadPreferences, SelectEvent, InsertEvent,
         PostRefused, RecordEvent, Die, StartBatch, LoadPreferences, Unsubscribe,
         SavePreferences, WritePreferences, mailVars
<1>2. pc[v] = "post" /\ \A u \in Workers \ {v} : pc'[u] = pc[u]
  BY <1>1, GoToKeeps, NextMessageLeaves DEF PostAccepted
<1>3. w = v
  BY <1>2
<1>4. kind[w] # {} /\ left[w] # <<>> /\ kind[w] \subseteq Kinds
  BY <1>2, <1>3 DEF TypeOK
<1>5. PICK k \in kind[w] : left[w] \in Seq(MessagesOf(k)) /\ Needs(k) \cap off[w] = {}
  BY <1>2, <1>3, <1>4 DEF BatchInv
<1>6. Message(w) \in MessagesOf(k)
  BY <1>4, <1>5 DEF Message
<1> QED  BY <1>4, <1>5, <1>6, LinkIsNeeded

\* Whatever sweeps and tabs run at once, once the member was told that an
\* option is off, and while no crossed tab undoes it, no batch begun after
\* that posts him a message whose link turns the option off, unless the query
\* for his options failed.
THEOREM OptOutsAreRespected == Spec => OptedOutGetNothing
<1> DEFINE Inv == TypeOK /\ OptOutInv /\ BatchInv
<1>1. Init => Inv
  BY InitType DEF Init, OptOutInv, OptOutsHold, PagesAreFresh, BatchInv
<1>2. Inv /\ [Next]_vars => Inv'
  BY StepType, StepOptOut, StepBatch
<1>3. Inv /\ [Next]_vars =>
         [\A w \in Workers :
             inbox' # inbox /\ pc'[w] # pc[w] =>
                 w \in blind \/ UnsubscribesFrom(Message(w)) \cap off[w] = {}]_vars
  BY StepOptedOut
<1> QED  BY <1>1, <1>2, <1>3, PTL DEF Spec, OptedOutGetNothing

=============================================================================
