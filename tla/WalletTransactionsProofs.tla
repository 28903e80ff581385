------------------------ MODULE WalletTransactionsProofs ------------------------
(***************************************************************************)
(* Proofs about WalletTransactions, for any number of callers, calls,      *)
(* faults, organisations and amounts: the transactions implement the       *)
(* abstract wallet, and no interleaving leaves unpaid usage on record or   *)
(* paid usage off it, faults aside.                                        *)
(***************************************************************************)
EXTENDS WalletTransactions, WalletLedgerProofs

Busy(c) == pc[c] # "idle"

\* Whoever holds a wallet row has read the balance that is on it.
LockInv ==
    \A c \in Callers :
        pc[c] = "holding" =>
            /\ holder[job[c].org] = c
            /\ seen[c] = balance[job[c].org]

\* Only recordInviteCharge has the two steps of its own.
KindInv ==
    \A c \in Callers : pc[c] \in {"insertEvent", "compensate"} => job[c].kind = "invite"

\* No two calls share an id, and no id was used that was not given out.
IdInv ==
    /\ \A c \in Callers : Busy(c) => job[c].id <= started
    /\ \A c, d \in Callers : Busy(c) /\ Busy(d) /\ c # d => job[c].id # job[d].id
    /\ \A p \in posted : p.id <= started

\* What a call in progress has done to its usage event and to the wallet.
ProgressInv ==
    \A c \in Callers :
        /\ pc[c] \in {"check", "insertEvent", "lock", "holding"} =>
              CallOf(c) \notin posted
        /\ pc[c] \in {"lock", "holding"} /\ job[c].kind = "invite" =>
              CallOf(c) \in events
        /\ pc[c] = "compensate" =>
              CallOf(c) \notin posted \/ job[c].id \in faulted

-----------------------------------------------------------------------------

\* Init satisfies every part of the invariant.
LEMMA InitInv ==
    Init => /\ TypeOK /\ LedgerExplainsBalance
            /\ LockInv /\ KindInv /\ IdInv /\ ProgressInv
            /\ UsageEventsArePaid /\ PaidUsageIsRecorded
<1> SUFFICES ASSUME Init
             PROVE  /\ TypeOK /\ LedgerExplainsBalance
                    /\ LockInv /\ KindInv /\ IdInv /\ ProgressInv
                    /\ UsageEventsArePaid /\ PaidUsageIsRecorded
  OBVIOUS
<1>1. WalletTypeOK /\ LedgerExplainsBalance
  BY WalletInitInv DEF Init, WalletInv
<1>2. TypeOK
  BY <1>1, CallersAssumption DEF Init, TypeOK, Labels
<1> QED
  BY <1>1, <1>2 DEF Init, LockInv, KindInv, IdInv, ProgressInv, Busy,
                    UsageEventsArePaid, PaidUsageIsRecorded

\* A commit under the row lock is one posting of the abstract wallet.
LEMMA CommitIsPost ==
    ASSUME TypeOK, LockInv, NEW c \in Callers, Commit(c)
    PROVE  /\ job[c] \in Job
           /\ Direction(job[c].kind) \in Directions
           /\ Post(job[c].org, Direction(job[c].kind), job[c].amount)
<1>1. job[c] \in Job
  BY DEF TypeOK, Commit
<1>2. Direction(job[c].kind) \in Directions
  BY DEF Direction, Directions
<1>3. seen[c] = balance[job[c].org]
  BY DEF LockInv, Commit
<1>4. Post(job[c].org, Direction(job[c].kind), job[c].amount)
  BY <1>3 DEF Commit, Post
<1> QED BY <1>1, <1>2, <1>4

\* Nothing but a commit touches the two tables of the wallet.
LEMMA OthersDoNotPost ==
    ASSUME NEW c \in Callers,
           \/ Start(c) \/ AssertCanSpend(c) \/ InsertUsageEvent(c) \/ LockWallet(c)
           \/ Refuse(c) \/ DeleteUsageEvent(c) \/ Abort(c) \/ Die(c)
    PROVE  UNCHANGED walletVars
BY DEF Start, AssertCanSpend, InsertUsageEvent, LockWallet, Refuse, DeleteUsageEvent,
       Abort, Die, walletVars

\* Every step of a caller is a posting of the abstract wallet or leaves it
\* alone.
LEMMA StepIsPost ==
    ASSUME TypeOK, LockInv, [Next]_vars
    PROVE  [WalletNext]_walletVars
<1>1. CASE UNCHANGED vars
  BY <1>1 DEF vars
<1>2. CASE Next
  <2>1. PICK c \in Callers : Start(c) \/ Work(c) \/ Abort(c) \/ Die(c)
    BY <1>2 DEF Next
  <2>2. CASE Commit(c)
    BY <2>2, CommitIsPost DEF WalletNext, Job
  <2>3. CASE ~Commit(c)
    BY <2>1, <2>3, OthersDoNotPost DEF Work
  <2> QED BY <2>2, <2>3
<1> QED BY <1>1, <1>2

\* ... so it keeps the wallet's own invariant.
LEMMA StepKeepsWallet ==
    ASSUME TypeOK, LedgerExplainsBalance, LockInv, [Next]_vars
    PROVE  WalletTypeOK' /\ LedgerExplainsBalance'
<1>1. WalletInv
  BY DEF WalletInv, TypeOK
<1>2. CASE UNCHANGED walletVars
  BY <1>1, <1>2, NoPostKeepsWallet DEF WalletInv
<1>3. CASE WalletNext
  <2>1. PICK o \in Orgs, direction \in Directions, amount \in Amounts :
            Post(o, direction, amount)
    BY <1>3 DEF WalletNext
  <2> QED BY <1>1, <2>1, PostKeepsWallet, AmountsAssumption DEF WalletInv
<1> QED BY <1>2, <1>3, StepIsPost

-----------------------------------------------------------------------------

\* The types of the transactions' own variables.
LEMMA TypeStep ==
    ASSUME TypeOK, LedgerExplainsBalance, LockInv, [Next]_vars
    PROVE  TypeOK'
<1>1. WalletTypeOK'
  BY StepKeepsWallet
<1>2. CASE UNCHANGED vars
  BY <1>1, <1>2 DEF vars, txnVars, TypeOK
<1>3. CASE Next
  <2>1. PICK c \in Callers : Start(c) \/ Work(c) \/ Abort(c) \/ Die(c)
    BY <1>3 DEF Next
  <2>2. /\ pc \in [Callers -> Labels]
        /\ job \in [Callers -> Job \cup {NoJob}]
        /\ \A d \in Callers : pc[d] # "idle" => job[d] \in Job
        /\ seen \in [Callers -> Nat]
        /\ holder \in [Orgs -> Callers \cup {NoOne}]
        /\ events \subseteq Call
        /\ started \in 0..MaxCalls
        /\ posted \subseteq Call
        /\ faulted \subseteq CallIds
        /\ balance \in [Orgs -> Nat]
    BY DEF TypeOK, WalletTypeOK
  <2>3. pc[c] # "idle" => /\ CallOf(c) \in Call
                          /\ job[c].id \in CallIds
                          /\ job[c].org \in Orgs
    BY <2>2 DEF CallOf, Call, Job
  <2>4. CASE Start(c)
    <3>1. started + 1 \in CallIds /\ started' \in 0..MaxCalls
      BY <2>2, <2>4, CallersAssumption DEF Start, CallIds
    <3> QED BY <1>1, <2>2, <2>4, <3>1 DEF Start, TypeOK, Labels, Job
  <2>5. CASE AssertCanSpend(c)
    BY <1>1, <2>2, <2>5 DEF AssertCanSpend, Finish, GoTo, TypeOK, Labels
  <2>6. CASE InsertUsageEvent(c)
    BY <1>1, <2>2, <2>3, <2>6 DEF InsertUsageEvent, Finish, GoTo, Fault, TypeOK, Labels
  <2>7. CASE LockWallet(c)
    BY <1>1, <2>2, <2>3, <2>7 DEF LockWallet, TypeOK, Labels
  <2>8. CASE Commit(c)
    <3>1. /\ pc[c] # "idle"
          /\ Release(c)
          /\ events' = (IF job[c].kind = "usage" THEN events \cup {CallOf(c)} ELSE events)
          /\ posted' = posted \cup {CallOf(c)}
          /\ UNCHANGED started
          /\ \/ Finish(c) /\ UNCHANGED faulted
             \/ Fault(c) /\ PostingFailed(c)
      BY <2>8 DEF Commit
    <3>2. events' \subseteq Call /\ posted' \subseteq Call
      BY <2>2, <2>3, <3>1
    <3>3. holder' \in [Orgs -> Callers \cup {NoOne}]
      BY <2>2, <3>1 DEF Release
    <3>4. faulted' \subseteq CallIds
      BY <2>2, <2>3, <3>1 DEF Fault
    <3>5. /\ pc' \in [Callers -> Labels]
          /\ job' \in [Callers -> Job \cup {NoJob}]
          /\ \A d \in Callers : pc'[d] # "idle" => job'[d] \in Job
          /\ seen' \in [Callers -> Nat]
      BY <2>2, <3>1 DEF Finish, PostingFailed, Labels
    <3> QED BY <1>1, <2>2, <3>1, <3>2, <3>3, <3>4, <3>5 DEF TypeOK
  <2>9. CASE Refuse(c)
    BY <1>1, <2>2, <2>3, <2>9 DEF Refuse, Release, Finish, PostingFailed, TypeOK, Labels
  <2>10. CASE DeleteUsageEvent(c)
    BY <1>1, <2>2, <2>3, <2>10 DEF DeleteUsageEvent, Finish, Fault, TypeOK, Labels
  <2>11. CASE Abort(c)
    BY <1>1, <2>2, <2>3, <2>11
       DEF Abort, Release, Finish, Fault, PostingFailed, TypeOK, Labels
  <2>12. CASE Die(c)
    BY <1>1, <2>2, <2>3, <2>12 DEF Die, Release, Finish, Fault, TypeOK, Labels
  <2> QED BY <2>1, <2>4, <2>5, <2>6, <2>7, <2>8, <2>9, <2>10, <2>11, <2>12 DEF Work
<1> QED BY <1>2, <1>3

-----------------------------------------------------------------------------

\* A step of one caller leaves the calls of the others as they are.
LEMMA OthersStay ==
    ASSUME TypeOK, NEW c \in Callers, Start(c) \/ Work(c) \/ Abort(c) \/ Die(c),
           NEW d \in Callers, d # c
    PROVE  /\ pc'[d] = pc[d]
           /\ job'[d] = job[d]
           /\ seen'[d] = seen[d]
<1>1. /\ pc \in [Callers -> Labels]
      /\ job \in [Callers -> Job \cup {NoJob}]
      /\ seen \in [Callers -> Nat]
  BY DEF TypeOK
<1>2. CASE Start(c) \/ LockWallet(c) \/ Die(c)
  BY <1>1, <1>2 DEF Start, LockWallet, Die, Finish
<1>3. CASE AssertCanSpend(c) \/ InsertUsageEvent(c) \/ DeleteUsageEvent(c)
  BY <1>1, <1>3 DEF AssertCanSpend, InsertUsageEvent, DeleteUsageEvent, GoTo, Finish
<1>4. CASE Commit(c) \/ Refuse(c) \/ Abort(c)
  <2>1. Finish(c) \/ PostingFailed(c)
    BY <1>4 DEF Commit, Refuse, Abort
  <2> QED BY <1>1, <2>1 DEF PostingFailed, Finish
<1> QED BY <1>2, <1>3, <1>4 DEF Work

\* The row lock: nobody else commits between a holder's read and its write.
LEMMA LockStep ==
    ASSUME TypeOK, LockInv, [Next]_vars
    PROVE  LockInv'
<1>1. CASE UNCHANGED vars
  BY <1>1 DEF vars, txnVars, walletVars, LockInv
<1>2. CASE Next
  <2>1. PICK c \in Callers : Start(c) \/ Work(c) \/ Abort(c) \/ Die(c)
    BY <1>2 DEF Next
  <2>2. /\ pc \in [Callers -> Labels]
        /\ job \in [Callers -> Job \cup {NoJob}]
        /\ \A d \in Callers : pc[d] # "idle" => job[d] \in Job /\ job[d].org \in Orgs
        /\ seen \in [Callers -> Nat]
        /\ holder \in [Orgs -> Callers \cup {NoOne}]
        /\ balance \in [Orgs -> Nat]
        /\ NoOne \notin Callers
    BY CallersAssumption DEF TypeOK, WalletTypeOK, Job
  <2> SUFFICES ASSUME NEW d \in Callers, pc'[d] = "holding"
               PROVE  /\ holder'[job'[d].org] = d
                      /\ seen'[d] = balance'[job'[d].org]
    BY DEF LockInv
  <2>3. CASE d # c
    <3>1. /\ pc[d] = "holding" /\ job'[d] = job[d] /\ seen'[d] = seen[d]
          /\ holder[job[d].org] = d /\ seen[d] = balance[job[d].org]
          /\ job[d].org \in Orgs
      BY <2>1, <2>2, <2>3, OthersStay DEF LockInv
    <3> DEFINE p == job[d].org
    <3>2. holder'[p] = d
      <4>1. CASE Release(c)
        BY <2>2, <2>3, <3>1, <4>1 DEF Release
      <4>2. CASE LockWallet(c)
        BY <2>2, <2>3, <3>1, <4>2 DEF LockWallet
      <4>3. CASE UNCHANGED holder
        BY <3>1, <4>3
      <4> QED BY <2>1, <4>1, <4>2, <4>3
              DEF Work, Start, AssertCanSpend, InsertUsageEvent, Commit, Refuse,
                  DeleteUsageEvent, Abort, Die
    <3>3. balance'[p] = balance[p]
      <4>1. CASE Commit(c)
        <5>1. pc[c] = "holding" /\ holder[job[c].org] = c /\ job[c].org # p
          BY <2>3, <3>1, <4>1 DEF Commit, LockInv
        <5> QED BY <2>2, <3>1, <4>1, <5>1 DEF Commit
      <4>2. CASE ~Commit(c)
        BY <2>1, <4>2, OthersDoNotPost DEF Work, walletVars
      <4> QED BY <4>1, <4>2
    <3> QED BY <3>1, <3>2, <3>3
  <2>4. CASE d = c
    <3>1. LockWallet(c)
      <4>1. ~(Finish(c) \/ PostingFailed(c))
        BY <2>2, <2>4 DEF Finish, PostingFailed
      <4>2. ~Start(c)
        BY <2>2, <2>4 DEF Start
      <4>3. ~(AssertCanSpend(c) \/ InsertUsageEvent(c))
        BY <2>2, <2>4 DEF AssertCanSpend, InsertUsageEvent, GoTo, Finish
      <4> QED BY <2>1, <4>1, <4>2, <4>3
              DEF Work, Commit, Refuse, DeleteUsageEvent, Abort, Die
    <3>2. job[c].org \in Orgs
      BY <2>2, <3>1 DEF LockWallet
    <3> QED BY <2>2, <2>4, <3>1, <3>2 DEF LockWallet, walletVars
  <2> QED BY <2>3, <2>4
<1> QED BY <1>1, <1>2

\* A label of an invite's call is only reached by an invite's call.
LEMMA KindStep ==
    ASSUME TypeOK, KindInv, [Next]_vars
    PROVE  KindInv'
<1>1. CASE UNCHANGED vars
  BY <1>1 DEF vars, txnVars, KindInv
<1>2. CASE Next
  <2>1. PICK c \in Callers : Start(c) \/ Work(c) \/ Abort(c) \/ Die(c)
    BY <1>2 DEF Next
  <2>2. pc \in [Callers -> Labels] /\ job \in [Callers -> Job \cup {NoJob}]
    BY DEF TypeOK
  <2>3. pc'[c] \in {"insertEvent", "compensate"} => job'[c].kind = "invite"
    <3>1. CASE Start(c) \/ LockWallet(c) \/ Die(c)
      BY <2>2, <3>1 DEF Start, LockWallet, Die, Finish
    <3>2. CASE AssertCanSpend(c) \/ InsertUsageEvent(c) \/ DeleteUsageEvent(c)
      BY <2>2, <3>2 DEF AssertCanSpend, InsertUsageEvent, DeleteUsageEvent, GoTo, Finish
    <3>3. CASE Commit(c) \/ Refuse(c) \/ Abort(c)
      <4>1. Finish(c) \/ PostingFailed(c)
        BY <3>3 DEF Commit, Refuse, Abort
      <4> QED BY <2>2, <4>1 DEF PostingFailed, Finish
    <3> QED BY <2>1, <3>1, <3>2, <3>3 DEF Work
  <2> QED BY <2>1, <2>3, OthersStay DEF KindInv
<1> QED BY <1>1, <1>2

-----------------------------------------------------------------------------

\* What a step does to the call it belongs to, and to the history.
LEMMA StepEffect ==
    ASSUME TypeOK, NEW c \in Callers, Start(c) \/ Work(c) \/ Abort(c) \/ Die(c)
    PROVE  /\ \/ Start(c)
              \/ pc[c] # "idle" /\ started' = started /\ pc'[c] = "idle"
              \/ pc[c] # "idle" /\ started' = started /\ job'[c] = job[c]
           /\ posted' = posted \/ Commit(c)
           /\ faulted \subseteq faulted'
<1>1. pc \in [Callers -> Labels] /\ job \in [Callers -> Job \cup {NoJob}]
  BY DEF TypeOK
<1>2. CASE Start(c)
  BY <1>2 DEF Start
<1>3. CASE LockWallet(c) \/ Die(c)
  BY <1>1, <1>3 DEF LockWallet, Die, Finish, Fault
<1>4. CASE AssertCanSpend(c) \/ InsertUsageEvent(c) \/ DeleteUsageEvent(c)
  BY <1>1, <1>4
     DEF AssertCanSpend, InsertUsageEvent, DeleteUsageEvent, GoTo, Finish, Fault
<1>5. CASE Commit(c) \/ Refuse(c) \/ Abort(c)
  <2>1. Finish(c) \/ PostingFailed(c)
    BY <1>5 DEF Commit, Refuse, Abort
  <2>2. pc'[c] = "idle" \/ job'[c] = job[c]
    BY <1>1, <2>1 DEF PostingFailed, Finish
  <2>3. pc[c] # "idle" /\ started' = started /\ (posted' = posted \/ Commit(c))
    BY <1>5 DEF Commit, Refuse, Abort
  <2>4. faulted \subseteq faulted'
    BY <1>5 DEF Commit, Refuse, Abort, Fault
  <2> QED BY <2>2, <2>3, <2>4
<1> QED BY <1>2, <1>3, <1>4, <1>5 DEF Work

\* Ids are given out once.
LEMMA IdStep ==
    ASSUME TypeOK, IdInv, [Next]_vars
    PROVE  IdInv'
<1>1. CASE UNCHANGED vars
  BY <1>1 DEF vars, txnVars, IdInv, Busy
<1>2. CASE Next
  <2>1. PICK c \in Callers : Start(c) \/ Work(c) \/ Abort(c) \/ Die(c)
    BY <1>2 DEF Next
  <2>2. /\ job \in [Callers -> Job \cup {NoJob}]
        /\ \A d \in Callers : Busy(d) => job[d] \in Job /\ job[d].id \in Int
        /\ started \in Int
        /\ \A p \in posted : p.id \in Int
    BY CallersAssumption DEF TypeOK, Job, Call, CallIds, Busy
  <2>3. CASE Start(c)
    <3>1. /\ started' = started + 1
          /\ posted' = posted
          /\ job'[c].id = started + 1
      BY <2>2, <2>3 DEF Start
    <3>2. \A d \in Callers : d # c => (Busy(d)' <=> Busy(d)) /\ job'[d] = job[d]
      BY <2>1, OthersStay DEF Busy
    <3> QED BY <2>2, <3>1, <3>2 DEF IdInv
  <2>4. CASE ~Start(c)
    <3>1. \A d \in Callers : Busy(d)' => Busy(d) /\ job'[d] = job[d]
      BY <2>1, <2>4, OthersStay, StepEffect DEF Busy
    <3>2. started' = started
      BY <2>1, <2>4, StepEffect
    <3>3. \A p \in posted' : p.id <= started
      <4>1. CASE posted' = posted
        BY <4>1 DEF IdInv
      <4>2. CASE Commit(c)
        <5>1. posted' = posted \cup {CallOf(c)} /\ Busy(c)
          BY <4>2 DEF Commit, Busy
        <5> QED BY <5>1 DEF IdInv, CallOf
      <4> QED BY <2>1, <4>1, <4>2, StepEffect
    <3> QED BY <3>1, <3>2, <3>3 DEF IdInv
  <2> QED BY <2>3, <2>4
<1> QED BY <1>1, <1>2

\* Two calls in progress are different calls, whatever their kinds.
LEMMA CallsDiffer ==
    ASSUME IdInv, NEW c \in Callers, NEW d \in Callers, c # d, Busy(c), Busy(d)
    PROVE  CallOf(c) # CallOf(d)
<1>1. job[c].id # job[d].id
  BY DEF IdInv
<1>2. CallOf(c).id = job[c].id /\ CallOf(d).id = job[d].id
  BY DEF CallOf
<1> QED BY <1>1, <1>2

\* A call that is still on its way to the wallet has not posted, and an
\* invite's call on its way has its usage event.
LEMMA ProgressStep ==
    ASSUME TypeOK, KindInv, IdInv, ProgressInv, [Next]_vars
    PROVE  ProgressInv'
<1>1. CASE UNCHANGED vars
  BY <1>1 DEF vars, txnVars, ProgressInv, CallOf
<1>2. CASE Next
  <2>1. PICK c \in Callers : Start(c) \/ Work(c) \/ Abort(c) \/ Die(c)
    BY <1>2 DEF Next
  <2>2. /\ pc \in [Callers -> Labels]
        /\ job \in [Callers -> Job \cup {NoJob}]
    BY DEF TypeOK
  <2> SUFFICES ASSUME NEW d \in Callers
               PROVE  /\ pc'[d] \in {"check", "insertEvent", "lock", "holding"} =>
                            CallOf(d)' \notin posted'
                      /\ pc'[d] \in {"lock", "holding"} /\ job'[d].kind = "invite" =>
                            CallOf(d)' \in events'
                      /\ pc'[d] = "compensate" =>
                            CallOf(d)' \notin posted' \/ job'[d].id \in faulted'
    BY DEF ProgressInv
  <2>3. CASE d # c
    <3>1. pc'[d] = pc[d] /\ job'[d] = job[d] /\ CallOf(d)' = CallOf(d)
      BY <2>1, <2>3, OthersStay DEF CallOf
    <3> SUFFICES ASSUME Busy(d)
                 PROVE  /\ CallOf(d) \in posted' => CallOf(d) \in posted
                        /\ CallOf(d) \in events => CallOf(d) \in events'
                        /\ faulted \subseteq faulted'
      BY <3>1 DEF ProgressInv, Busy
    <3>2. CallOf(d) \in posted' => CallOf(d) \in posted
      <4>1. CASE Commit(c)
        <5>1. Busy(c) /\ posted' = posted \cup {CallOf(c)}
          BY <4>1 DEF Commit, Busy
        <5> QED BY <2>3, <5>1, CallsDiffer
      <4> QED BY <2>1, <4>1, StepEffect
    <3>3. CallOf(d) \in events => CallOf(d) \in events'
      <4>1. CASE DeleteUsageEvent(c)
        <5>1. Busy(c) /\ events \ {CallOf(c)} \subseteq events'
          BY <4>1 DEF DeleteUsageEvent, Busy
        <5> QED BY <2>3, <5>1, CallsDiffer
      <4>2. CASE ~DeleteUsageEvent(c)
        <5>1. events \subseteq events'
          BY <2>1, <4>2 DEF Work, Start, AssertCanSpend, InsertUsageEvent, LockWallet,
                            Commit, Refuse, Abort, Die
        <5> QED BY <5>1
      <4> QED BY <4>1, <4>2
    <3> QED BY <2>1, <3>2, <3>3, StepEffect
  <2>4. CASE d = c
    <3>1. CASE Start(c)
      <4>1. /\ posted' = posted /\ job'[c].id = started + 1
            /\ pc'[c] = "check" \/ (pc'[c] = "lock" /\ job'[c].kind = "credit")
        BY <2>2, <3>1 DEF Start
      <4>2. \A p \in posted : p.id # started + 1
        <5> SUFFICES ASSUME NEW p \in posted
                     PROVE  p.id # started + 1
          OBVIOUS
        <5>1. p.id \in Int /\ started \in Int /\ p.id <= started
          BY CallersAssumption DEF TypeOK, Call, CallIds, IdInv
        <5> QED BY <5>1
      <4>3. CallOf(c)'.id = started + 1
        BY <4>1 DEF CallOf
      <4> QED BY <2>4, <4>1, <4>2, <4>3
    <3>2. CASE AssertCanSpend(c) \/ LockWallet(c)
      <4>1. /\ pc[c] \in {"check", "lock"} /\ posted' = posted /\ events' = events
            /\ \/ pc'[c] = "idle"
               \/ /\ job'[c] = job[c]
                  /\ pc'[c] \in {"lock", "holding"} =>
                        pc[c] = "lock" \/ job[c].kind # "invite"
                  /\ pc'[c] # "compensate"
        BY <2>2, <3>2 DEF AssertCanSpend, LockWallet, GoTo, Finish
      <4> QED BY <2>4, <4>1 DEF ProgressInv, CallOf
    <3>3. CASE InsertUsageEvent(c)
      <4>1. /\ pc[c] = "insertEvent" /\ posted' = posted
            /\ \/ pc'[c] = "idle"
               \/ /\ job'[c] = job[c]
                  /\ pc'[c] = "lock"
                  /\ CallOf(c) \in events'
        BY <2>2, <3>3 DEF InsertUsageEvent, GoTo, Finish
      <4> QED BY <2>4, <4>1 DEF ProgressInv, CallOf
    <3>4. CASE Commit(c) \/ Abort(c)
      <4>1. pc'[c] = "idle" \/ (pc'[c] = "compensate" /\ job'[c] = job[c])
        <5>1. Finish(c) \/ PostingFailed(c)
          BY <3>4 DEF Commit, Abort
        <5> QED BY <2>2, <5>1 DEF PostingFailed, Finish
      <4>2. pc'[c] = "compensate" => job[c].id \in faulted'
        <5>1. Finish(c) \/ Fault(c)
          BY <3>4 DEF Commit, Abort
        <5> QED BY <2>2, <5>1 DEF Finish, Fault
      <4> QED BY <2>4, <4>1, <4>2
    <3>5. CASE Refuse(c)
      <4>1. pc'[c] = "idle" \/ (pc'[c] = "compensate" /\ job'[c] = job[c])
        BY <2>2, <3>5 DEF Refuse, PostingFailed, Finish
      <4>2. pc[c] = "holding" /\ posted' = posted
        BY <3>5 DEF Refuse
      <4> QED BY <2>4, <4>1, <4>2 DEF ProgressInv, CallOf
    <3>6. CASE DeleteUsageEvent(c) \/ Die(c)
      BY <2>2, <2>4, <3>6 DEF DeleteUsageEvent, Die, Finish
    <3> QED BY <2>1, <3>1, <3>2, <3>3, <3>4, <3>5, <3>6 DEF Work
  <2> QED BY <2>3, <2>4
<1> QED BY <1>1, <1>2

-----------------------------------------------------------------------------

\* The kind of a usage event's call is never in doubt when it is taken back:
\* only an invite's call is left settling by a posting that failed.
LEMMA SettlingStays ==
    ASSUME TypeOK, KindInv, NEW c \in Callers, Start(c) \/ Work(c) \/ Abort(c) \/ Die(c),
           NEW e, e.kind = "invite", Settling(e)
    PROVE  \/ Settling(e)'
           \/ e \in posted'
           \/ e.id \in faulted'
           \/ e \notin events'
<1>1. PICK d \in Callers : pc[d] \in {"lock", "holding", "compensate"} /\ CallOf(d) = e
  BY DEF Settling
<1>2. pc \in [Callers -> Labels] /\ job \in [Callers -> Job \cup {NoJob}]
  BY DEF TypeOK
<1>3. job[d].kind = "invite" /\ job[d].id = e.id
  BY <1>1 DEF CallOf
<1>4. CASE d # c
  <2>1. pc'[d] = pc[d] /\ CallOf(d)' = CallOf(d)
    BY <1>4, OthersStay DEF CallOf
  <2> QED BY <1>1, <2>1 DEF Settling
<1>5. CASE d = c
  <2>1. CASE LockWallet(c)
    <3>1. pc'[c] = "holding" /\ CallOf(c)' = CallOf(c)
      BY <1>2, <2>1 DEF LockWallet, CallOf
    <3> QED BY <1>1, <1>5, <3>1 DEF Settling
  <2>2. CASE Commit(c)
    BY <1>1, <1>5, <2>2 DEF Commit
  <2>3. CASE Refuse(c)
    <3>1. pc'[c] = "compensate" /\ CallOf(c)' = CallOf(c)
      BY <1>2, <1>3, <1>5, <2>3 DEF Refuse, PostingFailed, CallOf
    <3> QED BY <1>1, <1>5, <3>1 DEF Settling
  <2>4. CASE DeleteUsageEvent(c)
    BY <1>1, <1>3, <1>5, <2>4 DEF DeleteUsageEvent, Fault
  <2>5. CASE Abort(c) \/ Die(c)
    BY <1>3, <1>5, <2>5 DEF Abort, Die, Fault
  <2>6. ~(Start(c) \/ AssertCanSpend(c) \/ InsertUsageEvent(c))
    BY <1>1, <1>5 DEF Start, AssertCanSpend, InsertUsageEvent
  <2> QED BY <2>1, <2>2, <2>3, <2>4, <2>5, <2>6 DEF Work
<1> QED BY <1>4, <1>5

\* No step leaves an event behind that nobody paid for and nobody will.
LEMMA PaidStep ==
    ASSUME TypeOK, KindInv, UsageEventsArePaid, [Next]_vars
    PROVE  UsageEventsArePaid'
<1>1. CASE UNCHANGED vars
  BY <1>1 DEF vars, txnVars, UsageEventsArePaid, Settling, CallOf
<1>2. CASE Next
  <2>1. PICK c \in Callers : Start(c) \/ Work(c) \/ Abort(c) \/ Die(c)
    BY <1>2 DEF Next
  <2>2. pc \in [Callers -> Labels] /\ job \in [Callers -> Job \cup {NoJob}]
    BY DEF TypeOK
  <2> SUFFICES ASSUME NEW e \in events'
               PROVE  \/ e \in posted'
                      \/ e.kind = "invite" /\ (Settling(e)' \/ e.id \in faulted')
    BY DEF UsageEventsArePaid
  <2>3. CASE e \in events
    <3>1. CASE e \in posted
      BY <2>1, <3>1, StepEffect DEF Commit
    <3>2. CASE e.kind = "invite" /\ e.id \in faulted
      BY <2>1, <3>2, StepEffect
    <3>3. CASE e.kind = "invite" /\ Settling(e)
      BY <2>1, <3>3, SettlingStays
    <3> QED BY <2>3, <3>1, <3>2, <3>3 DEF UsageEventsArePaid
  <2>4. CASE e \notin events
    <3>1. CASE InsertUsageEvent(c)
      <4>1. /\ e = CallOf(c)
            /\ job[c].kind = "invite"
            /\ \/ pc'[c] = "lock" /\ job'[c] = job[c]
               \/ job[c].id \in faulted'
        BY <2>2, <2>4, <3>1 DEF InsertUsageEvent, GoTo, Fault, KindInv
      <4> QED BY <4>1 DEF CallOf, Settling
    <3>2. CASE Commit(c)
      BY <2>4, <3>2 DEF Commit
    <3>3. CASE ~InsertUsageEvent(c) /\ ~Commit(c)
      BY <2>1, <2>4, <3>3 DEF Work, Start, AssertCanSpend, LockWallet, Refuse,
                              DeleteUsageEvent, Abort, Die
    <3> QED BY <3>1, <3>2, <3>3
  <2> QED BY <2>3, <2>4
<1> QED BY <1>1, <1>2

\* No step takes the event of a debit that stands, unless the call met a
\* fault.
LEMMA RecordedStep ==
    ASSUME TypeOK, KindInv, IdInv, ProgressInv, PaidUsageIsRecorded, [Next]_vars
    PROVE  PaidUsageIsRecorded'
<1>1. CASE UNCHANGED vars
  BY <1>1 DEF vars, txnVars, PaidUsageIsRecorded
<1>2. CASE Next
  <2>1. PICK c \in Callers : Start(c) \/ Work(c) \/ Abort(c) \/ Die(c)
    BY <1>2 DEF Next
  <2> SUFFICES ASSUME NEW p \in posted', p.kind # "credit"
               PROVE  p \in events' \/ p.id \in faulted'
    BY DEF PaidUsageIsRecorded
  <2>2. CASE Commit(c)
    <3>1. /\ posted' = posted \cup {CallOf(c)}
          /\ events' = (IF job[c].kind = "usage" THEN events \cup {CallOf(c)} ELSE events)
          /\ pc[c] = "holding" /\ job[c] \in Job
      BY <2>2 DEF Commit, TypeOK
    <3>2. CASE p = CallOf(c)
      BY <3>1, <3>2 DEF ProgressInv, CallOf, Job, Kinds
    <3>3. CASE p \in posted
      BY <2>1, <3>1, <3>3, StepEffect DEF PaidUsageIsRecorded
    <3> QED BY <3>1, <3>2, <3>3
  <2>3. CASE DeleteUsageEvent(c)
    <3>1. /\ pc[c] = "compensate" /\ posted' = posted
          /\ events \ {CallOf(c)} \subseteq events'
          /\ faulted \subseteq faulted'
      BY <2>1, <2>3, StepEffect DEF DeleteUsageEvent
    <3>2. CASE p = CallOf(c)
      BY <3>1, <3>2 DEF ProgressInv, CallOf
    <3>3. CASE p # CallOf(c)
      BY <3>1, <3>3 DEF PaidUsageIsRecorded
    <3> QED BY <3>2, <3>3
  <2>4. CASE ~Commit(c) /\ ~DeleteUsageEvent(c)
    <3>1. events \subseteq events'
      BY <2>1, <2>4 DEF Work, Start, AssertCanSpend, InsertUsageEvent, LockWallet, Refuse,
                        Abort, Die
    <3>2. posted' = posted /\ faulted \subseteq faulted'
      BY <2>1, <2>4, StepEffect
    <3> QED BY <3>1, <3>2 DEF PaidUsageIsRecorded
  <2> QED BY <2>2, <2>3, <2>4
<1> QED BY <1>1, <1>2

-----------------------------------------------------------------------------

IInv ==
    /\ TypeOK /\ LedgerExplainsBalance
    /\ LockInv /\ KindInv /\ IdInv /\ ProgressInv
    /\ UsageEventsArePaid /\ PaidUsageIsRecorded

\* The conjunction of the parts above is inductive.
THEOREM InvariantHolds == Spec => []IInv
<1>1. Init => IInv
  BY InitInv DEF IInv
<1>2. IInv /\ [Next]_vars => IInv'
  BY TypeStep, StepKeepsWallet, LockStep, KindStep, IdStep, ProgressStep, PaidStep,
     RecordedStep DEF IInv
<1> QED BY <1>1, <1>2, PTL DEF Spec

\* The variables of the transactions have their types, the balance never is
\* negative among them.
THEOREM TypeCorrect == Spec => []TypeOK
<1>1. IInv => TypeOK
  BY DEF IInv
<1> QED BY <1>1, InvariantHolds, PTL

\* mutate_wallet, run by any number of callers under the row lock, implements
\* the wallet whose postings happen in one step.
THEOREM TransactionsImplementWallet == Spec => WalletSpec
<1>1. Init => WalletInit
  BY DEF Init
<1>2. IInv /\ [Next]_vars => [WalletNext]_walletVars
  BY StepIsPost DEF IInv
<1> QED BY <1>1, <1>2, InvariantHolds, PTL DEF Spec, WalletSpec

\* So the ledger explains the balance after every transaction.
THEOREM LedgerIsComplete == Spec => []LedgerExplainsBalance
<1> QED BY TransactionsImplementWallet, WalletLedgerCorrect, PTL

\* Usage on record was paid for, or belongs to an invite's call that is still
\* settling or that met a fault.
THEOREM UsageIsPaid == Spec => []UsageEventsArePaid
<1>1. IInv => UsageEventsArePaid
  BY DEF IInv
<1> QED BY <1>1, InvariantHolds, PTL

\* A debit that committed keeps its usage event, unless its call met a fault.
THEOREM DebitsAreRecorded == Spec => []PaidUsageIsRecorded
<1>1. IInv => PaidUsageIsRecorded
  BY DEF IInv
<1> QED BY <1>1, InvariantHolds, PTL

=============================================================================
