------------------------- MODULE WalletTransactions -------------------------
(***************************************************************************)
(* The transactions behind the wallet.  Several callers at once run        *)
(*                                                                         *)
(*   "credit"  creditWallet: one mutate_wallet transaction                 *)
(*   "usage"   recordUsageCharge: a balance check in its own statement,    *)
(*             then record_usage_charge, one transaction that inserts the  *)
(*             usage event and debits the wallet                           *)
(*   "invite"  recordInviteCharge: the same check, then the usage event in *)
(*             a statement of its own, then the debit, and a delete of the *)
(*             event when the debit fails                                  *)
(*                                                                         *)
(* A transaction holds the wallet's row lock from its SELECT ... FOR       *)
(* UPDATE to its end, and nothing it wrote is seen before it commits.      *)
(* A statement may fail, its answer may be lost after it took effect, and  *)
(* a caller may die anywhere.                                              *)
(***************************************************************************)
EXTENDS WalletLedger, FiniteSets

CONSTANTS
    Callers,    \* server processes that call the billing functions
    MaxCalls,   \* bound: how many calls are made in all
    MaxFaults,  \* bound: calls that meet a failed statement, a lost answer
                \* or the death of their process
    NoOne,      \* holder of a row lock nobody holds
    NoJob       \* job of an idle caller

ASSUME CallersAssumption ==
    /\ NoOne \notin Callers
    /\ MaxCalls \in Nat
    /\ MaxFaults \in Nat

VARIABLES
    pc,       \* pc[c]: where caller c is
    job,      \* job[c]: the call c is making
    seen,     \* seen[c]: balance c read under the row lock
    holder,   \* holder[o]: the transaction that holds o's wallet row
    events,   \* usage_events: the calls that have a row there
    started,  \* how many calls were made
    posted,   \* history: calls whose wallet posting committed
    faulted   \* history: calls that met a fault

txnVars == <<pc, job, seen, holder, events, started, posted, faulted>>
vars == <<walletVars, txnVars>>

Kinds == {"credit", "usage", "invite"}
CallIds == 1..MaxCalls
Job == [kind : Kinds, org : Orgs, amount : Amounts, id : CallIds]
Call == [id : CallIds, kind : Kinds]

Direction(kind) == IF kind = "credit" THEN "credit" ELSE "debit"
CallOf(c) == [id |-> job[c].id, kind |-> job[c].kind]

Init ==
    /\ WalletInit
    /\ pc = [c \in Callers |-> "idle"]
    /\ job = [c \in Callers |-> NoJob]
    /\ seen = [c \in Callers |-> 0]
    /\ holder = [o \in Orgs |-> NoOne]
    /\ events = {}
    /\ started = 0
    /\ posted = {}
    /\ faulted = {}

-----------------------------------------------------------------------------

Finish(c) ==
    /\ pc' = [pc EXCEPT ![c] = "idle"]
    /\ job' = [job EXCEPT ![c] = NoJob]
    /\ seen' = [seen EXCEPT ![c] = 0]

GoTo(c, label) ==
    /\ pc' = [pc EXCEPT ![c] = label]
    /\ UNCHANGED <<job, seen>>

\* The posting threw: recordInviteCharge's catch block deletes the usage
\* event, the other two callers rethrow.
PostingFailed(c) ==
    IF job[c].kind = "invite"
      THEN /\ pc' = [pc EXCEPT ![c] = "compensate"]
           /\ seen' = [seen EXCEPT ![c] = 0]
           /\ UNCHANGED job
      ELSE Finish(c)

Fault(c) ==
    /\ faulted' = faulted \cup {job[c].id}
    /\ Cardinality(faulted') <= MaxFaults

\* Mutant: a transaction ends without giving its row lock back.
ReleaseNothing(c) == UNCHANGED holder

Release(c) == holder' = [o \in Orgs |-> IF holder[o] = c THEN NoOne ELSE holder[o]]

-----------------------------------------------------------------------------

Start(c) ==
    /\ pc[c] = "idle"
    /\ started < MaxCalls
    /\ \E kind \in Kinds, o \in Orgs, amount \in Amounts :
          /\ job' = [job EXCEPT ![c] = [kind |-> kind, org |-> o,
                                         amount |-> amount, id |-> started + 1]]
          /\ pc' = [pc EXCEPT ![c] = IF kind = "credit" THEN "lock" ELSE "check"]
    /\ started' = started + 1
    /\ UNCHANGED <<walletVars, seen, holder, events, posted, faulted>>

\* Mutant: an invite's debit is tried before its usage event is recorded.
AssertCanSpendDebitFirst(c) ==
    /\ pc[c] = "check"
    /\ IF balance[job[c].org] < job[c].amount THEN Finish(c) ELSE GoTo(c, "lock")
    /\ UNCHANGED <<walletVars, holder, events, started, posted, faulted>>

\* assertCanSpend: reads the committed balance, outside any transaction that
\* posts.  What it saw may be gone when the posting runs.
AssertCanSpend(c) ==
    /\ pc[c] = "check"
    /\ IF balance[job[c].org] < job[c].amount
         THEN Finish(c)
         ELSE GoTo(c, IF job[c].kind = "invite" THEN "insertEvent" ELSE "lock")
    /\ UNCHANGED <<walletVars, holder, events, started, posted, faulted>>

\* recordInviteCharge inserts the usage event by itself, before the debit.
\* When the answer is lost the row stays and the call ends.
InsertUsageEvent(c) ==
    /\ pc[c] = "insertEvent"
    /\ \/ /\ events' = events \cup {CallOf(c)}
          /\ GoTo(c, "lock")
          /\ UNCHANGED faulted
       \/ /\ Fault(c)
          /\ events' \in {events, events \cup {CallOf(c)}}
          /\ Finish(c)
    /\ UNCHANGED <<walletVars, holder, started, posted>>

\* Mutant: a plain SELECT, which does not wait for the row.
LockWalletPlainSelect(c) ==
    LET o == job[c].org IN
    /\ pc[c] = "lock"
    /\ holder' = [holder EXCEPT ![o] = c]
    /\ seen' = [seen EXCEPT ![c] = balance[o]]
    /\ pc' = [pc EXCEPT ![c] = "holding"]
    /\ UNCHANGED <<walletVars, job, events, started, posted, faulted>>

\* SELECT ... FOR UPDATE: waits while another transaction holds the row.
LockWallet(c) ==
    LET o == job[c].org IN
    /\ pc[c] = "lock"
    /\ holder[o] = NoOne
    /\ holder' = [holder EXCEPT ![o] = c]
    /\ seen' = [seen EXCEPT ![c] = balance[o]]
    /\ pc' = [pc EXCEPT ![c] = "holding"]
    /\ UNCHANGED <<walletVars, job, events, started, posted, faulted>>

\* The rest of mutate_wallet and, for "usage", of record_usage_charge: the
\* balance update, the ledger row and the usage event become visible at once.
Commit(c) ==
    LET o == job[c].org
        direction == Direction(job[c].kind)
    IN
    /\ pc[c] = "holding"
    /\ Accepts(seen[c], direction, job[c].amount)
    /\ balance' = [balance EXCEPT
                     ![o] = NextBalance(seen[c], direction, job[c].amount)]
    /\ ledger' = [ledger EXCEPT
                     ![o] = Append(@, Row(seen[c], direction, job[c].amount))]
    /\ events' = IF job[c].kind = "usage" THEN events \cup {CallOf(c)} ELSE events
    /\ posted' = posted \cup {CallOf(c)}
    /\ Release(c)
    /\ \/ Finish(c) /\ UNCHANGED faulted
       \/ Fault(c) /\ PostingFailed(c)
    /\ UNCHANGED started

\* Mutant: a refused debit ends the call without the catch block.
RefuseWithoutCleanup(c) ==
    /\ pc[c] = "holding"
    /\ ~Accepts(seen[c], Direction(job[c].kind), job[c].amount)
    /\ Release(c)
    /\ Finish(c)
    /\ UNCHANGED <<walletVars, events, started, posted, faulted>>

\* "Insufficient wallet balance.": the exception rolls the transaction back.
Refuse(c) ==
    /\ pc[c] = "holding"
    /\ ~Accepts(seen[c], Direction(job[c].kind), job[c].amount)
    /\ Release(c)
    /\ PostingFailed(c)
    /\ UNCHANGED <<walletVars, events, started, posted, faulted>>

\* The statement fails before its transaction commits.
Abort(c) ==
    /\ pc[c] \in {"lock", "holding"}
    /\ Fault(c)
    /\ Release(c)
    /\ PostingFailed(c)
    /\ UNCHANGED <<walletVars, events, started, posted>>

\* The catch block of recordInviteCharge.  Nobody looks at the delete's own
\* error, so a failed delete also ends the call.
DeleteUsageEvent(c) ==
    /\ pc[c] = "compensate"
    /\ \/ events' = events \ {CallOf(c)} /\ UNCHANGED faulted
       \/ Fault(c) /\ UNCHANGED events
    /\ Finish(c)
    /\ UNCHANGED <<walletVars, holder, started, posted>>

\* The caller's process dies and the database rolls its open transaction
\* back.  (A transaction that commits although its caller died is Commit with
\* a lost answer, followed by Die.)
Die(c) ==
    /\ pc[c] # "idle"
    /\ Fault(c)
    /\ Release(c)
    /\ Finish(c)
    /\ UNCHANGED <<walletVars, events, started, posted>>

Work(c) ==
    \/ AssertCanSpend(c)
    \/ InsertUsageEvent(c)
    \/ LockWallet(c)
    \/ Commit(c)
    \/ Refuse(c)
    \/ DeleteUsageEvent(c)

Next == \E c \in Callers : Start(c) \/ Work(c) \/ Abort(c) \/ Die(c)

Spec == Init /\ [][Next]_vars

\* The runtime keeps running the calls it started and Postgres hands a
\* released row lock to a waiter; nobody has to make calls, and no fault has
\* to happen.
Fairness == \A c \in Callers : WF_vars(Work(c)) /\ SF_vars(LockWallet(c))

FairSpec == Spec /\ Fairness

-----------------------------------------------------------------------------

Labels == {"idle", "check", "insertEvent", "lock", "holding", "compensate"}

TypeOK ==
    /\ WalletTypeOK
    /\ pc \in [Callers -> Labels]
    /\ job \in [Callers -> Job \cup {NoJob}]
    /\ \A c \in Callers : pc[c] # "idle" => job[c] \in Job
    /\ seen \in [Callers -> Nat]
    /\ holder \in [Orgs -> Callers \cup {NoOne}]
    /\ events \subseteq Call
    /\ started \in 0..MaxCalls
    /\ posted \subseteq Call
    /\ faulted \subseteq CallIds

\* A call that can still pay for, or take back, its usage event.
Settling(e) ==
    \E c \in Callers :
        /\ pc[c] \in {"lock", "holding", "compensate"}
        /\ CallOf(c) = e

\* Usage that is on record was paid for: record_usage_charge has no window at
\* all, and recordInviteCharge leaves an unpaid event behind only when a
\* fault hit the call, never because two calls raced for the same balance.
UsageEventsArePaid ==
    \A e \in events :
        \/ e \in posted
        \/ e.kind = "invite" /\ (Settling(e) \/ e.id \in faulted)

\* The other direction: a debit that reached the ledger keeps its usage
\* event, unless recordInviteCharge lost the debit's answer and then deleted
\* the event of a debit that stands.
PaidUsageIsRecorded ==
    \A p \in posted :
        p.kind # "credit" => p \in events \/ p.id \in faulted

\* Every call ends, also when its wallet row is contended and when the
\* transaction that holds the row dies.
CallsEnd == \A c \in Callers : pc[c] # "idle" ~> pc[c] = "idle"

=============================================================================
