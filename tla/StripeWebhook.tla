--------------------------- MODULE StripeWebhook ---------------------------
(***************************************************************************)
(* POST /api/billing/webhook and the idempotency fence it runs behind, the *)
(* table stripe_events (src/lib/billing/wallet.ts).                        *)
(*                                                                         *)
(* Stripe delivers an event again until it is answered 2xx, and may        *)
(* deliver one again after that.  Deliveries of one event may overlap: a   *)
(* handler that outlives Stripe's timeout is still running when the next   *)
(* attempt arrives.  Every await of the handler is a step of its own; it   *)
(* can fail before it takes effect, take effect and lose its answer, and   *)
(* the process can die at any of them.                                     *)
(***************************************************************************)
EXTENDS WalletLedger

CONSTANTS
    Events,     \* Stripe events, by event.id
    Handlers,   \* concurrent executions of the route
    Kind,       \* Kind[e]: which branch of POST event e takes
    OrgOf,      \* OrgOf[e]: the organisation e is about
    CreditOf,   \* CreditOf[e]: cents e is worth, 0 when its branch credits nothing
    MaxFaults,  \* bound: failed awaits, lost answers and deaths
    NoEvent     \* what an idle handler works on

EventKinds == {"topup", "plan", "renewal", "updated", "other"}

ASSUME EventsAssumption ==
    /\ NoEvent \notin Events
    /\ Kind \in [Events -> EventKinds]
    /\ OrgOf \in [Events -> Orgs]
    /\ CreditOf \in [Events -> Amounts]
    /\ MaxFaults \in Nat

VARIABLES
    status,        \* status[e]: stripe_events.status, "absent" without a row
    stale,         \* events whose row was created over 15 minutes ago
    live,          \* live[o]: version of o's subscription at Stripe
    snapshot,      \* snapshot[e]: version event e carries
    subscription,  \* subscription[o]: version recorded on the orgs row
    emitted,       \* events Stripe has emitted
    outstanding,   \* events Stripe has no 2xx for
    pc,            \* pc[h]: the await handler h is at
    event,         \* event[h]: the event h handles
    copy,          \* copy[h]: the subscription version h holds
    paid,          \* history: paid[h], h's own credit committed
    credits,       \* history: credits[e], ledger rows posted for e
    faults,        \* history: how many faults happened
    mishaps        \* history: pairs <<what, e>> of what went wrong for e

stripeVars == <<live, snapshot, emitted, outstanding>>
rowVars == <<status, stale, subscription>>
handlerVars == <<pc, event, copy, paid>>
historyVars == <<credits, faults, mishaps>>
vars == <<walletVars, stripeVars, rowVars, handlerVars, historyVars>>

Statuses == {"absent", "processing", "processed", "failed"}
Mishaps == {"abandoned", "overlap", "skipped", "updateLost", "overtaken", "answeredEarly"}

\* Labels between the reservation and the answer.
Accepted == {"retrieve", "findOrg", "credit", "update", "markProcessed", "markFailed"}
Labels == {"idle", "reserve", "readStatus", "takeOver"} \cup Accepted

InFlight(h, e) == event[h] = e /\ pc[h] \in Accepted

Init ==
    /\ WalletInit
    /\ status = [e \in Events |-> "absent"]
    /\ stale = {}
    /\ live = [o \in Orgs |-> 0]
    /\ snapshot = [e \in Events |-> 0]
    /\ subscription = [o \in Orgs |-> 0]
    /\ emitted = {}
    /\ outstanding = {}
    /\ pc = [h \in Handlers |-> "idle"]
    /\ event = [h \in Handlers |-> NoEvent]
    /\ copy = [h \in Handlers |-> 0]
    /\ paid = [h \in Handlers |-> FALSE]
    /\ credits = [e \in Events |-> 0]
    /\ faults = 0
    /\ mishaps = {}

-----------------------------------------------------------------------------
(* The order of the awaits in each branch of POST.                          *)

Entry(e) ==
    CASE Kind[e] = "topup"   -> "credit"
      [] Kind[e] = "plan"    -> "retrieve"
      [] Kind[e] = "renewal" -> "retrieve"
      [] Kind[e] = "updated" -> "findOrg"
      [] OTHER               -> "markProcessed"

AfterRetrieve(e) == IF Kind[e] = "plan" THEN "update" ELSE "findOrg"
AfterFindOrg(e) == IF Kind[e] = "renewal" THEN "credit" ELSE "update"

\* Mutant: the renewal branch ends after its credit.
AfterCreditForgetsOrg(e) == "markProcessed"

AfterCredit(e) == IF Kind[e] = "renewal" THEN "update" ELSE "markProcessed"
AfterUpdate(e) == IF Kind[e] = "plan" THEN "credit" ELSE "markProcessed"

-----------------------------------------------------------------------------
(* Steps of a handler that end it, and faults.                              *)

GoTo(h, label) ==
    /\ pc' = [pc EXCEPT ![h] = label]
    /\ UNCHANGED <<event, copy, paid>>

Leave(h) ==
    /\ pc' = [pc EXCEPT ![h] = "idle"]
    /\ event' = [event EXCEPT ![h] = NoEvent]
    /\ copy' = [copy EXCEPT ![h] = 0]
    /\ paid' = [paid EXCEPT ![h] = FALSE]

\* 200 ends Stripe's retries; 500, or no answer at all, leaves them on.
Answer200(h) ==
    /\ outstanding' = outstanding \ {event[h]}
    /\ Leave(h)
    /\ UNCHANGED <<live, snapshot, emitted>>

Answer500(h) == Leave(h) /\ UNCHANGED stripeVars

Fault == faults < MaxFaults /\ faults' = faults + 1

Note(what, e) == mishaps' = mishaps \cup {<<what, e>>}

\* Mutant: the catch block falls through to markStripeEventProcessed.
ThrowFallsThrough(h, committed) ==
    /\ GoTo(h, "markProcessed")
    /\ UNCHANGED mishaps

\* An exception inside the try block: the catch block comes next.  A handler
\* whose credit is already in the ledger abandons it here.
Throw(h, committed) ==
    /\ GoTo(h, "markFailed")
    /\ IF committed THEN Note("abandoned", event[h]) ELSE UNCHANGED mishaps

-----------------------------------------------------------------------------
(* Stripe.                                                                  *)

\* Something happens at Stripe: every kind but a top-up changes the
\* subscription, and the event carries the version it made.
Emit(e) ==
    /\ e \notin emitted
    /\ emitted' = emitted \cup {e}
    /\ outstanding' = outstanding \cup {e}
    /\ IF Kind[e] \in {"plan", "renewal", "updated"}
         THEN /\ live' = [live EXCEPT ![OrgOf[e]] = @ + 1]
              /\ snapshot' = [snapshot EXCEPT ![e] = live[OrgOf[e]] + 1]
         ELSE UNCHANGED <<live, snapshot>>
    /\ UNCHANGED <<walletVars, rowVars, handlerVars, historyVars>>

Deliver(h, e) ==
    /\ pc[h] = "idle"
    /\ e \in emitted
    /\ pc' = [pc EXCEPT ![h] = "reserve"]
    /\ event' = [event EXCEPT ![h] = e]
    /\ copy' = [copy EXCEPT ![h] = snapshot[e]]
    /\ UNCHANGED <<walletVars, stripeVars, rowVars, paid, historyVars>>

\* created_at is set once: a retry that takes the row over does not renew it.
GrowStale(e) ==
    /\ status[e] # "absent"
    /\ e \notin stale
    /\ stale' = stale \cup {e}
    /\ UNCHANGED <<walletVars, stripeVars, status, subscription, handlerVars, historyVars>>

-----------------------------------------------------------------------------
(* reserveStripeEvent, which POST calls outside its try block.              *)

\* Mutant: the row is upserted, so that the fence lets duplicates through.
ReserveUpserts(h) ==
    /\ pc[h] = "reserve"
    /\ status' = [status EXCEPT ![event[h]] = "processing"]
    /\ GoTo(h, Entry(event[h]))
    /\ UNCHANGED <<walletVars, stripeVars, stale, subscription, historyVars>>

Reserve(h) ==
    LET e == event[h] IN
    /\ pc[h] = "reserve"
    /\ IF status[e] = "absent"
         THEN /\ status' = [status EXCEPT ![e] = "processing"]
              /\ GoTo(h, Entry(e))
         ELSE /\ GoTo(h, "readStatus")
              /\ UNCHANGED status
    /\ UNCHANGED <<walletVars, stripeVars, stale, subscription, historyVars>>

\* A duplicate is answered 200 whatever became of the delivery that holds the
\* reservation.
ReadStatus(h) ==
    LET e == event[h] IN
    /\ pc[h] = "readStatus"
    /\ \/ /\ status[e] = "failed" \/ (status[e] = "processing" /\ e \in stale)
          /\ GoTo(h, "takeOver")
          /\ UNCHANGED <<stripeVars, mishaps>>
       \/ /\ status[e] = "processing" /\ e \notin stale
          /\ Note("answeredEarly", e)
          /\ Answer200(h)
       \/ /\ status[e] = "processed"
          /\ Answer200(h)
          /\ UNCHANGED mishaps
    /\ UNCHANGED <<walletVars, rowVars, credits, faults>>

\* Mutant: the retry update is not restricted to rows that are still open.
TakeOverAnyRow(h) ==
    LET e == event[h] IN
    /\ pc[h] = "takeOver"
    /\ status' = [status EXCEPT ![e] = "processing"]
    /\ GoTo(h, Entry(e))
    /\ UNCHANGED <<walletVars, stripeVars, stale, subscription, historyVars>>

\* The conditional update: it finds the row unless another delivery has
\* processed the event since the read.
TakeOver(h) ==
    LET e == event[h] IN
    /\ pc[h] = "takeOver"
    /\ IF status[e] \in {"failed", "processing"}
         THEN /\ status' = [status EXCEPT ![e] = "processing"]
              /\ GoTo(h, Entry(e))
              /\ IF \E g \in Handlers : InFlight(g, e)
                   THEN Note("overlap", e)
                   ELSE UNCHANGED mishaps
              /\ UNCHANGED stripeVars
         ELSE /\ Answer200(h)
              /\ UNCHANGED <<status, mishaps>>
    /\ UNCHANGED <<walletVars, stale, subscription, credits, faults>>

\* The insert, the read or the update throws, before or after it took effect.
ReservationFails(h) ==
    LET e == event[h] IN
    /\ pc[h] \in {"reserve", "readStatus", "takeOver"}
    /\ Fault
    /\ \/ UNCHANGED status
       \/ /\ \/ pc[h] = "reserve" /\ status[e] = "absent"
             \/ pc[h] = "takeOver" /\ status[e] \in {"failed", "processing"}
          /\ status' = [status EXCEPT ![e] = "processing"]
    /\ Answer500(h)
    /\ UNCHANGED <<walletVars, stale, subscription, credits, mishaps>>

-----------------------------------------------------------------------------
(* The try block.                                                           *)

\* stripe.subscriptions.retrieve: the version that is live now.
Retrieve(h) ==
    LET e == event[h] IN
    /\ pc[h] = "retrieve"
    /\ \/ /\ copy' = [copy EXCEPT ![h] = live[OrgOf[e]]]
          /\ pc' = [pc EXCEPT ![h] = AfterRetrieve(e)]
          /\ UNCHANGED <<event, paid, faults, mishaps>>
       \/ Fault /\ Throw(h, FALSE)
    /\ UNCHANGED <<walletVars, stripeVars, rowVars, credits>>

\* findOrgIdForSubscription drops the error of its query: a failed lookup
\* reads as an organisation that does not exist, and the branch is skipped.
FindOrg(h) ==
    LET e == event[h] IN
    /\ pc[h] = "findOrg"
    /\ \/ GoTo(h, AfterFindOrg(e)) /\ UNCHANGED <<faults, mishaps>>
       \/ Fault /\ Note("skipped", e) /\ GoTo(h, "markProcessed")
    /\ UNCHANGED <<walletVars, stripeVars, rowVars, credits>>

\* creditIncludedUsage and creditRenewalUsage return before the posting when
\* the plan includes no usage, as the top-up does when its amount is 0.
SkipCredit(h) ==
    LET e == event[h] IN
    /\ pc[h] = "credit"
    /\ CreditOf[e] = 0
    /\ GoTo(h, AfterCredit(e))
    /\ UNCHANGED <<walletVars, stripeVars, rowVars, historyVars>>

Credit(h) ==
    LET e == event[h] IN
    /\ pc[h] = "credit"
    /\ CreditOf[e] > 0
    /\ Post(OrgOf[e], "credit", CreditOf[e])
    /\ credits' = [credits EXCEPT ![e] = @ + 1]
    /\ \/ /\ pc' = [pc EXCEPT ![h] = AfterCredit(e)]
          /\ paid' = [paid EXCEPT ![h] = TRUE]
          /\ UNCHANGED <<event, copy, faults, mishaps>>
       \/ Fault /\ Throw(h, TRUE)
    /\ UNCHANGED <<stripeVars, rowVars>>

CreditFails(h) ==
    /\ pc[h] = "credit"
    /\ Fault
    /\ Throw(h, FALSE)
    /\ UNCHANGED <<walletVars, stripeVars, rowVars, credits>>

\* updateOrgSubscriptionState writes what the handler holds, over whatever is
\* there, and does not look at the error of its update.
UpdateOrg(h) ==
    LET e == event[h]
        o == OrgOf[e]
    IN
    /\ pc[h] = "update"
    /\ GoTo(h, AfterUpdate(e))
    /\ \/ /\ subscription' = [subscription EXCEPT ![o] = copy[h]]
          /\ IF copy[h] < subscription[o]
               THEN Note("overtaken", e)
               ELSE UNCHANGED mishaps
          /\ UNCHANGED faults
       \/ /\ Fault
          /\ Note("updateLost", e)
          /\ UNCHANGED subscription
    /\ UNCHANGED <<walletVars, stripeVars, status, stale, credits>>

MarkProcessed(h) ==
    LET e == event[h] IN
    /\ pc[h] = "markProcessed"
    /\ \/ /\ status' = [status EXCEPT ![e] = "processed"]
          /\ Answer200(h)
          /\ UNCHANGED <<faults, mishaps>>
       \/ /\ Fault
          /\ status' \in {status, [status EXCEPT ![e] = "processed"]}
          /\ Throw(h, paid[h])
          /\ UNCHANGED stripeVars
    /\ UNCHANGED <<walletVars, stale, subscription, credits>>

\* Mutant: the catch block answers 200.
MarkFailedAnswers200(h) ==
    /\ pc[h] = "markFailed"
    /\ status' = [status EXCEPT ![event[h]] = "failed"]
    /\ Answer200(h)
    /\ UNCHANGED <<walletVars, stale, subscription, credits, faults, mishaps>>

\* The catch block.  Its own failure is swallowed; the answer is 500.
MarkFailed(h) ==
    LET e == event[h] IN
    /\ pc[h] = "markFailed"
    /\ \/ status' = [status EXCEPT ![e] = "failed"] /\ UNCHANGED faults
       \/ Fault /\ UNCHANGED status
    /\ Answer500(h)
    /\ UNCHANGED <<walletVars, stale, subscription, credits, mishaps>>

Die(h) ==
    /\ pc[h] # "idle"
    /\ Fault
    /\ IF paid[h] THEN Note("abandoned", event[h]) ELSE UNCHANGED mishaps
    /\ Answer500(h)
    /\ UNCHANGED <<walletVars, rowVars, credits>>

Work(h) ==
    \/ Reserve(h) \/ ReadStatus(h) \/ TakeOver(h)
    \/ Retrieve(h) \/ FindOrg(h) \/ SkipCredit(h) \/ Credit(h) \/ UpdateOrg(h)
    \/ MarkProcessed(h) \/ MarkFailed(h)

Next ==
    \/ \E e \in Events : Emit(e) \/ GrowStale(e)
    \/ \E h \in Handlers, e \in Events : Deliver(h, e)
    \/ \E h \in Handlers :
          Work(h) \/ ReservationFails(h) \/ CreditFails(h) \/ Die(h)

Spec == Init /\ [][Next]_vars

\* A handler that was started keeps running, Stripe keeps retrying what was
\* not answered 2xx, and a row that stays open grows older than 15 minutes.
Fairness ==
    /\ \A h \in Handlers : WF_vars(Work(h))
    /\ \A e \in Events :
          /\ SF_vars(\E h \in Handlers : e \in outstanding /\ Deliver(h, e))
          /\ WF_vars(GrowStale(e))

FairSpec == Spec /\ Fairness

-----------------------------------------------------------------------------

TypeOK ==
    /\ WalletTypeOK
    /\ status \in [Events -> Statuses]
    /\ stale \subseteq Events
    /\ live \in [Orgs -> Nat]
    /\ snapshot \in [Events -> Nat]
    /\ subscription \in [Orgs -> Nat]
    /\ emitted \subseteq Events
    /\ outstanding \subseteq emitted
    /\ pc \in [Handlers -> Labels]
    /\ event \in [Handlers -> Events \cup {NoEvent}]
    /\ \A h \in Handlers : pc[h] # "idle" => event[h] \in Events
    /\ copy \in [Handlers -> Nat]
    /\ paid \in [Handlers -> BOOLEAN]
    /\ credits \in [Events -> Nat]
    /\ faults \in 0..MaxFaults
    /\ mishaps \subseteq (Mishaps \X Events)

\* "The Stripe event.id idempotency fence covers retries of the same renewal
\* invoice event" (the comment above creditRenewalUsage), for every event.
NeverDoubleCredited == \A e \in Events : credits[e] <= 1

\* What the fence does guarantee: an event is credited twice only when a
\* handler left after its credit committed and before it could say so, or
\* when two deliveries of it were let through at once.  Neither duplicates,
\* nor retries of failed or dead handlers, nor stale reservations alone do.
DoubleCreditHasCause ==
    \A e \in Events :
        credits[e] > 1 => {<<"abandoned", e>>, <<"overlap", e>>} \cap mishaps # {}

\* An event is closed only after what it is worth reached the ledger, unless
\* the organisation lookup failed silently.  A closed event is answered 200
\* for good, so a credit it misses is lost.
ProcessedMeansCredited ==
    \A e \in Events :
        status[e] = "processed" /\ CreditOf[e] > 0 /\ Kind[e] # "other"
            /\ Kind[e] # "updated"
        => credits[e] >= 1 \/ <<"skipped", e>> \in mishaps

\* A closed event that was paid for stays closed: neither a late delivery that
\* read the row while it was open nor a late catch block opens it again,
\* except where a credit was abandoned or two handlers overlapped.
ClosedIsFinal ==
    [][\A e \in Events :
          /\ status[e] = "processed"
          /\ credits[e] > 0
          /\ {<<"abandoned", e>>, <<"overlap", e>>} \cap mishaps = {}
          => status'[e] = "processed"]_vars

\* Once every event about a subscription is closed, the orgs row holds the
\* live version, unless an update was lost silently, a lookup was, or an
\* older version was written over a newer one.
ClosedSubscriptionsAreCurrent ==
    \A o \in Orgs :
        (\A e \in Events :
            OrgOf[e] = o /\ e \in emitted =>
                /\ status[e] = "processed"
                /\ {<<"updateLost", e>>, <<"skipped", e>>, <<"overtaken", e>>}
                        \cap mishaps = {})
        => subscription[o] = live[o]

\* Every event worth money is credited in the end, unless a delivery was
\* answered 200 while the row was still open, or the lookup failed silently.
EventuallyCredited ==
    \A e \in Events :
        (e \in emitted /\ CreditOf[e] > 0) ~>
            \/ credits[e] > 0
            \/ {<<"answeredEarly", e>>, <<"skipped", e>>} \cap mishaps # {}

=============================================================================
