-------------------------- MODULE StripeWebhookProofs --------------------------
(***************************************************************************)
(* Proofs about StripeWebhook, for any events, any number of concurrent    *)
(* handlers and any number of faults: what the fence around the webhook    *)
(* does keep apart, and what a closed event stands for.                    *)
(***************************************************************************)
EXTENDS StripeWebhook, WalletLedgerProofs

HandlerStep(h) == Work(h) \/ ReservationFails(h) \/ CreditFails(h) \/ Die(h)

StripeStep == \E e \in Events : Emit(e) \/ GrowStale(e)

\* Nothing happened to e that lets the fence be passed twice.
Clean(e) == {<<"abandoned", e>>, <<"overlap", e>>} \cap mishaps = {}

\* An idle or waiting handler has not paid, and a handler that has is on its
\* way to say so.
PaidInv ==
    \A h \in Handlers :
        /\ pc[h] \notin Accepted => ~paid[h]
        /\ paid[h] /\ Clean(event[h]) =>
              \/ pc[h] = "markProcessed"
              \/ pc[h] = "update" /\ Kind[event[h]] = "renewal"

\* The fence: while e is clean one handler at most is inside, and what was
\* credited for e is what that handler paid, or else what closed e.
FenceInv ==
    \A e \in Events :
        Clean(e) =>
            /\ \A g, h \in Handlers : InFlight(g, e) /\ InFlight(h, e) => g = h
            /\ status[e] = "absent" =>
                  credits[e] = 0 /\ \A h \in Handlers : ~InFlight(h, e)
            /\ \A h \in Handlers :
                  InFlight(h, e) => credits[e] = (IF paid[h] THEN 1 ELSE 0)
            /\ (\A h \in Handlers : ~InFlight(h, e)) =>
                  credits[e] = 0 \/ (credits[e] = 1 /\ status[e] = "processed")

Worth(e) == CreditOf[e] > 0 /\ Kind[e] # "other" /\ Kind[e] # "updated"

Settled(e) == credits[e] >= 1 \/ <<"skipped", e>> \in mishaps

\* Every way through POST that ends at markStripeEventProcessed leads past
\* the credit.
RouteInv ==
    \A h \in Handlers :
        /\ pc[h] \in {"retrieve", "findOrg", "update"} => Kind[event[h]] # "topup"
        /\ pc[h] = "update" /\ Kind[event[h]] = "renewal" /\ Worth(event[h]) =>
              Settled(event[h])
        /\ pc[h] = "markProcessed" /\ Worth(event[h]) => Settled(event[h])

-----------------------------------------------------------------------------

\* What the types say of one handler and of the tables.
LEMMA TypeFacts ==
    ASSUME TypeOK
    PROVE  /\ pc \in [Handlers -> Labels]
           /\ event \in [Handlers -> Events \cup {NoEvent}]
           /\ \A h \in Handlers : pc[h] # "idle" => event[h] \in Events
           /\ copy \in [Handlers -> Nat]
           /\ paid \in [Handlers -> BOOLEAN]
           /\ status \in [Events -> Statuses]
           /\ credits \in [Events -> Nat]
           /\ NoEvent \notin Events
BY EventsAssumption DEF TypeOK

\* A handler's step leaves the other handlers where they are, and the handler
\* itself ends, or goes on with the same event.
LEMMA OthersStay ==
    ASSUME TypeOK, NEW h \in Handlers, HandlerStep(h)
    PROVE  /\ pc[h] # "idle"
           /\ \A g \in Handlers : g # h =>
                 /\ pc'[g] = pc[g]
                 /\ event'[g] = event[g]
                 /\ paid'[g] = paid[g]
           /\ \/ pc'[h] = "idle" /\ event'[h] = NoEvent /\ paid'[h] = FALSE
              \/ /\ event'[h] = event[h]
                 /\ paid'[h] = paid[h] \/ Credit(h)
<1> USE TypeFacts
<1>1. CASE Reserve(h) \/ SkipCredit(h) \/ UpdateOrg(h) \/ CreditFails(h)
  BY <1>1 DEF Reserve, SkipCredit, UpdateOrg, CreditFails, GoTo, Throw
<1>2. CASE ReadStatus(h) \/ TakeOver(h)
  BY <1>2 DEF ReadStatus, TakeOver, GoTo, Answer200, Leave
<1>3. CASE ReservationFails(h) \/ MarkFailed(h) \/ Die(h)
  BY <1>3 DEF ReservationFails, MarkFailed, Die, Answer500, Leave
<1>4. CASE Retrieve(h) \/ FindOrg(h)
  BY <1>4 DEF Retrieve, FindOrg, GoTo, Throw
<1>5. CASE Credit(h)
  BY <1>5 DEF Credit, GoTo, Throw
<1>6. CASE MarkProcessed(h)
  BY <1>6 DEF MarkProcessed, GoTo, Throw, Answer200, Leave
<1> QED BY <1>1, <1>2, <1>3, <1>4, <1>5, <1>6 DEF HandlerStep, Work

-----------------------------------------------------------------------------

\* The initial state satisfies every part of the invariant.
LEMMA InitInv ==
    Init => /\ TypeOK /\ LedgerExplainsBalance
            /\ PaidInv /\ FenceInv /\ RouteInv /\ ProcessedMeansCredited
<1> SUFFICES ASSUME Init
             PROVE  /\ TypeOK /\ LedgerExplainsBalance
                    /\ PaidInv /\ FenceInv /\ RouteInv /\ ProcessedMeansCredited
  OBVIOUS
<1>1. WalletTypeOK /\ LedgerExplainsBalance
  BY WalletInitInv DEF Init, WalletInv
<1>2. TypeOK
  BY <1>1, EventsAssumption DEF Init, TypeOK, Labels, Statuses
<1>3. PaidInv /\ FenceInv /\ RouteInv /\ ProcessedMeansCredited
  BY DEF Init, PaidInv, FenceInv, RouteInv, ProcessedMeansCredited, InFlight, Accepted
<1> QED BY <1>1, <1>2, <1>3

\* A step posts at most the credit of one event.
LEMMA StepKeepsWallet ==
    ASSUME TypeOK, LedgerExplainsBalance, [Next]_vars
    PROVE  WalletTypeOK' /\ LedgerExplainsBalance'
<1>1. WalletInv
  BY DEF WalletInv, TypeOK
<1>2. CASE UNCHANGED walletVars
  BY <1>1, <1>2, NoPostKeepsWallet DEF WalletInv
<1>3. CASE \E h \in Handlers : Credit(h)
  <2>1. PICK h \in Handlers : Credit(h)
    BY <1>3
  <2>2. event[h] \in Events
    BY <2>1, TypeFacts DEF Credit
  <2>3. /\ OrgOf[event[h]] \in Orgs
        /\ CreditOf[event[h]] \in Nat
        /\ "credit" \in Directions
    BY <2>2, EventsAssumption, AmountsAssumption DEF Directions
  <2>4. Post(OrgOf[event[h]], "credit", CreditOf[event[h]])
    BY <2>1 DEF Credit
  <2> QED BY <1>1, <2>3, <2>4, PostKeepsWallet DEF WalletInv
<1>4. (\E h \in Handlers : Credit(h)) \/ UNCHANGED walletVars
  BY DEF Next, vars, Work, Emit, GrowStale, Deliver, Reserve, ReadStatus, TakeOver,
         Retrieve, FindOrg, SkipCredit, UpdateOrg, MarkProcessed, MarkFailed,
         ReservationFails, CreditFails, Die
<1> QED BY <1>2, <1>3, <1>4

\* The labels the branches of POST lead to are labels of the try block.
LEMMA LabelFacts ==
    ASSUME NEW e \in Events
    PROVE  {Entry(e), AfterRetrieve(e), AfterFindOrg(e), AfterCredit(e), AfterUpdate(e)}
               \subseteq Accepted
BY DEF Entry, AfterRetrieve, AfterFindOrg, AfterCredit, AfterUpdate, Accepted

\* The types of a handler's own variables, and of what it writes.
LEMMA HandlerTypeStep ==
    ASSUME TypeOK, WalletTypeOK', NEW h \in Handlers, HandlerStep(h)
    PROVE  TypeOK'
<1> DEFINE e == event[h]
<1>a. /\ pc \in [Handlers -> Labels]
      /\ \A g \in Handlers : pc[g] # "idle" => event[g] \in Events
      /\ event \in [Handlers -> Events \cup {NoEvent}]
      /\ copy \in [Handlers -> Nat]
      /\ paid \in [Handlers -> BOOLEAN]
      /\ status \in [Events -> Statuses]
      /\ credits \in [Events -> Nat]
  BY TypeFacts
<1> USE <1>a
<1>1. /\ e \in Events /\ OrgOf[e] \in Orgs
      /\ {Entry(e), AfterRetrieve(e), AfterFindOrg(e), AfterCredit(e), AfterUpdate(e)}
             \subseteq Labels
      /\ Accepted \subseteq Labels
  <2>1. e \in Events
    BY OthersStay
  <2>2. OrgOf[e] \in Orgs
    BY <2>1, EventsAssumption
  <2>3. Accepted \subseteq Labels
    BY DEF Labels
  <2> QED BY <2>1, <2>2, <2>3, LabelFacts
<1>2. /\ stale \subseteq Events
      /\ live \in [Orgs -> Nat]
      /\ snapshot \in [Events -> Nat]
      /\ subscription \in [Orgs -> Nat]
      /\ emitted \subseteq Events
      /\ outstanding \subseteq emitted
      /\ faults \in 0..MaxFaults
      /\ mishaps \subseteq (Mishaps \X Events)
      /\ MaxFaults \in Nat
  BY EventsAssumption DEF TypeOK
<1>3. \A g \in Handlers : pc'[g] # "idle" => event'[g] \in Events
  BY OthersStay
<1>4. pc' \in [Handlers -> Labels] /\ event' \in [Handlers -> Events \cup {NoEvent}]
  <2>1. CASE Reserve(h) \/ SkipCredit(h) \/ UpdateOrg(h) \/ CreditFails(h)
    BY <1>1, <2>1 DEF Reserve, SkipCredit, UpdateOrg, CreditFails, GoTo, Throw, Labels,
                      Accepted
  <2>2. CASE ReadStatus(h) \/ TakeOver(h) \/ ReservationFails(h) \/ MarkFailed(h) \/ Die(h)
    BY <1>1, <2>2 DEF ReadStatus, TakeOver, ReservationFails, MarkFailed, Die, GoTo,
                      Answer200, Answer500, Leave, Labels
  <2>3. CASE Retrieve(h) \/ FindOrg(h) \/ Credit(h) \/ MarkProcessed(h)
    BY <1>1, <2>3 DEF Retrieve, FindOrg, Credit, MarkProcessed, GoTo, Throw, Answer200,
                      Leave, Labels, Accepted
  <2> QED BY <2>1, <2>2, <2>3 DEF HandlerStep, Work
<1>5. copy' \in [Handlers -> Nat] /\ paid' \in [Handlers -> BOOLEAN]
  <2>1. CASE Reserve(h) \/ SkipCredit(h) \/ UpdateOrg(h) \/ CreditFails(h)
    BY <2>1 DEF Reserve, SkipCredit, UpdateOrg, CreditFails, GoTo, Throw
  <2>2. CASE ReadStatus(h) \/ TakeOver(h) \/ FindOrg(h) \/ MarkProcessed(h)
    <3>1. Leave(h) \/ (copy' = copy /\ paid' = paid)
      BY <2>2 DEF ReadStatus, TakeOver, FindOrg, MarkProcessed, GoTo, Throw, Answer200
    <3>2. CASE Leave(h)
      BY <3>2 DEF Leave
    <3>3. CASE copy' = copy /\ paid' = paid
      BY <3>3
    <3> QED BY <3>1, <3>2, <3>3
  <2>3. CASE ReservationFails(h) \/ MarkFailed(h) \/ Die(h)
    <3>1. Leave(h)
      BY <2>3 DEF ReservationFails, MarkFailed, Die, Answer500
    <3> QED BY <3>1 DEF Leave
  <2>4. CASE Retrieve(h)
    BY <1>1, <1>2, <2>4 DEF Retrieve, GoTo, Throw
  <2>5. CASE Credit(h)
    BY <2>5 DEF Credit, GoTo, Throw
  <2> QED BY <2>1, <2>2, <2>3, <2>4, <2>5 DEF HandlerStep, Work
<1>6. status' \in [Events -> Statuses]
  <2>1. \/ UNCHANGED status
        \/ \E new \in Statuses : status' = [status EXCEPT ![e] = new]
    BY DEF HandlerStep, Work, Reserve, ReadStatus, TakeOver, Retrieve, FindOrg,
           SkipCredit, Credit, UpdateOrg, MarkProcessed, MarkFailed,
           ReservationFails, CreditFails, Die, rowVars, Statuses
  <2> QED BY <1>1, <2>1
<1>7. credits' \in [Events -> Nat]
  <2>1. credits' = credits \/ credits' = [credits EXCEPT ![e] = @ + 1]
    BY DEF HandlerStep, Work, Reserve, ReadStatus, TakeOver, Retrieve, FindOrg,
           SkipCredit, Credit, UpdateOrg, MarkProcessed, MarkFailed,
           ReservationFails, CreditFails, Die, historyVars
  <2> QED BY <2>1
<1>8. /\ stale' = stale
      /\ live' = live /\ snapshot' = snapshot /\ emitted' = emitted
      /\ outstanding' \subseteq outstanding
  BY DEF HandlerStep, Work, Reserve, ReadStatus, TakeOver, Retrieve, FindOrg,
         SkipCredit, Credit, UpdateOrg, MarkProcessed, MarkFailed, ReservationFails,
         CreditFails, Die, rowVars, stripeVars, Answer200, Answer500
<1>9. subscription' \in [Orgs -> Nat]
  BY <1>1, <1>2 DEF HandlerStep, Work, Reserve, ReadStatus, TakeOver, Retrieve, FindOrg,
         SkipCredit, Credit, UpdateOrg, MarkProcessed, MarkFailed, ReservationFails,
         CreditFails, Die, rowVars
<1>10. faults' \in 0..MaxFaults
  <2>1. faults' = faults \/ Fault
    BY DEF HandlerStep, Work, Reserve, ReadStatus, TakeOver, Retrieve, FindOrg,
         SkipCredit, Credit, UpdateOrg, MarkProcessed, MarkFailed, ReservationFails,
         CreditFails, Die, historyVars
  <2> QED BY <1>2, <2>1 DEF Fault
<1>11. mishaps' \subseteq (Mishaps \X Events)
  <2>1. \/ mishaps' = mishaps
        \/ \E what \in Mishaps : Note(what, e)
    BY DEF HandlerStep, Work, Reserve, ReadStatus, TakeOver, Retrieve, FindOrg,
         SkipCredit, Credit, UpdateOrg, MarkProcessed, MarkFailed, ReservationFails,
         CreditFails, Die, historyVars, Throw, Mishaps
  <2> QED BY <1>1, <1>2, <2>1 DEF Note
<1> HIDE <1>a DEF e
<1> QED BY <1>2, <1>3, <1>4, <1>5, <1>6, <1>7, <1>8, <1>9, <1>10, <1>11,
          EventsAssumption DEF TypeOK

\* The types of all variables.
LEMMA TypeStep ==
    ASSUME TypeOK, LedgerExplainsBalance, [Next]_vars
    PROVE  TypeOK'
<1>1. WalletTypeOK'
  BY StepKeepsWallet
<1>2. CASE UNCHANGED vars
  BY <1>1, <1>2 DEF vars, stripeVars, rowVars, handlerVars, historyVars, TypeOK
<1>3. CASE \E e \in Events : Emit(e) \/ GrowStale(e)
  BY <1>1, <1>3, EventsAssumption
     DEF Emit, GrowStale, stripeVars, rowVars, handlerVars, historyVars, TypeOK
<1>4. CASE \E h \in Handlers, e \in Events : Deliver(h, e)
  BY <1>1, <1>4 DEF Deliver, stripeVars, rowVars, historyVars, TypeOK, Labels
<1>5. CASE \E h \in Handlers : HandlerStep(h)
  BY <1>1, <1>5, HandlerTypeStep
<1> QED BY <1>2, <1>3, <1>4, <1>5 DEF Next, HandlerStep

-----------------------------------------------------------------------------

\* A handler works on one event only, and history is not taken back.
LEMMA TouchesOneEvent ==
    ASSUME TypeOK, NEW h \in Handlers, HandlerStep(h), NEW e \in Events
    PROVE  /\ credits'[e] \in Nat /\ credits'[e] >= credits[e]
           /\ mishaps \subseteq mishaps'
           /\ e # event[h] =>
                 /\ status'[e] = status[e]
                 /\ credits'[e] = credits[e]
                 /\ \A what \in Mishaps :
                       <<what, e>> \in mishaps' => <<what, e>> \in mishaps
                 /\ \A g \in Handlers : InFlight(g, e)' <=> InFlight(g, e)
<1>1. event[h] \in Events
  BY OthersStay, TypeFacts
<1>2. credits' = credits \/ credits' = [credits EXCEPT ![event[h]] = @ + 1]
  BY DEF HandlerStep, Work, Reserve, ReadStatus, TakeOver, Retrieve, FindOrg,
         SkipCredit, Credit, UpdateOrg, MarkProcessed, MarkFailed,
         ReservationFails, CreditFails, Die, historyVars
<1>3. \/ mishaps' = mishaps
      \/ \E what \in Mishaps : Note(what, event[h])
  BY DEF HandlerStep, Work, Reserve, ReadStatus, TakeOver, Retrieve, FindOrg,
         SkipCredit, Credit, UpdateOrg, MarkProcessed, MarkFailed, ReservationFails,
         CreditFails, Die, historyVars, Throw, Mishaps
<1>4. \/ UNCHANGED status
      \/ \E new \in Statuses : status' = [status EXCEPT ![event[h]] = new]
  BY DEF HandlerStep, Work, Reserve, ReadStatus, TakeOver, Retrieve, FindOrg,
         SkipCredit, Credit, UpdateOrg, MarkProcessed, MarkFailed,
         ReservationFails, CreditFails, Die, rowVars, Statuses
<1>5. e # event[h] => \A g \in Handlers : InFlight(g, e)' <=> InFlight(g, e)
  BY OthersStay, TypeFacts DEF InFlight
<1>6. credits'[e] \in Nat /\ credits'[e] >= credits[e]
  BY <1>1, <1>2, TypeFacts
<1>7. mishaps \subseteq mishaps'
  BY <1>3 DEF Note
<1>8. e # event[h] => /\ status'[e] = status[e]
                      /\ credits'[e] = credits[e]
  BY <1>1, <1>2, <1>4, TypeFacts
<1>9. e # event[h] => \A what \in Mishaps :
                          <<what, e>> \in mishaps' => <<what, e>> \in mishaps
  BY <1>3 DEF Note
<1> QED BY <1>5, <1>6, <1>7, <1>8, <1>9

\* A note that was taken stays.
LEMMA CleanBefore ==
    ASSUME NEW e, mishaps \subseteq mishaps', Clean(e)'
    PROVE  Clean(e)
BY DEF Clean

\* The steps that Stripe and the clock take, and the arrival of a delivery,
\* touch neither the fence nor a handler inside it.
LEMMA OutsideFence ==
    ASSUME TypeOK,
           StripeStep \/ \E h \in Handlers, e \in Events : Deliver(h, e)
    PROVE  /\ status' = status /\ credits' = credits /\ mishaps' = mishaps
           /\ paid' = paid
           /\ \A h \in Handlers :
                 \/ pc'[h] = pc[h] /\ event'[h] = event[h]
                 \/ pc[h] = "idle" /\ pc'[h] = "reserve"
<1>1. CASE StripeStep
  BY <1>1 DEF StripeStep, Emit, GrowStale, rowVars, handlerVars, historyVars
<1>2. CASE \E h \in Handlers, e \in Events : Deliver(h, e)
  BY <1>2, TypeFacts DEF Deliver, rowVars, historyVars
<1> QED BY <1>1, <1>2

\* Who has paid is on the way to markStripeEventProcessed.
LEMMA PaidStep ==
    ASSUME TypeOK, PaidInv, NEW h \in Handlers, HandlerStep(h)
    PROVE  PaidInv'
<1> SUFFICES ASSUME NEW g \in Handlers
             PROVE  /\ pc'[g] \notin Accepted => ~paid'[g]
                    /\ paid'[g] /\ Clean(event[g])' =>
                          \/ pc'[g] = "markProcessed"
                          \/ pc'[g] = "update" /\ Kind[event'[g]] = "renewal"
  BY DEF PaidInv
<1>1. mishaps \subseteq mishaps' /\ event[h] \in Events
  BY TouchesOneEvent, OthersStay, TypeFacts
<1>2. CASE g # h
  <2>1. pc'[g] = pc[g] /\ event'[g] = event[g] /\ paid'[g] = paid[g]
    BY <1>2, OthersStay
  <2>2. Clean(event[g])' => Clean(event[g])
    BY <1>1, <2>1 DEF Clean
  <2> QED BY <2>1, <2>2 DEF PaidInv
<1>3. CASE g = h
  <2>1. CASE paid'[h] = FALSE
    BY <1>3, <2>1
  <2>2. CASE paid[h] /\ event'[h] = event[h]
    <3>1. Clean(event[h])' => Clean(event[h])
      BY <1>1, <2>2 DEF Clean
    <3>2. pc[h] \in Accepted
      BY <2>2 DEF PaidInv
    <3>3. CASE ~Clean(event[h])
      <4>1. pc'[h] \in Accepted \/ paid'[h] = FALSE
        <5>1. CASE Retrieve(h) \/ FindOrg(h) \/ SkipCredit(h) \/ UpdateOrg(h) \/ CreditFails(h)
          BY <5>1, <1>1, LabelFacts, TypeFacts
             DEF Retrieve, FindOrg, SkipCredit, UpdateOrg, CreditFails, GoTo, Throw, Accepted
        <5>2. CASE Credit(h)
          BY <5>2, <1>1, LabelFacts, TypeFacts DEF Credit, GoTo, Throw, Accepted
        <5>3. CASE MarkProcessed(h) \/ MarkFailed(h) \/ Die(h)
          BY <5>3, TypeFacts DEF MarkProcessed, MarkFailed, Die, GoTo, Throw, Answer200,
                                 Answer500, Leave, Accepted
        <5> QED BY <3>2, <5>1, <5>2, <5>3
                DEF HandlerStep, Work, Reserve, ReadStatus, TakeOver, ReservationFails,
                    Accepted
      <4> QED BY <1>3, <2>2, <3>1, <3>3, <4>1
    <3>4. CASE Clean(event[h])
      <4>1. pc[h] = "markProcessed" \/ (pc[h] = "update" /\ Kind[event[h]] = "renewal")
        BY <2>2, <3>4 DEF PaidInv
      <4>2. CASE UpdateOrg(h)
        BY <1>3, <2>2, <4>1, <4>2, TypeFacts DEF UpdateOrg, GoTo, AfterUpdate, Accepted
      <4>3. CASE MarkProcessed(h)
        <5>1. CASE Answer200(h)
          BY <1>3, <5>1, TypeFacts DEF Answer200, Leave
        <5>2. CASE Throw(h, paid[h])
          <6>1. <<"abandoned", event[h]>> \in mishaps'
            BY <2>2, <5>2 DEF Throw, Note
          <6>2. pc'[h] \in Accepted
            BY <5>2, TypeFacts DEF Throw, GoTo, Accepted
          <6> QED BY <1>3, <2>2, <6>1, <6>2 DEF Clean
        <5> QED BY <4>3, <5>1, <5>2 DEF MarkProcessed
      <4>4. CASE Die(h)
        BY <1>3, <4>4, TypeFacts DEF Die, Answer500, Leave
      <4> QED BY <4>1, <4>2, <4>3, <4>4
              DEF HandlerStep, Work, Reserve, ReadStatus, TakeOver, ReservationFails,
                  Retrieve, FindOrg, SkipCredit, Credit, CreditFails, MarkFailed
    <3> QED BY <3>3, <3>4
  <2>3. CASE Credit(h)
    <3>1. CASE pc'[h] = AfterCredit(event[h]) /\ event' = event
      BY <1>3, <1>1, <3>1 DEF AfterCredit, Accepted
    <3>2. CASE Throw(h, TRUE)
      <4>1. pc'[h] \in Accepted /\ event' = event /\ <<"abandoned", event[h]>> \in mishaps'
        BY <3>2, TypeFacts DEF Throw, GoTo, Note, Accepted
      <4> QED BY <1>3, <4>1 DEF Clean
    <3> QED BY <2>3, <3>1, <3>2, TypeFacts DEF Credit
  <2>4. paid'[h] = FALSE \/ (paid[h] /\ event'[h] = event[h]) \/ Credit(h)
    BY OthersStay, TypeFacts
  <2> QED BY <2>1, <2>2, <2>3, <2>4
<1> QED BY <1>2, <1>3

-----------------------------------------------------------------------------

\* FenceInv for one event.
Fenced(e) ==
    /\ \A g, h \in Handlers : InFlight(g, e) /\ InFlight(h, e) => g = h
    /\ status[e] = "absent" =>
          credits[e] = 0 /\ \A h \in Handlers : ~InFlight(h, e)
    /\ \A h \in Handlers :
          InFlight(h, e) => credits[e] = (IF paid[h] THEN 1 ELSE 0)
    /\ (\A h \in Handlers : ~InFlight(h, e)) =>
          credits[e] = 0 \/ (credits[e] = 1 /\ status[e] = "processed")

\* The handler moves on inside the try block and credits nothing.
LEMMA MovesInside ==
    ASSUME TypeOK, NEW h \in Handlers, HandlerStep(h), NEW e \in Events, Fenced(e),
           InFlight(h, e), InFlight(h, e)', paid'[h] = paid[h],
           credits' = credits, status'[e] # "absent"
    PROVE  Fenced(e)'
<1>1. \A g \in Handlers : InFlight(g, e)' <=> InFlight(g, e)
  BY OthersStay DEF InFlight
<1>2. \A g \in Handlers : paid'[g] = paid[g]
  BY OthersStay
<1> QED BY <1>1, <1>2 DEF Fenced

\* The handler enters the fence, where nobody was and nothing was credited.
LEMMA EntersFence ==
    ASSUME TypeOK, NEW h \in Handlers, HandlerStep(h), NEW e \in Events,
           \A g \in Handlers : ~InFlight(g, e),
           credits[e] = 0, credits' = credits,
           InFlight(h, e)', ~paid'[h], status'[e] # "absent"
    PROVE  Fenced(e)'
<1>1. \A g \in Handlers : g # h => ~InFlight(g, e)'
  BY OthersStay DEF InFlight
<1>2. credits'[e] = 0
  OBVIOUS
<1> QED BY <1>1, <1>2 DEF Fenced

\* The handler stays outside the fence, or leaves from outside it.
LEMMA StaysOutside ==
    ASSUME TypeOK, NEW h \in Handlers, HandlerStep(h), NEW e \in Events, Fenced(e),
           ~InFlight(h, e), ~InFlight(h, e)', credits' = credits,
           \/ status'[e] = status[e]
           \/ status[e] # "processed" /\ status'[e] = "processing"
    PROVE  Fenced(e)'
<1>1. \A g \in Handlers : InFlight(g, e)' <=> InFlight(g, e)
  BY OthersStay DEF InFlight
<1>2. \A g \in Handlers : InFlight(g, e) => paid'[g] = paid[g]
  BY OthersStay
<1> QED BY <1>1, <1>2 DEF Fenced

\* The handler leaves the fence: nobody is inside any more.
LEMMA LeavesFence ==
    ASSUME TypeOK, NEW h \in Handlers, HandlerStep(h), NEW e \in Events, Fenced(e),
           InFlight(h, e), ~InFlight(h, e)', credits' = credits,
           ~paid[h] \/ status'[e] = "processed",
           status'[e] # "absent"
    PROVE  Fenced(e)'
<1>1. \A g \in Handlers : ~InFlight(g, e)'
  BY OthersStay DEF InFlight, Fenced
<1>2. credits'[e] = 0 \/ (credits'[e] = 1 /\ status'[e] = "processed")
  BY DEF Fenced
<1> QED BY <1>1, <1>2 DEF Fenced

\* Every step of a handler keeps the fence around its own event.
LEMMA FenceStepOwn ==
    ASSUME TypeOK, PaidInv, FenceInv, NEW h \in Handlers, HandlerStep(h),
           NEW e \in Events, e = event[h], Clean(e)'
    PROVE  Fenced(e)'
<1>a. /\ pc \in [Handlers -> Labels]
      /\ event \in [Handlers -> Events \cup {NoEvent}]
      /\ paid \in [Handlers -> BOOLEAN]
      /\ status \in [Events -> Statuses]
      /\ NoEvent \notin Events
  BY TypeFacts
<1>1. Clean(e)
  BY TouchesOneEvent, CleanBefore
<1>2. Fenced(e)
  BY <1>1 DEF FenceInv, Fenced
<1>3. /\ pc[h] \notin Accepted => ~paid[h]
      /\ paid[h] => \/ pc[h] = "markProcessed"
                    \/ pc[h] = "update" /\ Kind[e] = "renewal"
  BY <1>1 DEF PaidInv
<1>4. InFlight(h, e) <=> pc[h] \in Accepted
  BY DEF InFlight
<1>5. InFlight(h, e) => status[e] # "absent"
  BY <1>2 DEF Fenced
<1>6. CASE Reserve(h)
  <2>1. pc[h] \notin Accepted /\ credits' = credits
    BY <1>6 DEF Reserve, Accepted, historyVars
  <2>2. CASE status[e] = "absent"
    <3>1. /\ status'[e] = "processing"
          /\ InFlight(h, e)' /\ paid'[h] = paid[h]
      BY <1>a, <1>6, <2>2, LabelFacts DEF Reserve, GoTo, InFlight
    <3> QED BY <1>2, <1>3, <2>1, <2>2, <3>1, EntersFence DEF Fenced
  <2>3. CASE status[e] # "absent"
    <3>1. status' = status /\ ~InFlight(h, e)'
      BY <1>a, <1>6, <2>3 DEF Reserve, GoTo, InFlight, Accepted
    <3> QED BY <1>2, <1>4, <2>1, <3>1, StaysOutside
  <2> QED BY <2>2, <2>3
<1>7. CASE ReadStatus(h)
  <2>1. pc[h] \notin Accepted /\ credits' = credits /\ status' = status
    BY <1>7 DEF ReadStatus, Accepted, rowVars
  <2>2. ~InFlight(h, e)'
    BY <1>a, <1>7 DEF ReadStatus, GoTo, Answer200, Leave, InFlight, Accepted
  <2> QED BY <1>2, <1>4, <2>1, <2>2, StaysOutside
<1>8. CASE TakeOver(h)
  <2>1. pc[h] \notin Accepted /\ credits' = credits
    BY <1>8 DEF TakeOver, Accepted
  <2>2. CASE status[e] \in {"failed", "processing"}
    <3>1. \A g \in Handlers : ~InFlight(g, e)
      BY <1>8, <2>2 DEF TakeOver, Note, Clean
    <3>2. credits[e] = 0
      BY <1>2, <2>2, <3>1 DEF Fenced
    <3>3. /\ status'[e] = "processing"
          /\ InFlight(h, e)' /\ paid'[h] = paid[h]
      BY <1>a, <1>8, <2>2, LabelFacts DEF TakeOver, GoTo, InFlight
    <3> QED BY <1>3, <2>1, <3>1, <3>2, <3>3, EntersFence
  <2>3. CASE status[e] \notin {"failed", "processing"}
    <3>1. status' = status /\ ~InFlight(h, e)'
      BY <1>a, <1>8, <2>3 DEF TakeOver, Answer200, Leave, InFlight, Accepted
    <3> QED BY <1>2, <1>4, <2>1, <3>1, StaysOutside
  <2> QED BY <2>2, <2>3
<1>9. CASE ReservationFails(h)
  <2>1. pc[h] \notin Accepted /\ credits' = credits
    BY <1>9 DEF ReservationFails, Accepted
  <2>2. \/ status'[e] = status[e]
        \/ status[e] # "processed" /\ status'[e] = "processing"
    BY <1>a, <1>9 DEF ReservationFails
  <2>3. ~InFlight(h, e)'
    BY <1>a, <1>9 DEF ReservationFails, Answer500, Leave, InFlight, Accepted
  <2> QED BY <1>2, <1>4, <2>1, <2>2, <2>3, StaysOutside
<1>10. CASE Retrieve(h) \/ FindOrg(h) \/ SkipCredit(h) \/ UpdateOrg(h) \/ CreditFails(h)
  <2>1. pc[h] \in Accepted /\ credits' = credits /\ status' = status
    BY <1>10 DEF Retrieve, FindOrg, SkipCredit, UpdateOrg, CreditFails, Accepted, rowVars,
                 historyVars
  <2>2. InFlight(h, e)' /\ paid'[h] = paid[h]
    BY <1>a, <1>10, LabelFacts
       DEF Retrieve, FindOrg, SkipCredit, UpdateOrg, CreditFails, GoTo, Throw, InFlight,
           Accepted
  <2> QED BY <1>2, <1>4, <1>5, <2>1, <2>2, MovesInside
<1>11. CASE Credit(h)
  <2>1. /\ pc[h] = "credit" /\ InFlight(h, e) /\ status' = status
        /\ credits'[e] = credits[e] + 1
    BY <1>4, <1>11, TypeFacts DEF Credit, Accepted, rowVars
  <2>2. credits[e] = 0 /\ ~paid[h]
    BY <1>2, <1>3, <2>1 DEF Fenced
  <2>3. InFlight(h, e)' /\ paid'[h]
    <3>1. CASE Throw(h, TRUE)
      BY <3>1 DEF Throw, Note, Clean
    <3>2. CASE ~Throw(h, TRUE)
      BY <1>a, <1>11, <3>2, LabelFacts DEF Credit, InFlight
    <3> QED BY <3>1, <3>2
  <2>4. \A g \in Handlers : g # h => ~InFlight(g, e) /\ ~InFlight(g, e)'
    BY <1>2, <2>1, OthersStay DEF Fenced, InFlight
  <2> QED BY <1>5, <2>1, <2>2, <2>3, <2>4 DEF Fenced
<1>12. CASE MarkProcessed(h)
  <2>1. pc[h] \in Accepted /\ credits' = credits
    BY <1>12 DEF MarkProcessed, Accepted
  <2>2. CASE Answer200(h)
    <3>1. ~InFlight(h, e)'
      BY <1>a, <2>2 DEF Answer200, Leave, InFlight, Accepted
    <3>2. status'[e] = "processed"
      <4>1. pc'[h] = "idle"
        BY <1>a, <2>2 DEF Answer200, Leave
      <4>2. ~Throw(h, paid[h])
        BY <1>a, <4>1 DEF Throw, GoTo
      <4> QED BY <1>a, <1>12, <4>2 DEF MarkProcessed
    <3> QED BY <1>2, <1>4, <2>1, <3>1, <3>2, LeavesFence
  <2>3. CASE Throw(h, paid[h])
    <3>1. InFlight(h, e)' /\ paid'[h] = paid[h]
      BY <1>a, <2>3 DEF Throw, GoTo, InFlight, Accepted
    <3>2. status'[e] \in {status[e], "processed"}
      BY <1>a, <1>12 DEF MarkProcessed
    <3> QED BY <1>2, <1>4, <1>5, <2>1, <3>1, <3>2, MovesInside
  <2> QED BY <1>12, <2>2, <2>3 DEF MarkProcessed
<1>13. CASE MarkFailed(h)
  <2>1. pc[h] = "markFailed" /\ pc[h] \in Accepted /\ credits' = credits
    BY <1>13 DEF MarkFailed, Accepted
  <2>2. ~InFlight(h, e)'
    BY <1>a, <1>13 DEF MarkFailed, Answer500, Leave, InFlight, Accepted
  <2>3. status'[e] \in {status[e], "failed"}
    BY <1>a, <1>13 DEF MarkFailed
  <2> QED BY <1>2, <1>3, <1>4, <1>5, <2>1, <2>2, <2>3, LeavesFence
<1>14. CASE Die(h)
  <2>1. credits' = credits /\ status' = status /\ ~InFlight(h, e)'
    BY <1>a, <1>14 DEF Die, Answer500, Leave, rowVars, InFlight, Accepted
  <2>2. ~paid[h]
    BY <1>14 DEF Die, Note, Clean
  <2>3. CASE InFlight(h, e)
    BY <1>2, <1>5, <2>1, <2>2, <2>3, LeavesFence
  <2>4. CASE ~InFlight(h, e)
    BY <1>2, <2>1, <2>4, StaysOutside
  <2> QED BY <2>3, <2>4
<1> QED BY <1>6, <1>7, <1>8, <1>9, <1>10, <1>11, <1>12, <1>13, <1>14 DEF HandlerStep, Work

\* No step of a handler opens the fence of any event.
LEMMA FenceStep ==
    ASSUME TypeOK, PaidInv, FenceInv, NEW h \in Handlers, HandlerStep(h)
    PROVE  FenceInv'
<1> SUFFICES ASSUME NEW e \in Events, Clean(e)'
             PROVE  Fenced(e)'
  BY DEF FenceInv, Fenced
<1>1. CASE e = event[h]
  BY <1>1, FenceStepOwn
<1>2. CASE e # event[h]
  <2>1. Clean(e) /\ Fenced(e)
    BY TouchesOneEvent, CleanBefore DEF FenceInv, Fenced
  <2>2. /\ status'[e] = status[e]
        /\ credits'[e] = credits[e]
        /\ \A g \in Handlers : InFlight(g, e)' <=> InFlight(g, e)
    BY <1>2, TouchesOneEvent
  <2>3. \A g \in Handlers : InFlight(g, e) => paid'[g] = paid[g]
    BY <1>2, OthersStay DEF InFlight
  <2> QED BY <2>1, <2>2, <2>3 DEF Fenced
<1> QED BY <1>1, <1>2

-----------------------------------------------------------------------------

\* What is settled stays settled.
LEMMA SettledStays ==
    ASSUME TypeOK, NEW h \in Handlers, HandlerStep(h), NEW e \in Events, Settled(e)
    PROVE  Settled(e)'
<1>1. credits[e] \in Nat /\ credits'[e] \in Nat /\ credits'[e] >= credits[e]
  BY TouchesOneEvent, TypeFacts
<1>2. mishaps \subseteq mishaps'
  BY TouchesOneEvent
<1> QED BY <1>1, <1>2 DEF Settled

\* Whichever branch of POST a handler takes, it passes the credit before it
\* comes to markStripeEventProcessed.
LEMMA RouteStep ==
    ASSUME TypeOK, RouteInv, NEW h \in Handlers, HandlerStep(h)
    PROVE  RouteInv'
<1>a. /\ pc \in [Handlers -> Labels]
      /\ event \in [Handlers -> Events \cup {NoEvent}]
      /\ event[h] \in Events
      /\ Kind[event[h]] \in EventKinds
  BY TypeFacts, OthersStay, EventsAssumption
<1> DEFINE Routed(g, label, e) ==
      /\ label \in {"retrieve", "findOrg", "update"} => Kind[e] # "topup"
      /\ label = "update" /\ Kind[e] = "renewal" /\ Worth(e) => Settled(e)
      /\ label = "markProcessed" /\ Worth(e) => Settled(e)
<1> SUFFICES ASSUME NEW g \in Handlers
             PROVE  /\ pc'[g] \in {"retrieve", "findOrg", "update"} =>
                          Kind[event'[g]] # "topup"
                    /\ pc'[g] = "update" /\ Kind[event'[g]] = "renewal"
                          /\ Worth(event[g])' => Settled(event[g])'
                    /\ pc'[g] = "markProcessed" /\ Worth(event[g])' => Settled(event[g])'
  BY DEF RouteInv
<1>1. ASSUME NEW e \in Events, event[g] = e, event'[g] = e
      PROVE  /\ Settled(event[g])' <=> Settled(e)'
             /\ Worth(event[g])' <=> Worth(e)
  BY <1>1 DEF Settled, Worth
<1>2. CASE g # h
  <2>1. pc'[g] = pc[g] /\ event'[g] = event[g]
    BY <1>2, OthersStay
  <2>2. CASE pc[g] = "idle"
    BY <2>1, <2>2
  <2>3. CASE pc[g] # "idle"
    <3>1. PICK e \in Events : event[g] = e
      BY <2>3, TypeFacts
    <3>2. Settled(e) => Settled(e)'
      BY SettledStays
    <3> QED BY <1>1, <2>1, <3>1, <3>2 DEF RouteInv
  <2> QED BY <2>2, <2>3
<1>3. CASE g = h
  <2>1. CASE pc'[h] \notin {"retrieve", "findOrg", "update", "markProcessed"}
    BY <1>3, <2>1
  <2>2. CASE pc'[h] \in {"retrieve", "findOrg", "update", "markProcessed"}
    <3>1. PICK e \in Events : event[h] = e
      BY <1>a
    <3>2. event'[h] = e
      BY <2>2, <3>1, OthersStay
    <3>3. /\ Kind[e] \in EventKinds
          /\ Settled(e) => Settled(e)'
          /\ pc[h] \in {"retrieve", "findOrg", "update"} => Kind[e] # "topup"
          /\ pc[h] = "update" /\ Kind[e] = "renewal" /\ Worth(e) => Settled(e)
      BY <1>a, <3>1, SettledStays DEF RouteInv
    <3> SUFFICES /\ pc'[h] \in {"retrieve", "findOrg", "update"} => Kind[e] # "topup"
                 /\ pc'[h] = "update" /\ Kind[e] = "renewal" /\ Worth(e) => Settled(e)'
                 /\ pc'[h] = "markProcessed" /\ Worth(e) => Settled(e)'
      BY <1>1, <1>3, <3>1, <3>2
    <3>4. CASE Reserve(h) \/ TakeOver(h)
      <4>1. pc'[h] = Entry(e)
        BY <1>a, <2>2, <3>1, <3>4 DEF Reserve, TakeOver, GoTo, Answer200, Leave
      <4> QED BY <3>3, <4>1 DEF Entry, EventKinds, Worth
    <3>5. CASE Retrieve(h)
      <4>1. pc[h] = "retrieve" /\ pc'[h] \in {AfterRetrieve(e), "markFailed"}
        BY <1>a, <3>1, <3>5 DEF Retrieve, Throw, GoTo
      <4> QED BY <2>2, <3>3, <4>1 DEF AfterRetrieve
    <3>6. CASE FindOrg(h)
      <4>1. /\ pc[h] = "findOrg"
            /\ \/ pc'[h] = AfterFindOrg(e)
               \/ pc'[h] = "markProcessed" /\ Settled(e)'
        BY <1>a, <3>1, <3>6 DEF FindOrg, GoTo, Note, Settled
      <4> QED BY <2>2, <3>3, <4>1 DEF AfterFindOrg
    <3>7. CASE SkipCredit(h)
      <4>1. pc'[h] = AfterCredit(e) /\ ~Worth(e)
        BY <1>a, <3>1, <3>7 DEF SkipCredit, GoTo, Worth
      <4> QED BY <2>2, <3>3, <4>1 DEF AfterCredit
    <3>8. CASE Credit(h)
      <4>1. pc'[h] \in {AfterCredit(e), "markFailed"} /\ Settled(e)'
        BY <1>a, <3>1, <3>8, TypeFacts DEF Credit, Throw, GoTo, Settled
      <4> QED BY <2>2, <4>1 DEF AfterCredit
    <3>9. CASE UpdateOrg(h)
      <4>1. pc[h] = "update" /\ pc'[h] = AfterUpdate(e)
        BY <1>a, <3>1, <3>9 DEF UpdateOrg, GoTo
      <4> QED BY <2>2, <3>3, <4>1 DEF AfterUpdate, EventKinds, Worth
    <3>10. ~( \/ ReadStatus(h) \/ ReservationFails(h) \/ CreditFails(h)
              \/ MarkProcessed(h) \/ MarkFailed(h) \/ Die(h) )
      BY <1>a, <2>2 DEF ReadStatus, ReservationFails, CreditFails, MarkProcessed,
                        MarkFailed, Die, Throw, GoTo, Answer200, Answer500, Leave
    <3> QED BY <3>4, <3>5, <3>6, <3>7, <3>8, <3>9, <3>10 DEF HandlerStep, Work
  <2> QED BY <2>1, <2>2
<1> QED BY <1>2, <1>3

\* Only markStripeEventProcessed closes an event.
LEMMA ProcessedStep ==
    ASSUME TypeOK, RouteInv, ProcessedMeansCredited, NEW h \in Handlers, HandlerStep(h)
    PROVE  ProcessedMeansCredited'
<1> SUFFICES ASSUME NEW e \in Events, status'[e] = "processed", Worth(e)
             PROVE  Settled(e)'
  BY DEF ProcessedMeansCredited, Worth, Settled
<1>1. CASE status[e] = "processed"
  <2>1. Settled(e)
    BY <1>1 DEF ProcessedMeansCredited, Worth, Settled
  <2> QED BY <2>1, SettledStays
<1>2. CASE status[e] # "processed"
  <2>1. MarkProcessed(h) /\ e = event[h]
    <3>1. e = event[h] /\ status' # status
      BY <1>2, TouchesOneEvent
    <3>2. status \in [Events -> Statuses]
      BY TypeFacts
    <3> QED BY <1>2, <3>1, <3>2
            DEF HandlerStep, Work, Reserve, ReadStatus, TakeOver, Retrieve, FindOrg,
                SkipCredit, Credit, UpdateOrg, MarkFailed, ReservationFails, CreditFails,
                Die, rowVars
  <2>2. Settled(e)
    BY <2>1 DEF MarkProcessed, RouteInv
  <2> QED BY <2>2, SettledStays
<1> QED BY <1>1, <1>2

-----------------------------------------------------------------------------

IInv ==
    /\ TypeOK /\ LedgerExplainsBalance
    /\ PaidInv /\ FenceInv /\ RouteInv /\ ProcessedMeansCredited

\* The parts above, together, are inductive.
LEMMA InvStep == IInv /\ [Next]_vars => IInv'
<1> SUFFICES ASSUME IInv, [Next]_vars
             PROVE  IInv'
  OBVIOUS
<1>1. TypeOK' /\ LedgerExplainsBalance'
  BY TypeStep, StepKeepsWallet DEF IInv
<1>2. CASE UNCHANGED vars
  BY <1>1, <1>2 DEF vars, rowVars, handlerVars, historyVars, IInv, PaidInv, FenceInv,
                    RouteInv, ProcessedMeansCredited, InFlight, Clean, Settled, Worth
<1>3. CASE StripeStep \/ \E h \in Handlers, e \in Events : Deliver(h, e)
  <2>1. /\ status' = status /\ credits' = credits /\ mishaps' = mishaps
        /\ paid' = paid
        /\ \A h \in Handlers :
              \/ pc'[h] = pc[h] /\ event'[h] = event[h]
              \/ pc[h] = "idle" /\ pc'[h] = "reserve"
    BY <1>3, OutsideFence DEF IInv
  <2>2. PaidInv'
    BY <2>1 DEF IInv, PaidInv, Clean, Accepted
  <2>3. \A h \in Handlers, e \in Events : InFlight(h, e)' <=> InFlight(h, e)
    BY <2>1 DEF InFlight, Accepted
  <2>4. FenceInv'
    BY <2>1, <2>3 DEF IInv, FenceInv, Clean
  <2>5. RouteInv'
    BY <2>1 DEF IInv, RouteInv, Settled, Worth
  <2>6. ProcessedMeansCredited'
    BY <2>1 DEF IInv, ProcessedMeansCredited
  <2> QED BY <1>1, <2>2, <2>4, <2>5, <2>6 DEF IInv
<1>4. CASE \E h \in Handlers : HandlerStep(h)
  BY <1>1, <1>4, PaidStep, FenceStep, RouteStep, ProcessedStep DEF IInv
<1> QED BY <1>2, <1>3, <1>4 DEF Next, HandlerStep, StripeStep

\* The inductive invariant holds in every behaviour of the route, with any
\* number of events, handlers and faults.
THEOREM InvariantHolds == Spec => []IInv
<1>1. Init => IInv
  BY InitInv DEF IInv
<1> QED BY <1>1, InvStep, PTL DEF Spec

\* The types, and a wallet whose ledger is complete, whatever is delivered.
THEOREM TypeCorrect == Spec => [](TypeOK /\ LedgerExplainsBalance)
<1>1. IInv => TypeOK /\ LedgerExplainsBalance
  BY DEF IInv
<1> QED BY <1>1, InvariantHolds, PTL

\* The fence in one formula: one handler inside at a time, one credit at most.
LEMMA CleanMeansOnce ==
    ASSUME TypeOK, FenceInv, NEW e \in Events, Clean(e)
    PROVE  credits[e] <= 1
<1>1. Fenced(e)
  BY DEF FenceInv, Fenced
<1> QED BY <1>1 DEF Fenced

\* An event is credited twice only when a handler abandoned a credit, or when
\* two deliveries were let through at once.
THEOREM DoubleCreditNeedsCause == Spec => []DoubleCreditHasCause
<1>1. IInv => DoubleCreditHasCause
  <2> SUFFICES ASSUME IInv, NEW e \in Events, credits[e] > 1
               PROVE  ~Clean(e)
    BY DEF DoubleCreditHasCause, Clean
  <2>1. credits[e] \in Nat
    BY TypeFacts DEF IInv
  <2> QED BY <2>1, CleanMeansOnce DEF IInv
<1> QED BY <1>1, InvariantHolds, PTL

\* A closed event was credited, or its organisation was silently not found.
THEOREM ProcessedIsCredited == Spec => []ProcessedMeansCredited
<1>1. IInv => ProcessedMeansCredited
  BY DEF IInv
<1> QED BY <1>1, InvariantHolds, PTL

\* A closed event that was paid for is never opened again, where nothing was
\* abandoned and nobody overlapped.
THEOREM ClosedStaysClosed == Spec => ClosedIsFinal
<1> DEFINE Keeps(e) ==
      status[e] = "processed" /\ credits[e] > 0 /\ Clean(e) => status'[e] = "processed"
<1>1. IInv /\ [Next]_vars => \A e \in Events : Keeps(e)
  <2> SUFFICES ASSUME IInv, [Next]_vars, NEW e \in Events,
                      status[e] = "processed", credits[e] > 0, Clean(e),
                      status'[e] # "processed"
               PROVE  FALSE
    OBVIOUS
  <2>1. TypeOK /\ PaidInv /\ Fenced(e) /\ status \in [Events -> Statuses]
    BY TypeFacts DEF IInv, FenceInv, Fenced
  <2>2. PICK h \in Handlers : HandlerStep(h)
    BY <2>1, OutsideFence DEF Next, HandlerStep, StripeStep, vars, rowVars
  <2>3. e = event[h]
    BY <2>1, <2>2, TouchesOneEvent
  <2>4. MarkFailed(h)
    BY <2>1, <2>2, <2>3
       DEF HandlerStep, Work, Reserve, ReadStatus, TakeOver, Retrieve, FindOrg,
           SkipCredit, Credit, UpdateOrg, MarkProcessed, ReservationFails, CreditFails,
           Die, rowVars
  <2>5. pc[h] = "markFailed" /\ InFlight(h, e)
    BY <2>3, <2>4 DEF MarkFailed, InFlight, Accepted
  <2>6. paid[h]
    BY <2>1, <2>5 DEF Fenced
  <2> QED BY <2>1, <2>3, <2>5, <2>6 DEF PaidInv
<1>2. (\A e \in Events : Keeps(e)) =>
        \A e \in Events :
          /\ status[e] = "processed"
          /\ credits[e] > 0
          /\ {<<"abandoned", e>>, <<"overlap", e>>} \cap mishaps = {}
          => status'[e] = "processed"
  BY DEF Clean
<1> QED BY <1>1, <1>2, InvariantHolds, PTL DEF Spec, ClosedIsFinal

-----------------------------------------------------------------------------
(* The subscription of an organisation.                                     *)

Changes(e) == Kind[e] \in {"plan", "renewal", "updated"}

\* A version on its way is one of the past, and no older than its event.
VersionInv ==
    /\ \A o \in Orgs : subscription[o] <= live[o]
    /\ \A e \in Events : snapshot[e] <= live[OrgOf[e]]
    /\ \A e \in Events : status[e] # "absent" => e \in emitted
    /\ \A h \in Handlers :
          pc[h] # "idle" =>
              /\ event[h] \in emitted
              /\ snapshot[event[h]] <= copy[h] /\ copy[h] <= live[OrgOf[event[h]]]
              /\ pc[h] = "credit" => Kind[event[h]] # "updated"

\* The live version is that of an event, once there was one.
LatestInv ==
    \A o \in Orgs :
        live[o] = 0 \/
            \E e \in emitted : OrgOf[e] = o /\ Changes(e) /\ snapshot[e] = live[o]

\* No version was written over a newer one of o.
Calm(o) == \A e \in emitted : OrgOf[e] = o => <<"overtaken", e>> \notin mishaps

\* A handler that has been at its update, or its event is closed.
Past(h, e) ==
    /\ event[h] = e
    /\ pc[h] = "markProcessed" \/ (pc[h] = "credit" /\ Kind[e] = "plan")
Written(e) == status[e] = "processed" \/ \E h \in Handlers : Past(h, e)

Lost(e) == {<<"updateLost", e>>, <<"skipped", e>>} \cap mishaps # {}

\* Whatever wrote its version, and was not lost, is on the orgs row or has
\* been replaced by something newer.
WrittenInv ==
    \A e \in Events :
        Changes(e) /\ Written(e) /\ ~Lost(e) /\ Calm(OrgOf[e]) =>
            snapshot[e] <= subscription[OrgOf[e]]

SubscriptionInv == VersionInv /\ LatestInv /\ WrittenInv

\* What a handler's step leaves alone, and where versions go.
LEMMA VersionMoves ==
    ASSUME TypeOK, NEW h \in Handlers, HandlerStep(h)
    PROVE  /\ live' = live /\ snapshot' = snapshot /\ emitted' = emitted
           /\ \A g \in Handlers : g # h => copy'[g] = copy[g]
           /\ pc'[h] = "idle" \/ copy'[h] = copy[h] \/ copy'[h] = live[OrgOf[event[h]]]
           /\ subscription' = subscription \/ UpdateOrg(h)
<1> USE TypeFacts
<1>1. live' = live /\ snapshot' = snapshot /\ emitted' = emitted
  BY DEF HandlerStep, Work, Reserve, ReadStatus, TakeOver, Retrieve, FindOrg,
         SkipCredit, Credit, UpdateOrg, MarkProcessed, MarkFailed, ReservationFails,
         CreditFails, Die, stripeVars, Answer200, Answer500
<1>2. subscription' = subscription \/ UpdateOrg(h)
  BY DEF HandlerStep, Work, Reserve, ReadStatus, TakeOver, Retrieve, FindOrg,
         SkipCredit, Credit, MarkProcessed, MarkFailed, ReservationFails,
         CreditFails, Die, rowVars
<1>3. \/ copy' = copy
      \/ Leave(h)
      \/ copy' = [copy EXCEPT ![h] = live[OrgOf[event[h]]]]
  <2>1. CASE Reserve(h) \/ SkipCredit(h) \/ UpdateOrg(h) \/ CreditFails(h) \/ Credit(h)
    BY <2>1 DEF Reserve, SkipCredit, UpdateOrg, CreditFails, Credit, GoTo, Throw
  <2>2. CASE ReadStatus(h) \/ TakeOver(h) \/ FindOrg(h) \/ MarkProcessed(h)
    BY <2>2 DEF ReadStatus, TakeOver, FindOrg, MarkProcessed, GoTo, Throw, Answer200
  <2>3. CASE ReservationFails(h) \/ MarkFailed(h) \/ Die(h)
    BY <2>3 DEF ReservationFails, MarkFailed, Die, Answer500
  <2>4. CASE Retrieve(h)
    BY <2>4 DEF Retrieve, GoTo, Throw
  <2> QED BY <2>1, <2>2, <2>3, <2>4 DEF HandlerStep, Work
<1>4. Leave(h) => pc'[h] = "idle" /\ \A g \in Handlers : g # h => copy'[g] = copy[g]
  BY DEF Leave
<1> QED BY <1>1, <1>2, <1>3, <1>4

\* A handler that stays at work goes where its branch of POST leads.
LEMMA BranchMoves ==
    ASSUME TypeOK, NEW h \in Handlers, HandlerStep(h), NEW e, e = event[h]
    PROVE  \/ pc'[h] \in {"idle", "readStatus", "takeOver", "markFailed"}
           \/ pc'[h] = Entry(e)
           \/ Retrieve(h) /\ pc'[h] = AfterRetrieve(e)
           \/ FindOrg(h) /\ pc'[h] = AfterFindOrg(e)
           \/ FindOrg(h) /\ pc'[h] = "markProcessed" /\ <<"skipped", e>> \in mishaps'
           \/ pc[h] = "credit" /\ pc'[h] = AfterCredit(e)
           \/ UpdateOrg(h) /\ pc'[h] = AfterUpdate(e)
<1>a. pc \in [Handlers -> Labels] /\ e \in Events
  BY TypeFacts, OthersStay
<1>1. CASE Reserve(h) \/ TakeOver(h)
  BY <1>a, <1>1 DEF Reserve, TakeOver, GoTo, Answer200, Leave
<1>2. CASE Retrieve(h)
  BY <1>a, <1>2 DEF Retrieve, Throw, GoTo
<1>3. CASE FindOrg(h)
  BY <1>a, <1>3 DEF FindOrg, GoTo, Note
<1>4. CASE SkipCredit(h) \/ Credit(h)
  BY <1>a, <1>4 DEF SkipCredit, Credit, Throw, GoTo
<1>5. CASE UpdateOrg(h)
  BY <1>a, <1>5 DEF UpdateOrg, GoTo
<1>6. CASE \/ ReadStatus(h) \/ ReservationFails(h) \/ CreditFails(h)
           \/ MarkProcessed(h) \/ MarkFailed(h) \/ Die(h)
  BY <1>a, <1>6 DEF ReadStatus, ReservationFails, CreditFails, MarkProcessed,
                    MarkFailed, Die, Throw, GoTo, Answer200, Answer500, Leave
<1> QED BY <1>1, <1>2, <1>3, <1>4, <1>5, <1>6 DEF HandlerStep, Work

\* Versions a handler reads, keeps or writes stay those of the past.
LEMMA VersionStep ==
    ASSUME TypeOK, VersionInv, NEW h \in Handlers, HandlerStep(h)
    PROVE  VersionInv'
<1>a. /\ event[h] \in Events /\ event[h] \in emitted /\ pc[h] # "idle"
      /\ Kind[event[h]] \in EventKinds
      /\ OrgOf[event[h]] \in Orgs
  BY OthersStay, TypeFacts, EventsAssumption DEF VersionInv
<1>b. /\ live \in [Orgs -> Nat] /\ subscription \in [Orgs -> Nat]
      /\ snapshot \in [Events -> Nat] /\ copy \in [Handlers -> Nat]
  BY DEF TypeOK
<1>1. ASSUME NEW o \in Orgs
      PROVE  subscription'[o] <= live'[o]
  <2>1. CASE UpdateOrg(h)
    BY <1>a, <1>b, <2>1, VersionMoves DEF UpdateOrg, VersionInv
  <2>2. CASE subscription' = subscription
    BY <2>2, VersionMoves DEF VersionInv
  <2> QED BY <2>1, <2>2, VersionMoves
<1>2. ASSUME NEW e \in Events
      PROVE  snapshot'[e] <= live'[OrgOf[e]] /\ (status'[e] # "absent" => e \in emitted')
  BY <1>a, TouchesOneEvent, VersionMoves DEF VersionInv
<1>3. ASSUME NEW g \in Handlers, g # h, pc'[g] # "idle"
      PROVE  /\ event'[g] \in emitted'
             /\ snapshot'[event'[g]] <= copy'[g] /\ copy'[g] <= live'[OrgOf[event'[g]]]
             /\ pc'[g] = "credit" => Kind[event'[g]] # "updated"
  <2>1. pc'[g] = pc[g] /\ event'[g] = event[g] /\ copy'[g] = copy[g]
    BY <1>3, OthersStay, VersionMoves
  <2>2. /\ event[g] \in emitted
        /\ snapshot[event[g]] <= copy[g] /\ copy[g] <= live[OrgOf[event[g]]]
        /\ pc[g] = "credit" => Kind[event[g]] # "updated"
    BY <1>3, <2>1 DEF VersionInv
  <2> QED BY <2>1, <2>2, VersionMoves
<1>4. ASSUME pc'[h] # "idle"
      PROVE  /\ event'[h] \in emitted'
             /\ snapshot'[event'[h]] <= copy'[h] /\ copy'[h] <= live'[OrgOf[event'[h]]]
             /\ pc'[h] = "credit" => Kind[event'[h]] # "updated"
  <2>1. event'[h] = event[h]
    BY <1>4, OthersStay
  <2>2. copy'[h] \in {copy[h], live[OrgOf[event[h]]]}
    BY <1>4, VersionMoves
  <2>3. snapshot[event[h]] <= copy'[h] /\ copy'[h] <= live[OrgOf[event[h]]]
    <3>1. /\ snapshot[event[h]] <= copy[h] /\ copy[h] <= live[OrgOf[event[h]]]
          /\ snapshot[event[h]] <= live[OrgOf[event[h]]]
      BY <1>a DEF VersionInv
    <3> QED BY <1>a, <1>b, <2>2, <3>1
  <2>4. pc'[h] = "credit" => Kind[event[h]] # "updated"
    BY <1>a, BranchMoves DEF Entry, AfterRetrieve, AfterFindOrg, AfterCredit, AfterUpdate
  <2> QED BY <1>a, <2>1, <2>3, <2>4, VersionMoves
<1>5. \A g \in Handlers : pc'[g] # "idle" =>
         /\ event'[g] \in emitted'
         /\ snapshot'[event'[g]] <= copy'[g] /\ copy'[g] <= live'[OrgOf[event'[g]]]
         /\ pc'[g] = "credit" => Kind[event'[g]] # "updated"
  BY <1>3, <1>4
<1> QED BY <1>1, <1>2, <1>5 DEF VersionInv

\* What a handler writes is on record, or replaced by something newer, or
\* noted as lost or overtaken.
LEMMA WrittenStep ==
    ASSUME TypeOK, VersionInv, WrittenInv, NEW h \in Handlers, HandlerStep(h)
    PROVE  WrittenInv'
<1> SUFFICES ASSUME NEW e \in Events, Changes(e), Written(e)', ~Lost(e)',
                    Calm(OrgOf[e])'
             PROVE  snapshot'[e] <= subscription'[OrgOf[e]]
  BY DEF WrittenInv, Changes
<1> DEFINE o == OrgOf[e]
<1>a. /\ pc \in [Handlers -> Labels] /\ status \in [Events -> Statuses]
      /\ event[h] \in Events /\ event[h] \in emitted /\ pc[h] # "idle"
      /\ OrgOf[event[h]] \in Orgs /\ o \in Orgs
      /\ Kind[event[h]] \in EventKinds
  BY OthersStay, TypeFacts, EventsAssumption DEF VersionInv
<1>b. /\ subscription \in [Orgs -> Nat] /\ copy \in [Handlers -> Nat]
      /\ snapshot \in [Events -> Nat]
  BY DEF TypeOK
<1>1. mishaps \subseteq mishaps' /\ emitted' = emitted /\ snapshot' = snapshot
  BY TouchesOneEvent, VersionMoves
<1>2. ~Lost(e) /\ Calm(o)
  BY <1>1 DEF Lost, Calm
<1>3. subscription[o] <= subscription'[o]
  <2>1. CASE UpdateOrg(h) /\ subscription' # subscription
    <3>1. /\ subscription' = [subscription EXCEPT ![OrgOf[event[h]]] = copy[h]]
          /\ copy[h] < subscription[OrgOf[event[h]]] =>
                <<"overtaken", event[h]>> \in mishaps'
      BY <2>1 DEF UpdateOrg, Note
    <3>2. CASE OrgOf[event[h]] = o
      <4>1. <<"overtaken", event[h]>> \notin mishaps'
        BY <1>a, <1>1, <3>2 DEF Calm
      <4> QED BY <1>a, <1>b, <3>1, <3>2, <4>1
    <3>3. CASE OrgOf[event[h]] # o
      BY <1>a, <1>b, <3>1, <3>3
    <3> QED BY <3>2, <3>3
  <2>2. CASE subscription' = subscription
    BY <1>a, <1>b, <2>2
  <2> QED BY <2>1, <2>2, VersionMoves
<1>4. CASE Written(e)
  <2>1. snapshot[e] <= subscription[o]
    BY <1>2, <1>4 DEF WrittenInv
  <2>2. subscription'[o] \in Nat
    <3>1. subscription' = subscription \/
             subscription' = [subscription EXCEPT ![OrgOf[event[h]]] = copy[h]]
      BY VersionMoves DEF UpdateOrg
    <3> QED BY <1>a, <1>b, <3>1
  <2> QED BY <1>a, <1>b, <1>1, <1>3, <2>1, <2>2
<1>5. CASE ~Written(e)
  <2>1. status'[e] # "processed"
    <3> SUFFICES ASSUME status'[e] = "processed" PROVE FALSE
      OBVIOUS
    <3>1. status[e] # "processed"
      BY <1>5 DEF Written
    <3>2. e = event[h] /\ status' # status
      BY <3>1, TouchesOneEvent
    <3>3. MarkProcessed(h)
      BY <1>a, <3>1, <3>2
         DEF HandlerStep, Work, Reserve, ReadStatus, TakeOver, Retrieve, FindOrg,
             SkipCredit, Credit, UpdateOrg, MarkFailed, ReservationFails, CreditFails,
             Die, rowVars
    <3>4. Past(h, e)
      BY <3>2, <3>3 DEF MarkProcessed, Past
    <3> QED BY <1>5, <3>4 DEF Written
  <2>2. PICK g \in Handlers : Past(g, e)'
    BY <2>1 DEF Written
  <2>3. g = h
    BY <1>5, <2>2, OthersStay DEF Past, Written
  <2>4. event[h] = e /\ ~Past(h, e)
    BY <1>5, <2>2, <2>3, OthersStay, TypeFacts DEF Past, Written
  <2>5. pc'[h] = "markProcessed" \/ (pc'[h] = "credit" /\ Kind[e] = "plan")
    BY <2>2, <2>3 DEF Past
  <2>6. ~(pc[h] = "credit" /\ pc'[h] = AfterCredit(e))
    BY <1>a, <2>4, <2>5 DEF AfterCredit, Past, VersionInv, Changes
  <2>7. <<"skipped", e>> \notin mishaps' /\ <<"updateLost", e>> \notin mishaps'
    BY DEF Lost
  <2>8. UpdateOrg(h)
    BY <2>4, <2>5, <2>6, <2>7, BranchMoves
       DEF Changes, Entry, AfterRetrieve, AfterFindOrg
  <2>9. subscription' = [subscription EXCEPT ![o] = copy[h]]
    BY <2>4, <2>7, <2>8 DEF UpdateOrg, Note
  <2>10. snapshot[e] <= copy[h]
    BY <1>a, <2>4 DEF VersionInv
  <2> QED BY <1>a, <1>b, <1>1, <2>9, <2>10
<1> QED BY <1>4, <1>5

\* Stripe moves on: only an event nobody handles yet gets a version.
LEMMA SubscriptionOutside ==
    ASSUME TypeOK, SubscriptionInv,
           StripeStep \/ \E h \in Handlers, e \in Events : Deliver(h, e)
    PROVE  SubscriptionInv'
<1> USE DEF SubscriptionInv
<1>a. /\ pc \in [Handlers -> Labels] /\ event \in [Handlers -> Events \cup {NoEvent}]
      /\ live \in [Orgs -> Nat] /\ subscription \in [Orgs -> Nat]
      /\ snapshot \in [Events -> Nat] /\ copy \in [Handlers -> Nat]
      /\ \A h \in Handlers : pc[h] # "idle" => event[h] \in Events
      /\ emitted \subseteq Events
      /\ OrgOf \in [Events -> Orgs]
  BY EventsAssumption DEF TypeOK
<1>b. status' = status /\ mishaps' = mishaps /\ subscription' = subscription
  <2>1. CASE StripeStep
    BY <2>1 DEF StripeStep, Emit, GrowStale, rowVars, historyVars
  <2>2. CASE \E h \in Handlers, e \in Events : Deliver(h, e)
    BY <2>2 DEF Deliver, rowVars, historyVars
  <2> QED BY <2>1, <2>2
<1>1. ASSUME NEW e \in Events, Emit(e), Changes(e)
      PROVE  SubscriptionInv'
  <2> DEFINE o == OrgOf[e]
  <2>1. /\ e \notin emitted /\ emitted' = emitted \cup {e}
        /\ live' = [live EXCEPT ![o] = @ + 1]
        /\ snapshot' = [snapshot EXCEPT ![e] = live[o] + 1]
        /\ UNCHANGED <<pc, event, copy>>
    BY <1>1 DEF Emit, Changes, handlerVars
  <2>2. o \in Orgs
    BY <1>a
  <2>3. \A p \in Orgs : live[p] <= live'[p] /\ live'[p] \in Nat
    BY <1>a, <2>1, <2>2
  <2>4. snapshot'[e] = live'[o]
    BY <1>a, <2>1, <2>2
  <2>5. \A f \in Events \ {e} : snapshot'[f] = snapshot[f]
    BY <1>a, <2>1
  <2>6. VersionInv'
    <3>1. \A p \in Orgs : subscription'[p] <= live'[p]
      BY <1>a, <1>b, <2>3 DEF VersionInv
    <3>2. \A f \in Events : snapshot'[f] <= live'[OrgOf[f]]
      <4> SUFFICES ASSUME NEW f \in Events PROVE snapshot'[f] <= live'[OrgOf[f]]
        OBVIOUS
      <4>1. OrgOf[f] \in Orgs
        BY <1>a
      <4> QED BY <1>a, <2>3, <2>4, <2>5, <4>1 DEF VersionInv
    <3>3. ASSUME NEW h \in Handlers, pc'[h] # "idle"
          PROVE  /\ event'[h] \in emitted'
                 /\ snapshot'[event'[h]] <= copy'[h]
                 /\ copy'[h] <= live'[OrgOf[event'[h]]]
                 /\ pc'[h] = "credit" => Kind[event'[h]] # "updated"
      <4>1. /\ event[h] \in emitted /\ event[h] \in Events \ {e}
            /\ snapshot[event[h]] <= copy[h] /\ copy[h] <= live[OrgOf[event[h]]]
            /\ pc[h] = "credit" => Kind[event[h]] # "updated"
        BY <1>a, <2>1, <3>3 DEF VersionInv
      <4>2. OrgOf[event[h]] \in Orgs
        BY <1>a, <4>1
      <4>3. copy[h] <= live'[OrgOf[event[h]]]
        BY <1>a, <2>3, <4>1, <4>2
      <4> QED BY <2>1, <2>5, <4>1, <4>3
    <3> QED BY <1>b, <2>1, <3>1, <3>2, <3>3 DEF VersionInv
  <2>7. LatestInv'
    <3> SUFFICES ASSUME NEW p \in Orgs, live'[p] # 0
                 PROVE  \E f \in emitted' : OrgOf[f] = p /\ Changes(f) /\ snapshot'[f] = live'[p]
      BY DEF LatestInv, Changes
    <3>1. CASE p = o
      BY <1>1, <2>1, <2>4, <3>1
    <3>2. CASE p # o
      <4>1. live'[p] = live[p]
        BY <1>a, <2>1, <3>2
      <4>2. PICK f \in emitted : OrgOf[f] = p /\ Changes(f) /\ snapshot[f] = live[p]
        BY <4>1 DEF LatestInv
      <4> QED BY <1>a, <2>1, <2>5, <4>1, <4>2
    <3> QED BY <3>1, <3>2
  <2>8. WrittenInv'
    <3> SUFFICES ASSUME NEW f \in Events, Changes(f), Written(f)', ~Lost(f)',
                        Calm(OrgOf[f])'
                 PROVE  snapshot'[f] <= subscription'[OrgOf[f]]
      BY DEF WrittenInv, Changes
    <3>1. Written(f) /\ ~Lost(f) /\ Calm(OrgOf[f])
      BY <1>b, <2>1 DEF Written, Past, Lost, Calm
    <3>2. f \in emitted
      BY <3>1 DEF Written, Past, VersionInv
    <3> QED BY <1>b, <2>1, <2>5, <3>1, <3>2 DEF WrittenInv
  <2> QED BY <2>6, <2>7, <2>8
<1>2. ASSUME UNCHANGED <<live, snapshot, pc, event, copy>>, emitted \subseteq emitted'
      PROVE  SubscriptionInv'
  <2>1. VersionInv'
    BY <1>b, <1>2 DEF VersionInv
  <2>2. LatestInv'
    BY <1>2 DEF LatestInv, Changes
  <2>3. WrittenInv'
    BY <1>b, <1>2 DEF WrittenInv, Changes, Written, Past, Lost, Calm
  <2> QED BY <2>1, <2>2, <2>3
<1>3. ASSUME NEW h \in Handlers, NEW e \in Events, Deliver(h, e)
      PROVE  SubscriptionInv'
  <2>1. /\ pc[h] = "idle" /\ e \in emitted
        /\ pc' = [pc EXCEPT ![h] = "reserve"]
        /\ event' = [event EXCEPT ![h] = e]
        /\ copy' = [copy EXCEPT ![h] = snapshot[e]]
        /\ UNCHANGED <<live, snapshot, emitted>>
    BY <1>3 DEF Deliver, stripeVars
  <2>2. pc'[h] = "reserve" /\ event'[h] = e /\ copy'[h] = snapshot[e]
    BY <1>a, <2>1
  <2>3. \A g \in Handlers \ {h} : pc'[g] = pc[g] /\ event'[g] = event[g] /\ copy'[g] = copy[g]
    BY <1>a, <2>1
  <2>4. VersionInv'
    <3>1. snapshot[e] <= copy'[h] /\ copy'[h] <= live[OrgOf[e]]
      BY <1>a, <2>2 DEF VersionInv
    <3> QED BY <1>b, <2>1, <2>2, <2>3, <3>1 DEF VersionInv
  <2>5. LatestInv'
    BY <2>1 DEF LatestInv, Changes
  <2>6. \A f \in Events : Written(f)' => Written(f)
    BY <1>b, <2>2, <2>3 DEF Written, Past
  <2>7. WrittenInv'
    BY <1>b, <2>1, <2>6 DEF WrittenInv, Changes, Lost, Calm
  <2> QED BY <2>4, <2>5, <2>7
<1>4. ASSUME NEW e \in Events, Emit(e) \/ GrowStale(e)
      PROVE  SubscriptionInv'
  BY <1>1, <1>2, <1>4 DEF Emit, GrowStale, Changes, stripeVars, handlerVars
<1> QED BY <1>3, <1>4 DEF StripeStep

LEMMA SubscriptionStep ==
    TypeOK /\ SubscriptionInv /\ [Next]_vars => SubscriptionInv'
<1> SUFFICES ASSUME TypeOK, SubscriptionInv, [Next]_vars
             PROVE  SubscriptionInv'
  OBVIOUS
<1>1. CASE UNCHANGED vars
  BY <1>1 DEF vars, stripeVars, rowVars, handlerVars, historyVars, SubscriptionInv,
              VersionInv, LatestInv, WrittenInv, Changes, Written, Past, Lost, Calm
<1>2. CASE StripeStep \/ \E h \in Handlers, e \in Events : Deliver(h, e)
  BY <1>2, SubscriptionOutside
<1>3. ASSUME NEW h \in Handlers, HandlerStep(h)
      PROVE  SubscriptionInv'
  <2>1. LatestInv'
    BY <1>3, VersionMoves DEF SubscriptionInv, LatestInv, Changes
  <2> QED BY <1>3, <2>1, VersionStep, WrittenStep DEF SubscriptionInv
<1> QED BY <1>1, <1>2, <1>3 DEF Next, HandlerStep, StripeStep

\* When every event about a subscription is closed and none was lost or
\* overtaken, the newest of them is what the organisation's row holds.
LEMMA ClosedMeansCurrent ==
    TypeOK /\ SubscriptionInv => ClosedSubscriptionsAreCurrent
<1> SUFFICES ASSUME TypeOK, SubscriptionInv, NEW o \in Orgs,
                    \A e \in Events :
                       OrgOf[e] = o /\ e \in emitted =>
                           /\ status[e] = "processed"
                           /\ {<<"updateLost", e>>, <<"skipped", e>>, <<"overtaken", e>>}
                                   \cap mishaps = {}
             PROVE  subscription[o] = live[o]
  BY DEF ClosedSubscriptionsAreCurrent
<1>1. live[o] \in Nat /\ subscription[o] \in Nat /\ subscription[o] <= live[o]
  BY DEF TypeOK, SubscriptionInv, VersionInv
<1>2. Calm(o)
  BY DEF TypeOK, Calm
<1>3. CASE live[o] # 0
  <2>1. PICK e \in emitted : OrgOf[e] = o /\ Changes(e) /\ snapshot[e] = live[o]
    BY <1>3 DEF SubscriptionInv, LatestInv
  <2>2. e \in Events
    BY DEF TypeOK
  <2>3. Written(e) /\ ~Lost(e)
    BY <2>1, <2>2 DEF Written, Lost
  <2>4. snapshot[e] <= subscription[o]
    BY <1>2, <2>1, <2>2, <2>3 DEF SubscriptionInv, WrittenInv
  <2> QED BY <1>1, <2>1, <2>4
<1> QED BY <1>1, <1>3

\* Once every event of an organisation is closed its row holds the live
\* version of the subscription, in whatever order deliveries and retries of
\* however many events ran, unless one of them was lost or overtaken.
THEOREM ClosedIsCurrent == Spec => []ClosedSubscriptionsAreCurrent
<1>1. Init => TypeOK /\ SubscriptionInv
  <2> SUFFICES ASSUME Init PROVE TypeOK /\ SubscriptionInv
    OBVIOUS
  <2>1. \A e \in Events : OrgOf[e] \in Orgs
    BY EventsAssumption
  <2> QED BY <2>1, InitInv DEF Init, SubscriptionInv, VersionInv, LatestInv, WrittenInv,
                               Written, Past
<1>2. TypeOK /\ LedgerExplainsBalance /\ SubscriptionInv /\ [Next]_vars =>
         TypeOK' /\ LedgerExplainsBalance' /\ SubscriptionInv'
  BY TypeStep, StepKeepsWallet, SubscriptionStep
<1>3. Init => LedgerExplainsBalance
  BY InitInv
<1> QED BY <1>1, <1>2, <1>3, ClosedMeansCurrent, PTL DEF Spec

=============================================================================
