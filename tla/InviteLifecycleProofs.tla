----------------------- MODULE InviteLifecycleProofs -----------------------
(***************************************************************************)
(* Proofs about InviteLifecycle, for any number of invites, sessions,      *)
(* calls and faults.  The invariant speaks of one invite at a time: a step *)
(* of a call about one invite leaves every other as it was.                *)
(***************************************************************************)
EXTENDS InviteLifecycle, WalletLedgerProofs

Works(s, i) == pc[s] # "idle" /\ call[s].invite = i

Seat(i) == IF PriceOf[i] > 0 THEN 1 ELSE 0

\* A revoke has refunded the seat of i and is about to say so.
Refunded(i) ==
    \E s \in Sessions :
        Works(s, i) /\ pc[s] = "markRevoked" /\ saw[s].billing = "charged"

\* Before its row is inserted nobody can work on an invite.
BirthInv(i) ==
    creation[i] \in {"new", "insert"} =>
        /\ status[i] = "none" /\ billing[i] = "pending"
        /\ \A s \in Sessions : ~Works(s, i)

\* Where a call is tells which it is, and what it found.
CallInv(i) ==
    \A s \in Sessions : Works(s, i) =>
        /\ pc[s] \in {"refund", "markRevoked"} => call[s].op = "revoke"
        /\ pc[s] \in {"join", "markAccepted"} => call[s].op = "accept"
        /\ pc[s] = "refund" => saw[s].billing = "charged"
        /\ pc[s] = "expire" => i \in overdue

\* Calls that are at work on i at one time overlapped.
OverlapInv(i) ==
    /\ \A s, t \in Sessions :
          s # t /\ Works(s, i) /\ Works(t, i) => Overlapped(i, call[s].op, call[t].op)
    /\ \A s \in Sessions :
          Works(s, i) /\ CreationRuns(i) => Overlapped(i, call[s].op, "create")

\* Who is still at work on an accepted invite was so before it was accepted.
AcceptedInv(i) ==
    status[i] = "accepted" =>
        /\ CreationRuns(i) => Overlapped(i, "accept", "create")
        /\ \A s \in Sessions : Works(s, i) => Overlapped(i, "accept", call[s].op)

\* How far the create call is tells what the wallet saw of the seat.  The row
\* says "charged" only once the call is over and its seat was charged, and so
\* does the row that a session read.
SeatInv(i) ==
    i \notin faulty =>
        /\ creation[i] \in {"new", "insert", "charge"} => charges[i] = 0 /\ refunds[i] = 0
        /\ creation[i] \in {"charge", "reverse"} => PriceOf[i] > 0
        /\ creation[i] \in {"send", "markSent", "reverse"} =>
              charges[i] = Seat(i) /\ refunds[i] = 0
        /\ creation[i] = "markFailed" => charges[i] = refunds[i]
        /\ billing[i] = "charged" => creation[i] = "over" /\ charges[i] = 1
        /\ \A s \in Sessions :
              Works(s, i) /\ saw[s].billing = "charged" => creation[i] = "over"

\* One revoke at a time: it refunds a seat that the row says is charged, and
\* until it says otherwise nobody else refunds it.
RefundInv(i) ==
    i \notin faulty /\ ~Overlapped(i, "revoke", "revoke") =>
        /\ refunds[i] <= charges[i]
        /\ billing[i] = "charged" => refunds[i] = 0 \/ Refunded(i)
        /\ \A s \in Sessions : Works(s, i) =>
              /\ pc[s] = "refund" => billing[i] = "charged"
              /\ pc[s] = "markRevoked" /\ saw[s].billing = "charged" =>
                    billing[i] = "charged" /\ refunds[i] = 1

\* With nobody in between, a revoke writes on the strength of the row as it
\* is, and the row is true but for the refund of that revoke.
BillInv(i) ==
    /\ i \notin faulty
    /\ ~Overlapped(i, "revoke", "revoke")
    /\ ~Overlapped(i, "create", "revoke")
    /\ ~Overlapped(i, "create", "create")
    => /\ creation[i] = "over" =>
             charges[i] - refunds[i] =
                 (IF billing[i] = "charged" /\ ~Refunded(i) THEN 1 ELSE 0)
       /\ \A s \in Sessions :
             Works(s, i) /\ pc[s] = "markRevoked" => saw[s].billing = billing[i]

\* Who has the e-mail has a seat that was charged; it is refunded only by a
\* revoke, which closes the invite before it ends.
DeliveredInv(i) ==
    i \notin faulty /\ i \in delivered =>
        /\ creation[i] \in {"markSent", "over"}
        /\ charges[i] = Seat(i)
        /\ \/ refunds[i] = 0
           \/ status[i] \in {"accepted", "revoked", "expired"}
           \/ Refunded(i)

\* Nobody refunds the seat of who is joining.
JoinInv(i) ==
    i \notin faulty /\ ~Overlapped(i, "accept", "revoke") =>
        \A s \in Sessions :
            Works(s, i) /\ pc[s] \in {"join", "markAccepted"} =>
                i \in delivered /\ refunds[i] = 0

\* A seat that was given back belongs to an invite that is given up.
GivenUpInv(i) ==
    i \notin faulty /\ ~Overlapped(i, "accept", "revoke") =>
        \/ refunds[i] = 0
        \/ status[i] \in {"revoked", "expired", "delivery_failed"}
        \/ creation[i] = "markFailed"
        \/ Refunded(i)

\* What holds whatever faults there are, and what holds until one hits i.
GroundInv(i) == BirthInv(i) /\ CallInv(i) /\ OverlapInv(i) /\ AcceptedInv(i)
MoneyInv(i) ==
    /\ SeatInv(i) /\ RefundInv(i) /\ BillInv(i) /\ DeliveredInv(i) /\ JoinInv(i)
    /\ GivenUpInv(i)

\* An idle session is about no invite.
IdleInv == \A s \in Sessions : pc[s] = "idle" => call[s] = IdleCall

IInv ==
    /\ TypeOK /\ LedgerExplainsBalance /\ IdleInv
    /\ \A i \in Invites : GroundInv(i) /\ MoneyInv(i)

-----------------------------------------------------------------------------
(* Types, and the wallet.                                                   *)

CallStep(i) == BeginCreate(i) \/ CreationStep(i) \/ CreatorDies(i)
SessionMove(s) == SessionStep(s) \/ SessionDies(s)

\* The wallet's part of the initial state: a credit brought it to its balance.
LEMMA FirstCredit ==
    ASSUME Init
    PROVE  WalletInv
<1>1. balance \in [Orgs -> Nat]
  BY AmountsAssumption DEF Init
<1>2. ASSUME NEW o \in Orgs
      PROVE  /\ ledger[o] \in Seq(LedgerRow) /\ Len(ledger[o]) = 1
             /\ ledger[o][1].direction = "credit" /\ ledger[o][1].amount = balance[o]
             /\ ledger[o][1].after = balance[o]
  <2>1. ledger[o] = <<Row(0, "credit", balance[o])>>
    BY DEF Init
  <2>2. /\ Row(0, "credit", balance[o]) \in LedgerRow
        /\ Row(0, "credit", balance[o]).direction = "credit"
        /\ Row(0, "credit", balance[o]).amount = balance[o]
        /\ Row(0, "credit", balance[o]).after = balance[o]
    BY <1>1 DEF Row, LedgerRow, Directions, NextBalance
  <2>3. \A r \in LedgerRow : <<r>> \in Seq(LedgerRow) /\ Len(<<r>>) = 1 /\ <<r>>[1] = r
    OBVIOUS
  <2> QED  BY <2>1, <2>2, <2>3
<1>3. ledger \in [Orgs -> Seq(LedgerRow)]
  <2>1. ledger = [o \in Orgs |-> ledger[o]]
    BY DEF Init
  <2> QED  BY <1>2, <2>1
<1>4. LedgerExplainsBalance
  <2> SUFFICES ASSUME NEW o \in Orgs
               PROVE  /\ balance[o] = BalanceAfter(ledger[o], Len(ledger[o]))
                      /\ \A n \in 1..Len(ledger[o]) :
                            ledger[o][n].after =
                                NextBalance(BalanceAfter(ledger[o], n - 1),
                                            ledger[o][n].direction, ledger[o][n].amount)
    BY DEF LedgerExplainsBalance
  <2> QED  BY <1>1, <1>2 DEF BalanceAfter, NextBalance
<1> QED  BY <1>1, <1>3, <1>4 DEF WalletInv, WalletTypeOK

LEMMA InitType == Init => TypeOK /\ LedgerExplainsBalance
<1> SUFFICES ASSUME Init PROVE TypeOK /\ LedgerExplainsBalance
  OBVIOUS
<1>1. WalletTypeOK /\ LedgerExplainsBalance
  BY FirstCredit DEF WalletInv
<1>2. TypeOK
  <2>1. /\ status \in [Invites -> Statuses] /\ billing \in [Invites -> BillingStatuses]
        /\ creation \in [Invites -> CreationLabels]
        /\ charges \in [Invites -> Nat] /\ refunds \in [Invites -> Nat]
        /\ overlaps \in [Invites -> SUBSET SUBSET (Operations \cup {"create"})]
    BY DEF Init, Statuses, BillingStatuses, CreationLabels
  <2>2. IdleCall \in [op : Operations, invite : Invites \cup {NoInvite}]
    BY DEF IdleCall, Operations
  <2>3. NothingSeen \in SeenRow
    BY DEF NothingSeen, SeenRow, Statuses, BillingStatuses
  <2>4. /\ call \in [Sessions -> [op : Operations, invite : Invites \cup {NoInvite}]]
        /\ saw \in [Sessions -> SeenRow] /\ pc \in [Sessions -> SessionLabels]
        /\ \A s \in Sessions : pc[s] = "idle"
    BY <2>2, <2>3 DEF Init, SessionLabels
  <2>5. 0 \in 0..MaxCalls /\ 0 \in 0..MaxFaults
    BY InvitesAssumption
  <2>6. /\ overdue = {} /\ delivered = {} /\ faulty = {} /\ member = FALSE
        /\ calls = 0 /\ faults = 0
    BY DEF Init
  <2> QED  BY <1>1, <2>1, <2>4, <2>5, <2>6 DEF TypeOK
<1> QED  BY <1>1, <1>2

\* Only a seat is charged or refunded.
LEMMA WalletStep ==
    ASSUME TypeOK, LedgerExplainsBalance, [Next]_vars
    PROVE  WalletTypeOK' /\ LedgerExplainsBalance'
<1>1. WalletInv
  BY DEF TypeOK, WalletInv
<1>2. CASE UNCHANGED walletVars
  BY <1>1, <1>2, NoPostKeepsWallet DEF WalletInv
<1>3. ASSUME NEW i \in Invites, NEW d \in Directions, Post(Org, d, PriceOf[i])
      PROVE  WalletInv'
  <2>1. Org \in Orgs /\ PriceOf[i] \in Nat
    BY InvitesAssumption, AmountsAssumption
  <2> QED  BY <1>1, <1>3, <2>1, PostKeepsWallet
<1>4. ASSUME NEW i \in Invites, Charge(i) \/ Refund(i)
      PROVE  WalletInv'
  BY <1>3, <1>4 DEF Charge, Refund, Directions
<1>5. ASSUME NEW i \in Invites, CallStep(i)
      PROVE  WalletInv'
  BY <1>2, <1>4, <1>5 DEF CallStep, CreationStep, BeginCreate, InsertInvite, ChargeSeat,
         SendInviteEmail, MarkSent, RecordSent, Caught, ReverseCharge,
         MarkDeliveryFailed, CreatorDies,
         NoPosting, WalletInv
<1>6. ASSUME NEW s \in Sessions, SessionMove(s)
      PROVE  WalletInv'
  <2>1. CASE RefundSeat(s)
    <3>1. call[s].invite \in Invites
      BY <2>1 DEF RefundSeat, TypeOK
    <3> QED  BY <1>2, <1>4, <2>1, <3>1 DEF RefundSeat, NoPosting, WalletInv
  <2> QED  BY <1>2, <1>6, <2>1 DEF SessionMove, SessionStep, ExpireInvite, MarkRevoked,
               Join, MarkAccepted, SessionDies, NoPosting, WalletInv
<1>7. ASSUME NEW s \in Sessions, NEW op \in Operations, NEW i \in Invites,
             ReadInvite(s, op, i)
      PROVE  WalletInv'
  BY <1>2, <1>7 DEF ReadInvite, NoPosting, WalletInv
<1>8. ASSUME NEW i \in Invites, GrowOverdue(i)
      PROVE  WalletInv'
  BY <1>2, <1>8 DEF GrowOverdue, NoPosting, WalletInv
<1>9. UNCHANGED vars => WalletInv'
  BY <1>2 DEF vars, WalletInv
<1> QED  BY <1>5, <1>6, <1>7, <1>8, <1>9 DEF Next, CallStep, SessionMove, WalletInv

\* The row of an invite, and the variables of a session, as a step writes them.
LEMMA RowTypes ==
    ASSUME TypeOK, NEW i \in Invites, NEW v \in Statuses, NEW b \in BillingStatuses,
           WriteRow(i, v, b)
    PROVE  /\ status' \in [Invites -> Statuses] /\ billing' \in [Invites -> BillingStatuses]
           /\ overdue' = overdue
BY DEF TypeOK, WriteRow

LEMMA PostingTypes ==
    ASSUME TypeOK, NEW i \in Invites, Charge(i) \/ Refund(i) \/ NoPosting
    PROVE  charges' \in [Invites -> Nat] /\ refunds' \in [Invites -> Nat]
BY DEF TypeOK, Charge, Refund, NoPosting, postings

LEMMA FaultTypes ==
    ASSUME TypeOK, NEW i \in Invites, Fault(i) \/ NoFault
    PROVE  faulty' \subseteq Invites /\ faults' \in 0..MaxFaults
<1>1. MaxFaults \in Nat
  BY InvitesAssumption
<1> QED  BY <1>1 DEF TypeOK, Fault, NoFault

SessionTypes ==
    /\ pc \in [Sessions -> SessionLabels]
    /\ call \in [Sessions -> [op : Operations, invite : Invites \cup {NoInvite}]]
    /\ \A s \in Sessions : pc[s] # "idle" => call[s].invite \in Invites
    /\ saw \in [Sessions -> SeenRow]

LEMMA IdleTypes ==
    /\ IdleCall \in [op : Operations, invite : Invites \cup {NoInvite}]
    /\ NothingSeen \in SeenRow
BY DEF IdleCall, Operations, NothingSeen, SeenRow, Statuses, BillingStatuses

\* A session that is set to label, with the call and the row it holds.
LEMMA SessionSet ==
    ASSUME TypeOK, NEW s \in Sessions, NEW label \in SessionLabels,
           NEW c \in [op : Operations, invite : Invites \cup {NoInvite}],
           NEW row \in SeenRow, label # "idle" => c.invite \in Invites,
           pc' = [pc EXCEPT ![s] = label], call' = [call EXCEPT ![s] = c],
           saw' = [saw EXCEPT ![s] = row]
    PROVE  SessionTypes'
<1>1. /\ pc' \in [Sessions -> SessionLabels] /\ saw' \in [Sessions -> SeenRow]
      /\ call' \in [Sessions -> [op : Operations, invite : Invites \cup {NoInvite}]]
  BY DEF TypeOK
<1>2. ASSUME NEW t \in Sessions, pc'[t] # "idle"
      PROVE  call'[t].invite \in Invites
  BY <1>2 DEF TypeOK
<1> QED  BY <1>1, <1>2 DEF SessionTypes

LEMMA DecisionLabel ==
    ASSUME NEW op \in Operations, NEW row \in SeenRow
    PROVE  Decision(op, row) \in {"refund", "markRevoked", "join", "idle"}
BY DEF Decision

LEMMA EndCallTypes ==
    ASSUME TypeOK, NEW s \in Sessions, EndCall(s)
    PROVE  SessionTypes'
<1>1. "idle" \in SessionLabels
  BY DEF SessionLabels
<1> QED  BY <1>1, IdleTypes, SessionSet DEF EndCall

LEMMA ContinueTypes ==
    ASSUME TypeOK, NEW s \in Sessions, pc[s] # "idle",
           NEW label \in SessionLabels, Continue(s, label)
    PROVE  SessionTypes'
<1>1. call' = [call EXCEPT ![s] = call[s]] /\ saw' = [saw EXCEPT ![s] = saw[s]]
  BY DEF Continue, TypeOK
<1>2. /\ call[s] \in [op : Operations, invite : Invites \cup {NoInvite}]
      /\ saw[s] \in SeenRow /\ call[s].invite \in Invites
  BY DEF TypeOK
<1>3. pc' = [pc EXCEPT ![s] = label]
  BY DEF Continue
<1> QED  BY <1>1, <1>2, <1>3, SessionSet

LEMMA ProceedTypes ==
    ASSUME TypeOK, NEW s \in Sessions, pc[s] # "idle",
           NEW row \in SeenRow, Proceed(s, call[s], row)
    PROVE  SessionTypes'
<1> DEFINE label == Decision(call[s].op, row)
<1>1. /\ call[s] \in [op : Operations, invite : Invites \cup {NoInvite}]
      /\ call[s].invite \in Invites /\ call[s].op \in Operations
  BY DEF TypeOK
<1>2. label \in SessionLabels
  BY <1>1, DecisionLabel DEF SessionLabels
<1>3. CASE label = "idle"
  <2>1. EndCall(s)
    BY <1>3 DEF Proceed, EndCall
  <2> QED  BY <2>1, EndCallTypes
<1>4. CASE label # "idle"
  <2>1. /\ pc' = [pc EXCEPT ![s] = label] /\ call' = [call EXCEPT ![s] = call[s]]
        /\ saw' = [saw EXCEPT ![s] = row]
    BY <1>4 DEF Proceed
  <2> QED  BY <1>1, <1>2, <2>1, SessionSet
<1> QED  BY <1>3, <1>4

LEMMA TypeStep ==
    ASSUME TypeOK, LedgerExplainsBalance, [Next]_vars
    PROVE  TypeOK'
<1>a. WalletTypeOK'
  BY WalletStep
<1>b. ASSUME UNCHANGED sessionVars PROVE SessionTypes'
  BY <1>b DEF sessionVars, SessionTypes, TypeOK
<1>c. ASSUME UNCHANGED rowVars
      PROVE  /\ status' \in [Invites -> Statuses] /\ billing' \in [Invites -> BillingStatuses]
             /\ overdue' = overdue
  BY <1>c DEF rowVars, TypeOK
<1>d. /\ member \in BOOLEAN /\ delivered \subseteq Invites /\ overdue \subseteq Invites
      /\ overlaps \in [Invites -> SUBSET SUBSET (Operations \cup {"create"})]
      /\ calls \in 0..MaxCalls /\ creation \in [Invites -> CreationLabels]
      /\ \A i \in Invites : billing[i] \in BillingStatuses
  BY DEF TypeOK
<1>e. /\ {"pending", "sent", "delivery_failed", "revoked", "expired", "accepted"}
             \subseteq Statuses
      /\ {"pending", "charged", "reversed", "not_required"} \subseteq BillingStatuses
  BY DEF Statuses, BillingStatuses
<1>1. CASE UNCHANGED vars
  BY <1>1, <1>a
  DEF vars, rowVars, worldVars, sessionVars, postings, TypeOK
<1>2. ASSUME NEW i \in Invites, CallStep(i)
      PROVE  TypeOK'
  <2>1. SessionTypes' /\ calls' = calls /\ member' = member
    BY <1>2, <1>b DEF CallStep, CreationStep, BeginCreate, InsertInvite, ChargeSeat,
         SendInviteEmail, MarkSent, RecordSent, Caught, ReverseCharge,
         MarkDeliveryFailed, CreatorDies,
         worldVars
  <2>2. /\ status' \in [Invites -> Statuses] /\ billing' \in [Invites -> BillingStatuses]
        /\ overdue' = overdue
    BY <1>2, <1>c, <1>e, RowTypes DEF CallStep, CreationStep, BeginCreate, InsertInvite,
         ChargeSeat, SendInviteEmail, MarkSent, RecordSent, Caught,
         ReverseCharge, MarkDeliveryFailed, CreatorDies
  <2>3. charges' \in [Invites -> Nat] /\ refunds' \in [Invites -> Nat]
    BY <1>2, PostingTypes DEF CallStep, CreationStep, BeginCreate, InsertInvite,
         ChargeSeat, SendInviteEmail, MarkSent, RecordSent, Caught,
         ReverseCharge, MarkDeliveryFailed, CreatorDies
  <2>4. faulty' \subseteq Invites /\ faults' \in 0..MaxFaults
    BY <1>2, FaultTypes DEF CallStep, CreationStep, BeginCreate, InsertInvite,
         ChargeSeat, SendInviteEmail, MarkSent, RecordSent, Caught,
         ReverseCharge, MarkDeliveryFailed, CreatorDies
  <2>5. creation' \in [Invites -> CreationLabels]
    <3>1. \E label \in CreationLabels : CreationGoes(i, label)
      BY <1>2 DEF CallStep, CreationStep, BeginCreate, InsertInvite,
         ChargeSeat, SendInviteEmail, MarkSent, RecordSent, Caught,
         ReverseCharge, MarkDeliveryFailed, CreatorDies, CreationLabels
    <3> QED  BY <1>d, <3>1 DEF CreationGoes
  <2>6. delivered' \subseteq Invites
    BY <1>2, <1>d DEF CallStep, CreationStep, BeginCreate, InsertInvite,
         ChargeSeat, SendInviteEmail, MarkSent, RecordSent, Caught,
         ReverseCharge, MarkDeliveryFailed, CreatorDies, worldVars
  <2>7. overlaps' \in [Invites -> SUBSET SUBSET (Operations \cup {"create"})]
    <3>1. overlaps' = overlaps \/ overlaps' = [overlaps EXCEPT ![i] = @ \cup {{"create"}}]
      BY <1>2 DEF CallStep, CreationStep, BeginCreate, InsertInvite,
         ChargeSeat, SendInviteEmail, MarkSent, RecordSent, Caught,
         ReverseCharge, MarkDeliveryFailed, CreatorDies
    <3> QED  BY <1>d, <3>1
  <2> QED  BY <1>a, <1>d, <2>1, <2>2, <2>3, <2>4, <2>5, <2>6, <2>7 DEF TypeOK, SessionTypes
<1>3. ASSUME NEW s \in Sessions, SessionMove(s)
      PROVE  TypeOK'
  <2> DEFINE i == call[s].invite
  <2>1. pc[s] # "idle" /\ i \in Invites
    BY <1>3 DEF SessionMove, SessionStep, ExpireInvite, RefundSeat, MarkRevoked, Join,
                MarkAccepted, SessionDies, TypeOK
  <2>2. /\ billing[i] \in BillingStatuses /\ saw[s] \in SeenRow
        /\ saw[s].billing \in BillingStatuses
        /\ [status |-> "expired", billing |-> billing[i]] \in SeenRow
        /\ {"markRevoked", "markAccepted"} \subseteq SessionLabels
    BY <2>1, <1>e DEF TypeOK, SeenRow, SessionLabels
  <2> HIDE DEF i
  <2>3. SessionTypes'
    BY <1>3, <2>1, <2>2, EndCallTypes, ContinueTypes, ProceedTypes
    DEF SessionMove, SessionStep, ExpireInvite, RefundSeat, MarkRevoked, Join,
        MarkAccepted, SessionDies, i
  <2>4. /\ status' \in [Invites -> Statuses] /\ billing' \in [Invites -> BillingStatuses]
        /\ overdue' = overdue
    BY <1>3, <1>c, <1>e, <2>1, <2>2, RowTypes
    DEF SessionMove, SessionStep, ExpireInvite, RefundSeat, MarkRevoked, Join,
        MarkAccepted, SessionDies, i
  <2>5. charges' \in [Invites -> Nat] /\ refunds' \in [Invites -> Nat]
    BY <1>3, <2>1, PostingTypes
    DEF SessionMove, SessionStep, ExpireInvite, RefundSeat, MarkRevoked, Join,
        MarkAccepted, SessionDies, i
  <2>6. faulty' \subseteq Invites /\ faults' \in 0..MaxFaults
    BY <1>3, <2>1, FaultTypes
    DEF SessionMove, SessionStep, ExpireInvite, RefundSeat, MarkRevoked, Join,
        MarkAccepted, SessionDies, i
  <2>7. /\ creation' = creation /\ overlaps' = overlaps /\ calls' = calls
        /\ delivered' = delivered /\ member' \in BOOLEAN
    BY <1>3, <1>d DEF SessionMove, SessionStep, ExpireInvite, RefundSeat, MarkRevoked, Join,
        MarkAccepted, SessionDies, worldVars
  <2> QED  BY <1>a, <1>d, <2>3, <2>4, <2>5, <2>6, <2>7 DEF TypeOK, SessionTypes
<1>4. ASSUME NEW s \in Sessions, NEW op \in Operations, NEW i \in Invites,
             ReadInvite(s, op, i)
      PROVE  TypeOK'
  <2> DEFINE row == [status |-> status[i], billing |-> billing[i]]
             c == [op |-> op, invite |-> i]
  <2>1. row \in SeenRow
    BY DEF TypeOK, SeenRow
  <2>2. c \in [op : Operations, invite : Invites \cup {NoInvite}] /\ c.invite \in Invites
    OBVIOUS
  <2>3. \E label \in SessionLabels : pc' = [pc EXCEPT ![s] = label]
    <3>1. pc' = [pc EXCEPT ![s] = IF status[i] \in Active /\ i \in overdue
                                    THEN "expire" ELSE Decision(op, row)]
      BY <1>4 DEF ReadInvite
    <3> QED  BY <2>1, <3>1, DecisionLabel DEF SessionLabels
  <2>4. call' = [call EXCEPT ![s] = c] /\ saw' = [saw EXCEPT ![s] = row]
    BY <1>4 DEF ReadInvite
  <2> HIDE DEF row, c
  <2>5. SessionTypes'
    BY <2>1, <2>2, <2>3, <2>4, SessionSet
  <2>6. overlaps' \in [Invites -> SUBSET SUBSET (Operations \cup {"create"})]
    <3>1. overlaps' = [overlaps EXCEPT ![i] = @ \cup OverlapsWith(op, i)]
      BY <1>4 DEF ReadInvite
    <3>2. OverlapsWith(op, i) \subseteq SUBSET (Operations \cup {"create"})
      BY DEF OverlapsWith, TypeOK
    <3> QED  BY <1>d, <3>1, <3>2
  <2>7. calls' \in 0..MaxCalls
    BY <1>4, <1>d, InvitesAssumption DEF ReadInvite
  <2>8. charges' = charges /\ refunds' = refunds /\ faulty' = faulty /\ faults' = faults
    BY <1>4 DEF ReadInvite, NoPosting, NoFault, postings
  <2> QED  BY <1>4, <1>a, <1>d, <2>5, <2>6, <2>7, <2>8
           DEF ReadInvite, rowVars, worldVars, TypeOK, SessionTypes
<1>5. ASSUME NEW i \in Invites, GrowOverdue(i)
      PROVE  TypeOK'
  BY <1>5, <1>a, <1>b DEF GrowOverdue, NoPosting, NoFault, postings, worldVars, TypeOK,
                          SessionTypes
<1> QED  BY <1>1, <1>2, <1>3, <1>4, <1>5 DEF Next, CallStep, SessionMove

\* The types hold, and no seat overdraws the wallet, for any invites and faults.
THEOREM TypeCorrect == Spec => [](TypeOK /\ LedgerExplainsBalance)
<1>1. Init => TypeOK /\ LedgerExplainsBalance
  BY InitType
<1>2. TypeOK /\ LedgerExplainsBalance /\ [Next]_vars => TypeOK' /\ LedgerExplainsBalance'
  BY TypeStep, WalletStep
<1> QED  BY <1>1, <1>2, PTL DEF Spec

-----------------------------------------------------------------------------
(* Which invite a step is about.                                            *)

\* The step leaves i, and the calls about it, as they are.
Untouched(i) ==
    /\ status'[i] = status[i] /\ billing'[i] = billing[i] /\ creation'[i] = creation[i]
    /\ charges'[i] = charges[i] /\ refunds'[i] = refunds[i] /\ overlaps'[i] = overlaps[i]
    /\ i \in faulty' <=> i \in faulty
    /\ i \in overdue' <=> i \in overdue
    /\ i \in delivered' <=> i \in delivered
    /\ \A s \in Sessions : Works(s, i)' <=> Works(s, i)
    /\ \A s \in Sessions : Works(s, i) =>
          pc'[s] = pc[s] /\ call'[s] = call[s] /\ saw'[s] = saw[s]

LEMMA UntouchedKeeps ==
    ASSUME NEW i \in Invites, Untouched(i), GroundInv(i), MoneyInv(i)
    PROVE  GroundInv(i)' /\ MoneyInv(i)'
<1> USE DEF Untouched, GroundInv, MoneyInv, Overlapped, CreationRuns
<1>1. BirthInv(i)'
  BY DEF BirthInv
<1>2. CallInv(i)'
  BY DEF CallInv
<1>3. OverlapInv(i)'
  BY DEF OverlapInv
<1>4. AcceptedInv(i)'
  BY DEF AcceptedInv
<1>5. Refunded(i)' <=> Refunded(i)
  BY DEF Refunded
<1>6. SeatInv(i)'
  BY DEF SeatInv, Seat
<1>7. RefundInv(i)'
  BY <1>5 DEF RefundInv
<1>8. BillInv(i)'
  BY <1>5 DEF BillInv
<1>9. DeliveredInv(i)'
  BY <1>5 DEF DeliveredInv, Seat
<1>10. JoinInv(i)'
  BY DEF JoinInv
<1>11. GivenUpInv(i)'
  BY <1>5 DEF GivenUpInv
<1> QED  BY <1>1, <1>2, <1>3, <1>4, <1>6, <1>7, <1>8, <1>9, <1>10, <1>11

\* A fault leaves nothing to show for the money of its invite.
LEMMA FaultyKeeps ==
    ASSUME NEW i \in Invites, i \in faulty'
    PROVE  MoneyInv(i)'
BY DEF MoneyInv, SeatInv, RefundInv, BillInv, DeliveredInv, JoinInv, GivenUpInv

\* What a step of the create call of i does to the rest of the state.
LEMMA CallFrame ==
    ASSUME TypeOK, NEW i \in Invites, CallStep(i)
    PROVE  /\ UNCHANGED sessionVars /\ overdue' = overdue
           /\ \E label \in CreationLabels : creation' = [creation EXCEPT ![i] = label]
           /\ \/ UNCHANGED rowVars
              \/ \E v \in Statuses \ {"accepted"}, b \in BillingStatuses : WriteRow(i, v, b)
           /\ delivered' \in {delivered, delivered \cup {i}}
           /\ faulty' \in {faulty, faulty \cup {i}}
           /\ Charge(i) \/ Refund(i) \/ NoPosting
           /\ overlaps' \in {overlaps, [overlaps EXCEPT ![i] = @ \cup {{"create"}}]}
<1> USE DEF CallStep, CreationStep, BeginCreate, InsertInvite, ChargeSeat, SendInviteEmail,
            MarkSent, RecordSent, Caught, ReverseCharge, MarkDeliveryFailed, CreatorDies
<1>1. UNCHANGED sessionVars
  OBVIOUS
<1>2. \E label \in CreationLabels : creation' = [creation EXCEPT ![i] = label]
  BY DEF CreationGoes, CreationLabels
<1>3. \/ UNCHANGED rowVars
      \/ \E v \in Statuses \ {"accepted"}, b \in BillingStatuses : WriteRow(i, v, b)
  BY DEF Statuses, BillingStatuses
<1>4. delivered' \in {delivered, delivered \cup {i}}
  BY DEF worldVars
<1>5. faulty' \in {faulty, faulty \cup {i}}
  BY DEF Fault, NoFault
<1>6. Charge(i) \/ Refund(i) \/ NoPosting
  OBVIOUS
<1>7. overlaps' \in {overlaps, [overlaps EXCEPT ![i] = @ \cup {{"create"}}]}
  OBVIOUS
<1>8. overdue' = overdue
  BY <1>3 DEF rowVars, WriteRow
<1> QED  BY <1>1, <1>2, <1>3, <1>4, <1>5, <1>6, <1>7, <1>8

LEMMA CallElsewhere ==
    ASSUME TypeOK, NEW i \in Invites, CallStep(i), NEW j \in Invites \ {i}
    PROVE  Untouched(j)
<1>1. status'[j] = status[j] /\ billing'[j] = billing[j]
  BY CallFrame DEF rowVars, WriteRow, TypeOK
<1>2. creation'[j] = creation[j] /\ overlaps'[j] = overlaps[j]
  BY CallFrame DEF TypeOK
<1>3. charges'[j] = charges[j] /\ refunds'[j] = refunds[j]
  BY CallFrame DEF Charge, Refund, NoPosting, postings, TypeOK
<1>4. pc' = pc /\ call' = call /\ saw' = saw /\ overdue' = overdue
  BY CallFrame DEF sessionVars
<1>5. (j \in faulty' <=> j \in faulty) /\ (j \in delivered' <=> j \in delivered)
  BY CallFrame
<1> QED  BY <1>1, <1>2, <1>3, <1>4, <1>5 DEF Untouched, Works

\* What a step of a session's call does to the rest of the state.
LEMMA SessionFrame ==
    ASSUME TypeOK, NEW s \in Sessions, SessionMove(s), NEW i, i = call[s].invite
    PROVE  /\ pc[s] # "idle" /\ i \in Invites
           /\ creation' = creation /\ overlaps' = overlaps /\ delivered' = delivered
           /\ overdue' = overdue
           /\ \/ UNCHANGED rowVars
              \/ \E v \in Statuses, b \in BillingStatuses : WriteRow(i, v, b)
           /\ faulty' \in {faulty, faulty \cup {i}}
           /\ Refund(i) \/ NoPosting
           /\ \A t \in Sessions \ {s} :
                 pc'[t] = pc[t] /\ call'[t] = call[t] /\ saw'[t] = saw[t]
           /\ \/ pc'[s] = "idle" /\ call'[s] = IdleCall
              \/ pc'[s] # "idle" /\ call'[s] = call[s] /\ saw'[s] = saw[s]
<1>1. pc[s] # "idle" /\ i \in Invites
  BY DEF SessionMove, SessionStep, ExpireInvite, RefundSeat, MarkRevoked, Join,
         MarkAccepted, SessionDies, TypeOK
<1>2. /\ creation' = creation /\ overlaps' = overlaps /\ delivered' = delivered
      /\ faulty' \in {faulty, faulty \cup {i}}
      /\ Refund(i) \/ NoPosting
  BY DEF SessionMove, SessionStep, ExpireInvite, RefundSeat, MarkRevoked, Join,
         MarkAccepted, SessionDies, worldVars, Fault, NoFault
<1>3. \/ UNCHANGED rowVars
      \/ \E v \in Statuses, b \in BillingStatuses : WriteRow(i, v, b)
  <2>1. billing[i] \in BillingStatuses /\ saw[s].billing \in BillingStatuses
    BY <1>1 DEF TypeOK, SeenRow
  <2>2. {"revoked", "expired", "accepted"} \subseteq Statuses /\ "reversed" \in BillingStatuses
    BY DEF Statuses, BillingStatuses
  <2> QED  BY <2>1, <2>2 DEF SessionMove, SessionStep, ExpireInvite, RefundSeat, MarkRevoked,
               Join, MarkAccepted, SessionDies
<1>4. overdue' = overdue
  BY <1>3 DEF rowVars, WriteRow
<1>5. \/ EndCall(s)
      \/ \E label \in {"markRevoked", "markAccepted"} : Continue(s, label)
      \/ Proceed(s, call[s], [status |-> "expired", billing |-> billing[i]])
      \/ Proceed(s, call[s], saw[s])
  BY DEF SessionMove, SessionStep, ExpireInvite, RefundSeat, MarkRevoked, Join,
         MarkAccepted, SessionDies
<1>6. /\ \A t \in Sessions \ {s} :
            pc'[t] = pc[t] /\ call'[t] = call[t] /\ saw'[t] = saw[t]
      /\ \/ pc'[s] = "idle" /\ call'[s] = IdleCall
         \/ pc'[s] # "idle" /\ call'[s] = call[s] /\ saw'[s] = saw[s]
  <2>1. CASE EndCall(s)
    BY <2>1 DEF EndCall, TypeOK
  <2>2. CASE \E label \in {"markRevoked", "markAccepted"} : Continue(s, label)
    BY <2>2 DEF Continue, TypeOK
  <2>3. CASE Proceed(s, call[s], [status |-> "expired", billing |-> billing[i]])
    <3>1. Decision(call[s].op, [status |-> "expired", billing |-> billing[i]]) = "idle"
      BY DEF Decision
    <3> QED  BY <2>3, <3>1 DEF Proceed, TypeOK
  <2>4. CASE Proceed(s, call[s], saw[s])
    BY <2>4 DEF Proceed, TypeOK
  <2> QED  BY <1>5, <2>1, <2>2, <2>3, <2>4
<1> QED  BY <1>1, <1>2, <1>3, <1>4, <1>6

LEMMA SessionElsewhere ==
    ASSUME TypeOK, NEW s \in Sessions, SessionMove(s),
           NEW j \in Invites, j # call[s].invite
    PROVE  Untouched(j)
<1> DEFINE i == call[s].invite
<1>0. i \in Invites
  BY SessionFrame
<1>1. status'[j] = status[j] /\ billing'[j] = billing[j]
  BY <1>0, SessionFrame DEF rowVars, WriteRow, TypeOK
<1>2. charges'[j] = charges[j] /\ refunds'[j] = refunds[j]
  BY <1>0, SessionFrame DEF Refund, NoPosting, postings, TypeOK
<1>3. /\ creation' = creation /\ overlaps' = overlaps /\ delivered' = delivered
      /\ overdue' = overdue /\ (j \in faulty' <=> j \in faulty)
  BY <1>0, SessionFrame
<1>4. ~Works(s, j) /\ ~Works(s, j)'
  BY SessionFrame DEF Works
<1>5. ASSUME NEW t \in Sessions
      PROVE  /\ Works(t, j)' <=> Works(t, j)
             /\ Works(t, j) => pc'[t] = pc[t] /\ call'[t] = call[t] /\ saw'[t] = saw[t]
  <2>1. CASE t = s
    BY <1>4, <2>1
  <2>2. CASE t # s
    <3>1. pc'[t] = pc[t] /\ call'[t] = call[t] /\ saw'[t] = saw[t]
      BY <2>2, SessionFrame
    <3> QED  BY <3>1 DEF Works
  <2> QED  BY <2>1, <2>2
<1> QED  BY <1>1, <1>2, <1>3, <1>5 DEF Untouched

-----------------------------------------------------------------------------
(* Who works on an invite.                                                  *)

\* The create call of i keeps what does not depend on faults.
LEMMA CallGround ==
    ASSUME TypeOK, NEW i \in Invites, CallStep(i), GroundInv(i)
    PROVE  GroundInv(i)'
<1>1. pc' = pc /\ call' = call /\ saw' = saw /\ overdue' = overdue
  BY CallFrame DEF sessionVars
<1>2. \A s \in Sessions : Works(s, i)' <=> Works(s, i)
  BY <1>1 DEF Works
<1>3. overlaps[i] \subseteq overlaps'[i]
  BY CallFrame DEF TypeOK
<1>4. /\ status'[i] = "accepted" => status[i] = "accepted"
      /\ status' = status \/ status'[i] # "accepted"
  BY CallFrame DEF rowVars, WriteRow, TypeOK
<1>5. PICK label \in CreationLabels : creation' = [creation EXCEPT ![i] = label]
  BY CallFrame
<1>6. creation'[i] = label
  BY <1>5 DEF TypeOK
<1>7. \/ creation[i] = "new" /\ label \in {"over", "insert"} /\ UNCHANGED rowVars
      \/ creation[i] = "insert" /\ label \notin {"new", "insert"}
      \/ creation[i] \notin {"new", "insert", "over"} /\ label \notin {"new", "insert"}
  <2>1. CASE BeginCreate(i)
    BY <1>6, <2>1 DEF BeginCreate, CreationGoes, TypeOK
  <2>2. CASE InsertInvite(i)
    BY <1>6, <2>2 DEF InsertInvite, CreationGoes, TypeOK
  <2>3. CASE ChargeSeat(i) \/ SendInviteEmail(i) \/ MarkSent(i) \/ ReverseCharge(i)
             \/ MarkDeliveryFailed(i)
    BY <1>6, <2>3 DEF ChargeSeat, SendInviteEmail, MarkSent, RecordSent, Caught, ReverseCharge,
                      MarkDeliveryFailed, CreationGoes, TypeOK
  <2>4. CASE CreatorDies(i)
    BY <1>6, <2>4 DEF CreatorDies, CreationGoes, CreationRuns, TypeOK
  <2> QED  BY <2>1, <2>2, <2>3, <2>4 DEF CallStep, CreationStep
<1> USE DEF GroundInv
<1>8. BirthInv(i)'
  BY <1>2, <1>6, <1>7 DEF BirthInv, rowVars
<1>9. CallInv(i)'
  BY <1>1, <1>2 DEF CallInv
<1>10. (\E s \in Sessions : Works(s, i)) /\ CreationRuns(i)' => CreationRuns(i)
  BY <1>6, <1>7 DEF BirthInv, CreationRuns
<1>11. OverlapInv(i)'
  BY <1>1, <1>2, <1>3, <1>10 DEF OverlapInv, Overlapped
<1>12. status[i] = "accepted" /\ CreationRuns(i)' => CreationRuns(i)
  BY <1>6, <1>7 DEF BirthInv, CreationRuns
<1>13. AcceptedInv(i)'
  BY <1>1, <1>2, <1>3, <1>4, <1>12 DEF AcceptedInv, Overlapped
<1> QED  BY <1>8, <1>9, <1>11, <1>13

\* So does a session's call.
LEMMA SessionGround ==
    ASSUME TypeOK, NEW s \in Sessions, SessionMove(s), NEW i, i = call[s].invite,
           GroundInv(i)
    PROVE  GroundInv(i)'
<1>a. pc[s] # "idle" /\ i \in Invites /\ Works(s, i)
  BY SessionFrame DEF Works
<1>1. /\ creation' = creation /\ overlaps' = overlaps /\ overdue' = overdue
      /\ \A t \in Sessions \ {s} :
            pc'[t] = pc[t] /\ call'[t] = call[t] /\ saw'[t] = saw[t]
      /\ \/ pc'[s] = "idle" /\ call'[s] = IdleCall
         \/ pc'[s] # "idle" /\ call'[s] = call[s] /\ saw'[s] = saw[s]
  BY SessionFrame
<1>2. \A t \in Sessions : Works(t, i)' =>
         Works(t, i) /\ call'[t] = call[t] /\ saw'[t] = saw[t]
  BY <1>a, <1>1 DEF Works
<1>3. \A t \in Sessions \ {s} : Works(t, i)' => pc'[t] = pc[t]
  BY <1>1
<1>4. creation[i] \notin {"new", "insert"}
  BY <1>a DEF GroundInv, BirthInv
<1> USE DEF GroundInv
<1>5. BirthInv(i)'
  BY <1>1, <1>4 DEF BirthInv
<1>6. CallInv(i)'
  <2>1. Works(s, i)' =>
           /\ pc'[s] \in {"refund", "markRevoked"} => call[s].op = "revoke"
           /\ pc'[s] \in {"join", "markAccepted"} => call[s].op = "accept"
           /\ pc'[s] = "refund" => saw[s].billing = "charged"
           /\ pc'[s] # "expire"
    <3> SUFFICES ASSUME pc'[s] # "idle"
                 PROVE  /\ pc'[s] \in {"refund", "markRevoked"} => call[s].op = "revoke"
                        /\ pc'[s] \in {"join", "markAccepted"} => call[s].op = "accept"
                        /\ pc'[s] = "refund" => saw[s].billing = "charged"
                        /\ pc'[s] # "expire"
      BY DEF Works
    <3>1. CASE ExpireInvite(s)
      <4>1. \/ pc'[s] = Decision(call[s].op, [status |-> "expired", billing |-> billing[i]])
            \/ pc'[s] = Decision(call[s].op, saw[s])
        BY <3>1 DEF ExpireInvite, Proceed, TypeOK
      <4> QED  BY <4>1 DEF Decision
    <3>2. CASE RefundSeat(s)
      <4>1. pc[s] = "refund" /\ pc'[s] = "markRevoked"
        BY <3>2 DEF RefundSeat, Continue, EndCall, TypeOK
      <4> QED  BY <1>a, <4>1 DEF CallInv
    <3>3. CASE Join(s)
      <4>1. pc[s] = "join" /\ pc'[s] = "markAccepted"
        BY <3>3 DEF Join, Continue, TypeOK
      <4> QED  BY <1>a, <4>1 DEF CallInv
    <3>4. ~(MarkRevoked(s) \/ MarkAccepted(s) \/ SessionDies(s))
      BY DEF MarkRevoked, MarkAccepted, SessionDies, EndCall, TypeOK
    <3> QED  BY <3>1, <3>2, <3>3, <3>4 DEF SessionMove, SessionStep
  <2>2. \A t \in Sessions \ {s} : Works(t, i)' => Works(t, i) /\ pc'[t] = pc[t]
    BY <1>2, <1>3
  <2> QED  BY <1>1, <1>2, <2>1, <2>2 DEF CallInv
<1>7. OverlapInv(i)'
  BY <1>1, <1>2 DEF OverlapInv, Overlapped, CreationRuns
<1>8. AcceptedInv(i)'
  <2>1. CASE status'[i] = status[i]
    BY <1>1, <1>2, <2>1 DEF AcceptedInv, Overlapped, CreationRuns
  <2>2. CASE MarkAccepted(s)
    <3>1. ~Works(s, i)' /\ pc[s] = "markAccepted" /\ call[s].op = "accept"
      BY <1>a, <2>2 DEF MarkAccepted, EndCall, Works, TypeOK, CallInv
    <3>2. \A t \in Sessions : Works(t, i)' => Overlapped(i, "accept", call[t].op)
      BY <1>a, <1>2, <3>1 DEF OverlapInv
    <3>3. CreationRuns(i) => Overlapped(i, "accept", "create")
      BY <1>a, <3>1 DEF OverlapInv
    <3> QED  BY <1>1, <1>2, <3>2, <3>3 DEF AcceptedInv, Overlapped, CreationRuns
  <2>3. CASE ExpireInvite(s) \/ MarkRevoked(s)
    BY <1>a, <2>1, <2>3 DEF ExpireInvite, MarkRevoked, WriteRow, rowVars, AcceptedInv, TypeOK
  <2>4. CASE RefundSeat(s) \/ Join(s) \/ SessionDies(s)
    BY <2>1, <2>4 DEF RefundSeat, Join, SessionDies, rowVars
  <2> QED  BY <2>2, <2>3, <2>4 DEF SessionMove, SessionStep
<1> QED  BY <1>5, <1>6, <1>7, <1>8

\* A session that takes up i notes with whom it overlaps, and takes it up only
\* where the row says it may.
LEMMA ReadFrame ==
    ASSUME TypeOK, NEW s \in Sessions, NEW op \in Operations, NEW i \in Invites,
           ReadInvite(s, op, i)
    PROVE  /\ pc[s] = "idle" /\ Works(s, i)' /\ call'[s].op = op
           /\ saw'[s] = [status |-> status[i], billing |-> billing[i]]
           /\ \A t \in Sessions \ {s} :
                 /\ pc'[t] = pc[t] /\ call'[t] = call[t] /\ saw'[t] = saw[t]
                 /\ \A j \in Invites : Works(t, j)' <=> Works(t, j)
           /\ status' = status /\ billing' = billing /\ overdue' = overdue
           /\ creation' = creation /\ delivered' = delivered /\ faulty' = faulty
           /\ charges' = charges /\ refunds' = refunds
           /\ \A j \in Invites \ {i} : overlaps'[j] = overlaps[j]
           /\ overlaps'[i] = overlaps[i] \cup OverlapsWith(op, i)
           /\ op \in {"accept", "preview"} => i \in delivered
           /\ status[i] # "none"
           /\ \/ pc'[s] = "expire" /\ i \in overdue /\ status[i] \in Active
              \/ /\ pc'[s] = Decision(op, [status |-> status[i], billing |-> billing[i]])
                 /\ pc'[s] # "idle"
<1>1. /\ \A t \in Sessions \ {s} :
            pc'[t] = pc[t] /\ call'[t] = call[t] /\ saw'[t] = saw[t]
      /\ call'[s] = [op |-> op, invite |-> i]
      /\ saw'[s] = [status |-> status[i], billing |-> billing[i]]
      /\ pc[s] = "idle" /\ pc'[s] # "idle"
  BY DEF ReadInvite, TypeOK
<1>2. Works(s, i)' /\ call'[s].op = op
  BY <1>1 DEF Works
<1>3. \A t \in Sessions \ {s} : \A j \in Invites : Works(t, j)' <=> Works(t, j)
  BY <1>1 DEF Works
<1>4. /\ status' = status /\ billing' = billing /\ overdue' = overdue
      /\ creation' = creation /\ delivered' = delivered /\ faulty' = faulty
      /\ charges' = charges /\ refunds' = refunds
      /\ op \in {"accept", "preview"} => i \in delivered
      /\ status[i] # "none"
  BY DEF ReadInvite, rowVars, worldVars, NoPosting, NoFault, postings
<1>5. /\ \A j \in Invites \ {i} : overlaps'[j] = overlaps[j]
      /\ overlaps'[i] = overlaps[i] \cup OverlapsWith(op, i)
  BY DEF ReadInvite, TypeOK
<1>6. \/ pc'[s] = "expire" /\ i \in overdue /\ status[i] \in Active
      \/ /\ pc'[s] = Decision(op, [status |-> status[i], billing |-> billing[i]])
         /\ pc'[s] # "idle"
  BY <1>1 DEF ReadInvite, TypeOK
<1> QED  BY <1>1, <1>2, <1>3, <1>4, <1>5, <1>6

LEMMA ReadGround ==
    ASSUME TypeOK, NEW s \in Sessions, NEW op \in Operations, NEW i \in Invites,
           ReadInvite(s, op, i), GroundInv(i)
    PROVE  /\ GroundInv(i)'
           /\ \A t \in Sessions : Works(t, i) => Overlapped(i, op, call[t].op)'
<1> USE DEF GroundInv
<1> DEFINE row == [status |-> status[i], billing |-> billing[i]]
<1>a. /\ pc[s] = "idle" /\ Works(s, i)' /\ call'[s].op = op /\ saw'[s] = row
      /\ \A t \in Sessions \ {s} :
            /\ pc'[t] = pc[t] /\ call'[t] = call[t] /\ saw'[t] = saw[t]
            /\ Works(t, i)' <=> Works(t, i)
  <2>1. /\ pc[s] = "idle" /\ Works(s, i)' /\ call'[s].op = op /\ saw'[s] = row
        /\ \A t \in Sessions \ {s} :
              pc'[t] = pc[t] /\ call'[t] = call[t] /\ saw'[t] = saw[t]
    BY ReadFrame
  <2> QED  BY <2>1 DEF Works
<1>b. /\ status' = status /\ billing' = billing /\ overdue' = overdue
      /\ creation' = creation /\ status[i] # "none"
      /\ overlaps'[i] = overlaps[i] \cup OverlapsWith(op, i)
  <2>1. status' = status /\ billing' = billing /\ overdue' = overdue
    BY ReadFrame
  <2>2. creation' = creation /\ status[i] # "none"
    BY ReadFrame
  <2>3. overlaps'[i] = overlaps[i] \cup OverlapsWith(op, i)
    BY DEF ReadInvite, TypeOK
  <2> QED  BY <2>1, <2>2, <2>3
<1>c. \/ pc'[s] = "expire" /\ i \in overdue /\ status[i] \in Active
      \/ pc'[s] = Decision(op, row) /\ pc'[s] # "idle"
  BY ReadFrame
<1>1. ~Works(s, i)
  BY <1>a DEF Works
<1>2. ASSUME NEW t \in Sessions, Works(t, i)
      PROVE  Overlapped(i, op, call[t].op)'
  <2>1. {op, call[t].op} \in OverlapsWith(op, i)
    BY <1>2 DEF OverlapsWith, Works
  <2>2. call'[t] = call[t]
    BY <1>1, <1>2, <1>a
  <2> QED  BY <1>b, <2>1, <2>2 DEF Overlapped
<1>3. CreationRuns(i) => Overlapped(i, op, "create")'
  BY <1>b DEF OverlapsWith, Overlapped
<1>4. BirthInv(i)'
  BY <1>b DEF BirthInv
<1>5. CallInv(i)'
  <2>1. /\ pc'[s] \in {"refund", "markRevoked"} => op = "revoke"
        /\ pc'[s] \in {"join", "markAccepted"} => op = "accept"
        /\ pc'[s] = "refund" => row.billing = "charged"
        /\ pc'[s] = "expire" => i \in overdue
    BY <1>c DEF Decision
  <2> QED  BY <1>a, <1>b, <2>1 DEF CallInv
<1>6. OverlapInv(i)'
  <2>1. \A t \in Sessions \ {s} : Works(t, i)' =>
           Overlapped(i, call[s].op, call[t].op)' /\ Overlapped(i, call[t].op, call[s].op)'
    BY <1>2, <1>a DEF Overlapped
  <2>2. \A t, u \in Sessions \ {s} : t # u /\ Works(t, i)' /\ Works(u, i)' =>
           Overlapped(i, call[t].op, call[u].op)'
    BY <1>a, <1>b DEF OverlapInv, Overlapped
  <2>3. \A t \in Sessions \ {s} : Works(t, i)' /\ CreationRuns(i) =>
           Overlapped(i, call[t].op, "create")'
    BY <1>a, <1>b DEF OverlapInv, Overlapped
  <2>4. CreationRuns(i)' <=> CreationRuns(i)
    BY <1>b DEF CreationRuns
  <2>5. CreationRuns(i) => Overlapped(i, call[s].op, "create")'
    BY <1>3, <1>a DEF Overlapped
  <2>6. \A t, u \in Sessions : t # u /\ Works(t, i)' /\ Works(u, i)' =>
           Overlapped(i, call[t].op, call[u].op)'
    BY <2>1, <2>2
  <2> QED  BY <2>3, <2>4, <2>5, <2>6 DEF OverlapInv
<1>7. AcceptedInv(i)'
  <2>1. status[i] # "accepted"
    BY <1>c DEF Decision, Active
  <2> QED  BY <1>b, <2>1 DEF AcceptedInv
<1> QED  BY <1>2, <1>4, <1>5, <1>6, <1>7

\* An invite that grows overdue changes nothing else.
LEMMA OverdueKeeps ==
    ASSUME NEW i \in Invites, GrowOverdue(i), NEW j \in Invites, GroundInv(j), MoneyInv(j)
    PROVE  GroundInv(j)' /\ MoneyInv(j)'
<1>1. /\ status' = status /\ billing' = billing /\ delivered' = delivered
      /\ creation' = creation /\ pc' = pc /\ call' = call /\ saw' = saw
      /\ charges' = charges /\ refunds' = refunds /\ overlaps' = overlaps
      /\ faulty' = faulty /\ overdue \subseteq overdue'
  BY DEF GrowOverdue, worldVars, sessionVars, NoPosting, postings, NoFault
<1>2. /\ \A s \in Sessions : Works(s, j)' <=> Works(s, j)
      /\ CreationRuns(j)' <=> CreationRuns(j)
      /\ Refunded(j)' <=> Refunded(j)
  BY <1>1 DEF Works, CreationRuns, Refunded
<1> USE <1>1, <1>2 DEF GroundInv, MoneyInv
<1>3. BirthInv(j)'
  BY DEF BirthInv
<1>4. CallInv(j)'
  BY DEF CallInv
<1>5. OverlapInv(j)'
  BY DEF OverlapInv, Overlapped
<1>6. AcceptedInv(j)'
  BY DEF AcceptedInv, Overlapped
<1>7. SeatInv(j)'
  BY DEF SeatInv, Seat
<1>8. RefundInv(j)'
  BY DEF RefundInv, Overlapped
<1>9. BillInv(j)'
  BY DEF BillInv, Overlapped
<1>10. DeliveredInv(j)'
  BY DEF DeliveredInv, Seat
<1>11. JoinInv(j)'
  BY DEF JoinInv, Overlapped
<1>12. GivenUpInv(j)'
  BY DEF GivenUpInv, Overlapped
<1> QED  BY <1>3, <1>4, <1>5, <1>6, <1>7, <1>8, <1>9, <1>10, <1>11, <1>12

\* A session that takes up i was about no other invite before.
LEMMA ReadElsewhere ==
    ASSUME TypeOK, NEW s \in Sessions, NEW op \in Operations, NEW i \in Invites,
           ReadInvite(s, op, i), NEW j \in Invites \ {i}
    PROVE  Untouched(j)
<1>1. /\ status' = status /\ billing' = billing /\ overdue' = overdue
      /\ creation' = creation /\ delivered' = delivered /\ faulty' = faulty
      /\ charges' = charges /\ refunds' = refunds
  BY DEF ReadInvite, rowVars, worldVars, NoPosting, NoFault, postings
<1>2. overlaps'[j] = overlaps[j]
  BY DEF ReadInvite, TypeOK
<1>3. /\ pc[s] = "idle" /\ call'[s].invite = i
      /\ \A t \in Sessions \ {s} :
            pc'[t] = pc[t] /\ call'[t] = call[t] /\ saw'[t] = saw[t]
  BY DEF ReadInvite, TypeOK
<1>4. ~Works(s, j) /\ ~Works(s, j)'
  BY <1>3 DEF Works
<1>5. ASSUME NEW t \in Sessions
      PROVE  /\ Works(t, j)' <=> Works(t, j)
             /\ Works(t, j) => pc'[t] = pc[t] /\ call'[t] = call[t] /\ saw'[t] = saw[t]
  <2>1. CASE t = s
    BY <1>4, <2>1
  <2>2. CASE t # s
    BY <1>3, <2>2 DEF Works
  <2> QED  BY <2>1, <2>2
<1> QED  BY <1>1, <1>2, <1>5 DEF Untouched

-----------------------------------------------------------------------------
(* The money of an invite that no fault hit.                                *)

RowKept(i) == status'[i] = status[i] /\ billing'[i] = billing[i]
SeatKept(i) == charges'[i] = charges[i] /\ refunds'[i] = refunds[i]
Goes(i, from, to) == creation[i] = from /\ creation'[i] = to

\* How the create call of i moves on when nothing fails.
CallMove(i) ==
    \/ /\ \/ Goes(i, "new", "insert") \/ Goes(i, "new", "over")
          \/ Goes(i, "insert", "over") \/ Goes(i, "charge", "markFailed")
          \/ Goes(i, "send", "reverse") /\ PriceOf[i] > 0
          \/ Goes(i, "send", "markFailed") /\ ~(PriceOf[i] > 0)
          \/ Goes(i, "send", "markSent")
          \/ Goes(i, "markSent", "over") /\ Overlapped(i, "create", "create")'
       /\ RowKept(i) /\ SeatKept(i)
    \/ /\ \/ Goes(i, "insert", "charge") /\ PriceOf[i] > 0
          \/ Goes(i, "insert", "send") /\ ~(PriceOf[i] > 0)
       /\ billing'[i] # "charged"
       /\ SeatKept(i)
    \/ /\ \/ /\ Goes(i, "markSent", "over")
             /\ billing'[i] = IF PriceOf[i] > 0 THEN "charged" ELSE "not_required"
          \/ /\ Goes(i, "markFailed", "over")
             /\ status'[i] = "delivery_failed" /\ billing'[i] # "charged"
       /\ SeatKept(i)
    \/ /\ Goes(i, "charge", "send")
       /\ charges'[i] = charges[i] + 1 /\ refunds'[i] = refunds[i]
       /\ RowKept(i)
    \/ /\ Goes(i, "reverse", "markFailed")
       /\ charges'[i] = charges[i] /\ refunds'[i] = refunds[i] + 1
       /\ RowKept(i)

LEMMA CallMoves ==
    ASSUME TypeOK, NEW i \in Invites, CallStep(i), i \notin faulty'
    PROVE  /\ CallMove(i)
           /\ i \in delivered' =>
                 i \in delivered \/ Goes(i, "send", "markSent")
           /\ i \in delivered => i \in delivered'
<1>1. ~Fault(i)
  BY DEF Fault
<1>2. \A label \in CreationLabels : CreationGoes(i, label) => creation'[i] = label
  BY DEF CreationGoes, TypeOK
<1>3. {"new", "insert", "charge", "send", "markSent", "reverse", "markFailed", "over"}
          \subseteq CreationLabels
  BY DEF CreationLabels
<1>4. \A v, b : WriteRow(i, v, b) => status'[i] = v /\ billing'[i] = b
  BY DEF WriteRow, TypeOK
<1>5. UNCHANGED rowVars => RowKept(i)
  BY DEF rowVars, RowKept
<1>6. /\ NoPosting => SeatKept(i)
      /\ Charge(i) => charges'[i] = charges[i] + 1 /\ refunds'[i] = refunds[i]
      /\ Refund(i) => charges'[i] = charges[i] /\ refunds'[i] = refunds[i] + 1
  BY DEF NoPosting, postings, SeatKept, Charge, Refund, TypeOK
<1>7. i \in delivered => i \in delivered'
  BY CallFrame
<1> USE DEF Goes
<1>8. CASE BeginCreate(i)
  <2>1. /\ creation[i] = "new" /\ creation'[i] \in {"insert", "over"}
        /\ RowKept(i) /\ SeatKept(i) /\ delivered' = delivered
    BY <1>2, <1>3, <1>5, <1>6, <1>8 DEF BeginCreate, worldVars
  <2> QED  BY <1>7, <2>1 DEF CallMove
<1>9. CASE InsertInvite(i)
  <2>1. creation[i] = "insert" /\ SeatKept(i) /\ delivered' = delivered
    BY <1>6, <1>9 DEF InsertInvite, worldVars
  <2>2. \/ creation'[i] = "over" /\ RowKept(i)
        \/ creation'[i] = "charge" /\ PriceOf[i] > 0 /\ billing'[i] = "pending"
        \/ creation'[i] = "send" /\ ~(PriceOf[i] > 0) /\ billing'[i] = "not_required"
    BY <1>2, <1>3, <1>4, <1>5, <1>9 DEF InsertInvite
  <2> QED  BY <1>7, <2>1, <2>2 DEF CallMove
<1>10. CASE ChargeSeat(i)
  <2>1. creation[i] = "charge" /\ RowKept(i) /\ delivered' = delivered
    BY <1>5, <1>10 DEF ChargeSeat, worldVars
  <2>2. \/ Charge(i) /\ creation'[i] = "send"
        \/ NoPosting /\ creation'[i] = "markFailed"
    BY <1>1, <1>2, <1>3, <1>10 DEF ChargeSeat
  <2> QED  BY <1>6, <1>7, <2>1, <2>2 DEF CallMove
<1>11. CASE SendInviteEmail(i)
  <2>1. creation[i] = "send" /\ RowKept(i) /\ SeatKept(i)
    BY <1>5, <1>6, <1>11 DEF SendInviteEmail
  <2>2. \/ creation'[i] = "markSent"
        \/ creation'[i] = "reverse" /\ PriceOf[i] > 0 /\ delivered' = delivered
        \/ creation'[i] = "markFailed" /\ ~(PriceOf[i] > 0) /\ delivered' = delivered
    BY <1>1, <1>2, <1>3, <1>11 DEF SendInviteEmail, Caught
  <2> QED  BY <1>7, <2>1, <2>2 DEF CallMove
<1>12. CASE MarkSent(i)
  <2>1. /\ creation[i] = "markSent" /\ creation'[i] = "over" /\ SeatKept(i)
        /\ delivered' = delivered
    BY <1>1, <1>2, <1>3, <1>6, <1>12 DEF MarkSent, worldVars
  <2>2. \/ billing'[i] = IF PriceOf[i] > 0 THEN "charged" ELSE "not_required"
        \/ RowKept(i) /\ Overlapped(i, "create", "create")'
    <3>1. overlaps' = [overlaps EXCEPT ![i] = @ \cup {{"create"}}] =>
             Overlapped(i, "create", "create")'
      BY DEF Overlapped, TypeOK
    <3> QED  BY <1>1, <1>4, <1>5, <1>12, <3>1 DEF MarkSent, RecordSent
  <2> QED  BY <1>7, <2>1, <2>2 DEF CallMove
<1>13. CASE ReverseCharge(i)
  <2>1. /\ creation[i] = "reverse" /\ creation'[i] = "markFailed"
        /\ RowKept(i) /\ delivered' = delivered /\ Refund(i)
    BY <1>1, <1>2, <1>3, <1>5, <1>13 DEF ReverseCharge, worldVars
  <2> QED  BY <1>6, <1>7, <2>1 DEF CallMove
<1>14. CASE MarkDeliveryFailed(i)
  <2>1. /\ creation[i] = "markFailed" /\ creation'[i] = "over"
        /\ SeatKept(i) /\ delivered' = delivered
        /\ status'[i] = "delivery_failed" /\ billing'[i] # "charged"
    BY <1>1, <1>2, <1>3, <1>4, <1>6, <1>14 DEF MarkDeliveryFailed, worldVars
  <2> QED  BY <1>7, <2>1 DEF CallMove
<1>15. ~CreatorDies(i)
  BY <1>1 DEF CreatorDies
<1> QED  BY <1>8, <1>9, <1>10, <1>11, <1>12, <1>13, <1>14, <1>15 DEF CallStep, CreationStep

\* The create call of i keeps the account of its seat: it charges once, before
\* it sends, and refunds only what was never delivered.
LEMMA CallMoney ==
    ASSUME TypeOK, NEW i \in Invites, CallStep(i), GroundInv(i), MoneyInv(i)
    PROVE  MoneyInv(i)'
<1> SUFFICES ASSUME i \notin faulty'
             PROVE  MoneyInv(i)'
  BY FaultyKeeps
<1>a. /\ i \notin faulty /\ CallMove(i)
      /\ i \in delivered' => i \in delivered \/ Goes(i, "send", "markSent")
      /\ i \in delivered => i \in delivered'
  BY CallMoves, CallFrame
<1>b. pc' = pc /\ call' = call /\ saw' = saw
  BY CallFrame DEF sessionVars
<1>c. /\ \A s \in Sessions : Works(s, i)' <=> Works(s, i)
      /\ Refunded(i)' <=> Refunded(i)
  BY <1>b DEF Works, Refunded
<1>d. \A a, b : Overlapped(i, a, b) => Overlapped(i, a, b)'
  BY CallFrame DEF Overlapped, TypeOK
<1>e. /\ charges[i] \in Nat /\ refunds[i] \in Nat /\ PriceOf[i] \in Nat
      /\ Seat(i) = IF PriceOf[i] > 0 THEN 1 ELSE 0
      /\ Seat(i)' = Seat(i)
  BY InvitesAssumption, AmountsAssumption DEF TypeOK, Seat
<1>f. /\ SeatInv(i) /\ RefundInv(i) /\ BillInv(i) /\ DeliveredInv(i) /\ JoinInv(i)
      /\ GivenUpInv(i)
  BY DEF MoneyInv
<1>g. creation[i] \in {"new", "insert"} =>
         billing[i] = "pending" /\ \A s \in Sessions : ~Works(s, i)
  BY DEF GroundInv, BirthInv
<1>h. creation[i] # "over"
  BY <1>a DEF CallMove, Goes
<1>i. /\ billing[i] # "charged"
      /\ \A s \in Sessions : Works(s, i) => saw[s].billing # "charged"
  BY <1>a, <1>f, <1>h DEF SeatInv
<1>j. ~Refunded(i)
  BY <1>i DEF Refunded
<1>k. \A s \in Sessions : Works(s, i) => pc[s] # "refund"
  BY <1>i DEF GroundInv, CallInv
<1>l. SeatInv(i)'
  <2>1. /\ creation'[i] \in {"new", "insert", "charge"} => charges'[i] = 0 /\ refunds'[i] = 0
        /\ creation'[i] \in {"charge", "reverse"} => PriceOf[i] > 0
        /\ creation'[i] \in {"send", "markSent", "reverse"} =>
              charges'[i] = Seat(i) /\ refunds'[i] = 0
        /\ creation'[i] = "markFailed" => charges'[i] = refunds'[i]
        /\ billing'[i] = "charged" => creation'[i] = "over" /\ charges'[i] = 1
    BY <1>a, <1>e, <1>f, <1>i DEF CallMove, Goes, RowKept, SeatKept, SeatInv
  <2> QED  BY <1>b, <1>c, <1>e, <1>i, <2>1 DEF SeatInv
<1>m. RefundInv(i)'
  <2>1. ~Overlapped(i, "revoke", "revoke")' => refunds'[i] <= charges'[i]
    BY <1>a, <1>d, <1>e, <1>f DEF CallMove, Goes, SeatKept, SeatInv, RefundInv
  <2>2. billing'[i] = "charged" => refunds'[i] = 0
    BY <1>a, <1>f, <1>i DEF CallMove, Goes, RowKept, SeatKept, SeatInv
  <2> QED  BY <1>b, <1>c, <1>i, <1>k, <2>1, <2>2 DEF RefundInv
<1>n. BillInv(i)'
  <2>1. ASSUME creation'[i] = "over", ~Overlapped(i, "create", "create")'
        PROVE  charges'[i] - refunds'[i] = IF billing'[i] = "charged" THEN 1 ELSE 0
    BY <1>a, <1>e, <1>f, <1>g, <1>i, <2>1
    DEF CallMove, Goes, RowKept, SeatKept, SeatInv
  <2>2. ASSUME ~Overlapped(i, "create", "revoke")', NEW s \in Sessions, Works(s, i)
        PROVE  pc[s] # "markRevoked"
    <3>1. CreationRuns(i)
      BY <1>g, <1>h, <2>2 DEF CreationRuns
    <3>2. Overlapped(i, call[s].op, "create")
      BY <2>2, <3>1 DEF GroundInv, OverlapInv
    <3>3. ~Overlapped(i, "revoke", "create")
      BY <1>d, <2>2 DEF Overlapped
    <3> QED  BY <2>2, <3>2, <3>3 DEF GroundInv, CallInv
  <2> QED  BY <1>b, <1>c, <1>j, <2>1, <2>2 DEF BillInv
<1>o. DeliveredInv(i)'
  <2>1. ASSUME i \in delivered'
        PROVE  /\ creation'[i] \in {"markSent", "over"}
               /\ charges'[i] = Seat(i) /\ refunds'[i] = 0
    <3>1. CASE Goes(i, "send", "markSent")
      BY <1>a, <1>f, <3>1 DEF CallMove, Goes, SeatKept, SeatInv
    <3>2. CASE i \in delivered
      <4>1. creation[i] = "markSent"
        BY <1>a, <1>f, <1>h, <3>2 DEF DeliveredInv
      <4>2. charges[i] = Seat(i) /\ refunds[i] = 0
        BY <1>a, <1>f, <4>1 DEF SeatInv
      <4> QED  BY <1>a, <4>1, <4>2 DEF CallMove, Goes, SeatKept
    <3> QED  BY <1>a, <2>1, <3>1, <3>2
  <2> QED  BY <1>e, <2>1 DEF DeliveredInv
<1>p. JoinInv(i)'
  <2> SUFFICES ASSUME ~Overlapped(i, "accept", "revoke")', NEW s \in Sessions, Works(s, i)',
                      pc'[s] \in {"join", "markAccepted"}
               PROVE  i \in delivered' /\ refunds'[i] = 0
    BY DEF JoinInv
  <2>1. i \in delivered
    BY <1>a, <1>b, <1>c, <1>d, <1>f DEF JoinInv
  <2>2. i \in delivered'
    BY <1>a, <2>1
  <2>3. creation[i] = "markSent"
    BY <1>a, <1>f, <1>h, <2>1 DEF DeliveredInv
  <2>4. refunds[i] = 0
    BY <1>a, <1>f, <2>3 DEF SeatInv
  <2> QED  BY <1>a, <2>2, <2>3, <2>4 DEF CallMove, Goes, SeatKept
<1>q. GivenUpInv(i)'
  <2>1. creation[i] = "markFailed" \/ refunds[i] = 0
    BY <1>a, <1>f DEF CallMove, Goes, SeatInv
  <2>2. \/ refunds'[i] = refunds[i] /\ creation[i] # "markFailed"
        \/ creation'[i] = "markFailed"
        \/ status'[i] = "delivery_failed"
    BY <1>a DEF CallMove, Goes, SeatKept
  <2> QED  BY <2>1, <2>2 DEF GivenUpInv
<1> QED  BY <1>l, <1>m, <1>n, <1>o, <1>p, <1>q DEF MoneyInv

\* How the call of session s about i moves on when nothing fails.
SessionWorked(s, i) ==
    \/ /\ pc[s] = "expire" /\ pc'[s] = "idle"
       /\ status'[i] = "expired" /\ billing'[i] = billing[i]
       /\ SeatKept(i)
    \/ /\ pc[s] = "refund" /\ pc'[s] = "markRevoked"
       /\ charges'[i] = charges[i] /\ refunds'[i] = refunds[i] + 1
       /\ RowKept(i)
    \/ /\ pc[s] = "markRevoked" /\ pc'[s] = "idle"
       /\ status'[i] = "revoked"
       /\ billing'[i] = IF saw[s].billing = "charged" THEN "reversed" ELSE saw[s].billing
       /\ SeatKept(i)
    \/ /\ pc[s] = "join" /\ pc'[s] = "markAccepted"
       /\ RowKept(i) /\ SeatKept(i)
    \/ /\ pc[s] = "markAccepted" /\ pc'[s] = "idle"
       /\ status'[i] = "accepted" /\ billing'[i] = billing[i]
       /\ SeatKept(i)

LEMMA SessionMoves ==
    ASSUME TypeOK, NEW s \in Sessions, SessionMove(s), NEW i, i = call[s].invite,
           i \notin faulty'
    PROVE  SessionWorked(s, i)
<1>1. ~Fault(i)
  BY DEF Fault
<1>2. i \in Invites /\ pc[s] # "idle"
  BY SessionFrame
<1>3. \A v, b : WriteRow(i, v, b) => status'[i] = v /\ billing'[i] = b
  BY <1>2 DEF WriteRow, TypeOK
<1>4. UNCHANGED rowVars => RowKept(i)
  BY DEF rowVars, RowKept
<1>5. /\ NoPosting => SeatKept(i)
      /\ Refund(i) => charges'[i] = charges[i] /\ refunds'[i] = refunds[i] + 1
  BY <1>2 DEF NoPosting, postings, SeatKept, Refund, TypeOK
<1>6. /\ EndCall(s) => pc'[s] = "idle"
      /\ \A label : Continue(s, label) => pc'[s] = label
  BY DEF EndCall, Continue, TypeOK
<1>7. CASE ExpireInvite(s)
  <2>1. /\ pc[s] = "expire" /\ SeatKept(i)
        /\ WriteRow(i, "expired", billing[i])
        /\ Proceed(s, call[s], [status |-> "expired", billing |-> billing[i]])
    BY <1>1, <1>5, <1>7 DEF ExpireInvite
  <2>2. pc'[s] = Decision(call[s].op, [status |-> "expired", billing |-> billing[i]])
    BY <2>1 DEF Proceed, TypeOK
  <2>3. pc'[s] = "idle"
    BY <2>2 DEF Decision
  <2> QED  BY <1>3, <2>1, <2>3 DEF SessionWorked
<1>8. CASE RefundSeat(s)
  <2>1. pc[s] = "refund" /\ Refund(i) /\ Continue(s, "markRevoked") /\ RowKept(i)
    BY <1>1, <1>4, <1>8 DEF RefundSeat
  <2> QED  BY <1>5, <1>6, <2>1 DEF SessionWorked
<1>9. CASE MarkRevoked(s)
  <2>1. /\ pc[s] = "markRevoked" /\ EndCall(s) /\ SeatKept(i)
        /\ WriteRow(i, "revoked",
                    IF saw[s].billing = "charged" THEN "reversed" ELSE saw[s].billing)
    BY <1>1, <1>5, <1>9 DEF MarkRevoked
  <2> QED  BY <1>3, <1>6, <2>1 DEF SessionWorked
<1>10. CASE Join(s)
  <2>1. pc[s] = "join" /\ Continue(s, "markAccepted") /\ RowKept(i) /\ SeatKept(i)
    BY <1>4, <1>5, <1>10 DEF Join
  <2> QED  BY <1>6, <2>1 DEF SessionWorked
<1>11. CASE MarkAccepted(s)
  <2>1. /\ pc[s] = "markAccepted" /\ EndCall(s) /\ SeatKept(i)
        /\ WriteRow(i, "accepted", billing[i])
    BY <1>1, <1>5, <1>11 DEF MarkAccepted
  <2> QED  BY <1>3, <1>6, <2>1 DEF SessionWorked
<1>12. ~SessionDies(s)
  BY <1>1 DEF SessionDies
<1> QED  BY <1>7, <1>8, <1>9, <1>10, <1>11, <1>12 DEF SessionMove, SessionStep

\* A session keeps the account of the seat: a revoke refunds what the row says
\* is charged, and the row is settled by whoever closes it.
LEMMA SessionMoney ==
    ASSUME TypeOK, NEW s \in Sessions, SessionMove(s), NEW i, i = call[s].invite,
           GroundInv(i), MoneyInv(i)
    PROVE  MoneyInv(i)'
<1>a. i \in Invites /\ Works(s, i) /\ pc[s] # "idle"
  BY SessionFrame DEF Works
<1> SUFFICES ASSUME i \notin faulty'
             PROVE  MoneyInv(i)'
  BY <1>a, FaultyKeeps
<1>b. /\ creation' = creation /\ overlaps' = overlaps /\ delivered' = delivered
      /\ i \notin faulty
      /\ \A t \in Sessions \ {s} :
            pc'[t] = pc[t] /\ call'[t] = call[t] /\ saw'[t] = saw[t]
      /\ pc'[s] # "idle" => call'[s] = call[s] /\ saw'[s] = saw[s]
  BY SessionFrame
<1>c. SessionWorked(s, i)
  BY SessionMoves
<1>d. /\ \A t \in Sessions \ {s} : Works(t, i)' <=> Works(t, i)
      /\ Works(s, i)' <=> pc'[s] # "idle"
  BY <1>a, <1>b DEF Works
<1>e. /\ charges[i] \in Nat /\ refunds[i] \in Nat
      /\ Seat(i)' = Seat(i)
  BY <1>a DEF TypeOK, Seat
<1>f. /\ SeatInv(i) /\ RefundInv(i) /\ BillInv(i) /\ DeliveredInv(i) /\ JoinInv(i)
      /\ GivenUpInv(i)
  BY DEF MoneyInv
<1>h. CallInv(i) /\ OverlapInv(i)
  BY DEF GroundInv
<1>i. \A t \in Sessions \ {s} :
         /\ pc[t] \in {"refund", "markRevoked"} /\ pc[s] \in {"refund", "markRevoked"}
               /\ Works(t, i) => Overlapped(i, "revoke", "revoke")
         /\ pc[t] \in {"join", "markAccepted"} /\ pc[s] \in {"refund", "markRevoked"}
               /\ Works(t, i) => Overlapped(i, "accept", "revoke")
  BY <1>a, <1>h DEF CallInv, OverlapInv
<1>j. pc[s] = "refund" => saw[s].billing = "charged" /\ creation[i] = "over"
  BY <1>a, <1>b, <1>f, <1>h DEF CallInv, SeatInv
<1>k. CASE pc[s] \notin {"refund", "markRevoked"}
  <2>1. /\ pc'[s] \in {"idle", "markAccepted"} /\ billing'[i] = billing[i] /\ SeatKept(i)
        /\ status'[i] = status[i] \/ status'[i] \in {"accepted", "expired"}
    BY <1>c, <1>k DEF SessionWorked, RowKept
  <2>2. Refunded(i)' <=> Refunded(i)
    BY <1>b, <1>d, <1>k, <2>1 DEF Refunded
  <2>3. \A t \in Sessions : Works(t, i)' /\ pc'[t] # "markAccepted" =>
           t # s /\ Works(t, i) /\ pc'[t] = pc[t] /\ saw'[t] = saw[t]
    BY <1>b, <1>d, <2>1
  <2>4. SeatInv(i)'
    <3>1. \A t \in Sessions : Works(t, i)' => Works(t, i) /\ saw'[t] = saw[t]
      BY <1>a, <1>b, <1>d
    <3> QED  BY <1>b, <1>e, <1>f, <2>1, <3>1 DEF SeatInv, SeatKept
  <2>5. RefundInv(i)'
    BY <1>b, <1>f, <2>1, <2>2, <2>3 DEF RefundInv, SeatKept, Overlapped
  <2>6. BillInv(i)'
    BY <1>b, <1>f, <2>1, <2>2, <2>3 DEF BillInv, SeatKept, Overlapped
  <2>7. DeliveredInv(i)'
    BY <1>b, <1>e, <1>f, <2>1, <2>2 DEF DeliveredInv, SeatKept
  <2>8. JoinInv(i)'
    <3>1. pc'[s] = "markAccepted" => pc[s] = "join"
      BY <1>c, <1>k DEF SessionWorked
    <3>2. \A t \in Sessions : Works(t, i)' /\ pc'[t] \in {"join", "markAccepted"} =>
             Works(t, i) /\ pc[t] \in {"join", "markAccepted"}
      BY <1>a, <1>b, <1>d, <2>1, <3>1
    <3> QED  BY <1>b, <1>f, <2>1, <3>2 DEF JoinInv, SeatKept, Overlapped
  <2>9. GivenUpInv(i)'
    <3>1. status'[i] = "accepted" /\ status[i] # "accepted" => pc[s] = "markAccepted"
      BY <1>c, <1>k DEF SessionWorked, RowKept
    <3>2. pc[s] = "markAccepted" /\ ~Overlapped(i, "accept", "revoke") => refunds[i] = 0
      BY <1>a, <1>b, <1>f DEF JoinInv
    <3> QED  BY <1>b, <1>f, <2>1, <2>2, <3>1, <3>2 DEF GivenUpInv, SeatKept, Overlapped
  <2> QED  BY <2>4, <2>5, <2>6, <2>7, <2>8, <2>9 DEF MoneyInv
<1>l. CASE pc[s] = "refund"
  <2>1. /\ pc'[s] = "markRevoked" /\ charges'[i] = charges[i]
        /\ refunds'[i] = refunds[i] + 1 /\ RowKept(i)
    BY <1>c, <1>l DEF SessionWorked
  <2>2. Works(s, i)' /\ saw'[s].billing = "charged"
    BY <1>b, <1>d, <1>j, <1>l, <2>1
  <2>3. Refunded(i)'
    BY <2>1, <2>2 DEF Refunded
  <2>4. SeatInv(i)'
    <3>1. \A t \in Sessions : Works(t, i)' => Works(t, i) /\ saw'[t] = saw[t]
      BY <1>a, <1>b, <1>d, <2>1
    <3> QED  BY <1>b, <1>e, <1>f, <1>j, <1>l, <2>1, <3>1 DEF SeatInv, RowKept
  <2>5. ~Overlapped(i, "revoke", "revoke") =>
           billing[i] = "charged" /\ charges[i] = 1 /\ refunds[i] = 0
    <3>1. SUFFICES ASSUME ~Overlapped(i, "revoke", "revoke")
                   PROVE  billing[i] = "charged" /\ charges[i] = 1 /\ refunds[i] = 0
      OBVIOUS
    <3>2. billing[i] = "charged"
      BY <1>a, <1>b, <1>f, <1>l, <3>1 DEF RefundInv
    <3>3. ~Refunded(i)
      BY <1>i, <1>l, <3>1 DEF Refunded
    <3>4. refunds[i] = 0
      BY <1>b, <1>f, <3>1, <3>2, <3>3 DEF RefundInv
    <3> QED  BY <1>b, <1>f, <3>2, <3>4 DEF SeatInv
  <2>6. \A t \in Sessions \ {s} :
           ~Overlapped(i, "revoke", "revoke") /\ Works(t, i)' =>
               pc'[t] \notin {"refund", "markRevoked"}
    BY <1>b, <1>d, <1>i, <1>l
  <2>7. RefundInv(i)'
    BY <1>b, <2>1, <2>3, <2>5, <2>6 DEF RefundInv, RowKept, Overlapped
  <2>8. BillInv(i)'
    BY <1>b, <2>1, <2>2, <2>3, <2>5, <2>6 DEF BillInv, RowKept, Overlapped
  <2>9. DeliveredInv(i)'
    BY <1>b, <1>e, <1>f, <2>1, <2>3 DEF DeliveredInv
  <2>10. JoinInv(i)'
    <3>1. ~Overlapped(i, "accept", "revoke") =>
             \A t \in Sessions : Works(t, i)' => pc'[t] \notin {"join", "markAccepted"}
      BY <1>b, <1>d, <1>i, <1>l, <2>1
    <3> QED  BY <1>b, <3>1 DEF JoinInv, Overlapped
  <2>11. GivenUpInv(i)'
    BY <2>3 DEF GivenUpInv
  <2> QED  BY <2>4, <2>7, <2>8, <2>9, <2>10, <2>11 DEF MoneyInv
<1>m. CASE pc[s] = "markRevoked"
  <2>1. /\ pc'[s] = "idle" /\ status'[i] = "revoked" /\ SeatKept(i)
        /\ billing'[i] = IF saw[s].billing = "charged" THEN "reversed" ELSE saw[s].billing
    BY <1>c, <1>m DEF SessionWorked
  <2>2. billing'[i] # "charged" /\ ~Works(s, i)'
    BY <1>d, <2>1
  <2>3. \A t \in Sessions : Works(t, i)' =>
           t # s /\ Works(t, i) /\ pc'[t] = pc[t] /\ saw'[t] = saw[t]
    BY <1>b, <1>d, <2>2
  <2>4. SeatInv(i)'
    BY <1>b, <1>e, <1>f, <2>1, <2>2, <2>3 DEF SeatInv, SeatKept
  <2>5. \A t \in Sessions :
           ~Overlapped(i, "revoke", "revoke") /\ Works(t, i)' =>
               pc'[t] \notin {"refund", "markRevoked"}
    BY <1>i, <1>m, <2>3
  <2>6. RefundInv(i)'
    BY <1>b, <1>f, <2>1, <2>2, <2>5 DEF RefundInv, SeatKept, Overlapped
  <2>7. BillInv(i)'
    <3> SUFFICES ASSUME ~Overlapped(i, "revoke", "revoke"),
                        ~Overlapped(i, "create", "revoke"),
                        ~Overlapped(i, "create", "create"), creation[i] = "over"
                 PROVE  charges[i] - refunds[i] = 0
      BY <1>b, <2>1, <2>2, <2>5 DEF BillInv, SeatKept, Overlapped
    <3>1. saw[s].billing = billing[i]
      BY <1>a, <1>b, <1>f, <1>m DEF BillInv
    <3>2. billing[i] = "charged" => Refunded(i)
      BY <1>a, <1>m, <3>1 DEF Refunded
    <3> QED  BY <1>b, <1>f, <3>2 DEF BillInv
  <2>8. DeliveredInv(i)'
    BY <1>b, <1>e, <1>f, <2>1 DEF DeliveredInv, SeatKept
  <2>9. JoinInv(i)'
    <3>1. ~Overlapped(i, "accept", "revoke") =>
             \A t \in Sessions : Works(t, i)' => pc'[t] \notin {"join", "markAccepted"}
      BY <1>i, <1>m, <2>3
    <3> QED  BY <1>b, <3>1 DEF JoinInv, Overlapped
  <2>10. GivenUpInv(i)'
    BY <2>1 DEF GivenUpInv
  <2> QED  BY <2>4, <2>6, <2>7, <2>8, <2>9, <2>10 DEF MoneyInv
<1> QED  BY <1>k, <1>l, <1>m

\* Who takes up i finds a row that tells the truth about the seat.
LEMMA ReadMoney ==
    ASSUME TypeOK, NEW s \in Sessions, NEW op \in Operations, NEW i \in Invites,
           ReadInvite(s, op, i), GroundInv(i), MoneyInv(i)
    PROVE  MoneyInv(i)'
<1> DEFINE row == [status |-> status[i], billing |-> billing[i]]
<1>a. /\ status' = status /\ billing' = billing /\ creation' = creation
      /\ delivered' = delivered /\ faulty' = faulty
      /\ charges' = charges /\ refunds' = refunds
      /\ op \in {"accept", "preview"} => i \in delivered
  BY DEF ReadInvite, rowVars, worldVars, NoPosting, NoFault, postings
<1>b. /\ pc[s] = "idle" /\ pc'[s] # "idle" /\ call'[s].invite = i /\ saw'[s] = row
      /\ \A t \in Sessions \ {s} :
            pc'[t] = pc[t] /\ call'[t] = call[t] /\ saw'[t] = saw[t]
  BY DEF ReadInvite, TypeOK
<1>c. /\ ~Works(s, i) /\ Works(s, i)'
      /\ \A t \in Sessions \ {s} : Works(t, i)' <=> Works(t, i)
  BY <1>b DEF Works
<1>d. \A a, b : Overlapped(i, a, b) => Overlapped(i, a, b)'
  BY DEF ReadInvite, Overlapped, TypeOK
<1>e. pc'[s] = "expire" \/ pc'[s] = Decision(op, row)
  BY DEF ReadInvite, TypeOK
<1>f. /\ SeatInv(i) /\ RefundInv(i) /\ BillInv(i) /\ DeliveredInv(i) /\ JoinInv(i)
      /\ GivenUpInv(i)
  BY DEF MoneyInv
<1>g. /\ pc'[s] = "refund" => billing[i] = "charged"
      /\ pc'[s] = "markRevoked" => billing[i] # "charged"
      /\ pc'[s] \in {"join", "markAccepted"} =>
            op = "accept" /\ status[i] \notin {"accepted", "revoked", "expired"}
  BY <1>e DEF Decision
<1>h. Refunded(i)' <=> Refunded(i)
  <2>1. ~(pc'[s] = "markRevoked" /\ saw'[s].billing = "charged")
    BY <1>b, <1>g
  <2> QED  BY <1>b, <1>c, <2>1 DEF Refunded
<1>i. Seat(i)' = Seat(i)
  BY DEF Seat
<1>1. SeatInv(i)'
  BY <1>a, <1>b, <1>c, <1>f, <1>i DEF SeatInv
<1>2. RefundInv(i)'
  BY <1>a, <1>b, <1>c, <1>d, <1>f, <1>g, <1>h DEF RefundInv
<1>3. BillInv(i)'
  BY <1>a, <1>b, <1>c, <1>d, <1>f, <1>h DEF BillInv
<1>4. DeliveredInv(i)'
  BY <1>a, <1>f, <1>h, <1>i DEF DeliveredInv
<1>5. JoinInv(i)'
  <2>1. ASSUME i \notin faulty, ~Overlapped(i, "accept", "revoke")',
               pc'[s] \in {"join", "markAccepted"}
        PROVE  i \in delivered /\ refunds[i] = 0
    <3>1. i \in delivered /\ op = "accept"
      BY <1>a, <1>g, <2>1
    <3>2. ASSUME Refunded(i)
          PROVE  FALSE
      <4>1. PICK t \in Sessions : Works(t, i) /\ pc[t] = "markRevoked"
        BY <3>2 DEF Refunded
      <4>2. call[t].op = "revoke"
        BY <4>1 DEF GroundInv, CallInv
      <4>3. call'[t] = call[t]
        BY <1>b, <1>c, <4>1
      <4>4. Overlapped(i, op, call[t].op)'
        BY <4>1, ReadGround
      <4> QED  BY <2>1, <3>1, <4>2, <4>3, <4>4
    <3> QED  BY <1>f, <1>g, <2>1, <3>1, <3>2 DEF DeliveredInv
  <2> QED  BY <1>a, <1>b, <1>c, <1>d, <1>f, <2>1 DEF JoinInv
<1>6. GivenUpInv(i)'
  BY <1>a, <1>d, <1>f, <1>h DEF GivenUpInv
<1> QED  BY <1>1, <1>2, <1>3, <1>4, <1>5, <1>6 DEF MoneyInv

-----------------------------------------------------------------------------
(* The invariant, and what it says.                                         *)

LEMMA InvInit == Init => IInv
<1> SUFFICES ASSUME Init
             PROVE  IInv
  OBVIOUS
<1>1. TypeOK /\ LedgerExplainsBalance
  BY InitType
<1>2. /\ \A s \in Sessions : pc[s] = "idle" /\ call[s] = IdleCall
      /\ delivered = {}
  BY DEF Init
<1>3. IdleInv /\ \A s \in Sessions, i \in Invites : ~Works(s, i)
  BY <1>2 DEF IdleInv, Works
<1>4. ASSUME NEW i \in Invites
      PROVE  GroundInv(i) /\ MoneyInv(i)
  <2>1. /\ status[i] = "none" /\ billing[i] = "pending" /\ creation[i] = "new"
        /\ charges[i] = 0 /\ refunds[i] = 0
    BY DEF Init
  <2>2. GroundInv(i)
    BY <1>3, <2>1
    DEF GroundInv, BirthInv, CallInv, OverlapInv, AcceptedInv, CreationRuns
  <2>3. MoneyInv(i)
    BY <1>2, <1>3, <2>1
    DEF MoneyInv, SeatInv, RefundInv, BillInv, DeliveredInv, JoinInv, GivenUpInv
  <2> QED  BY <2>2, <2>3
<1> QED  BY <1>1, <1>3, <1>4 DEF IInv

LEMMA IdleStep ==
    ASSUME TypeOK, IdleInv, [Next]_vars
    PROVE  IdleInv'
<1>1. CASE UNCHANGED <<pc, call>>
  BY <1>1 DEF IdleInv
<1>2. ASSUME NEW i \in Invites, CallStep(i) \/ GrowOverdue(i)
      PROVE  UNCHANGED <<pc, call>>
  BY <1>2, CallFrame DEF GrowOverdue, sessionVars
<1>3. ASSUME NEW s \in Sessions, SessionMove(s)
      PROVE  IdleInv'
  <2>1. /\ \A t \in Sessions \ {s} : pc'[t] = pc[t] /\ call'[t] = call[t]
        /\ pc'[s] = "idle" => call'[s] = IdleCall
    BY <1>3, SessionFrame
  <2> QED  BY <2>1 DEF IdleInv
<1>4. ASSUME NEW s \in Sessions, NEW op \in Operations, NEW i \in Invites,
             ReadInvite(s, op, i)
      PROVE  IdleInv'
  <2>1. /\ \A t \in Sessions \ {s} : pc'[t] = pc[t] /\ call'[t] = call[t]
        /\ pc'[s] # "idle"
    BY <1>4 DEF ReadInvite, TypeOK
  <2> QED  BY <2>1 DEF IdleInv
<1>5. UNCHANGED vars => UNCHANGED <<pc, call>>
  BY DEF vars, sessionVars
<1> QED  BY <1>1, <1>2, <1>3, <1>4, <1>5 DEF Next, CallStep, SessionMove

LEMMA InvStep == IInv /\ [Next]_vars => IInv'
<1> SUFFICES ASSUME IInv, [Next]_vars
             PROVE  IInv'
  OBVIOUS
<1>1. /\ TypeOK /\ LedgerExplainsBalance /\ IdleInv
      /\ \A i \in Invites : GroundInv(i) /\ MoneyInv(i)
  BY DEF IInv
<1>2. TypeOK' /\ LedgerExplainsBalance' /\ IdleInv'
  BY <1>1, TypeStep, WalletStep, IdleStep
<1>3. ASSUME NEW j \in Invites
      PROVE  GroundInv(j)' /\ MoneyInv(j)'
  <2>1. ASSUME NEW i \in Invites, CallStep(i)
        PROVE  GroundInv(j)' /\ MoneyInv(j)'
    <3>1. CASE j = i
      BY <1>1, <2>1, <3>1, CallGround, CallMoney
    <3>2. CASE j # i
      BY <1>1, <2>1, <3>2, CallElsewhere, UntouchedKeeps
    <3> QED  BY <3>1, <3>2
  <2>2. ASSUME NEW s \in Sessions, SessionMove(s)
        PROVE  GroundInv(j)' /\ MoneyInv(j)'
    <3>1. CASE j = call[s].invite
      BY <1>1, <2>2, <3>1, SessionGround, SessionMoney
    <3>2. CASE j # call[s].invite
      BY <1>1, <2>2, <3>2, SessionElsewhere, UntouchedKeeps
    <3> QED  BY <3>1, <3>2
  <2>3. ASSUME NEW s \in Sessions, NEW op \in Operations, NEW i \in Invites,
               ReadInvite(s, op, i)
        PROVE  GroundInv(j)' /\ MoneyInv(j)'
    <3>1. CASE j = i
      BY <1>1, <2>3, <3>1, ReadGround, ReadMoney
    <3>2. CASE j # i
      BY <1>1, <2>3, <3>2, ReadElsewhere, UntouchedKeeps
    <3> QED  BY <3>1, <3>2
  <2>4. ASSUME NEW i \in Invites, GrowOverdue(i)
        PROVE  GroundInv(j)' /\ MoneyInv(j)'
    BY <1>1, <2>4, OverdueKeeps
  <2>5. CASE UNCHANGED vars
    <3>1. Untouched(j)
      BY <2>5 DEF Untouched, Works, vars, rowVars, worldVars, sessionVars, postings
    <3> QED  BY <1>1, <3>1, UntouchedKeeps
  <2> QED  BY <2>1, <2>2, <2>3, <2>4, <2>5 DEF Next, CallStep, SessionMove
<1> QED  BY <1>2, <1>3 DEF IInv

LEMMA Invariant == Spec => []IInv
<1> QED  BY InvInit, InvStep, PTL DEF Spec

\* However many invites are created, revoked, accepted and expired at once, no
\* seat is refunded more often than it was charged, and none whose invite is
\* then pending, sent or accepted: only two overlapping revokes break the one,
\* a revoke beside the acceptance the other, and a fault on the invite both.
THEOREM RefundsAreCaused == Spec => []RefundsHaveCause
<1>1. IInv => RefundsHaveCause
  <2> SUFFICES ASSUME IInv, NEW i \in Invites \ faulty
               PROVE  /\ refunds[i] <= charges[i] \/ Overlapped(i, "revoke", "revoke")
                      /\ refunds[i] > 0 => GivenUp(i) \/ Overlapped(i, "accept", "revoke")
    BY DEF RefundsHaveCause
  <2>1. RefundInv(i) /\ GivenUpInv(i)
    BY DEF IInv, MoneyInv
  <2>2. refunds[i] <= charges[i] \/ Overlapped(i, "revoke", "revoke")
    BY <2>1 DEF RefundInv
  <2>3. Refunded(i) => GivenUp(i)
    BY DEF Refunded, GivenUp, Works
  <2>4. refunds[i] > 0 => GivenUp(i) \/ Overlapped(i, "accept", "revoke")
    BY <2>1, <2>3 DEF GivenUpInv, GivenUp
  <2> QED  BY <2>2, <2>4
<1> QED  BY <1>1, Invariant, PTL

\* The billing status of an invite that nobody works on tells whether the
\* wallet holds its seat, outside the three overlaps that break it.
THEOREM BillingStatusHolds == Spec => []BillingStatusIsTrue
<1>1. IInv => BillingStatusIsTrue
  <2> SUFFICES ASSUME IInv, NEW i \in Invites, Quiet(i), i \notin faulty,
                      ~Overlapped(i, "revoke", "revoke"),
                      ~Overlapped(i, "create", "revoke"),
                      ~Overlapped(i, "create", "create")
               PROVE  charges[i] - refunds[i] = (IF billing[i] = "charged" THEN 1 ELSE 0)
    BY DEF BillingStatusIsTrue
  <2>1. BirthInv(i) /\ SeatInv(i) /\ BillInv(i)
    BY DEF IInv, GroundInv, MoneyInv
  <2>2. ~Refunded(i)
    BY DEF Quiet, Refunded, Works
  <2>3. CASE creation[i] = "new"
    BY <2>1, <2>3 DEF BirthInv, SeatInv
  <2>4. CASE creation[i] = "over"
    BY <2>1, <2>2, <2>4 DEF BillInv
  <2> QED  BY <2>3, <2>4 DEF Quiet, CreationRuns
<1> QED  BY <1>1, Invariant, PTL

\* Nobody joins on a seat the wallet does not hold, unless a revoke ran beside
\* the acceptance or a fault hit the invite.
THEOREM JoinsArePaid == Spec => []JoinsArePaidFor
<1>1. IInv => JoinsArePaidFor
  <2> SUFFICES ASSUME IInv, NEW s \in Sessions, NEW i, i = call[s].invite,
                      pc[s] = "markAccepted", i \notin faulty,
                      ~Overlapped(i, "accept", "revoke")
               PROVE  charges[i] - refunds[i] = (IF PriceOf[i] > 0 THEN 1 ELSE 0)
    BY DEF JoinsArePaidFor
  <2>1. i \in Invites /\ Works(s, i)
    BY DEF IInv, TypeOK, Works
  <2>2. DeliveredInv(i) /\ JoinInv(i)
    BY <2>1 DEF IInv, MoneyInv
  <2>3. i \in delivered /\ refunds[i] = 0
    BY <2>1, <2>2 DEF JoinInv
  <2>4. charges[i] = Seat(i)
    BY <2>2, <2>3 DEF DeliveredInv
  <2> QED  BY <2>3, <2>4 DEF Seat
<1> QED  BY <1>1, Invariant, PTL

\* An accepted invite is overwritten only by a call that ran beside the
\* acceptance, faults or not.
THEOREM AcceptedStays == Spec => AcceptedIsFinal
<1>1. ASSUME IInv, [Next]_vars, NEW i \in Invites, status[i] = "accepted"
      PROVE  status'[i] = "accepted" \/ Overwritten(i, status'[i])
  <2>1. TypeOK /\ BirthInv(i) /\ CallInv(i) /\ AcceptedInv(i)
    BY <1>1 DEF IInv, GroundInv
  <2>2. \A v, b : WriteRow(i, v, b) => status'[i] = v
    BY <2>1 DEF WriteRow, TypeOK
  <2>3. ASSUME UNCHANGED rowVars \/ status' = status \/ Untouched(i)
        PROVE  status'[i] = "accepted"
    BY <1>1, <2>3 DEF rowVars, Untouched
  <2>4. CASE CallStep(i)
    <3>1. creation[i] \notin {"new", "insert"}
      BY <1>1, <2>1 DEF BirthInv
    <3>2. CASE MarkSent(i) \/ MarkDeliveryFailed(i)
      <4>1. Overlapped(i, "accept", "create")
        BY <1>1, <2>1, <3>2 DEF MarkSent, MarkDeliveryFailed, AcceptedInv, CreationRuns
      <4>2. status'[i] \in {"sent", "delivery_failed"} \/ UNCHANGED rowVars
        BY <2>2, <3>2 DEF MarkSent, RecordSent, MarkDeliveryFailed
      <4> QED  BY <2>3, <4>1, <4>2 DEF Overwritten
    <3>3. ~(BeginCreate(i) \/ InsertInvite(i))
      BY <3>1 DEF BeginCreate, InsertInvite
    <3>4. CASE ChargeSeat(i) \/ SendInviteEmail(i) \/ ReverseCharge(i) \/ CreatorDies(i)
      BY <2>3, <3>4 DEF ChargeSeat, SendInviteEmail, ReverseCharge, CreatorDies
    <3> QED  BY <2>4, <3>2, <3>3, <3>4 DEF CallStep, CreationStep
  <2>5. ASSUME NEW j \in Invites \ {i}, CallStep(j)
        PROVE  status'[i] = "accepted"
    BY <2>1, <2>3, <2>5, CallElsewhere
  <2>6. ASSUME NEW s \in Sessions, SessionMove(s), i = call[s].invite
        PROVE  status'[i] = "accepted" \/ Overwritten(i, status'[i])
    <3>1. Works(s, i) /\ call[s].op \in Operations
      BY <2>1, <2>6, SessionFrame DEF Works, TypeOK
    <3>2. Overlapped(i, "accept", call[s].op)
      BY <1>1, <2>1, <3>1 DEF AcceptedInv
    <3>3. CASE ExpireInvite(s)
      <4>1. i \in overdue
        BY <2>1, <3>1, <3>3 DEF ExpireInvite, CallInv
      <4>2. status'[i] = "expired" \/ UNCHANGED rowVars
        BY <2>2, <2>6, <3>3 DEF ExpireInvite
      <4> QED  BY <2>3, <3>1, <3>2, <4>1, <4>2 DEF Overwritten
    <3>4. CASE MarkRevoked(s)
      <4>1. call[s].op = "revoke"
        BY <2>1, <3>1, <3>4 DEF MarkRevoked, CallInv
      <4>2. status'[i] = "revoked" \/ UNCHANGED rowVars
        BY <2>2, <2>6, <3>4 DEF MarkRevoked
      <4> QED  BY <2>3, <3>2, <4>1, <4>2 DEF Overwritten
    <3>5. CASE MarkAccepted(s)
      <4>1. status'[i] = "accepted" \/ UNCHANGED rowVars
        BY <2>2, <2>6, <3>5 DEF MarkAccepted
      <4> QED  BY <2>3, <4>1
    <3>6. CASE RefundSeat(s) \/ Join(s) \/ SessionDies(s)
      BY <2>3, <3>6 DEF RefundSeat, Join, SessionDies
    <3> QED  BY <2>6, <3>3, <3>4, <3>5, <3>6 DEF SessionMove, SessionStep
  <2>7. ASSUME NEW s \in Sessions, SessionMove(s), i # call[s].invite
        PROVE  status'[i] = "accepted"
    BY <2>1, <2>3, <2>7, SessionElsewhere
  <2>8. ASSUME NEW s \in Sessions, NEW op \in Operations, NEW j \in Invites,
               ReadInvite(s, op, j)
        PROVE  status'[i] = "accepted"
    BY <2>3, <2>8 DEF ReadInvite
  <2>9. ASSUME NEW j \in Invites, GrowOverdue(j)
        PROVE  status'[i] = "accepted"
    BY <2>3, <2>9 DEF GrowOverdue
  <2>10. CASE UNCHANGED vars
    BY <2>3, <2>10 DEF vars
  <2> QED  BY <1>1, <2>4, <2>5, <2>6, <2>7, <2>8, <2>9, <2>10
           DEF Next, CallStep, SessionMove
<1>2. IInv /\ [Next]_vars =>
         [\A i \in Invites :
             status[i] = "accepted" =>
                 status'[i] = "accepted" \/ Overwritten(i, status'[i])]_vars
  BY <1>1
<1> QED  BY <1>2, Invariant, PTL DEF Spec, AcceptedIsFinal

=============================================================================
