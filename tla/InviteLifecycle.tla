-------------------------- MODULE InviteLifecycle --------------------------
(***************************************************************************)
(* Workspace invites (src/lib/invites.ts): the invites of one e-mail       *)
(* address to one organisation, and the calls that work on them at once    *)
(*                                                                         *)
(*   create   createAndSendOrgInvite: insert the row, charge the seat,     *)
(*            send the e-mail, record the outcome, notify the admin; on an *)
(*            error refund the seat and record the failure                 *)
(*   revoke   revokeOrgInvite: read the row, refund a charged seat, record *)
(*   accept   acceptOrgInvite: read the row, make the user a member, record*)
(*   preview  getInvitePreview: read the row, expire it when it is overdue *)
(*                                                                         *)
(* Each call decides on the row it read and then writes the row by id,     *)
(* without looking at what the row has become.  An await can fail, lose    *)
(* its answer, or be the caller's last.                                    *)
(***************************************************************************)
EXTENDS WalletLedger

CONSTANTS
    Invites,    \* invite rows; a create call is known by the row it inserts
    Sessions,   \* server processes that run revoke, accept and preview
    PriceOf,    \* PriceOf[i]: seat price when i is created, 0 on a free plan
    Org,        \* the organisation
    MaxCalls,   \* bound: revoke, accept and preview calls that get past the read
    MaxFaults,  \* bound: failed awaits, lost answers and deaths
    NoInvite    \* the invite of an idle session

ASSUME InvitesAssumption ==
    /\ Orgs = {Org}
    /\ PriceOf \in [Invites -> Amounts]
    /\ NoInvite \notin Invites
    /\ MaxCalls \in Nat
    /\ MaxFaults \in Nat

VARIABLES
    status,     \* status[i]: org_invites.status, "none" before the insert
    billing,    \* billing[i]: org_invites.billing_status
    overdue,    \* invites past their expires_at
    delivered,  \* invites whose e-mail, and so whose token, was received
    member,     \* the invited user is a member of the organisation
    creation,   \* creation[i]: where the create call of i is
    pc,         \* pc[s]: where session s is
    call,       \* call[s]: the operation s runs and the invite it is about
    saw,        \* saw[s]: the row as s read it
    charges,    \* history: charges[i], debits posted for i
    refunds,    \* history: refunds[i], reversals posted for i
    overlaps,   \* history: overlaps[i], sets of operations that overlapped on i
    faulty,     \* history: invites that met a fault
    calls,      \* history: how many calls got past the read
    faults      \* history: how many faults happened

rowVars == <<status, billing, overdue>>
sessionVars == <<pc, call, saw>>
worldVars == <<delivered, member>>
postings == <<charges, refunds>>
vars == <<walletVars, rowVars, worldVars, creation, sessionVars,
          postings, overlaps, calls, faulty, faults>>

Operations == {"revoke", "accept", "preview"}
Statuses == {"none", "pending", "sent", "accepted", "revoked", "expired", "delivery_failed"}
BillingStatuses == {"pending", "charged", "reversed", "not_required"}
Active == {"pending", "sent"}
CreationLabels ==
    {"new", "insert", "charge", "send", "markSent", "reverse", "markFailed", "over"}
SessionLabels == {"idle", "expire", "refund", "markRevoked", "join", "markAccepted"}
IdleCall == [op |-> "preview", invite |-> NoInvite]
SeenRow == [status : Statuses, billing : BillingStatuses]
NothingSeen == [status |-> "none", billing |-> "pending"]

CreationRuns(i) == creation[i] \notin {"new", "over"}

Init ==
    /\ balance \in [Orgs -> Amounts]
    /\ ledger = [o \in Orgs |-> <<Row(0, "credit", balance[o])>>]
    /\ status = [i \in Invites |-> "none"]
    /\ billing = [i \in Invites |-> "pending"]
    /\ overdue = {}
    /\ delivered = {}
    /\ member = FALSE
    /\ creation = [i \in Invites |-> "new"]
    /\ pc = [s \in Sessions |-> "idle"]
    /\ call = [s \in Sessions |-> IdleCall]
    /\ saw = [s \in Sessions |-> NothingSeen]
    /\ charges = [i \in Invites |-> 0]
    /\ refunds = [i \in Invites |-> 0]
    /\ overlaps = [i \in Invites |-> {}]
    /\ calls = 0
    /\ faulty = {}
    /\ faults = 0

-----------------------------------------------------------------------------

Fault(i) ==
    /\ faults < MaxFaults
    /\ faults' = faults + 1
    /\ faulty' = faulty \cup {i}

NoFault == UNCHANGED <<faulty, faults>>

CreationGoes(i, label) == creation' = [creation EXCEPT ![i] = label]

WriteRow(i, newStatus, newBilling) ==
    /\ status' = [status EXCEPT ![i] = newStatus]
    /\ billing' = [billing EXCEPT ![i] = newBilling]
    /\ UNCHANGED overdue

Charge(i) ==
    /\ Post(Org, "debit", PriceOf[i])
    /\ charges' = [charges EXCEPT ![i] = @ + 1]
    /\ UNCHANGED refunds

Refund(i) ==
    /\ Post(Org, "credit", PriceOf[i])
    /\ refunds' = [refunds EXCEPT ![i] = @ + 1]
    /\ UNCHANGED charges

NoPosting == UNCHANGED <<walletVars, postings>>

-----------------------------------------------------------------------------
(* createAndSendOrgInvite                                                   *)

\* The member check is a read of its own, before the insert.
BeginCreate(i) ==
    /\ creation[i] = "new"
    /\ CreationGoes(i, IF member THEN "over" ELSE "insert")
    /\ NoPosting
    /\ NoFault
    /\ UNCHANGED <<rowVars, worldVars, sessionVars, overlaps, calls>>

\* The partial unique index on the active rows of an address refuses a second
\* one; an overdue row that nobody looked at since still counts as active.
InsertInvite(i) ==
    /\ creation[i] = "insert"
    /\ IF \E j \in Invites : status[j] \in Active
         THEN CreationGoes(i, "over") /\ UNCHANGED rowVars
         ELSE IF PriceOf[i] > 0
                THEN WriteRow(i, "pending", "pending") /\ CreationGoes(i, "charge")
                ELSE WriteRow(i, "pending", "not_required") /\ CreationGoes(i, "send")
    /\ NoPosting
    /\ NoFault
    /\ UNCHANGED <<worldVars, sessionVars, overlaps, calls>>

\* Mutant: a wallet that cannot carry the seat ends the call outside the try.
ChargeSeatRefusedOutsideTry(i) ==
    /\ creation[i] = "charge"
    /\ \/ Charge(i) /\ CreationGoes(i, "send") /\ NoFault
       \/ /\ ~Accepts(balance[Org], "debit", PriceOf[i])
          /\ CreationGoes(i, "over")
          /\ NoPosting
          /\ NoFault
    /\ UNCHANGED <<rowVars, worldVars, sessionVars, overlaps, calls>>

\* recordInviteCharge, whose own steps are in WalletTransactions.  When the
\* debit's answer is lost nothing tells the catch block that it was charged.
ChargeSeat(i) ==
    /\ creation[i] = "charge"
    /\ \/ Charge(i) /\ CreationGoes(i, "send") /\ NoFault
       \/ /\ ~Accepts(balance[Org], "debit", PriceOf[i])
          /\ CreationGoes(i, "markFailed")
          /\ NoPosting
          /\ NoFault
       \/ Fault(i) /\ CreationGoes(i, "markFailed") /\ (Charge(i) \/ NoPosting)
    /\ UNCHANGED <<rowVars, worldVars, sessionVars, overlaps, calls>>

\* The catch block once the seat is charged; a free seat never is.
Caught(i) == IF PriceOf[i] > 0 THEN "reverse" ELSE "markFailed"

\* Resend refuses the message, or accepts it; when its answer is lost the
\* call takes the message for refused although the recipient has it.
SendInviteEmail(i) ==
    /\ creation[i] = "send"
    /\ \/ /\ delivered' = delivered \cup {i}
          /\ CreationGoes(i, "markSent")
          /\ NoFault
       \/ /\ CreationGoes(i, Caught(i))
          /\ UNCHANGED delivered
          /\ NoFault
       \/ /\ Fault(i)
          /\ delivered' = delivered \cup {i}
          /\ CreationGoes(i, Caught(i))
    /\ NoPosting
    /\ UNCHANGED <<rowVars, member, sessionVars, overlaps, calls>>

\* The row is written by id whatever it has become.  An error is not looked
\* at, that of the unique index included: it refuses the update when the row
\* was closed in the meantime and another create took the address.
RecordSent(i) ==
    \/ /\ \A j \in Invites \ {i} : status[j] \notin Active
       /\ WriteRow(i, "sent", IF PriceOf[i] > 0 THEN "charged" ELSE "not_required")
       /\ UNCHANGED overlaps
    \/ /\ \E j \in Invites \ {i} : status[j] \in Active
       /\ overlaps' = [overlaps EXCEPT ![i] = @ \cup {{"create"}}]
       /\ UNCHANGED rowVars

\* The invite is recorded as sent and the admin is notified, which may fail;
\* but the inviter's address for it is awaited inside the try, and when that
\* fails an invite that is out and recorded goes the way of one that is not.
MarkSent(i) ==
    /\ creation[i] = "markSent"
    /\ \/ RecordSent(i) /\ CreationGoes(i, "over") /\ NoFault
       \/ RecordSent(i) /\ CreationGoes(i, Caught(i)) /\ Fault(i)
       \/ UNCHANGED <<rowVars, overlaps>> /\ CreationGoes(i, "over") /\ Fault(i)
    /\ NoPosting
    /\ UNCHANGED <<worldVars, sessionVars, calls>>

\* The refund in the catch block; whatever comes of it, the next step records
\* the seat as reversed.
ReverseCharge(i) ==
    /\ creation[i] = "reverse"
    /\ \/ Refund(i) /\ NoFault
       \/ Fault(i) /\ (Refund(i) \/ NoPosting)
    /\ CreationGoes(i, "markFailed")
    /\ UNCHANGED <<rowVars, worldVars, sessionVars, overlaps, calls>>

\* Mutant: the refunded seat is still recorded as charged.
MarkDeliveryFailedCharged(i) ==
    /\ creation[i] = "markFailed"
    /\ WriteRow(i, "delivery_failed",
                IF PriceOf[i] > 0 THEN "charged" ELSE "not_required")
    /\ NoFault
    /\ CreationGoes(i, "over")
    /\ NoPosting
    /\ UNCHANGED <<worldVars, sessionVars, overlaps, calls>>

MarkDeliveryFailed(i) ==
    /\ creation[i] = "markFailed"
    /\ \/ /\ WriteRow(i, "delivery_failed",
                      IF PriceOf[i] > 0 THEN "reversed" ELSE "not_required")
          /\ NoFault
       \/ Fault(i) /\ UNCHANGED rowVars
    /\ CreationGoes(i, "over")
    /\ NoPosting
    /\ UNCHANGED <<worldVars, sessionVars, overlaps, calls>>

CreatorDies(i) ==
    /\ CreationRuns(i)
    /\ Fault(i)
    /\ CreationGoes(i, "over")
    /\ NoPosting
    /\ UNCHANGED <<rowVars, worldVars, sessionVars, overlaps, calls>>

-----------------------------------------------------------------------------
(* revokeOrgInvite, acceptOrgInvite and getInvitePreview                    *)

\* 14 days pass: far more than a create call can live.  A call of a session
\* may well straddle the moment.
GrowOverdue(i) ==
    /\ status[i] # "none"
    /\ ~CreationRuns(i)
    /\ i \notin overdue
    /\ overdue' = overdue \cup {i}
    /\ NoPosting
    /\ NoFault
    /\ UNCHANGED <<status, billing, worldVars, creation, sessionVars, overlaps, calls>>

\* Mutant: a revoked invite can be accepted.
DecisionAcceptsRevoked(op, row) ==
    CASE op = "revoke" /\ row.status \notin {"accepted", "revoked", "expired"} ->
              IF row.billing = "charged" THEN "refund" ELSE "markRevoked"
      [] op = "accept" /\ row.status \notin {"accepted", "expired"} -> "join"
      [] OTHER -> "idle"

\* Mutant: an accepted invite can be revoked.
DecisionRevokesAccepted(op, row) ==
    CASE op = "revoke" /\ row.status \notin {"revoked", "expired"} ->
              IF row.billing = "charged" THEN "refund" ELSE "markRevoked"
      [] op = "accept" /\ row.status \notin {"accepted", "revoked", "expired"} -> "join"
      [] OTHER -> "idle"

\* Where the call goes on once it holds this row.
Decision(op, row) ==
    CASE op = "revoke" /\ row.status \notin {"accepted", "revoked", "expired"} ->
              IF row.billing = "charged" THEN "refund" ELSE "markRevoked"
      [] op = "accept" /\ row.status \notin {"accepted", "revoked", "expired"} -> "join"
      [] OTHER -> "idle"

Proceed(s, c, row) ==
    LET label == Decision(c.op, row) IN
    /\ pc' = [pc EXCEPT ![s] = label]
    /\ call' = [call EXCEPT ![s] = IF label = "idle" THEN IdleCall ELSE c]
    /\ saw' = [saw EXCEPT ![s] = IF label = "idle" THEN NothingSeen ELSE row]

EndCall(s) ==
    /\ pc' = [pc EXCEPT ![s] = "idle"]
    /\ call' = [call EXCEPT ![s] = IdleCall]
    /\ saw' = [saw EXCEPT ![s] = NothingSeen]

Continue(s, label) == pc' = [pc EXCEPT ![s] = label] /\ UNCHANGED <<call, saw>>

\* The other operations that run on i while a call of op begins.
OverlapsWith(op, i) ==
    {{op, call[t].op} : t \in {u \in Sessions : pc[u] # "idle" /\ call[u].invite = i}}
      \cup (IF CreationRuns(i) THEN {{op, "create"}} ELSE {})

\* Accepting and previewing take the token out of the e-mail.  A call that
\* ends at the row it reads changes nothing and is left out.
ReadInvite(s, op, i) ==
    LET row == [status |-> status[i], billing |-> billing[i]]
        label == IF status[i] \in Active /\ i \in overdue THEN "expire"
                                                          ELSE Decision(op, row)
    IN
    /\ pc[s] = "idle"
    /\ calls < MaxCalls
    /\ status[i] # "none"
    /\ op \in {"accept", "preview"} => i \in delivered
    /\ label # "idle"
    /\ pc' = [pc EXCEPT ![s] = label]
    /\ call' = [call EXCEPT ![s] = [op |-> op, invite |-> i]]
    /\ saw' = [saw EXCEPT ![s] = row]
    /\ overlaps' = [overlaps EXCEPT ![i] = @ \cup OverlapsWith(op, i)]
    /\ calls' = calls + 1
    /\ NoPosting
    /\ NoFault
    /\ UNCHANGED <<rowVars, worldVars, creation>>

\* markInviteExpiredIfNeeded: when the update fails, or its answer is lost, the
\* call goes on with the row it had, as if the invite were not overdue.
ExpireInvite(s) ==
    LET i == call[s].invite IN
    /\ pc[s] = "expire"
    /\ \/ /\ WriteRow(i, "expired", billing[i])
          /\ Proceed(s, call[s], [status |-> "expired", billing |-> billing[i]])
          /\ NoFault
       \/ /\ Fault(i)
          /\ Proceed(s, call[s], saw[s])
          /\ WriteRow(i, "expired", billing[i]) \/ UNCHANGED rowVars
    /\ NoPosting
    /\ UNCHANGED <<worldVars, creation, overlaps, calls>>

RefundSeat(s) ==
    LET i == call[s].invite IN
    /\ pc[s] = "refund"
    /\ \/ Refund(i) /\ Continue(s, "markRevoked") /\ NoFault
       \/ Fault(i) /\ EndCall(s) /\ (Refund(i) \/ NoPosting)
    /\ UNCHANGED <<rowVars, worldVars, creation, overlaps, calls>>

\* Mutant: the refund is not recorded.
MarkRevokedKeepsBilling(s) ==
    /\ pc[s] = "markRevoked"
    /\ WriteRow(call[s].invite, "revoked", saw[s].billing)
    /\ NoFault
    /\ EndCall(s)
    /\ NoPosting
    /\ UNCHANGED <<worldVars, creation, overlaps, calls>>

MarkRevoked(s) ==
    LET i == call[s].invite IN
    /\ pc[s] = "markRevoked"
    /\ \/ /\ WriteRow(i, "revoked",
                      IF saw[s].billing = "charged" THEN "reversed" ELSE saw[s].billing)
          /\ NoFault
       \/ Fault(i) /\ UNCHANGED rowVars
    /\ EndCall(s)
    /\ NoPosting
    /\ UNCHANGED <<worldVars, creation, overlaps, calls>>

\* The membership upserts: their errors are not looked at either.
Join(s) ==
    /\ pc[s] = "join"
    /\ \/ member' = TRUE /\ NoFault
       \/ Fault(call[s].invite) /\ UNCHANGED member
    /\ Continue(s, "markAccepted")
    /\ NoPosting
    /\ UNCHANGED <<rowVars, delivered, creation, overlaps, calls>>

MarkAccepted(s) ==
    LET i == call[s].invite IN
    /\ pc[s] = "markAccepted"
    /\ \/ WriteRow(i, "accepted", billing[i]) /\ NoFault
       \/ Fault(i) /\ UNCHANGED rowVars
    /\ EndCall(s)
    /\ NoPosting
    /\ UNCHANGED <<worldVars, creation, overlaps, calls>>

SessionDies(s) ==
    /\ pc[s] # "idle"
    /\ Fault(call[s].invite)
    /\ EndCall(s)
    /\ NoPosting
    /\ UNCHANGED <<rowVars, worldVars, creation, overlaps, calls>>

CreationStep(i) ==
    \/ InsertInvite(i) \/ ChargeSeat(i) \/ SendInviteEmail(i)
    \/ MarkSent(i) \/ ReverseCharge(i) \/ MarkDeliveryFailed(i)

SessionStep(s) ==
    \/ ExpireInvite(s) \/ RefundSeat(s) \/ MarkRevoked(s) \/ Join(s) \/ MarkAccepted(s)

Next ==
    \/ \E i \in Invites :
          BeginCreate(i) \/ CreationStep(i) \/ CreatorDies(i) \/ GrowOverdue(i)
    \/ \E s \in Sessions, op \in Operations, i \in Invites : ReadInvite(s, op, i)
    \/ \E s \in Sessions : SessionStep(s) \/ SessionDies(s)

Spec == Init /\ [][Next]_vars

\* Calls that were started keep running.  Nobody has to start one.
Fairness ==
    /\ \A i \in Invites : WF_vars(CreationStep(i))
    /\ \A s \in Sessions : WF_vars(SessionStep(s))

FairSpec == Spec /\ Fairness

-----------------------------------------------------------------------------

TypeOK ==
    /\ WalletTypeOK
    /\ status \in [Invites -> Statuses]
    /\ billing \in [Invites -> BillingStatuses]
    /\ overdue \subseteq Invites
    /\ delivered \subseteq Invites
    /\ member \in BOOLEAN
    /\ creation \in [Invites -> CreationLabels]
    /\ pc \in [Sessions -> SessionLabels]
    /\ call \in [Sessions -> [op : Operations, invite : Invites \cup {NoInvite}]]
    /\ \A s \in Sessions : pc[s] # "idle" => call[s].invite \in Invites
    /\ saw \in [Sessions -> SeenRow]
    /\ charges \in [Invites -> Nat]
    /\ refunds \in [Invites -> Nat]
    /\ overlaps \in [Invites -> SUBSET SUBSET (Operations \cup {"create"})]
    /\ faulty \subseteq Invites
    /\ calls \in 0..MaxCalls
    /\ faults \in 0..MaxFaults

Overlapped(i, a, b) == {a, b} \in overlaps[i]

\* Nobody works on i.
Quiet(i) ==
    /\ ~CreationRuns(i)
    /\ \A s \in Sessions : call[s].invite # i

\* The invite is closed without an acceptance, or a call that has just given
\* its seat back is about to close it.
GivenUp(i) ==
    \/ status[i] \in {"revoked", "expired", "delivery_failed"}
    \/ creation[i] = "markFailed"
    \/ \E s \in Sessions : /\ call[s].invite = i
                          /\ pc[s] = "markRevoked" /\ saw[s].billing = "charged"

\* A seat is refunded at most as often as it was charged, unless two revokes
\* of it overlapped, and only when its invite is given up, unless a revoke ran
\* beside the acceptance.  In particular the refund of a create that fails
\* never adds to that of a revoke, and no later call turns an invite whose
\* seat was given back into a pending, sent or accepted one.  Invites that a
\* fault hit are exempt.
RefundsHaveCause ==
    \A i \in Invites \ faulty :
        /\ refunds[i] <= charges[i] \/ Overlapped(i, "revoke", "revoke")
        /\ refunds[i] > 0 => GivenUp(i) \/ Overlapped(i, "accept", "revoke")

\* Once nobody works on an invite its billing status tells what the wallet
\* saw: the seat is held exactly when the row says "charged".  Exempt are two
\* revokes at once, a revoke of an invite that is still being created, and a
\* create whose row was closed and replaced before it could record the charge.
BillingStatusIsTrue ==
    \A i \in Invites :
        /\ Quiet(i)
        /\ i \notin faulty
        /\ ~Overlapped(i, "revoke", "revoke")
        /\ ~Overlapped(i, "create", "revoke")
        /\ ~Overlapped(i, "create", "create")
        => charges[i] - refunds[i] = (IF billing[i] = "charged" THEN 1 ELSE 0)

\* What an acceptance can lose its invite to: each call overwrites it only
\* when it ran beside the acceptance, and expiry only once it is overdue (it
\* may then be a second acceptance that expires what the first accepted).
Overwritten(i, newStatus) ==
    \/ newStatus \in {"sent", "delivery_failed"} /\ Overlapped(i, "accept", "create")
    \/ newStatus = "revoked" /\ Overlapped(i, "accept", "revoke")
    \/ /\ newStatus = "expired"
       /\ i \in overdue
       /\ \E op \in Operations : Overlapped(i, "accept", op)

\* An accepted invite stays accepted, except where a call that had read the
\* row before the acceptance writes it after.
AcceptedIsFinal ==
    [][\A i \in Invites :
          status[i] = "accepted" =>
              status'[i] = "accepted" \/ Overwritten(i, status'[i])]_vars

\* Who joins takes a seat that the wallet holds: the one way to be a member on
\* a refunded seat is to accept while the invite is being revoked.  That the
\* create call may still be running, or may have lost its row, opens no other.
JoinsArePaidFor ==
    \A s \in Sessions :
        LET i == call[s].invite IN
        pc[s] = "markAccepted" =>
            \/ charges[i] - refunds[i] = (IF PriceOf[i] > 0 THEN 1 ELSE 0)
            \/ Overlapped(i, "accept", "revoke")
            \/ i \in faulty

\* "Accepted invites cannot be revoked." (revokeOrgInvite): no revoke takes an
\* accepted invite back together with the fee of its seat.
AcceptedCannotBeRevoked ==
    [][\A i \in Invites : status[i] = "accepted" =>
          ~(status'[i] = "revoked" /\ billing'[i] = "reversed")]_vars

\* An invite does not stay pending: its create call sends it or fails it.
PendingEnds ==
    \A i \in Invites : status[i] = "pending" ~> status[i] # "pending" \/ i \in faulty

=============================================================================
