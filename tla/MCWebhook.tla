----------------------------- MODULE MCWebhook -----------------------------
(* StripeWebhook for TLC.  The instances differ in which branches of POST   *)
(* the events take; what an event is worth follows from its branch.         *)
EXTENDS StripeWebhook

CONSTANTS o1, top, plan, renew, upd, oth

\* The plan is one that includes no usage, so that both ways through the
\* credit happen; the renewal exercises the other.
CreditOfKind(kind) == IF kind \in {"topup", "renewal"} THEN 1 ELSE 0
MCAmounts == {0, 1}
MCOrgOf == [e \in Events |-> o1]
MCKind == [e \in Events |-> CASE e = top   -> "topup"
                              [] e = plan  -> "plan"
                              [] e = renew -> "renewal"
                              [] e = upd   -> "updated"
                              [] OTHER     -> "other"]
MCCreditOf == [e \in Events |-> CreditOfKind(MCKind[e])]

=============================================================================
