----------------------------- MODULE MCInvites -----------------------------
(* InviteLifecycle for TLC: a paid and a free invite for one address, two   *)
(* sessions, and a wallet that can or cannot carry the paid seat.           *)
EXTENDS InviteLifecycle

CONSTANTS paid, free

MCAmounts == {0, 1}
MCPriceOf == [i \in Invites |-> IF i = paid THEN 1 ELSE 0]

=============================================================================
