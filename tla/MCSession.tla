----------------------------- MODULE MCSession -----------------------------
(* GatewaySession for TLC.                                                  *)
EXTENDS GatewaySession

=============================================================================
