----------------------------- MODULE MCGateways -----------------------------
(* TenantGateways for TLC: tenants of a managed deployment are t1 and t2,   *)
(* organisations of a hosted one o1 and o2.                                 *)
EXTENDS TenantGateways, TLC

CONSTANTS t1, t2, o1, o2

\* Both tenants hash to the last of two ports.
MCPreferred == t1 :> 1 @@ t2 :> 1

\* One shard is added to the pool and one is taken out; the first word of
\* the hash of o2 is odd, and o1 is pinned to the second shard.
MCPools == {<<>>, <<1>>, <<1, 2>>, <<2>>}
MCHash == o1 :> 0 @@ o2 :> 1
MCPinned == o1 :> 2 @@ o2 :> NoShard

Symmetry == Permutations(Callers) \cup Permutations(Requests) \cup Permutations(Tenants)

=============================================================================
