---------------------------- MODULE MCUsageSync ----------------------------
(* UsageSync for TLC.  With three units to a cent a growth of one unit      *)
(* rounds to nothing and one of two is charged, at two cents.               *)
EXTENDS UsageSync, TLC

MCAmounts == {0, 2}

\* Nothing tells one sync or one session key from another.
Symmetry == Permutations(Keys) \cup Permutations(Syncs)

=============================================================================
