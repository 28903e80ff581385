------------------------------ MODULE MCEmail ------------------------------
(* EmailDelivery for TLC.                                                   *)
EXTENDS EmailDelivery, TLC

\* Nothing tells one worker or one tab from another.
Symmetry == Permutations(Workers) \cup Permutations(Editors)

=============================================================================
