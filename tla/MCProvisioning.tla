--------------------------- MODULE MCProvisioning ---------------------------
(* AgentProvisioning for TLC.                                               *)
EXTENDS AgentProvisioning, TLC

CONSTANTS o1, o2, a, b

\* The bootstraps of two organisations never make the same slug.
BootstrapSlugs == o1 :> a @@ o2 :> b

\* Nothing tells one handler from another.
Symmetry == Permutations(Handlers)

\* What is still read of a state, by a step or a property: a snapshot until the
\* patches are made of it, whether a write is raced until it is done, and of
\* the history whose mishaps and overruns there were.
Live ==
    <<agents, file, memory, pc, kind, org, slug, requests, faults,
      [h \in Handlers |-> IF write[h] = None \/ ~write[h].written THEN write[h]
                          ELSE [write[h] EXCEPT !.raced = FALSE]],
      [h \in Handlers |-> IF pc[h] \in {"govern", "governing", "provision"}
                          THEN held[h] ELSE Empty],
      {m[1] : m \in mishaps}, {x[1] : x \in overruns}>>

=============================================================================
