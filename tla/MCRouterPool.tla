---------------------------- MODULE MCRouterPool ----------------------------
(* Instances of RouterPool for TLC. *)
EXTENDS RouterPool, TLC

CONSTANTS w1, w2, u1, u2

MCWorkers == {w1, w2}
MCUpdates == {u1, u2}

\* workers and updates are interchangeable, and no liveness is checked
MCSymmetry == Permutations(MCWorkers) \cup Permutations(MCUpdates)
=============================================================================
