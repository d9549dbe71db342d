---------------------------- MODULE MCCoordinator ----------------------------
(***************************************************************************)
(* Instances of Coordinator for TLC: two calls, two stages that can both   *)
(* be terminals, and the resolutions a pipeline can be configured with.    *)
(***************************************************************************)
EXTENDS CoordinatorRefinement, TLC

CONSTANTS c1, c2, i1, t1, t2

MCCalls == {c1, c2}
MCOneId == {i1}
MCOneCall == {c1}
MCStages == {t1, t2}
\* one active terminal, or both
MCResolutions == {{t1}, {t1, t2}}

MCSymmetryCalls == Permutations(MCCalls)
=============================================================================
