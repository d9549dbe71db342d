--------------------------- MODULE MCOmniScheduler ---------------------------
(* Instances of OmniScheduler for TLC.                                      *)
EXTENDS OmniScheduler

CONSTANTS r1, r2

MCRequests == {r1, r2}
=============================================================================
