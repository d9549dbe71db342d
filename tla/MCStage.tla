------------------------------- MODULE MCStage -------------------------------
(* Instances of Stage for TLC. *)
EXTENDS Stage

CONSTANTS r1, a, b

MCRequests == {r1}
\* a remote stage, and one in the same process
MCRemote == {a}
MCLocal == {b}
MCUpstream == {a, b}
=============================================================================
