------------------------- MODULE MCSimpleSchedulers -------------------------
(* Instances of SimpleSchedulers for TLC.                                   *)
EXTENDS SimpleSchedulers, TLC

CONSTANTS r1, r2, r3

MCRequests == {r1, r2, r3}
MCStreaming == {r1, r2}
MCChunks == (r1 :> 2) @@ (r2 :> 1)
=============================================================================
