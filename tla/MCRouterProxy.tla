---------------------------- MODULE MCRouterProxy ----------------------------
(* Instances of RouterProxy for TLC. *)
EXTENDS RouterProxy

CONSTANTS r1, r2, r3, a, b

MCRequests == {r1, r2, r3}
MCWorkerList == <<a, b>>
=============================================================================
