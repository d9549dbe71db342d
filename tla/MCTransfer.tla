----------------------------- MODULE MCTransfer -----------------------------
(* Instances of Transfer for TLC.                                           *)
EXTENDS Transfer, TLC

CONSTANTS p, q, ca, cb, a, b, x

\* a payload p for target a; one chunk for a and b; the payload again, q,
\* with the object id of p
MCJobs == {p, q, ca, cb}
MCItems == <<{p}, {ca, cb}, {q}>>
MCTarget == [j \in MCJobs |-> IF j = cb THEN b ELSE a]
MCObjectId == [j \in MCJobs |-> IF j \in {p, q} THEN x ELSE j]
MCSizes == [j \in MCJobs |-> IF j \in {p, q} THEN <<2>> ELSE <<1, 1>>]
=============================================================================
