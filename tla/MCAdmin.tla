------------------------------- MODULE MCAdmin -------------------------------
(* Instances of Admin for TLC.                                              *)
EXTENDS Admin, TLC

CONSTANTS o1, o2, a, b, f

MCOps == {o1, o2}
MCStages == {a, b}
MCTargets == {{a}, {a, b}}
MCFollowers == (a :> {f}) @@ (b :> {})
=============================================================================
