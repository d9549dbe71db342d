--------------------------- MODULE MCSpeechServing ---------------------------
(* Instances of SpeechServing for TLC.                                      *)
EXTENDS SpeechServing, TLC

Plain(t) == [t |-> t, n |-> 0, rest |-> FALSE]
Text(n, r) == [t |-> "text", n |-> n, rest |-> r]

MCFrames == {Plain("config"), Plain("bad"), Plain("done"), Plain("gone"),
             Text(0, TRUE), Text(1, FALSE), Text(2, TRUE)}
=============================================================================
