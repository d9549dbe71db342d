-------------------------- MODULE MCRealtimeSession --------------------------
(* Instances of RealtimeSession for TLC.                                    *)
EXTENDS RealtimeSession

\* nothing, speech, silence, an utterance with the silence that ends it, and
\* the end of one utterance with the beginning of the next
MCAppends == {<<>>, <<TRUE>>, <<FALSE>>, <<TRUE, FALSE, FALSE>>, <<FALSE, FALSE, TRUE>>}
=============================================================================
