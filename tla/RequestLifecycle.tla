-------------------------- MODULE RequestLifecycle --------------------------
(***************************************************************************)
(* What the coordinator promises to a caller, without tables, futures,     *)
(* queues or sockets.  A call opens a request.  The request collects       *)
(* reports of its terminal stages until its FATE is decided, once: granted *)
(* when the reports make up a whole resolution, revoked when it is         *)
(* aborted or fails.  The call is answered with the results only if the    *)
(* request was granted, and never with an error while it is undecided.     *)
(*                                                                         *)
(* Coordinator implements this specification under the mapping given in    *)
(* CoordinatorRefinement.                                                  *)
(***************************************************************************)
EXTENDS Naturals

CONSTANTS
  Calls,       \* calls of submit() and stream()
  Stages,      \* stages that may report
  Resolutions  \* the sets of terminals a request may be resolved to

VARIABLES
  phase,     \* "new", "open", "closed"
  fate,      \* "undecided", "granted", "revoked"
  results,   \* stages whose reports have been collected
  answer,    \* what the caller got
  delivered  \* stages whose results the caller got

lifecycleVars == <<phase, fate, results, answer, delivered>>

LifecycleInit ==
  /\ phase = [c \in Calls |-> "new"]
  /\ fate = [c \in Calls |-> "undecided"]
  /\ results = [c \in Calls |-> {}]
  /\ answer = [c \in Calls |-> "none"]
  /\ delivered = [c \in Calls |-> {}]

\* the reports that answer a request: those of a resolution or, for a
\* pipeline without terminals, the first one
Whole(reports) ==
  \/ reports \in Resolutions
  \/ {} \in Resolutions /\ \E t \in Stages : reports = {t}

Live(c) == phase[c] # "new" /\ fate[c] = "undecided"

Refuse(c, how) ==
  /\ phase[c] = "new" /\ how \in {"rejected", "error"}
  /\ phase' = [phase EXCEPT ![c] = "closed"]
  /\ answer' = [answer EXCEPT ![c] = how]
  /\ UNCHANGED <<fate, results, delivered>>

Open(c) ==
  /\ phase[c] = "new"
  /\ phase' = [phase EXCEPT ![c] = "open"]
  /\ UNCHANGED <<fate, results, answer, delivered>>

Collect(c, t) ==
  /\ Live(c)
  /\ \E r \in Resolutions : results[c] \cup {t} \subseteq r /\ r # results[c] \cup {t}
  /\ results' = [results EXCEPT ![c] = @ \cup {t}]
  /\ UNCHANGED <<phase, fate, answer, delivered>>

Grant(c, t) ==
  /\ Live(c) /\ Whole(results[c] \cup {t})
  /\ results' = [results EXCEPT ![c] = @ \cup {t}]
  /\ fate' = [fate EXCEPT ![c] = "granted"]
  /\ UNCHANGED <<phase, answer, delivered>>

\* an abort or a failure concerns one request, the loss of the pipeline all
Revoke(cs) ==
  /\ \A c \in cs : Live(c)
  /\ fate' = [c \in Calls |-> IF c \in cs THEN "revoked" ELSE fate[c]]
  /\ results' = [c \in Calls |-> IF c \in cs THEN {} ELSE results[c]]
  /\ UNCHANGED <<phase, answer, delivered>>

Close(c, how) ==
  /\ phase[c] = "open"
  /\ phase' = [phase EXCEPT ![c] = "closed"]
  /\ answer' = [answer EXCEPT ![c] = how]

AnswerOk(c) ==
  /\ Close(c, "ok") /\ fate[c] = "granted"
  /\ delivered' = [delivered EXCEPT ![c] = results[c]]
  /\ UNCHANGED <<fate, results>>

AnswerError(c) ==
  /\ Close(c, "error") /\ fate[c] # "undecided"
  /\ UNCHANGED <<fate, results, delivered>>

\* the caller gives up; what was collected for it may be dropped with it
GiveUp(c) ==
  /\ Close(c, "cancelled")
  /\ \/ UNCHANGED <<fate, results>>
     \/ /\ fate[c] = "undecided"
        /\ fate' \in {fate, [fate EXCEPT ![c] = "revoked"]}
        /\ results' = [results EXCEPT ![c] = {}]
  /\ UNCHANGED delivered

LifecycleNext ==
  \/ \E c \in Calls :
       \/ Open(c) \/ AnswerOk(c) \/ AnswerError(c) \/ GiveUp(c)
       \/ \E how \in {"rejected", "error"} : Refuse(c, how)
       \/ \E t \in Stages : Collect(c, t) \/ Grant(c, t)
  \/ \E cs \in SUBSET Calls : Revoke(cs)

LifecycleSpec == LifecycleInit /\ [][LifecycleNext]_lifecycleVars
=============================================================================
