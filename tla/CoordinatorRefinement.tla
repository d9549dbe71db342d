------------------------ MODULE CoordinatorRefinement ------------------------
(***************************************************************************)
(* The coordinator implements RequestLifecycle.  A request's fate is the   *)
(* state of the future created for it: submit() waits on that future, but  *)
(* stream() never looks at it and ends on what its queue brings, so the    *)
(* refinement says that the two ways of answering agree.                   *)
(***************************************************************************)
EXTENDS Coordinator

PhaseOf(c) ==
  CASE pc[c] = "idle" -> "new"
    [] pc[c] = "done" -> "closed"
    [] OTHER          -> "open"

FateOf(c) ==
  CASE fut[c] \in {"none", "pending"}     -> "undecided"
    [] fut[c] = "result"                  -> "granted"
    [] fut[c] \in {"error", "cancelled"}  -> "revoked"

\* the future's value once it is resolved, until then what the coordinator
\* has collected under the id while the call's future is registered there
ResultsOf(c) ==
  CASE fut[c] = "result" -> value[c]
    [] fut[c] = "pending" /\ futureOf[rid[c]] = c -> partials[rid[c]]
    [] OTHER -> {}

Phase     == [c \in Calls |-> PhaseOf(c)]
Fate      == [c \in Calls |-> FateOf(c)]
Results   == [c \in Calls |-> ResultsOf(c)]
Delivered == [c \in Calls |-> IF outcome[c] = "ok" THEN completed[c] ELSE {}]

Lifecycle == INSTANCE RequestLifecycle WITH
  phase <- Phase, fate <- Fate, results <- Results, answer <- outcome, delivered <- Delivered

\* (unique ids) Every step of the coordinator, of its callers and of the
\* stages is a step of the abstract lifecycle or leaves it alone: a fate is
\* decided once, results are delivered whole and only for a granted request,
\* and no call is answered with an error while its request is undecided.
ImplementsLifecycle == Lifecycle!LifecycleSpec
=============================================================================
