----------------------------- MODULE RouterProxy -----------------------------
(***************************************************************************)
(* The data plane of the external router: admission, worker selection and  *)
(* the relay of one upstream response (proxy.py, selector.py).             *)
(*                                                                         *)
(* A streamed relay has two owners that may tear it down: the body         *)
(* iterator's finally block, and the finally block of the response's       *)
(* __call__ when the body never runs, fails or is abandoned at a yield.    *)
(* Both call the same _RelayCleanup; the admission slot has a third        *)
(* release, the weakref finalizer of the response.                         *)
(*                                                                         *)
(* Which workers are routable and fit a request is decided by RouterPool   *)
(* and the request's metadata: here any set of workers may be eligible.    *)
(***************************************************************************)
EXTENDS Naturals, Sequences, FiniteSets

CONSTANTS
  Requests,     \* concurrent calls of forward_model_request
  WorkerList,   \* the workers, in the order of the pool's list
  NoWorker,     \* a request that has not been routed
  MaxInflight,  \* effective_max_inflight
  Policy,       \* RoutingPolicy
  MaxDrift      \* bound: relays lost without a decrement, per worker

ListedWorkers == {WorkerList[i] : i \in 1..Len(WorkerList)}

ASSUME ListAssumption ==
  /\ \A i, j \in 1..Len(WorkerList) : WorkerList[i] = WorkerList[j] => i = j
  /\ NoWorker \notin ListedWorkers
ASSUME LimitAssumption == MaxInflight \in Nat \ {0} /\ MaxDrift \in Nat
ASSUME PolicyAssumption == Policy \in {"round_robin", "least_request", "random"}

VARIABLES
  inflight,  \* AdmissionController._inflight
  active,    \* Worker.active_requests
  rr,        \* WorkerSelector._rr_index
  pc,        \* where each request is
  iter,      \* its body iterator
  worker,    \* the worker it was routed to
  slot,      \* it holds an admission slot: ~_ReleaseOnce._released
  cleaned,   \* _RelayCleanup._done
  drift      \* history: increments of active that nobody will undo

proxyVars == <<inflight, active, rr, pc, iter, worker, slot, cleaned, drift>>

\* "admitted": reading and parsing the body; "sending": awaiting the upstream
\* headers; "returned": the StreamingResponse is built; "relaying": its
\* __call__ runs; "closing": __call__ awaits aclose in the cleanup; "ended":
\* the response is garbage
Places == {"idle", "admitted", "sending", "returned", "relaying", "closing", "ended"}

\* Every variable has the shape of the object it stands for.
ProxyTypeOK ==
  /\ inflight \in 0..MaxInflight
  /\ active \in [ListedWorkers -> Nat]
  /\ rr \in Nat
  /\ pc \in [Requests -> Places]
  /\ iter \in [Requests -> {"unstarted", "open", "closing", "finished"}]
  /\ worker \in [Requests -> ListedWorkers \cup {NoWorker}]
  /\ slot \in [Requests -> BOOLEAN]
  /\ cleaned \in [Requests -> BOOLEAN]
  /\ drift \in [ListedWorkers -> 0..MaxDrift]

ProxyInit ==
  /\ inflight = 0
  /\ active = [w \in ListedWorkers |-> 0]
  /\ rr = 0
  /\ pc = [r \in Requests |-> "idle"]
  /\ iter = [r \in Requests |-> "unstarted"]
  /\ worker = [r \in Requests |-> NoWorker]
  /\ slot = [r \in Requests |-> FALSE]
  /\ cleaned = [r \in Requests |-> FALSE]
  /\ drift = [w \in ListedWorkers |-> 0]
-----------------------------------------------------------------------------
(* Counters.                                                               *)

\* mutant: the slot is given back as often as it is asked for
ReleaseAgain(r) ==
  /\ slot' = [slot EXCEPT ![r] = FALSE]
  /\ inflight' = IF inflight > 0 THEN inflight - 1 ELSE 0

\* _ReleaseOnce.__call__
Release(r) ==
  IF slot[r]
  THEN slot' = [slot EXCEPT ![r] = FALSE] /\ inflight' = inflight - 1
  ELSE UNCHANGED <<slot, inflight>>

DecrementActive(w) == active' = [active EXCEPT ![w] = @ - 1]

\* an increment is forgotten
Forget(w) ==
  /\ drift[w] < MaxDrift
  /\ drift' = [drift EXCEPT ![w] = @ + 1]
  /\ UNCHANGED active

\* the request has its answer and leaves nothing behind
Finish(r) ==
  /\ pc' = [pc EXCEPT ![r] = "idle"]
  /\ iter' = [iter EXCEPT ![r] = "unstarted"]
  /\ worker' = [worker EXCEPT ![r] = NoWorker]
  /\ cleaned' = [cleaned EXCEPT ![r] = FALSE]
-----------------------------------------------------------------------------
(* WorkerSelector.                                                         *)

SelectRoundRobin(candidates, w) ==
  /\ w = candidates[(rr % Len(candidates)) + 1]
  /\ rr' = (rr + 1) % Len(candidates)

LeastLoaded(candidates) ==
  {w \in candidates : \A v \in candidates : active[w] <= active[v]}

\* select: which worker the policy may return for a nonempty set of eligible
\* workers
Select(eligible, w) ==
  LET Listed(S) == SelectSeq(WorkerList, LAMBDA v : v \in S)
  IN  \/ Policy = "round_robin" /\ SelectRoundRobin(Listed(eligible), w)
      \/ Policy = "least_request" /\ SelectRoundRobin(Listed(LeastLoaded(eligible)), w)
      \/ Policy = "random" /\ w \in eligible /\ UNCHANGED rr
-----------------------------------------------------------------------------
(* forward_model_request up to the upstream's headers.                     *)

\* past the bound the request is refused at once, which changes no state
TryAcquire(r) ==
  /\ pc[r] = "idle"
  /\ inflight < MaxInflight
  /\ inflight' = inflight + 1
  /\ slot' = [slot EXCEPT ![r] = TRUE]
  /\ pc' = [pc EXCEPT ![r] = "admitted"]
  /\ UNCHANGED <<active, rr, iter, worker, cleaned, drift>>

\* mutant: an answer built by the router itself keeps the slot
RefuseKeepingSlot(r) ==
  /\ pc[r] = "admitted"
  /\ Finish(r)
  /\ UNCHANGED <<inflight, slot, active, rr, drift>>

\* too large, malformed, no eligible worker, or an exception
RefuseAdmitted(r) ==
  /\ pc[r] = "admitted"
  /\ Release(r)
  /\ Finish(r)
  /\ UNCHANGED <<active, rr, drift>>

\* the body is read, a worker chosen and the request sent
SendUpstream(r, eligible, w) ==
  /\ pc[r] = "admitted"
  /\ Select(eligible, w)
  /\ worker' = [worker EXCEPT ![r] = w]
  /\ active' = [active EXCEPT ![w] = @ + 1]
  /\ pc' = [pc EXCEPT ![r] = "sending"]
  /\ UNCHANGED <<inflight, iter, slot, cleaned, drift>>

\* httpx.HTTPError: the 502 answer
SendFails(r) ==
  /\ pc[r] = "sending"
  /\ DecrementActive(worker[r])
  /\ Release(r)
  /\ Finish(r)
  /\ UNCHANGED <<rr, drift>>

\* any other exception, cancellation included: only the slot is released
SendRaises(r) ==
  /\ pc[r] = "sending"
  /\ Forget(worker[r])
  /\ Release(r)
  /\ Finish(r)
  /\ UNCHANGED rr

\* the relay's response is built
HeadersArrive(r) ==
  /\ pc[r] = "sending"
  /\ pc' = [pc EXCEPT ![r] = "returned"]
  /\ UNCHANGED <<inflight, active, rr, iter, worker, slot, cleaned, drift>>

\* building the response headers raises; aclose may raise in turn, and then
\* the decrement after it is skipped
HeadersFail(r, closed) ==
  /\ pc[r] = "sending"
  /\ IF closed THEN DecrementActive(worker[r]) /\ UNCHANGED drift
               ELSE Forget(worker[r])
  /\ Release(r)
  /\ Finish(r)
  /\ UNCHANGED rr
-----------------------------------------------------------------------------
(* The relay: _RelayResponse.__call__, iter_bytes and _RelayCleanup.       *)

\* the ASGI stack never calls the response: only the finalizer runs
ResponseDropped(r) ==
  /\ pc[r] = "returned"
  /\ Forget(worker[r])
  /\ Release(r)
  /\ Finish(r)
  /\ UNCHANGED rr

CallResponse(r) ==
  /\ pc[r] = "returned"
  /\ pc' = [pc EXCEPT ![r] = "relaying"]
  /\ UNCHANGED <<inflight, active, rr, iter, worker, slot, cleaned, drift>>

\* http.response.start is sent and the body begins; the iterator then stops
\* at one yield after another
OpenBody(r) ==
  /\ pc[r] = "relaying" /\ iter[r] = "unstarted"
  /\ iter' = [iter EXCEPT ![r] = "open"]
  /\ UNCHANGED <<inflight, active, rr, pc, worker, slot, cleaned, drift>>

\* mutant: _done is set once the upstream is closed, not before
BeginCleanupLate(r) == UNCHANGED cleaned

\* _RelayCleanup.__call__ of the owner that comes first
BeginCleanup(r) == cleaned' = [cleaned EXCEPT ![r] = TRUE]

\* the iterator leaves its try: exhausted, upstream error, cancelled, or
\* finalized at a yield after __call__ has left
BodyEnds(r) ==
  /\ pc[r] \in {"relaying", "closing", "ended"} /\ iter[r] = "open"
  /\ IF cleaned[r]
     THEN iter' = [iter EXCEPT ![r] = "finished"] /\ UNCHANGED cleaned
     ELSE iter' = [iter EXCEPT ![r] = "closing"] /\ BeginCleanup(r)
  /\ UNCHANGED <<inflight, active, rr, pc, worker, slot, drift>>

\* aclose returned or raised: the count and the slot are given back
EndCleanup(r) ==
  /\ DecrementActive(worker[r])
  /\ Release(r)

BodyCleaned(r) ==
  /\ iter[r] = "closing"
  /\ iter' = [iter EXCEPT ![r] = "finished"]
  /\ EndCleanup(r)
  /\ UNCHANGED <<rr, pc, worker, cleaned, drift>>

\* Starlette's __call__ returns or raises, maybe before the body began or
\* with the iterator left at a yield; the finally block cleans up
CallEnds(r) ==
  /\ pc[r] = "relaying" /\ iter[r] # "closing"
  /\ IF cleaned[r]
     THEN pc' = [pc EXCEPT ![r] = "ended"] /\ UNCHANGED cleaned
     ELSE pc' = [pc EXCEPT ![r] = "closing"] /\ BeginCleanup(r)
  /\ UNCHANGED <<inflight, active, rr, iter, worker, slot, drift>>

CallCleaned(r) ==
  /\ pc[r] = "closing"
  /\ pc' = [pc EXCEPT ![r] = "ended"]
  /\ EndCleanup(r)
  /\ UNCHANGED <<rr, iter, worker, cleaned, drift>>

\* the response is collected and its finalizer runs
FinalizeResponse(r) ==
  /\ pc[r] = "ended" /\ iter[r] \in {"unstarted", "finished"}
  /\ Release(r)
  /\ Finish(r)
  /\ UNCHANGED <<active, rr, drift>>
-----------------------------------------------------------------------------
Step(r) ==
  \/ TryAcquire(r) \/ RefuseAdmitted(r)
  \/ \E eligible \in SUBSET ListedWorkers \ {{}}, w \in ListedWorkers : SendUpstream(r, eligible, w)
  \/ SendFails(r) \/ SendRaises(r) \/ HeadersArrive(r)
  \/ \E closed \in BOOLEAN : HeadersFail(r, closed)
  \/ ResponseDropped(r) \/ CallResponse(r) \/ OpenBody(r) \/ BodyEnds(r) \/ BodyCleaned(r)
  \/ CallEnds(r) \/ CallCleaned(r) \/ FinalizeResponse(r)

ProxyNext == \E r \in Requests : Step(r)

ProxySpec == ProxyInit /\ [][ProxyNext]_proxyVars

\* Every await of a request ends and garbage is collected; requests need not
\* arrive.  The http client's timeout ends the waits on workers.  Nothing in
\* the router ends a wait on a client, to read its body or to send to it:
\* that a client finishes or leaves is an assumption.
Fairness ==
  \A r \in Requests :
    WF_proxyVars(\/ RefuseAdmitted(r)
                 \/ \E eligible \in SUBSET ListedWorkers \ {{}}, w \in ListedWorkers :
                      SendUpstream(r, eligible, w)
                 \/ SendFails(r) \/ HeadersArrive(r)
                 \/ CallResponse(r) \/ OpenBody(r) \/ BodyEnds(r) \/ BodyCleaned(r)
                 \/ CallEnds(r) \/ CallCleaned(r) \/ FinalizeResponse(r))

ProxyFairSpec == ProxySpec /\ Fairness
-----------------------------------------------------------------------------
(* Properties.                                                             *)

\* the request is being answered and its relay has not been torn down
Serving(r) ==
  \/ pc[r] \in {"admitted", "sending", "returned", "closing"}
  \/ pc[r] = "relaying" /\ iter[r] # "finished"

\* The in-flight count is exactly the number of requests being served, each
\* holding one slot, whichever of the iterator, __call__, the exception
\* handler and the finalizer gives the slot back, and in whatever order
\* (AdmissionController, _ReleaseOnce, _RelayCleanup).
AdmissionExact ==
  /\ \A r \in Requests : slot[r] <=> Serving(r)
  /\ inflight = Cardinality({r \in Requests : slot[r]})

\* A worker's load is the number of its relays in progress, plus the
\* increments lost on the paths that never decrement: no relay is counted off
\* twice, so the count never reaches the assertion in decrement_active.
LoadAccountedFor ==
  \A w \in ListedWorkers :
    active[w] = drift[w] + Cardinality({r \in Requests : worker[r] = w /\ Serving(r)})

\* Every admitted request gives its slot back: the router does not stay at
\* its limit for ever.
SlotsReturn == \A r \in Requests : slot[r] ~> ~slot[r]
=============================================================================
