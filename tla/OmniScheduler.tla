---------------------------- MODULE OmniScheduler ----------------------------
(***************************************************************************)
(* The decode loop of an autoregressive stage                              *)
(* (sglang_omni/scheduling/omni_scheduler.py): one-step-lookahead decode,  *)
(* the synchronous path, abort(), pausing and weight updates.              *)
(*                                                                         *)
(* Two threads share the batches.  The scheduler thread runs the loop: it  *)
(* picks a batch, launches or runs it, and processes the results; under    *)
(* lookahead a step is resolved only after the next one was launched, so a *)
(* request that finished is still in the step in flight.  The stage's      *)
(* event loop calls abort(), whose three parts (mark, locked section,      *)
(* cleanup) interleave with the loop.                                      *)
(*                                                                         *)
(* Batch selection and result processing are SGLang's (external): they     *)
(* are modelled by what the code here relies on.  A step computes one ROW  *)
(* per request it was launched with; processing pairs rows and requests by *)
(* position.  Tokens, tensors and profiler events are left out, and so are *)
(* mixed chunked prefill and the overlap loop.                             *)
(***************************************************************************)
EXTENDS Naturals, Sequences, FiniteSets, SequencesExt

CONSTANTS
  Requests,
  NoRequest,
  MinBatch,     \* async_decode_min_batch_size
  MaxTokens,    \* max_new_tokens of every request
  MaxRetracts,  \* bound: retractions for lack of memory
  MaxAdmin      \* bound: pauses and weight updates

ASSUME MinBatchAssumption == MinBatch \in Nat \ {0}
ASSUME MaxTokensAssumption == MaxTokens \in Nat \ {0}
ASSUME BoundsAssumption == MaxRetracts \in Nat /\ MaxAdmin \in Nat
ASSUME RequestsAssumption == IsFiniteSet(Requests) /\ NoRequest \notin Requests

VARIABLES
  inbox,      \* requests the stage has handed over
  admitted,   \* history: requests taken from the inbox into waiting_queue
  waiting,    \* waiting_queue
  running,    \* running_batch.reqs
  fresh,      \* reqs of the last prefill batch, until it joins running
  cur,        \* cur_batch: "none", or which of the two it is
  last,       \* last_batch, likewise
  pend,       \* _async_pending: the step in flight
  prev,       \* prev_pending, local to the loop
  stepRows,   \* rows of the batch that runs synchronously
  pc,         \* where the scheduler thread is
  tokens,     \* tokens processed, per request
  fin,        \* requests with a finished_reason
  toFinish,   \* requests with to_finish = FINISH_ABORT
  retracted,  \* requests with is_retracted
  kv,         \* version of the weights that a request's KV was computed
              \* with; 0 when it holds none
  aborted,    \* _aborted_request_ids
  cleaned,    \* requests whose abort callback has run
  told,       \* terminal messages in the outbox, per request
  abortOf,    \* the request that the event loop is aborting
  abortPc,    \* "idle", "marked", "locked"
  deferred,   \* running_abort of the abort in progress
  paused,     \* _engine_paused
  pauseMode,  \* _last_pause_mode
  wasPaused,  \* previous_pause_state of the update in progress
  version,    \* of the weights
  retracts, admins,   \* for the bounds
  doubleFreed,        \* history: requests whose KV was released twice
  misrowed,           \* history: requests that got another request's row
  swept,              \* history: requests aborted by pause or update
  torn,               \* history: requests that abort() took out of a batch
                      \* which it had not found them in when it looked first
  orphaned            \* history: requests whose abort was left to a step
                      \* that will not process them

batchVars == <<waiting, running, fresh, cur, last, pend>>
reqVars   == <<tokens, fin, toFinish, retracted, kv>>
abortVars == <<abortOf, abortPc, deferred, torn, orphaned>>
adminVars == <<paused, pauseMode, wasPaused, version, admins, swept>>
ghostVars == <<doubleFreed, misrowed>>
countVars == <<retracts, admitted>>
vars == <<inbox, admitted, batchVars, prev, stepRows, pc, reqVars, aborted, cleaned, told,
          abortVars, adminVars, retracts, ghostVars>>

NoStep == [reqs |-> <<>>, rows |-> <<>>]
InFlight(step) == step.rows # <<>>

Batch(which) ==
  CASE which = "running" -> running [] which = "fresh" -> fresh [] OTHER -> <<>>

\* the elements of s at the positions in keep, in order (SelectSeq is
\* recursive, and so out of the reach of proofs)
AtPositions(s, keep) ==
  [j \in 1..Cardinality(keep) |->
     s[CHOOSE i \in keep : Cardinality({k \in keep : k <= i}) = j]]

Without(s, gone) == AtPositions(s, {i \in DOMAIN s : s[i] \notin gone})

\* the requests that abort() finds in running_batch, cur_batch, last_batch
\* or the step in flight
InBatches == Range(running) \cup Range(fresh) \cup Range(pend.reqs)

TypeOK ==
  /\ inbox \subseteq Requests /\ admitted \subseteq Requests /\ waiting \subseteq Requests
  /\ running \in Seq(Requests) /\ fresh \in Seq(Requests)
  /\ cur \in {"none", "running", "fresh"} /\ last \in {"none", "running", "fresh"}
  /\ pend.reqs \in Seq(Requests) /\ pend.rows \in Seq(Requests)
  /\ prev.reqs \in Seq(Requests) /\ prev.rows \in Seq(Requests)
  /\ stepRows \in Seq(Requests)
  /\ pc \in {"top", "paused", "select", "dispatch", "drained", "running",
             "resolve", "end", "pausing", "updating"}
  /\ tokens \in [Requests -> 0..MaxTokens]
  /\ fin \subseteq Requests /\ toFinish \subseteq Requests
  /\ retracted \subseteq Requests
  /\ kv \in [Requests -> 0..version]
  /\ aborted \subseteq Requests /\ cleaned \subseteq Requests
  /\ told \in [Requests -> Seq({"result", "error"})]
  /\ abortOf \in Requests \cup {NoRequest}
  /\ abortPc \in {"idle", "marked", "locked"} /\ deferred \in BOOLEAN
  /\ paused \in BOOLEAN /\ wasPaused \in BOOLEAN
  /\ pauseMode \in {"none", "abort", "retract", "in_place"}
  /\ version \in Nat \ {0} /\ retracts \in Nat /\ admins \in Nat
  /\ doubleFreed \subseteq Requests /\ misrowed \subseteq Requests
  /\ swept \subseteq Requests /\ torn \subseteq Requests /\ orphaned \subseteq Requests

Init ==
  /\ inbox = {} /\ admitted = {} /\ waiting = {} /\ running = <<>> /\ fresh = <<>>
  /\ cur = "none" /\ last = "none" /\ pend = NoStep /\ prev = NoStep
  /\ stepRows = <<>> /\ pc = "top"
  /\ tokens = [r \in Requests |-> 0]
  /\ fin = {} /\ toFinish = {} /\ retracted = {}
  /\ kv = [r \in Requests |-> 0]
  /\ aborted = {} /\ cleaned = {} /\ told = [r \in Requests |-> <<>>]
  /\ abortOf = NoRequest /\ abortPc = "idle" /\ deferred = FALSE
  /\ paused = FALSE /\ pauseMode = "none" /\ wasPaused = FALSE
  /\ version = 1 /\ retracts = 0 /\ admins = 0
  /\ doubleFreed = {} /\ misrowed = {} /\ swept = {} /\ torn = {} /\ orphaned = {}
-----------------------------------------------------------------------------
(* Processing a step's results.                                            *)

\* requests and rows by position, without those that finished or were
\* retracted while the step was in flight
LivePairs(step) ==
  AtPositions([i \in DOMAIN step.reqs |-> <<step.reqs[i], step.rows[i]>>],
              {i \in DOMAIN step.reqs : step.reqs[i] \notin fin \cup retracted})

\* process_batch_result and stream_output: each request gets a token; those
\* that end give their KV back, and their result goes to the outbox unless
\* they were aborted, in which case the deferred cleanup runs
Process(pairs, ending, answer) ==
  LET got == {p[1] : p \in Range(pairs)}
      over == {r \in got : r \in toFinish \cup fin \/ tokens[r] + 1 >= MaxTokens}
      ends == over \cup ending
  IN
  /\ ending \subseteq got
  /\ tokens' = [r \in Requests |-> IF r \in got THEN tokens[r] + 1 ELSE tokens[r]]
  /\ fin' = fin \cup ends
  /\ kv' = [r \in Requests |-> IF r \in ends THEN 0 ELSE kv[r]]
  /\ doubleFreed' = doubleFreed \cup {r \in ends : kv[r] = 0}
  /\ misrowed' = misrowed \cup {p[1] : p \in {q \in Range(pairs) : q[1] # q[2]}}
  /\ cleaned' = cleaned \cup (ends \cap aborted)
  /\ told' = [r \in Requests |-> IF r \in ends \ aborted
                                 THEN Append(told[r], answer) ELSE told[r]]

\* abort(defer_running_cleanup=False) of every request in rs, which the
\* scheduler thread does at once; step is the step in flight
AbortNow(rs, step) ==
  LET batched == Range(running) \cup Range(fresh) \cup Range(step.reqs) IN
  /\ aborted' = aborted \cup rs
  /\ waiting' = waiting \ rs
  /\ cleaned' = cleaned \cup rs
  /\ kv' = [r \in Requests |-> IF r \in rs \cap batched THEN 0 ELSE kv[r]]
  /\ running' = Without(running, rs)
  /\ fresh' = Without(fresh, rs)
  /\ pend' = [step EXCEPT !.reqs = Without(@, rs)]
  /\ inbox' = inbox \ rs

\* mutant: the requests of the failed batch are not aborted
OnlySendErrors(rs, step) ==
  /\ told' = [r \in Requests |-> IF r \in rs THEN Append(told[r], "error") ELSE told[r]]
  /\ pend' = step
  /\ UNCHANGED <<inbox, waiting, running, fresh, cur, last, reqVars, aborted, cleaned,
                 ghostVars>>

\* _handle_batch_failure
HandleBatchFailure(rs, step) ==
  /\ told' = [r \in Requests |-> IF r \in rs THEN Append(told[r], "error") ELSE told[r]]
  /\ AbortNow(rs, step)
  /\ UNCHANGED <<cur, last, tokens, fin, toFinish, retracted, ghostVars>>

\* _resolve_and_process
Resolve(step) ==
  /\ \E ending \in SUBSET Requests, answer \in {"result", "error"} :
       Process(LivePairs(step), ending, answer)
  /\ UNCHANGED <<inbox, waiting, running, fresh, cur, last, toFinish, retracted,
                 aborted>>

\* _resolve_pending_async
ResolvePending ==
  \/ ~InFlight(pend) /\ UNCHANGED <<inbox, batchVars, reqVars, aborted, cleaned, told, ghostVars>>
  \/ InFlight(pend) /\ Resolve(pend) /\ pend' = NoStep
  \/ InFlight(pend) /\ HandleBatchFailure(Range(pend.reqs), NoStep)
-----------------------------------------------------------------------------
(* The loop.                                                               *)

\* recv_requests and process_input_requests; requests aborted meanwhile are
\* dropped
ReceiveRequests ==
  /\ pc = "top"
  /\ waiting' = waiting \cup (inbox \ aborted)
  /\ inbox' = {}
  /\ admitted' = admitted \cup (inbox \ aborted)
  /\ pc' = IF paused THEN "paused" ELSE "select"
  /\ UNCHANGED <<running, fresh, cur, last, pend, prev, stepRows, reqVars, aborted,
                 cleaned, told, abortVars, adminVars, retracts, ghostVars>>

\* a paused loop still resolves the step in flight
PausedIteration ==
  /\ pc = "paused" /\ pc' = "top"
  /\ ResolvePending
  /\ UNCHANGED <<prev, stepRows, abortVars, adminVars, countVars>>

\* mutant: the prefill batch is dropped
NeverJoined == running

\* the prefill batch joins the running batch (external: get_next_batch_to_run)
Joined == IF last = "fresh" THEN running \o Without(fresh, fin) ELSE running

\* a new prefill batch; the coalescing gate may hold it back while others run
SelectPrefill(rs) ==
  /\ pc = "select" /\ rs # {} /\ rs \subseteq waiting
  /\ waiting' = waiting \ rs
  /\ running' = Joined
  /\ fresh' = SetToSeq(rs)
  /\ kv' = [r \in Requests |-> IF r \in rs THEN version ELSE kv[r]]
  /\ retracted' = retracted \ rs
  /\ cur' = "fresh" /\ pc' = "dispatch"
  /\ UNCHANGED <<inbox, last, pend, prev, stepRows, tokens, fin, toFinish, aborted,
                 cleaned, told, abortVars, adminVars, countVars, ghostVars>>

\* a decode batch, perhaps after retracting a request for lack of memory
SelectDecode(victims) ==
  LET ready == Without(Joined, fin) IN
  /\ pc = "select"
  /\ waiting = {} \/ ready # <<>>
  /\ victims \subseteq Range(ready) /\ Cardinality(victims) <= 1
  /\ victims # {} => retracts < MaxRetracts /\ Len(ready) > 1
  /\ retracts' = retracts + Cardinality(victims)
  /\ retracted' = retracted \cup victims
  /\ kv' = [r \in Requests |-> IF r \in victims THEN 0 ELSE kv[r]]
  /\ waiting' = waiting \cup victims
  /\ running' = Without(ready, victims)
  /\ fresh' = <<>>
  /\ cur' = (IF ready = <<>> THEN "none" ELSE "running")
  /\ pc' = "dispatch"
  /\ UNCHANGED <<inbox, admitted, last, pend, prev, stepRows, tokens, fin, toFinish, aborted,
                 cleaned, told, abortVars, adminVars, ghostVars>>

\* lookahead: the new step is launched, the previous one is resolved next
LaunchStep ==
  /\ pc = "dispatch" /\ cur = "running" /\ Len(running) >= MinBatch
  /\ prev' = pend
  /\ pend' = [reqs |-> running, rows |-> running]
  /\ pc' = IF InFlight(pend) THEN "resolve" ELSE "end"
  /\ UNCHANGED <<inbox, waiting, running, fresh, cur, last, stepRows, reqVars,
                 aborted, cleaned, told, abortVars, adminVars, countVars, ghostVars>>

LaunchRaises ==
  /\ pc = "dispatch" /\ cur = "running" /\ Len(running) >= MinBatch
  /\ HandleBatchFailure(Range(running), pend)
  /\ pc' = "end"
  /\ UNCHANGED <<prev, stepRows, abortVars, adminVars, countVars>>

ResolvePrevious ==
  /\ pc = "resolve" /\ pc' = "end" /\ prev' = NoStep
  /\ \/ Resolve(prev) /\ UNCHANGED pend
     \/ HandleBatchFailure(Range(prev.reqs), pend)
  /\ UNCHANGED <<stepRows, abortVars, adminVars, countVars>>

\* any other batch: the step in flight is resolved first.  A runner may
\* declare any batch ineligible for lookahead.
DrainPending ==
  /\ pc = "dispatch" /\ pc' = "drained"
  /\ ResolvePending
  /\ UNCHANGED <<prev, stepRows, abortVars, adminVars, countVars>>

\* mutant: the batch selected before the drain is run as it is
StaleToo(which) == Batch(which)

\* _drop_stale_overrun: what the drain finished or retracted is not run
NotStale(which) == Without(Batch(which), fin \cup retracted)

RunBatch ==
  /\ pc = "drained"
  /\ running' = (IF cur = "running" THEN NotStale("running") ELSE running)
  /\ fresh' = (IF cur = "fresh" THEN NotStale("fresh") ELSE fresh)
  /\ stepRows' = NotStale(cur)
  /\ IF NotStale(cur) = <<>> THEN cur' = "none" /\ pc' = "end"
                             ELSE UNCHANGED cur /\ pc' = "running"
  /\ UNCHANGED <<inbox, waiting, last, pend, prev, reqVars, aborted, cleaned, told,
                 abortVars, adminVars, countVars, ghostVars>>

RunEnds ==
  /\ pc = "running" /\ pc' = "end" /\ stepRows' = <<>>
  /\ \/ /\ \E ending \in SUBSET Requests, answer \in {"result", "error"} :
             Process([i \in 1..Len(Batch(cur)) |-> <<Batch(cur)[i], stepRows[i]>>],
                     ending, answer)
        /\ UNCHANGED <<inbox, batchVars, toFinish, retracted, aborted>>
     \/ HandleBatchFailure(Range(Batch(cur)), pend)
  /\ UNCHANGED <<prev, abortVars, adminVars, countVars>>

\* mutant: the prefill batch is not remembered
ForgetLast ==
  /\ pc = "end" /\ pc' = "top"
  /\ last' = "none"
  /\ UNCHANGED <<inbox, waiting, running, fresh, cur, pend, prev, stepRows, reqVars,
                 aborted, cleaned, told, abortVars, adminVars, countVars, ghostVars>>

IterationEnds ==
  /\ pc = "end" /\ pc' = "top"
  /\ last' = cur
  /\ UNCHANGED <<inbox, waiting, running, fresh, cur, pend, prev, stepRows, reqVars,
                 aborted, cleaned, told, abortVars, adminVars, countVars, ghostVars>>
-----------------------------------------------------------------------------
(* abort() on the event loop's thread.                                     *)

NewRequest(r) ==
  /\ abortPc = "idle"
  /\ r \notin inbox \cup admitted \cup aborted
  /\ inbox' = inbox \cup {r}
  /\ UNCHANGED <<batchVars, prev, stepRows, pc, reqVars, aborted, cleaned, told,
                 abortVars, adminVars, countVars, ghostVars>>

\* mutant: the cleanup is left to the loop wherever the request is
AbortAlwaysDefers(r) ==
  /\ abortPc = "idle" /\ r \notin aborted
  /\ abortOf' = r /\ abortPc' = "marked"
  /\ deferred' = TRUE
  /\ toFinish' = IF r \in InBatches \ fin THEN toFinish \cup {r} ELSE toFinish
  /\ UNCHANGED <<inbox, batchVars, prev, stepRows, pc, tokens, fin, retracted, kv,
                 aborted, cleaned, told, torn, orphaned, adminVars, countVars, ghostVars>>

\* _mark_running_request_aborted
AbortMarks(r) ==
  /\ abortPc = "idle" /\ r \notin aborted
  /\ abortOf' = r /\ abortPc' = "marked"
  /\ deferred' = (r \in InBatches \ fin)
  /\ toFinish' = IF r \in InBatches \ fin THEN toFinish \cup {r} ELSE toFinish
  /\ UNCHANGED <<inbox, batchVars, prev, stepRows, pc, tokens, fin, retracted, kv,
                 aborted, cleaned, told, torn, orphaned, adminVars, countVars, ghostVars>>

\* the part under _request_admission_lock
AbortLocked ==
  /\ abortPc = "marked" /\ abortPc' = "locked"
  /\ aborted' = aborted \cup {abortOf}
  /\ waiting' = waiting \ {abortOf}
  /\ orphaned' = IF deferred THEN orphaned \cup ({abortOf} \cap waiting) ELSE orphaned
  /\ UNCHANGED <<inbox, running, fresh, cur, last, pend, prev, stepRows, pc, reqVars,
                 cleaned, told, abortOf, deferred, torn, adminVars, countVars, ghostVars>>

\* the rest: unless the request was marked, its cleanup runs and it leaves
\* the batches
AbortCleansUp ==
  /\ abortPc = "locked" /\ abortPc' = "idle"
  /\ abortOf' = NoRequest /\ deferred' = FALSE
  /\ IF deferred
     THEN /\ inbox' = inbox \ {abortOf}
          /\ UNCHANGED <<batchVars, kv, aborted, cleaned, torn>>
     ELSE /\ AbortNow({abortOf}, pend)
          /\ torn' = torn \cup ({abortOf} \cap (InBatches \ fin))
          /\ UNCHANGED <<cur, last>>
  /\ UNCHANGED <<orphaned, prev, stepRows, pc, tokens, fin, toFinish, retracted, told,
                 adminVars, countVars, ghostVars>>
-----------------------------------------------------------------------------
(* Administration, on the scheduler thread at the top of an iteration.     *)

\* _active_request_ids
Active == waiting \cup (InBatches \ fin)

PauseBegins(mode) ==
  /\ pc = "top" /\ admins < MaxAdmin
  /\ admins' = admins + 1
  /\ paused' = TRUE /\ pauseMode' = mode
  /\ ResolvePending /\ pc' = "pausing"
  /\ UNCHANGED <<prev, stepRows, abortVars, wasPaused, version, swept, countVars>>

\* _retract_running_requests
RetractRunning ==
  LET rs == Range(running) \ fin IN
  /\ retracted' = retracted \cup rs
  /\ kv' = [r \in Requests |-> IF r \in rs THEN 0 ELSE kv[r]]
  /\ waiting' = waiting \cup rs
  /\ running' = <<>>
  /\ UNCHANGED <<inbox, fresh, pend, aborted, cleaned>>

PauseEnds ==
  /\ pc = "pausing" /\ pc' = "top"
  /\ \/ pauseMode = "abort" /\ AbortNow(Active, pend) /\ swept' = swept \cup Active
        /\ UNCHANGED retracted
     \/ pauseMode = "retract" /\ RetractRunning /\ UNCHANGED swept
     \/ pauseMode = "in_place" /\ UNCHANGED <<inbox, waiting, running, fresh, pend, kv,
                                     retracted, aborted, cleaned, swept>>
  /\ UNCHANGED <<cur, last, prev, stepRows, tokens, fin, toFinish, told, abortVars,
                 paused, pauseMode, wasPaused, version, admins, countVars, ghostVars>>

ContinueGeneration ==
  /\ pc = "top" /\ paused
  /\ paused' = FALSE /\ pauseMode' = "none"
  /\ UNCHANGED <<inbox, batchVars, prev, stepRows, pc, reqVars, aborted, cleaned, told,
                 abortVars, wasPaused, version, admins, swept, countVars, ghostVars>>

UpdateBegins ==
  /\ pc = "top" /\ admins < MaxAdmin
  /\ admins' = admins + 1
  /\ wasPaused' = paused /\ paused' = TRUE
  /\ ResolvePending /\ pc' = "updating"
  /\ UNCHANGED <<prev, stepRows, abortVars, pauseMode, version, swept, countVars>>

\* _run_weight_update_with_lifecycle after the step in flight is resolved
UpdateEnds(abortAll, keepPause, ok) ==
  /\ pc = "updating" /\ pc' = "top"
  /\ IF abortAll
     THEN AbortNow(Active, pend) /\ swept' = swept \cup Active
     ELSE UNCHANGED <<inbox, waiting, running, fresh, pend, kv, aborted, cleaned, swept>>
  /\ \/ /\ ~abortAll /\ Active # {} /\ ~(wasPaused /\ pauseMode = "retract")
        /\ ~ok /\ paused' = (keepPause \/ wasPaused)
        /\ UNCHANGED version
     \/ /\ abortAll \/ Active = {} \/ (wasPaused /\ pauseMode = "retract")
        /\ version' = IF ok THEN version + 1 ELSE version
        /\ paused' = (keepPause \/ wasPaused)
  /\ UNCHANGED <<cur, last, prev, stepRows, tokens, fin, toFinish, retracted, told,
                 abortVars, pauseMode, wasPaused, admins, countVars, ghostVars>>
-----------------------------------------------------------------------------
LoopStep ==
  \/ ReceiveRequests \/ PausedIteration
  \/ \E rs \in SUBSET Requests : SelectPrefill(rs) \/ SelectDecode(rs)
  \/ LaunchStep \/ LaunchRaises \/ ResolvePrevious
  \/ DrainPending \/ RunBatch \/ RunEnds \/ IterationEnds
  \/ PauseEnds
  \/ \E abortAll, keepPause, ok \in BOOLEAN : UpdateEnds(abortAll, keepPause, ok)

Next ==
  \/ LoopStep
  \/ \E mode \in {"abort", "retract", "in_place"} : PauseBegins(mode)
  \/ ContinueGeneration \/ UpdateBegins
  \/ \E r \in Requests : NewRequest(r) \/ AbortMarks(r)
  \/ AbortLocked \/ AbortCleansUp

Spec == Init /\ [][Next]_vars

\* both threads run; nobody has to send, abort, pause or continue
FairSpec == Spec /\ WF_vars(LoopStep) /\ WF_vars(AbortLocked) /\ WF_vars(AbortCleansUp)
-----------------------------------------------------------------------------
(* Properties.                                                             *)

\* Finishing, failing, retracting, aborting and sweeping never release the KV
\* of one request twice, although a finished request is still in the step in
\* flight (_resolve_and_process) and in a batch picked before the drain
\* (_drop_stale_overrun).  Excepted are requests that abort() looked for
\* before they were batched and found in a batch afterwards.
KvReleasedOnce == doubleFreed \subseteq torn

\* A request that was taken from the inbox and has no outcome yet is in
\* exactly one of the waiting queue, the running batch and the prefill batch,
\* and holds KV exactly when it is in a batch: selection, retraction, failure
\* and pausing neither lose nor duplicate it.
PlacedOnce ==
  \A r \in Requests :
    r \in admitted \ (fin \cup aborted) =>
      /\ r \in waiting \cup Range(running) \cup Range(fresh)
      /\ r \in waiting => r \notin Range(running) \cup Range(fresh)
      /\ r \in Range(running) => r \notin Range(fresh)
      /\ kv[r] = 0 <=> r \in waiting

\* stream_output and _handle_batch_failure: a result is never sent for a
\* request that was answered before.  (An error may follow a result, when the
\* step in flight fails and the finished request is still in it.)
NoLateResult ==
  \A r \in Requests : \A i \in 2..Len(told[r]) : told[r][i] # "result"

\* The resources of an aborted request are cleaned up, at once or, for a
\* request in a batch, when its step is processed (stream_output).  Excepted
\* are requests answered before the abort was recorded, and those retracted
\* while abort() still found them in the step in flight.
AbortsCleanedUp ==
  <>[](~paused) =>
    \A r \in Requests : r \in aborted ~> (r \in cleaned \cup orphaned \/ told[r] # <<>>)

\* Once the engine is no longer paused, each request is answered or aborted,
\* although batches fail, are retracted and are routed between the two paths.
WorkEnds ==
  <>[](~paused) =>
    \A r \in Requests : r \in inbox ~> (told[r] # <<>> \/ r \in aborted)

\* "trimming reqs in lockstep suffices" (_resolve_and_process): as long as
\* abort() took no live request out of a batch, each request gets the row that
\* was computed for it.
RowsInLockstep == torn = {} => misrowed = {}
=============================================================================
