----------------------------- MODULE Coordinator -----------------------------
(***************************************************************************)
(* The request lifecycle of the pipeline coordinator                       *)
(* (sglang_omni/pipeline/coordinator.py) with the control plane it talks   *)
(* through (pipeline/control_plane.py).                                    *)
(*                                                                         *)
(* A CALL is one activation of submit() or stream(): an asyncio task of    *)
(* the API server.  All of them, the completion loop and abort() run on    *)
(* one event loop, so the code between two awaits that can really suspend  *)
(* is one action.  Only three awaits suspend: the PUSH send to the entry   *)
(* stage when the socket is at its high-water mark, submit()'s wait on its *)
(* completion future, and stream()'s wait on its queue.  (Awaiting a PUB   *)
(* send or a put on an unbounded asyncio.Queue completes at once.)         *)
(*                                                                         *)
(* A future and a queue are objects, and two calls with the same request   *)
(* id may hold different ones: an object is named by the call that created *)
(* it, and the dictionaries map an id to such a name.                      *)
(*                                                                         *)
(* The stages are an environment: they take submissions off the entry      *)
(* socket, work, stream, finish or fail, and obey aborts, which travel on  *)
(* another socket and may be lost.                                         *)
(***************************************************************************)
EXTENDS Naturals, Sequences, FiniteSets

CONSTANTS
  Calls,        \* activations of submit() or stream()
  NoCall,       \* the missing dictionary entry
  Ids,          \* request ids
  Stages,       \* stages that may report a result to the coordinator
  Resolutions,  \* the terminal sets _resolve_terminal_stages may return
  MaxChunks,    \* bound: chunks one stage streams for one request
  UniqueIds     \* TRUE: ids come from uuid4; FALSE: clients choose them

ASSUME NoCallAssumption == NoCall \notin Calls
ASSUME ResolutionsAssumption == Resolutions \subseteq SUBSET Stages /\ IsFiniteSet(Stages)
ASSUME BoundsAssumption == MaxChunks \in Nat
ASSUME UniqueIdsAssumption == UniqueIds \in BOOLEAN

VARIABLES
  reqState,   \* _requests[id].state; "none" when id is not a key
  terminals,  \* _requests[id].terminal_stages
  futureOf,   \* _completion_futures[id]: the call whose future it holds
  queueOf,    \* _stream_queues[id]: the call whose queue it holds
  partials,   \* _partial_results[id]: the stages already collected
  running,    \* the completion loop: "running", "last" (one recv), "stopped"
  fatal,      \* _fatal_error is set
  pc,         \* where each call is
  kind,       \* "submit" or "stream", never changes
  rid,        \* the call's request id, never changes
  fut,        \* state of the future the call created
  value,      \* stages whose results the future's value holds
  waitsOn,    \* the future that a submit() call awaits
  queue,      \* the queue that the call created
  expected,   \* stream(): expected_terminal_stages; submit(): history
  completed,  \* stream(): completed_stages; submit(): stages in the result
  yielded,    \* stream(): chunks handed to the consumer, per stage
  outcome,    \* how the call ended
  entry,      \* submissions in the entry stage's socket
  work,       \* requests on their way to a stage or in it, per stage
  aborted,    \* ids whose abort has been broadcast
  chan,       \* messages from a stage to the coordinator, per stage
  emitted,    \* chunks a stage has streamed, per stage and id
  abortOk     \* history: ids for which abort() returned True

coordVars == <<reqState, terminals, futureOf, queueOf, partials, running, fatal>>
callVars  == <<pc, kind, rid, fut, value, waitsOn, queue, expected, completed,
               yielded, outcome>>
stageVars == <<entry, work, aborted, chan, emitted>>
vars == <<coordVars, callVars, stageVars, abortOk>>

Tracked(id) == reqState[id] # "none"

Waiting == {"sending", "sent", "awaiting", "draining"}

\* the coordinator itself only ever reports failures
QueueMsg == [t : {"chunk", "ok"}, from : Stages]
            \cup [t : {"fail"}, from : Stages \cup {"coordinator"}]
StageMsg == [t : {"chunk", "ok", "fail"}, from : Stages, id : Ids]

CoordTypeOK ==
  /\ reqState \in [Ids -> {"none", "PENDING", "RUNNING"}]
  /\ terminals \in [Ids -> SUBSET Stages]
  /\ futureOf \in [Ids -> Calls \cup {NoCall}]
  /\ queueOf \in [Ids -> Calls \cup {NoCall}]
  /\ partials \in [Ids -> SUBSET Stages]
  /\ running \in {"running", "last", "stopped"}
  /\ fatal \in BOOLEAN

CallTypeOK ==
  /\ pc \in [Calls -> {"idle", "done"} \cup Waiting]
  /\ kind \in [Calls -> {"submit", "stream"}]
  /\ rid \in [Calls -> Ids]
  /\ fut \in [Calls -> {"none", "pending", "result", "error", "cancelled"}]
  /\ value \in [Calls -> SUBSET Stages]
  /\ waitsOn \in [Calls -> Calls \cup {NoCall}]
  /\ \A c \in Calls : pc[c] = "awaiting" => waitsOn[c] \in Calls
  /\ queue \in [Calls -> Seq(QueueMsg)]
  /\ expected \in [Calls -> SUBSET Stages]
  /\ completed \in [Calls -> SUBSET Stages]
  /\ yielded \in [Calls -> [Stages -> Nat]]
  /\ outcome \in [Calls -> {"none", "ok", "error", "rejected", "cancelled"}]

StageTypeOK ==
  /\ entry \in Seq(Ids)
  /\ work \in [Stages -> SUBSET Ids]
  /\ aborted \in SUBSET Ids
  /\ chan \in [Stages -> Seq(StageMsg)]
  /\ emitted \in [Stages -> [Ids -> Nat]]
  /\ abortOk \in SUBSET Ids

\* Every variable has the shape of the object it stands for.
TypeOK == CoordTypeOK /\ CallTypeOK /\ StageTypeOK

Init ==
  /\ reqState = [i \in Ids |-> "none"]
  /\ terminals = [i \in Ids |-> {}]
  /\ futureOf = [i \in Ids |-> NoCall]
  /\ queueOf = [i \in Ids |-> NoCall]
  /\ partials = [i \in Ids |-> {}]
  /\ running = "running"
  /\ fatal = FALSE
  /\ pc = [c \in Calls |-> "idle"]
  /\ kind \in [Calls -> {"submit", "stream"}]
  /\ rid \in [Calls -> Ids]
  /\ UniqueIds => \A c, d \in Calls : rid[c] = rid[d] => c = d
  /\ fut = [c \in Calls |-> "none"]
  /\ value = [c \in Calls |-> {}]
  /\ waitsOn = [c \in Calls |-> NoCall]
  /\ queue = [c \in Calls |-> <<>>]
  /\ expected = [c \in Calls |-> {}]
  /\ completed = [c \in Calls |-> {}]
  /\ yielded = [c \in Calls |-> [t \in Stages |-> 0]]
  /\ outcome = [c \in Calls |-> "none"]
  /\ entry = <<>>
  /\ work = [t \in Stages |-> {}]
  /\ aborted = {}
  /\ chan = [t \in Stages |-> <<>>]
  /\ emitted = [t \in Stages |-> [i \in Ids |-> 0]]
  /\ abortOk = {}
-----------------------------------------------------------------------------
(* Dictionary and object updates shared by the operations.                 *)

Pop(dict, id) == [dict EXCEPT ![id] = NoCall]

\* mutant: submit() has no finally block
PopOnExitStreamOnly(c) ==
  IF kind[c] = "stream"
  THEN futureOf' = Pop(futureOf, rid[c]) /\ queueOf' = Pop(queueOf, rid[c])
  ELSE UNCHANGED <<futureOf, queueOf>>

\* the finally blocks: submit() pops its future, stream() also its queue
PopOnExit(c) ==
  /\ futureOf' = Pop(futureOf, rid[c])
  /\ queueOf' = IF kind[c] = "stream" THEN Pop(queueOf, rid[c]) ELSE queueOf

Return(c, how) ==
  /\ pc' = [pc EXCEPT ![c] = "done"]
  /\ outcome' = [outcome EXCEPT ![c] = how]

\* put a message in the queue registered for the id, if there is one
Put(id, msg) ==
  queue' = IF queueOf[id] = NoCall THEN queue
           ELSE [queue EXCEPT ![queueOf[id]] = Append(@, msg)]

HasPendingFuture(id) == futureOf[id] # NoCall /\ fut[futureOf[id]] = "pending"

\* mutant: a streaming caller's id leaves every future alone
RejectUnlessStreamed(id) ==
  fut' = IF HasPendingFuture(id) /\ queueOf[id] # NoCall
         THEN [fut EXCEPT ![futureOf[id]] = "cancelled"]
         ELSE fut

\* _reject_completion_future
RejectCompletionFuture(id) ==
  fut' = IF HasPendingFuture(id)
         THEN [fut EXCEPT ![futureOf[id]] =
                 IF queueOf[id] # NoCall THEN "cancelled" ELSE "error"]
         ELSE fut

\* future.set_result with the results of the stages in res
ResolveCompletionFuture(id, res) ==
  IF HasPendingFuture(id)
  THEN /\ fut' = [fut EXCEPT ![futureOf[id]] = "result"]
       /\ value' = [value EXCEPT ![futureOf[id]] = res]
  ELSE UNCHANGED <<fut, value>>

\* mutant: the results collected so far stay behind
KeepPartials(id) ==
  /\ reqState' = [reqState EXCEPT ![id] = "none"]
  /\ terminals' = [terminals EXCEPT ![id] = {}]
  /\ UNCHANGED partials

\* _requests.pop and _partial_results.pop
Untrack(id) ==
  /\ reqState' = [reqState EXCEPT ![id] = "none"]
  /\ terminals' = [terminals EXCEPT ![id] = {}]
  /\ partials' = [partials EXCEPT ![id] = {}]

BroadcastAbort(id) == aborted' = aborted \cup {id}

FailMsg(from) == [t |-> "fail", from |-> from]
-----------------------------------------------------------------------------
(* submit() and stream(), up to the suspension in the socket.              *)

\* stream() on an id that is already streaming raises before its try block
AlreadyStreaming(c) ==
  /\ pc[c] = "idle"
  /\ kind[c] = "stream" /\ queueOf[rid[c]] # NoCall
  /\ Return(c, "rejected")
  /\ UNCHANGED <<coordVars, kind, rid, fut, value, waitsOn, queue, expected,
                 completed, yielded, stageVars, abortOk>>

\* the call gets as far as _submit_request
Entering(c) ==
  /\ pc[c] = "idle"
  /\ kind[c] = "stream" => queueOf[rid[c]] = NoCall

\* _submit_request raises before it records anything: a fatal error, an id
\* in use, or a resolver that rejects the request.  stream() has stored its
\* queue by then, so its finally block runs.
RejectCall(c, why) ==
  /\ Entering(c)
  /\ \/ why = "fatal" /\ fatal
     \/ why = "exists" /\ ~fatal /\ Tracked(rid[c])
     \/ why = "resolver" /\ ~fatal /\ ~Tracked(rid[c])
  /\ IF kind[c] = "stream" THEN PopOnExit(c) ELSE UNCHANGED <<futureOf, queueOf>>
  /\ Return(c, "rejected")
  /\ UNCHANGED <<reqState, terminals, partials, running, fatal, kind, rid, fut,
                 value, waitsOn, queue, expected, completed, yielded, stageVars,
                 abortOk>>

\* the request is recorded and its future created ...
Admit(c, ts, state) ==
  /\ Entering(c) /\ ~fatal /\ ~Tracked(rid[c])
  /\ reqState' = [reqState EXCEPT ![rid[c]] = state]
  /\ terminals' = [terminals EXCEPT ![rid[c]] = ts]
  /\ fut' = [fut EXCEPT ![c] = "pending"]

Register(c) ==
  /\ futureOf' = [futureOf EXCEPT ![rid[c]] = c]
  /\ queueOf' = IF kind[c] = "stream" THEN [queueOf EXCEPT ![rid[c]] = c]
                                      ELSE queueOf

\* where a call goes once _submit_request has returned, and the future it
\* finds under its id
Proceed(c, ts, future) ==
  /\ expected' = [expected EXCEPT ![c] = ts]
  /\ IF kind[c] = "submit"
     THEN /\ pc' = [pc EXCEPT ![c] = "awaiting"]
          /\ waitsOn' = [waitsOn EXCEPT ![c] = future]
     ELSE /\ pc' = [pc EXCEPT ![c] = "draining"]
          /\ UNCHANGED waitsOn

\* ... and the socket takes the message at once
SubmitRequest(c, ts) ==
  /\ Admit(c, ts, "RUNNING") /\ Register(c) /\ Proceed(c, ts, c)
  /\ entry' = Append(entry, rid[c])
  /\ UNCHANGED <<partials, running, fatal, kind, rid, value, queue, completed,
                 yielded, outcome, work, aborted, chan, emitted,
                 abortOk>>

\* ... or the socket is at its high-water mark (all requests share it) and
\* the task is suspended in send()
SubmitSuspends(c, ts) ==
  /\ Admit(c, ts, "PENDING") /\ Register(c)
  /\ pc' = [pc EXCEPT ![c] = "sending"]
  /\ UNCHANGED <<partials, running, fatal, kind, rid, value, waitsOn, queue,
                 expected, completed, yielded, outcome, stageVars, abortOk>>

\* ... or serialize_message raises: the request stays recorded, and only
\* stream() has a finally block around it
SubmitFails(c, ts) ==
  /\ Admit(c, ts, "PENDING")
  /\ IF kind[c] = "stream" THEN PopOnExit(c)
     ELSE futureOf' = [futureOf EXCEPT ![rid[c]] = c] /\ UNCHANGED queueOf
  /\ Return(c, "error")
  /\ UNCHANGED <<partials, running, fatal, kind, rid, value, waitsOn, queue,
                 expected, completed, yielded, stageVars, abortOk>>

\* the socket drains: the suspended message goes out, the task is runnable
SendFlushed(c) ==
  /\ pc[c] = "sending"
  /\ entry' = Append(entry, rid[c])
  /\ pc' = [pc EXCEPT ![c] = "sent"]
  /\ UNCHANGED <<coordVars, kind, rid, fut, value, waitsOn, queue, expected,
                 completed, yielded, outcome, work, aborted, chan,
                 emitted, abortOk>>

\* the task resumes after send(): the request is marked RUNNING, or the
\* lookup of the request (or of its future) raises KeyError because someone
\* removed it meanwhile
SubmitResumes(c) ==
  /\ pc[c] = "sent"
  /\ IF Tracked(rid[c]) /\ (kind[c] = "submit" => futureOf[rid[c]] # NoCall)
     THEN /\ reqState' = [reqState EXCEPT ![rid[c]] = "RUNNING"]
          /\ Proceed(c, terminals[rid[c]], futureOf[rid[c]])
          /\ UNCHANGED <<futureOf, queueOf, outcome>>
     ELSE /\ reqState' = IF Tracked(rid[c])
                         THEN [reqState EXCEPT ![rid[c]] = "RUNNING"]
                         ELSE reqState
          /\ IF kind[c] = "stream" THEN PopOnExit(c)
                                   ELSE UNCHANGED <<futureOf, queueOf>>
          /\ Return(c, "error")
          /\ UNCHANGED <<waitsOn, expected>>
  /\ UNCHANGED <<terminals, partials, running, fatal, kind, rid, fut, value,
                 queue, completed, yielded, stageVars, abortOk>>
-----------------------------------------------------------------------------
(* The callers' waits.                                                     *)

\* submit(): the awaited future is done
AwaitFuture(c) ==
  /\ pc[c] = "awaiting" /\ fut[waitsOn[c]] # "pending"
  /\ \E how \in {"ok", "error", "cancelled"} :
       /\ how = "ok" <=> fut[waitsOn[c]] = "result"
       /\ how = "cancelled" <=> fut[waitsOn[c]] = "cancelled"
       /\ Return(c, how)
  /\ completed' = [completed EXCEPT ![c] = value[waitsOn[c]]]
  /\ PopOnExit(c)
  /\ UNCHANGED <<reqState, terminals, partials, running, fatal, kind, rid, fut,
                 value, waitsOn, queue, expected, yielded, stageVars, abortOk>>

\* mutant: the stream ends with the first terminal
StreamEndsAtFirst(c, done) == done # {}

\* stream(): one message is taken from the queue and yielded
StreamEnds(c, done) == expected[c] = {} \/ expected[c] \subseteq done

DrainQueue(c) ==
  /\ pc[c] = "draining" /\ queue[c] # <<>>
  /\ queue' = [queue EXCEPT ![c] = Tail(@)]
  /\ LET msg == Head(queue[c]) IN
     \/ /\ msg.t = "chunk"
        /\ yielded' = [yielded EXCEPT ![c][msg.from] = @ + 1]
        /\ UNCHANGED <<pc, outcome, completed, futureOf, queueOf>>
     \/ /\ msg.t = "fail"
        /\ Return(c, "error") /\ PopOnExit(c)
        /\ UNCHANGED <<yielded, completed>>
     \/ /\ msg.t = "ok"
        /\ completed' = [completed EXCEPT ![c] = @ \cup {msg.from}]
        /\ IF StreamEnds(c, completed'[c])
           THEN Return(c, "ok") /\ PopOnExit(c)
           ELSE UNCHANGED <<pc, outcome, futureOf, queueOf>>
        /\ UNCHANGED yielded
  /\ UNCHANGED <<reqState, terminals, partials, running, fatal, kind, rid, fut,
                 value, waitsOn, expected, stageVars, abortOk>>

\* the API server cancels the task (client disconnect) or closes the
\* generator.  A cancelled send never leaves the socket; a cancelled wait
\* cancels the future it waits on.
CancelCall(c) ==
  /\ pc[c] \in Waiting
  /\ IF kind[c] = "stream" \/ pc[c] = "awaiting"
     THEN PopOnExit(c)
     ELSE UNCHANGED <<futureOf, queueOf>>
  /\ fut' = IF pc[c] = "awaiting" /\ fut[waitsOn[c]] = "pending"
            THEN [fut EXCEPT ![waitsOn[c]] = "cancelled"]
            ELSE fut
  /\ Return(c, "cancelled")
  /\ UNCHANGED <<reqState, terminals, partials, running, fatal, kind, rid,
                 value, waitsOn, queue, expected, completed, yielded, stageVars,
                 abortOk>>

\* mutant: abort() only tells the stages
AbortOnlyBroadcasts(id) ==
  /\ Tracked(id)
  /\ BroadcastAbort(id)
  /\ abortOk' = abortOk \cup {id}
  /\ UNCHANGED <<coordVars, callVars, entry, work, chan, emitted>>

\* abort() on a request that is still tracked; on any other id it returns
\* False and changes nothing
Abort(id) ==
  /\ Tracked(id)
  /\ BroadcastAbort(id)
  /\ RejectCompletionFuture(id)
  /\ Put(id, FailMsg("coordinator"))
  /\ Untrack(id)
  /\ abortOk' = abortOk \cup {id}
  /\ UNCHANGED <<futureOf, queueOf, running, fatal, pc, kind, rid, value,
                 waitsOn, expected, completed, yielded, outcome, entry, work, chan, emitted>>
-----------------------------------------------------------------------------
(* The completion loop.                                                    *)

\* run_completion_loop takes one message; after fail_pending_requests it is
\* still blocked in the recv it had begun
Receive(t, kinds) ==
  /\ running # "stopped"
  /\ chan[t] # <<>> /\ Head(chan[t]).t \in kinds
  /\ chan' = [chan EXCEPT ![t] = Tail(@)]
  /\ running' = IF running = "last" THEN "stopped" ELSE running

\* mutant: only a request that is already RUNNING gets its chunks
HandleStreamOfRunning(t) ==
  /\ Receive(t, {"chunk"})
  /\ IF reqState[Head(chan[t]).id] = "RUNNING"
     THEN Put(Head(chan[t]).id, [t |-> "chunk", from |-> t])
     ELSE UNCHANGED queue
  /\ UNCHANGED <<reqState, terminals, futureOf, queueOf, partials, fatal, pc,
                 kind, rid, fut, value, waitsOn, expected, completed, yielded,
                 outcome, entry, work, aborted, emitted, abortOk>>

HandleStream(t) ==
  /\ Receive(t, {"chunk"})
  /\ Put(Head(chan[t]).id, [t |-> "chunk", from |-> t])
  /\ UNCHANGED <<reqState, terminals, futureOf, queueOf, partials, fatal, pc,
                 kind, rid, fut, value, waitsOn, expected, completed, yielded,
                 outcome, entry, work, aborted, emitted, abortOk>>

\* completions of unknown requests and of inactive terminals are ignored
Ignored(msg) ==
  \/ ~Tracked(msg.id)
  \/ /\ msg.t = "ok" /\ terminals[msg.id] # {}
     /\ msg.from \notin terminals[msg.id]

\* mutant: the stream of a failed request is not told
HandleFailureQuietly(t) ==
  LET msg == Head(chan[t]) IN
  /\ Receive(t, {"fail"})
  /\ ~Ignored(msg)
  /\ BroadcastAbort(msg.id)
  /\ RejectCompletionFuture(msg.id)
  /\ Untrack(msg.id)
  /\ UNCHANGED <<futureOf, queueOf, fatal, pc, kind, rid, value, waitsOn, queue,
                 expected, completed, yielded, outcome, entry, work,
                 emitted, abortOk>>

HandleFailure(t) ==
  LET msg == Head(chan[t]) IN
  /\ Receive(t, {"fail"})
  /\ ~Ignored(msg)
  /\ BroadcastAbort(msg.id)
  /\ RejectCompletionFuture(msg.id)
  /\ Put(msg.id, FailMsg(t))
  /\ Untrack(msg.id)
  /\ UNCHANGED <<futureOf, queueOf, fatal, pc, kind, rid, value, waitsOn,
                 expected, completed, yielded, outcome, entry, work,
                 emitted, abortOk>>

\* not (set(partials) < expected_terminal_stages)
AllReported(have, want) == ~(have \subseteq want /\ have # want)

\* a single terminal resolves the request; several are merged once the last
\* of them has reported
HandleSuccess(t) ==
  LET msg == Head(chan[t])
      want == terminals[msg.id]
      have == partials[msg.id] \cup {t}
  IN
  /\ Receive(t, {"ok"})
  /\ ~Ignored(msg)
  /\ Put(msg.id, [t |-> "ok", from |-> t])
  /\ IF Cardinality(want) <= 1 \/ AllReported(have, want)
     THEN ResolveCompletionFuture(msg.id, have) /\ Untrack(msg.id)
     ELSE /\ partials' = [partials EXCEPT ![msg.id] = have]
          /\ UNCHANGED <<reqState, terminals, fut, value>>
  /\ UNCHANGED <<futureOf, queueOf, fatal, pc, kind, rid, waitsOn, expected,
                 completed, yielded, outcome, entry, work, aborted,
                 emitted, abortOk>>

IgnoreCompletion(t) ==
  /\ Receive(t, {"ok", "fail"})
  /\ Ignored(Head(chan[t]))
  /\ UNCHANGED <<reqState, terminals, futureOf, queueOf, partials, fatal,
                 callVars, entry, work, aborted, emitted, abortOk>>

\* a stage process has died: fail_pending_requests
FailPendingRequests ==
  /\ ~fatal
  /\ fatal' = TRUE
  /\ running' = "last"
  /\ fut' = [c \in Calls |->
               IF Tracked(rid[c]) /\ futureOf[rid[c]] = c /\ fut[c] = "pending"
               THEN IF queueOf[rid[c]] # NoCall THEN "cancelled" ELSE "error"
               ELSE fut[c]]
  /\ queue' = [c \in Calls |->
                 IF Tracked(rid[c]) /\ queueOf[rid[c]] = c
                 THEN Append(queue[c], FailMsg("coordinator")) ELSE queue[c]]
  /\ reqState' = [i \in Ids |-> "none"]
  /\ terminals' = [i \in Ids |-> {}]
  /\ partials' = [i \in Ids |-> {}]
  /\ UNCHANGED <<futureOf, queueOf, pc, kind, rid, value, waitsOn, expected,
                 completed, yielded, outcome, stageVars, abortOk>>
-----------------------------------------------------------------------------
(* The stages, as far as the coordinator can tell them apart.              *)

\* the pipeline takes a submission; it will reach every expected terminal,
\* perhaps others too
PipelineAccepts(targets) ==
  /\ entry # <<>> /\ targets # {}
  /\ terminals[Head(entry)] \subseteq targets
  /\ entry' = Tail(entry)
  /\ work' = [t \in Stages |-> IF t \in targets THEN work[t] \cup {Head(entry)}
                                                ELSE work[t]]
  /\ UNCHANGED <<coordVars, callVars, aborted, chan, emitted, abortOk>>

StageStreams(t, id) ==
  /\ id \in work[t] /\ emitted[t][id] < MaxChunks
  /\ emitted' = [emitted EXCEPT ![t][id] = @ + 1]
  /\ chan' = [chan EXCEPT ![t] = Append(@, [t |-> "chunk", from |-> t, id |-> id])]
  /\ UNCHANGED <<coordVars, callVars, entry, work, aborted, abortOk>>

StageFinishes(t, id, how) ==
  /\ id \in work[t]
  /\ work' = [work EXCEPT ![t] = @ \ {id}]
  /\ chan' = [chan EXCEPT ![t] = Append(@, [t |-> how, from |-> t, id |-> id])]
  /\ UNCHANGED <<coordVars, callVars, entry, aborted, emitted, abortOk>>

\* a stage that has received the abort drops the work, whether it has begun
\* it or not; a PUB socket may also drop the broadcast, so this need never
\* happen
StageAborts(t, id) ==
  /\ id \in aborted /\ id \in work[t]
  /\ work' = [work EXCEPT ![t] = @ \ {id}]
  /\ UNCHANGED <<coordVars, callVars, entry, aborted, chan, emitted, abortOk>>
-----------------------------------------------------------------------------
CallStep(c) ==
  \/ AlreadyStreaming(c)
  \/ \E why \in {"fatal", "exists", "resolver"} : RejectCall(c, why)
  \/ \E ts \in Resolutions :
       SubmitRequest(c, ts) \/ SubmitSuspends(c, ts) \/ SubmitFails(c, ts)
  \/ SendFlushed(c) \/ SubmitResumes(c)
  \/ AwaitFuture(c) \/ DrainQueue(c) \/ CancelCall(c)

LoopStep(t) ==
  HandleStream(t) \/ HandleFailure(t) \/ HandleSuccess(t) \/ IgnoreCompletion(t)

StageStep(t, id) ==
  \/ StageStreams(t, id) \/ StageFinishes(t, id, "ok")
  \/ StageFinishes(t, id, "fail") \/ StageAborts(t, id)

Next ==
  \/ \E c \in Calls : CallStep(c)
  \/ \E id \in Ids : Abort(id)
  \/ \E t \in Stages : LoopStep(t)
  \/ FailPendingRequests
  \/ \E ts \in SUBSET Stages : PipelineAccepts(ts)
  \/ \E t \in Stages, id \in Ids : StageStep(t, id)

Spec == Init /\ [][Next]_vars
\* Every task of the event loop that can run does, and so does a live
\* pipeline: it takes submissions, delivers work and finishes it.  Nothing
\* obliges a client to abort or cancel, a stage to fail or stream, or a
\* dead pipeline to do anything.
Fairness ==
  /\ \A c \in Calls : WF_vars(~fatal /\ SendFlushed(c)) /\ WF_vars(SubmitResumes(c))
  /\ \A c \in Calls : WF_vars(AwaitFuture(c)) /\ WF_vars(DrainQueue(c))
  /\ \A t \in Stages : WF_vars(LoopStep(t))
  /\ WF_vars(~fatal /\ \E ts \in SUBSET Stages : PipelineAccepts(ts))
  /\ \A t \in Stages, id \in Ids : WF_vars(~fatal /\ StageFinishes(t, id, "ok"))

FairSpec == Spec /\ Fairness
-----------------------------------------------------------------------------
(* Properties.  Those marked (unique ids) are about UniqueIds = TRUE.      *)

\* (unique ids) A submit() call that waits on an unsettled future can still
\* be reached: its request is tracked and the future is the registered one,
\* so the completion, the failure, abort() and fail_pending_requests all
\* find it.  No interleaving leaves a caller waiting for nobody.
NoOrphanedWaiter ==
  \A c \in Calls :
    pc[c] = "awaiting" /\ fut[waitsOn[c]] = "pending"
      => Tracked(rid[c]) /\ futureOf[rid[c]] = waitsOn[c]

\* (unique ids) Why NoOrphanedWaiter holds, in inductive form: no two calls
\* share an id, a call that has been admitted owns the registered future
\* until it leaves, and an unsettled future's request is tracked.
Owns(c) == pc[c] \in {"sending", "sent", "awaiting"}

WaiterInv ==
  /\ \A c, d \in Calls : rid[c] = rid[d] => c = d
  /\ \A c \in Calls : Owns(c) => futureOf[rid[c]] = c
  /\ \A c \in Calls : Owns(c) /\ fut[c] = "pending" => Tracked(rid[c])
  /\ \A c \in Calls : pc[c] = "awaiting" => waitsOn[c] = c

\* (unique ids) A stream that ends well has yielded every chunk that the
\* stages it waited for ever sent, whatever was suspended in between.
NoChunkLost ==
  \A c \in Calls :
    kind[c] = "stream" /\ outcome[c] = "ok" =>
      \A t \in completed[c] : yielded[c][t] = emitted[t][rid[c]]

\* (unique ids) Once abort() has returned True the call never succeeds, even
\* when the stages finish before the abort reaches them.
AbortIsFinal ==
  \A c \in Calls : rid[c] \in abortOk => outcome[c] # "ok"

\* (unique ids) The futures and the queues do not leak: an entry belongs to
\* a live call, except that a submit() that died inside _submit_request
\* (never reached its try block) leaves its future behind.
EntriesAccountedFor ==
  \A id \in Ids :
    /\ queueOf[id] # NoCall => pc[queueOf[id]] \in Waiting
    /\ futureOf[id] # NoCall =>
         \/ pc[futureOf[id]] \in Waiting
         \/ kind[futureOf[id]] = "submit" /\ waitsOn[futureOf[id]] = NoCall

\* (unique ids) A call that has reached its wait returns, and a suspended
\* send goes out unless the pipeline has died.
CallsReturn ==
  \A c \in Calls :
    /\ pc[c] \in {"sent", "awaiting", "draining"} ~> pc[c] = "done"
    /\ pc[c] = "sending" ~> pc[c] # "sending" \/ fatal

(* Under ids that clients choose and reuse.                                *)

\* Partial results are held only for a tracked request that still misses a
\* terminal: whichever of abort, failure, completion and the pipeline's death
\* ends a request, what has been collected for it goes with it, so a call
\* that reuses the id starts with nothing collected and none is left for
\* ever.  It does not keep results apart that are still under way: a success
\* of the earlier request that is handled once the id is in use again is
\* credited to the later one (_handle_completion knows no more than the id).
PartialsBelongToRequest ==
  \A id \in Ids :
    partials[id] # {} =>
      /\ Tracked(id)
      /\ partials[id] \subseteq terminals[id] /\ partials[id] # terminals[id]
=============================================================================
