-------------------------------- MODULE Stage --------------------------------
(***************************************************************************)
(* One pipeline stage: the receive lanes, the fan-in, the abort marks and  *)
(* the drain of the scheduler's outbox (pipeline/stage/runtime.py,         *)
(* pipeline/stage/input.py).                                               *)
(*                                                                         *)
(* Each data_ready message gets a task of its own.  Tasks of one lane (one *)
(* request from one upstream stage) read their data concurrently, but act  *)
(* on it in the order of arrival: each has a completion future, and waits  *)
(* for its predecessor's.  In a lane only the first task has no pending    *)
(* predecessor, so a lane is a sequence whose head is taken off when the   *)
(* head's handler has returned.                                            *)
(*                                                                         *)
(* Everything except the scheduler thread runs on one event loop.  Awaits  *)
(* that suspend are the reads with their acknowledgements, the waits for   *)
(* predecessors, and the sends of results and reports to other stages and  *)
(* to the coordinator.  A report of a request's end is a step that marks   *)
(* and calls send_complete(), and a later one, when the send has returned, *)
(* that clears the request's state.  Once run() has left its loop, only    *)
(* the crash handler and the end of the receive tasks are followed.        *)
(*                                                                         *)
(* The upstream stages are an environment that sends what the same code    *)
(* sends: chunks, then the end-of-stream signal, then the payload.  The    *)
(* scheduler is one that works on what it is given and answers once.       *)
(***************************************************************************)
EXTENDS Integers, Sequences, FiniteSets

CONSTANTS
  Requests,     \* request ids, each used once
  Upstream,     \* stages that send to this one
  Local,        \* those in the same process, whose streams skip the lanes;
                \* also the coordinator, when this is an entry stage
  Streamers,    \* those with this stage among their stream targets
  Deciders,     \* those whose payload lets wait_for_fn answer; all of them
                \* when wait_for is static
  PrePayload,   \* can_accept_stream_before_payload
  MaxChunks     \* bound: chunks per request and upstream stage

ASSUME SourcesAssumption ==
  Local \subseteq Upstream /\ Streamers \subseteq Upstream /\ Deciders \subseteq Upstream
ASSUME FlagAssumption == PrePayload \in BOOLEAN
ASSUME BoundAssumption == MaxChunks \in Nat

VARIABLES
  expected,    \* the fan-in of each request (expected_sources), never changes
  life,        \* of run(): "running", "last" (one more message), "closing"
               \* (about to call stop), "stopping", "stopped"
  crash,       \* of the scheduler thread: "no", "raised", "handling", "handled"
  lost,        \* the requests the crash handler has yet to fail
  failing,     \* the one whose failure it is reporting, as a set
  lane,        \* the receive tasks of each request and upstream stage
  aborted,     \* _aborted
  active,      \* _active_requests
  open,        \* keys of _stream_queue
  pending,     \* AggregatedInput._pending: payloads waiting to be merged
  reporting,   \* handlers, by request and sender, that are sending the report
               \* of a failure: of a receive task, or of a call from a stage
               \* in the same process
  inbox,       \* history: stream messages given to the scheduler
  dispatched,  \* history: the fan-ins merged and given to the scheduler
  sched,       \* the scheduler's work on each request
  outbox,      \* scheduler.outbox
  routing,     \* what the drain is sending, as a set: a result to the next
               \* stages, or the report of a success or a failure
  told,        \* history: what was reported of each request, in the order of
               \* the calls of send_complete, in which the socket sends
  forwarded,   \* history: requests whose result went to other stages
  sent,        \* what each upstream stage has sent: chunks, done, payload
  owed,        \* history: messages sent through a relay whose acknowledgement
               \* this stage has not sent
  heard,       \* history: aborts received from the coordinator
  purged       \* history: requests the cap on _aborted has forgotten

laneVars  == <<lane, sent, owed>>
stateVars == <<aborted, active, open, pending, purged, reporting>>
crashVars == <<crash, lost, failing>>
workVars  == <<inbox, dispatched, sched>>
outVars   == <<outbox, routing, told, forwarded>>
vars == <<expected, life, crashVars, heard, laneVars, stateVars, workVars, outVars>>

Kinds == {"payload", "chunk", "done"}
Task == [k : Kinds, n : Nat, via : {"relay", "direct"},
         st : {"new", "reading", "discarding",  \* the handler has its own wait
               "read", "failed", "settled",     \* it waits for the predecessor
               "unwinding", "over", "dead"}]    \* cancelled by stop()
AtPredecessor == {"read", "failed", "settled"}
Item == [k : {"chunk", "done"}, n : Nat]

\* the request tables of the stage
StateTypeOK ==
  /\ aborted \in SUBSET Requests
  /\ active \in SUBSET Requests
  /\ open \in SUBSET Requests
  /\ purged \in SUBSET Requests
  /\ pending \in [Requests -> SUBSET Upstream]
  /\ reporting \in SUBSET (Requests \X Upstream)

\* Every variable has the shape of the object it stands for.
TypeOK ==
  /\ expected \in [Requests -> SUBSET Upstream]
  /\ life \in {"running", "last", "closing", "stopping", "stopped"}
  /\ crash \in {"no", "raised", "handling", "handled"}
  /\ lost \in SUBSET Requests /\ failing \in SUBSET Requests
  /\ lane \in [Requests -> [Upstream -> Seq(Task)]]
  /\ StateTypeOK
  /\ inbox \in [Requests -> [Upstream -> Seq(Item)]]
  /\ dispatched \in [Requests -> Seq(SUBSET Upstream)]
  /\ sched \in [Requests -> {"none", "working", "aborting", "over"}]
  /\ outbox \in Seq([r : Requests, k : {"result", "error"}])
  /\ routing \in SUBSET [r : Requests, at : {"result", "ok", "fail"}]
  /\ told \in [Requests -> Seq({"ok", "fail"})]
  /\ forwarded \in SUBSET Requests
  /\ sent \in [Requests -> [Upstream -> [chunks : Nat, done : BOOLEAN, payload : BOOLEAN]]]
  /\ owed \in [Requests -> [Upstream -> Int]]
  /\ heard \in SUBSET Requests

PerLane(x) == [r \in Requests |-> [s \in Upstream |-> x]]

Init ==
  /\ expected \in [Requests -> SUBSET Upstream]
  /\ \A r \in Requests : expected[r] \cap Deciders # {}
  /\ life = "running" /\ crash = "no" /\ lost = {} /\ failing = {}
  /\ lane = PerLane(<<>>)
  /\ aborted = {} /\ active = {} /\ open = {} /\ heard = {} /\ purged = {}
  /\ reporting = {}
  /\ pending = [r \in Requests |-> {}]
  /\ inbox = PerLane(<<>>)
  /\ dispatched = [r \in Requests |-> <<>>]
  /\ sched = [r \in Requests |-> "none"]
  /\ outbox = <<>> /\ routing = {} /\ forwarded = {}
  /\ told = [r \in Requests |-> <<>>]
  /\ sent = PerLane([chunks |-> 0, done |-> FALSE, payload |-> FALSE])
  /\ owed = PerLane(0)

LoopRuns == life \in {"running", "last"}
-----------------------------------------------------------------------------
(* Abort marks and the end of a request.                                   *)

\* mutant: nobody notes that the request is here
MarkNothing(r) == UNCHANGED active

MarkActive(r) == active' = active \cup {r}

\* _record_aborted_request_id
RecordAborted(r) == aborted' = aborted \cup {r} /\ UNCHANGED purged

\* _clear_request_state
Clear(r) ==
  /\ active' = active \ {r}
  /\ open' = open \ {r}
  /\ pending' = [pending EXCEPT ![r] = {}]

\* scheduler.abort: work in progress may still come out
AbortWork(r) ==
  sched' = [sched EXCEPT ![r] = IF @ = "working" THEN "aborting" ELSE @]

Tell(r, what) == told' = [told EXCEPT ![r] = Append(@, what)]

\* _send_failure up to the await of send_complete
SendFailure(r) ==
  /\ RecordAborted(r) /\ Tell(r, "fail")
  /\ UNCHANGED <<active, open, pending>>

\* a handler of data from s fails the request and is suspended in the report
HandlerFails(r, s) == SendFailure(r) /\ reporting' = reporting \cup {<<r, s>>}

\* a failure of the stream: _queue_stream_error, _route_stream_item_or_fail
FailStream(r, s) ==
  /\ AbortWork(r) /\ HandlerFails(r, s)
  /\ UNCHANGED <<inbox, dispatched, life>>

Dropped == UNCHANGED <<stateVars, workVars, told, life>>
-----------------------------------------------------------------------------
(* What a message does once it is its turn.                                *)

\* mutant: a fan-in is merged as soon as its sources are known
FanInKnown(r, have) == have \cap Deciders # {}

\* AggregatedInput.receive: the expected sources are known and all there
FanInComplete(r, have) == have \cap Deciders # {} /\ have = expected[r]

\* a source outside the expected ones raises ValueError
FanInBroken(r, have) == have \cap Deciders # {} /\ ~(have \subseteq expected[r])

\* _receive_payload_from_stage past its check of _aborted
AcceptPayload(r, s) ==
  LET have == pending[r] \cup {s} IN
  /\ MarkActive(r)
  /\ open' = open \cup {r}
  /\ IF FanInBroken(r, have)
     THEN life' = "closing" /\ pending' = [pending EXCEPT ![r] = have]
                            /\ UNCHANGED <<dispatched, sched>>
     ELSE /\ UNCHANGED life
          /\ IF FanInComplete(r, have)
             THEN /\ pending' = [pending EXCEPT ![r] = {}]
                  /\ dispatched' = [dispatched EXCEPT ![r] = Append(@, have)]
                  /\ sched' = [sched EXCEPT ![r] = IF @ = "none" THEN "working" ELSE @]
             ELSE /\ pending' = [pending EXCEPT ![r] = have]
                  /\ UNCHANGED <<dispatched, sched>>
  /\ UNCHANGED <<aborted, purged, reporting, inbox, told>>

\* mutant: the payload read before an abort is used after it
TakePayloadUnchecked(r, s) == AcceptPayload(r, s)

\* _receive_payload_from_stage
TakePayload(r, s) == IF r \in aborted THEN Dropped ELSE AcceptPayload(r, s)

\* a stream chunk or the end of the stream: it goes to the scheduler if the
\* request's stream queue is open or may be opened
TakeItem(r, s, item) ==
  IF r \in aborted THEN Dropped
  ELSE IF r \in open \/ PrePayload
       THEN /\ MarkActive(r)
            /\ open' = open \cup {r}
            /\ inbox' = [inbox EXCEPT ![r][s] = Append(@, item)]
            /\ UNCHANGED <<aborted, purged, pending, reporting, dispatched, sched, told, life>>
       ELSE FailStream(r, s)

\* the data could not be read
TakeFailure(r, s, k) ==
  IF k = "payload"
  THEN HandlerFails(r, s) /\ UNCHANGED <<workVars, life>>
  ELSE IF r \in aborted THEN Dropped ELSE FailStream(r, s)

\* the report is sent: the rest of _send_failure, and the handler returns
Reported(r, s) ==
  /\ LoopRuns /\ <<r, s>> \in reporting
  /\ reporting' = reporting \ {<<r, s>>}
  /\ Clear(r)
  /\ UNCHANGED <<expected, heard, life, crashVars, laneVars, aborted, purged, workVars, outVars>>
-----------------------------------------------------------------------------
(* Messages arrive.                                                        *)

\* what an upstream stage sends next
Sends(r, s, k) ==
  LET now == sent[r][s] IN
  /\ ~now.payload
  /\ k \in {"chunk", "done"} => s \in Streamers /\ ~now.done
  /\ k = "chunk" => now.chunks < MaxChunks
  /\ k = "payload" => now.chunks = 0 \/ now.done
  /\ sent' = [sent EXCEPT ![r][s] =
                IF k = "chunk" THEN [now EXCEPT !.chunks = @ + 1]
                ELSE IF k = "done" THEN [now EXCEPT !.done = TRUE]
                                   ELSE [now EXCEPT !.payload = TRUE]]

\* _schedule_receive_task; signals carry no data
Arrive(r, s, k, via) ==
  /\ LoopRuns
  /\ s \in Local => k = "payload"
  /\ k = "done" => via = "direct"
  /\ Sends(r, s, k)
  /\ lane' = [lane EXCEPT ![r][s] =
                Append(@, [k |-> k, n |-> sent[r][s].chunks, via |-> via, st |-> "new"])]
  /\ owed' = [owed EXCEPT ![r][s] = IF via = "relay" THEN @ + 1 ELSE @]
  /\ life' = IF life = "last" THEN "closing" ELSE life
  /\ UNCHANGED <<expected, heard, crashVars, stateVars, workVars, outVars>>

\* receive_local_payload, receive_local_stream_chunk and
\* receive_local_stream_signal; _on_submit does what the first does
ArriveLocal(r, s, k) ==
  /\ LoopRuns /\ s \in Local
  /\ <<r, s>> \notin reporting  \* the sender is in an earlier call
  /\ Sends(r, s, k)
  /\ IF k = "payload" THEN TakePayload(r, s)
                      ELSE TakeItem(r, s, [k |-> k, n |-> sent[r][s].chunks])
  /\ UNCHANGED <<expected, heard, crashVars, lane, owed, outbox, routing, forwarded>>
-----------------------------------------------------------------------------
(* The receive tasks.                                                      *)

SetTask(r, s, i, st) == lane' = [lane EXCEPT ![r][s][i].st = st]

\* the first step of _on_data_ready, _on_stream_chunk or _on_stream_signal.
\* Data that came by direct CUDA IPC is there at once, or is not (ok); the
\* first task of a lane then runs to its end before another one starts.
StartTask(r, s, i, ok) ==
  LET t == lane[r][s][i] IN
  /\ LoopRuns /\ t.st = "new"
  /\ \A j \in 1..(i - 1) : lane[r][s][j].st # "new"
  /\ i > 1 => ~(lane[r][s][1].via = "direct" /\ lane[r][s][1].st \in AtPredecessor)
  /\ t.k = "done" => ok
  /\ IF t.k = "done" \/ r \in aborted
     THEN UNCHANGED <<active, open>>
     ELSE MarkActive(r) /\ open' = IF t.k = "payload" THEN open \cup {r} ELSE open
  /\ \/ t.k = "done" /\ SetTask(r, s, i, "read")
     \/ /\ t.k # "done" /\ t.via = "relay" /\ ok
        /\ SetTask(r, s, i, IF r \in aborted THEN "discarding" ELSE "reading")
     \/ /\ t.k # "done" /\ t.via = "direct"
        /\ SetTask(r, s, i, IF r \in aborted THEN "settled"
                            ELSE IF ok THEN "read" ELSE "failed")
  \* discarding data that cannot be deserialized raises out of the task
  /\ life' = IF t.via = "direct" /\ r \in aborted /\ ~ok THEN "closing" ELSE life
  /\ UNCHANGED <<expected, heard, crashVars, sent, owed, aborted, pending, purged,
                 reporting, workVars, outVars>>

\* mutant: data of an aborted request is dropped without an acknowledgement
ReadEndsUnacked(r, s, i, ok) ==
  LET t == lane[r][s][i] IN
  /\ LoopRuns /\ t.st \in {"reading", "discarding"}
  /\ SetTask(r, s, i, IF t.st = "discarding" THEN "settled"
                      ELSE IF ok THEN "read" ELSE "failed")
  /\ owed' = [owed EXCEPT ![r][s] = IF t.st = "discarding" THEN @ ELSE @ - 1]
  /\ UNCHANGED <<expected, heard, life, crashVars, sent, stateVars, workVars, outVars>>

\* the relay read ends, well or not, and is acknowledged
ReadEnds(r, s, i, ok) ==
  LET t == lane[r][s][i] IN
  /\ LoopRuns /\ t.st \in {"reading", "discarding"}
  /\ SetTask(r, s, i, IF t.st = "discarding" THEN "settled"
                      ELSE IF ok THEN "read" ELSE "failed")
  /\ owed' = [owed EXCEPT ![r][s] = @ - 1]
  /\ UNCHANGED <<expected, heard, life, crashVars, sent, stateVars, workVars, outVars>>

\* mutant: a task acts as soon as it has its data
MyTurnAnyway(r, s, i) == TRUE

\* every predecessor in the lane is complete
MyTurn(r, s, i) == i = 1 /\ <<r, s>> \notin reporting

\* the rest of the handler and of _run_receive_task, up to the report of a
\* failure where there is one
FinishTask(r, s, i) ==
  LET t == lane[r][s][i] IN
  /\ LoopRuns /\ MyTurn(r, s, i)
  /\ lane' = [lane EXCEPT ![r][s] = SubSeq(@, 1, i - 1) \o SubSeq(@, i + 1, Len(@))]
  /\ \/ t.st = "settled" /\ Dropped
     \/ t.st = "failed" /\ TakeFailure(r, s, t.k)
     \/ t.st = "read" /\ t.k = "payload" /\ TakePayload(r, s)
     \/ t.st = "read" /\ t.k # "payload" /\ TakeItem(r, s, [k |-> t.k, n |-> t.n])
  /\ UNCHANGED <<expected, heard, crashVars, sent, owed, outbox, routing, forwarded>>
-----------------------------------------------------------------------------
(* The abort listener, the scheduler and its outbox.                       *)

\* _on_abort; the coordinator broadcasts an id once
OnAbort(r) ==
  /\ LoopRuns /\ r \notin heard
  /\ heard' = heard \cup {r}
  /\ RecordAborted(r) /\ Clear(r) /\ AbortWork(r)
  /\ UNCHANGED <<expected, life, crashVars, laneVars, reporting, inbox, dispatched, outVars>>

\* a mark recorded for some other request takes the size of _aborted past
\* 10000: 5000 marks stay, and which ones is up to the order of a Python set
PurgeAborted(r) ==
  /\ LoopRuns /\ r \in aborted \ purged  \* bound: a mark is purged once
  /\ aborted' = aborted \ {r}
  /\ purged' = purged \cup {r}
  /\ UNCHANGED <<expected, heard, life, crashVars, laneVars, active, open, pending, reporting, workVars,
                 outVars>>

\* the scheduler answers, or drops work it was told to abort
SchedulerAnswers(r, k) ==
  /\ life = "running" /\ sched[r] \in {"working", "aborting"}
  /\ sched' = [sched EXCEPT ![r] = "over"]
  /\ \/ outbox' = Append(outbox, [r |-> r, k |-> k])
     \/ sched[r] = "aborting" /\ UNCHANGED outbox
  /\ UNCHANGED <<expected, heard, life, crashVars, laneVars, stateVars, inbox, dispatched,
                 routing, told, forwarded>>

\* mutant: the result of a request is passed on whatever became of it
StillWantedAlways(r) == TRUE

\* the test at the top of _drain_outbox_external
StillWanted(r) == r \in active

\* _drain_outbox_external takes the next message while it is not sending
DrainOutbox ==
  /\ LoopRuns /\ outbox # <<>> /\ routing = {}
  /\ outbox' = Tail(outbox)
  /\ LET out == Head(outbox) IN
     \/ ~StillWanted(out.r) /\ UNCHANGED <<stateVars, told, routing>>
     \/ /\ StillWanted(out.r) /\ out.k = "error"
        /\ SendFailure(out.r) /\ UNCHANGED reporting
        /\ routing' = {[r |-> out.r, at |-> "fail"]}
     \/ /\ StillWanted(out.r) /\ out.k = "result"
        /\ routing' = {[r |-> out.r, at |-> "result"]}
        /\ UNCHANGED <<stateVars, told>>
  /\ UNCHANGED <<expected, heard, life, crashVars, laneVars, workVars, forwarded>>

\* _route_result when the ends of the streams are sent: a result whose next
\* stage is None completes the request at the coordinator
ReportSuccess(r) ==
  /\ LoopRuns /\ [r |-> r, at |-> "result"] \in routing
  /\ Tell(r, "ok")
  /\ routing' = {[r |-> r, at |-> "ok"]}
  /\ UNCHANGED <<expected, heard, life, crashVars, laneVars, stateVars, workVars, outbox,
                 forwarded>>

\* the result has reached every next stage; a send that raises ends the
\* drain task and with it the stage
RouteEnds(r, ok) ==
  /\ LoopRuns /\ [r |-> r, at |-> "result"] \in routing
  /\ routing' = {}
  /\ IF ok THEN Clear(r) /\ forwarded' = forwarded \cup {r} /\ UNCHANGED life
           ELSE life' = "closing" /\ UNCHANGED <<active, open, pending, forwarded>>
  /\ UNCHANGED <<expected, heard, crashVars, laneVars, aborted, purged, reporting, workVars,
                 outbox, told>>

\* the drain's report has been sent: _send_failure and _route_result clear
ReportSent(r) ==
  /\ LoopRuns /\ \E at \in {"ok", "fail"} : [r |-> r, at |-> at] \in routing
  /\ routing' = {}
  /\ Clear(r)
  /\ UNCHANGED <<expected, heard, life, crashVars, laneVars, aborted, purged, reporting,
                 workVars, outbox, told, forwarded>>
-----------------------------------------------------------------------------
(* The end of the stage.                                                   *)

\* ShutdownMessage
Shutdown ==
  /\ LoopRuns
  /\ life' = "closing"
  /\ UNCHANGED <<expected, heard, crashVars, laneVars, stateVars, workVars, outVars>>

\* the scheduler thread raises: _running is False, the loop is told
SchedulerCrashes ==
  /\ life = "running" /\ crash = "no"
  /\ crash' = "raised" /\ life' = "last"
  /\ UNCHANGED <<expected, heard, lost, failing, laneVars, stateVars, workVars, outVars>>

\* _handle_scheduler_crash runs until stop() begins
CrashHandled == life \in {"last", "closing"}

\* it lists what is active, ...
CrashListed ==
  /\ crash = "raised" /\ CrashHandled
  /\ crash' = "handling" /\ lost' = active \ aborted
  /\ UNCHANGED <<expected, heard, life, failing, laneVars, stateVars, workVars, outVars>>

\* ... fails one request after the other, each when the report of the one
\* before has been sent, ...
CrashFails(r) ==
  /\ crash = "handling" /\ CrashHandled /\ r \in lost /\ failing = {}
  /\ lost' = lost \ {r} /\ failing' = {r}
  /\ AbortWork(r) /\ SendFailure(r)
  /\ UNCHANGED <<expected, heard, life, crash, laneVars, reporting, inbox, dispatched,
                 outbox, routing, forwarded>>

CrashReported(r) ==
  /\ CrashHandled /\ r \in failing
  /\ failing' = {} /\ Clear(r)
  /\ UNCHANGED <<expected, heard, life, crash, lost, laneVars, aborted, purged, reporting,
                 workVars, outVars>>

\* ... and closes the control plane
CrashHandlerEnds ==
  /\ crash = "handling" /\ CrashHandled /\ lost = {} /\ failing = {}
  /\ crash' = "handled" /\ life' = "closing"
  /\ UNCHANGED <<expected, heard, lost, failing, laneVars, stateVars, workVars, outVars>>

\* what task.cancel() does to a task, the first of its lane or not.  One that
\* waits for its predecessor takes the predecessor's future down with it and raises
\* again from the finally block, before its own future is set; one that has
\* not begun never will.  One that waits for something else unwinds into the
\* finally block.
Cancelled(t, first) ==
  [t EXCEPT !.st = IF @ \in {"reading", "discarding"} \/ (first /\ @ # "new")
                   THEN "unwinding" ELSE "dead"]

\* stop() cancels the receive tasks, those that are reporting too ...
StopBegins ==
  /\ life = "closing"
  /\ life' = "stopping"
  /\ lane' = [r \in Requests |-> [s \in Upstream |->
                [i \in 1..Len(lane[r][s]) |-> Cancelled(lane[r][s][i], MyTurn(r, s, i))]]]
  /\ reporting' = {}
  /\ UNCHANGED <<expected, heard, crashVars, sent, owed, aborted, active, open, pending, purged,
                 workVars, outVars>>

\* ... each of which waits for its predecessor in the finally block ...
Unwind(r, s, i) ==
  /\ life = "stopping" /\ lane[r][s][i].st = "unwinding"
  /\ i > 1 => lane[r][s][i - 1].st = "over"
  /\ SetTask(r, s, i, "over")
  /\ UNCHANGED <<expected, heard, life, crashVars, sent, owed, stateVars, workVars, outVars>>

\* ... and gather() returns when all of them have ended
StopEnds ==
  /\ life = "stopping"
  /\ \A r \in Requests, s \in Upstream : \A i \in 1..Len(lane[r][s]) :
       lane[r][s][i].st \in {"over", "dead"}
  /\ life' = "stopped"
  /\ lane' = PerLane(<<>>)
  /\ UNCHANGED <<expected, heard, crashVars, sent, owed, stateVars, workVars, outVars>>
-----------------------------------------------------------------------------
Receiving(r, s) ==
  \/ \E k \in Kinds, via \in {"relay", "direct"} : Arrive(r, s, k, via)
  \/ \E k \in Kinds : ArriveLocal(r, s, k)

TaskStep(r, s) ==
  \E i \in 1..Len(lane[r][s]) :
    \/ \E ok \in BOOLEAN : StartTask(r, s, i, ok) \/ ReadEnds(r, s, i, ok)
    \/ FinishTask(r, s, i) \/ Unwind(r, s, i)

WorkStep(r) ==
  \/ OnAbort(r) \/ PurgeAborted(r)
  \/ \E k \in {"result", "error"} : SchedulerAnswers(r, k)

\* the end of a suspended send of the drain
RouteStep(r) ==
  ReportSuccess(r) \/ ReportSent(r) \/ \E ok \in BOOLEAN : RouteEnds(r, ok)

CrashStep ==
  CrashListed \/ CrashHandlerEnds \/ \E r \in Requests : CrashFails(r) \/ CrashReported(r)

Next ==
  \/ \E r \in Requests, s \in Upstream :
       Receiving(r, s) \/ TaskStep(r, s) \/ Reported(r, s)
  \/ \E r \in Requests : WorkStep(r) \/ RouteStep(r)
  \/ DrainOutbox
  \/ Shutdown \/ SchedulerCrashes \/ CrashStep
  \/ StopBegins \/ StopEnds

Spec == Init /\ [][Next]_vars

\* The event loop runs every task that can run, reads and sends end, and the
\* scheduler thread works while it lives.
Fairness ==
  /\ \A r \in Requests, s \in Upstream : WF_vars(TaskStep(r, s)) /\ WF_vars(Reported(r, s))
  /\ \A r \in Requests :
       /\ WF_vars(\E k \in {"result", "error"} : SchedulerAnswers(r, k))
       /\ WF_vars(RouteStep(r))
  /\ WF_vars(DrainOutbox)
  /\ WF_vars(CrashStep) /\ WF_vars(StopBegins) /\ WF_vars(StopEnds)

FairSpec == Spec /\ Fairness
-----------------------------------------------------------------------------
(* Properties.                                                             *)

\* What the scheduler sees of a stream is what was sent, in order, without a
\* gap, and the end of the stream only after the last chunk, whatever order
\* the reads end in and wherever one of them fails (_schedule_receive_task,
\* _run_receive_task).
StreamInOrder ==
  \A r \in Requests \ purged, s \in Upstream :
    \A i \in 1..Len(inbox[r][s]) :
      IF inbox[r][s][i].k = "chunk"
      THEN inbox[r][s][i].n = i - 1
      ELSE i = Len(inbox[r][s]) /\ i - 1 = sent[r][s].chunks

\* A request is dispatched at most once, with the payloads of all the stages
\* its fan-in waits for (AggregatedInput.receive).
DispatchedOnce ==
  \A r \in Requests \ purged : dispatched[r] \in {<<>>, <<expected[r]>>}

\* a report of the request's failure is being sent
Reporting(r) ==
  \/ \E s \in Upstream : <<r, s>> \in reporting
  \/ [r |-> r, at |-> "fail"] \in routing
  \/ r \in failing

Alive == life \notin {"stopping", "stopped"}

\* Nothing of an aborted request survives in the stage or comes back: no
\* read that was under way when the abort came revives it (_on_abort,
\* _receive_payload_from_stage, _on_stream_chunk).  One that this stage fails
\* itself is gone when the report of it has been sent (_send_failure).
AbortQuiesces ==
  Alive => \A r \in aborted :
             Reporting(r) \/ (r \notin active \cup open /\ pending[r] = {})

\* Once the report of a request's failure has been sent, nothing the
\* scheduler puts out for it is passed on or reported any more
\* (_send_failure, _drain_outbox_external).  While the report is being sent a
\* result may still be taken, and its success be reported after the failure.
NoResultAfterFailure ==
  [][\A out \in routing' \ routing :
       /\ out.at # "ok" /\ out.r \notin purged'
       /\ \E i \in 1..Len(told[out.r]) : told[out.r][i] = "fail"
       => Reporting(out.r)]_vars

\* Whatever becomes of the request, data that came through a relay is
\* acknowledged exactly once: without it the sender times out and stops.
EveryTransferAcked ==
  \A r \in Requests, s \in Upstream :
    LoopRuns =>
      owed[r][s] = Cardinality({i \in 1..Len(lane[r][s]) :
                                  /\ lane[r][s][i].via = "relay"
                                  /\ lane[r][s][i].st \in {"new", "reading", "discarding"}})

\* A dispatched request is answered, passed on or aborted, unless the stage
\* goes down (_drain_outbox_external, _route_result).
WorkIsAnswered ==
  \A r \in Requests :
    dispatched[r] # <<>> ~>
      \/ told[r] # <<>> \/ r \in forwarded \cup aborted \cup purged
      \/ life # "running"
=============================================================================
