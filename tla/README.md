# Formal models of sglang-omni

TLA+ models of the parts of sglang-omni that decide what happens to a request:
the API server's sessions, the pipeline coordinator, the stages, the transfers
between them, the schedulers, administration, and the external router. Each
module is written from the Python source; `PROJECT.json` maps every definition
to the lines it stands for.

## 1. Inventory

sglang-omni serves multi-stage models. An HTTP API server owns a *coordinator*;
the model is split into *stages*, grouped into worker processes, each with a
*scheduler* thread. Control messages travel on ZMQ sockets, tensors through
*relays*. In front of several such servers an optional *router* balances load.

| component | state | operations | interacts with |
|---|---|---|---|
| Coordinator (`pipeline/coordinator.py`) | `_requests`, `_completion_futures`, `_stream_queues`, `_partial_results`, `_admin_ops`, `_fatal_error` | `submit`, `stream`, `abort`, completion loop, `fail_pending_requests`, `admin` | API tasks (futures, queues), stages (sockets), runner (fatal error) |
| Control plane (`pipeline/control_plane.py`) | sockets | PUSH/PULL of submissions, data, completions; PUB/SUB of aborts | everyone |
| Stage (`pipeline/stage/`, `local_dispatch.py`) | `_aborted`, `_active_requests`, receive lanes, fan-in, stream queues | receive tasks, fan-in, dispatch, outbox drain, abort listener, crash, `stop` | coordinator, other stages, scheduler thread, comm engine |
| Comm engine and relays (`comm/`, `relay/`) | pending transfers, send queues, credits, slots | send, ack, timeout, close | stages |
| Autoregressive scheduler (`scheduling/omni_scheduler.py`, `model_runner/base.py`) | waiting queue, running and prefill batch, step in flight, abort set, KV, pause state | lookahead loop, abort, pause, weight update | stage (inbox, outbox, abort from its event loop), SGLang |
| Simple schedulers (`scheduling/*simple_scheduler.py`) | inbox, pushed-back messages, abort marks, stream state | collect, compute, answer, abort, stream | stage |
| Administration (`coordinator.admin`, `Stage._on_admin`, `tp_control.py`) | pending operations, follower queues, admin queue | fan-out, collect, time out | coordinator, stages, follower ranks, schedulers |
| Runner and workers (`mp_runner.py`, `stage_workers.py`) | processes | spawn, monitor, stop | coordinator, stages |
| Speech serving (`serve/speech_ws.py`, `openai_api.py`) | session buffers, active request, disconnect watcher | receive, generate, abort, tear down | clients, coordinator through `Client` |
| Realtime session (`serve/realtime/`) | audio buffer, voice activity detector, turn queue, conversation | append, commit, respond, transcribe, cancel, tear down | clients, coordinator through `Client` |
| Router pool (`sglang_omni_router/worker.py`, `health.py`, `app.py`) | worker state, flags, streaks, admin lock | probes, relay failures, `/workers`, admin broadcasts | operators, workers, data plane |
| Router data plane (`proxy.py`, `selector.py`) | in-flight count, load per worker, round-robin index | admit, select, relay, clean up | clients, workers, pool |
| Configuration, protocol, models, preprocessing, profiler, CLI | none or numerical | parsing, compute | - |

**What is hard.** Most tables have no lock: the code relies on asyncio, so every
`await` that really suspends is a point where they change under a handler. The
schedulers add threads: the event loop aborts requests that a scheduler thread
is batching, and the lookahead scheduler launches a step before it has seen the
results of the last. Ids are chosen by clients and may be reused. Aborts are
published and may be lost. Reads of one stream finish out of order. Every wait
of an administrative operation has a timeout of its own, so what one level has
given up is still under way below. Slots of a relay may be read by a receiver
whose acknowledgement is late. A client leaves at any moment, and whoever serves
it has to stop what it started. `PROJECT.json` lists the hazards at their lines.

**What makes each part correct.**

- Coordinator: a caller is always reachable by whatever ends its request; a
  successful call holds all and only the results it was resolved to; a stream
  loses no chunk; an aborted request never succeeds; what was collected for a
  request goes with it.
- Stage: streams stay in order; a fan-in is dispatched once and complete; an
  aborted request does not come back, nor one whose failure has been reported;
  data is acknowledged exactly once; every dispatched request is answered.
- Transfers: no slot has two owners, none is reused while it may be read, none
  is lost unnoticed; every send and every pending transfer comes to an end.
- Schedulers: every request is in one place and is answered at most once and, if
  not aborted, at last; its KV is released once; chunks keep their order; aborted
  requests leave nothing behind.
- Administration: success means that every rank has applied the operation, and
  ranks apply operations in the order they were issued.
- Sessions: what is sent is spoken, and what is spoken is committed, completely
  and in order; no request outlives its owner; an owner ends with its client.
- Router pool: health agrees with the evidence; workers being changed get no
  traffic; flags are restored.
- Router data plane: admission and load counters are exact, slots come back.

## 2. Modules

| module | models | checked by |
|---|---|---|
| `RequestLifecycle` | what the coordinator promises to a caller | implemented by `Coordinator` under the mapping of `CoordinatorRefinement`, checked by `MCCoordinator`, proved in `CoordinatorProofs` |
| `Coordinator` | request lifecycle of the coordinator and the sockets it uses | `MCCoordinator`, proofs in `CoordinatorProofs` |
| `Stage` | one stage, with its upstream stages and its scheduler as environment | `MCStage`, proofs in `StageProofs` |
| `Transfer` | sending half of the comm engine over a bounded relay | `MCTransfer`, proofs in `TransferProofs` |
| `OmniScheduler` | autoregressive scheduler with lookahead decoding | `MCOmniScheduler`, proofs in `OmniSchedulerProofs` |
| `SimpleSchedulers` | serial, concurrent, threaded and streaming scheduler | `MCSimpleSchedulers`, proofs in `SimpleSchedulersProofs` |
| `Admin` | administrative operations from the coordinator to every rank | `MCAdmin`, proofs in `AdminProofs` |
| `SpeechServing` | speech WebSocket session and speech endpoint | `MCSpeechServing`, proofs in `ServingProofs` |
| `RealtimeSession` | realtime WebSocket session | `MCRealtimeSession`, proofs in `ServingProofs` |
| `RouterPool` | worker pool, health checker, operators, admin updates | `MCRouterPool`, proofs in `RouterProofs` |
| `RouterProxy` | admission, selection, relay | `MCRouterProxy`, proofs in `RouterProofs` |

The modules meet at their interfaces. The requests that `SpeechServing` and
`RealtimeSession` own are calls of `Coordinator`; its stages are `Stage`; the
acknowledgements `Stage` owes are the ones `Transfer` waits for; the scheduler
that `Stage` has as environment is `OmniScheduler` or one of `SimpleSchedulers`,
and `Admin` ends in the admin queue whose operations `OmniScheduler` executes.
Each module assumes of its neighbours what the neighbour's own module checks or
less: a stage may answer after an abort, a receiver may never read, an engine
may take for ever. There is one exception. The stages of `Coordinator` end a
request once, while `Stage` may report a failure twice, or a success after a
failure whose report was still being sent (section 5). The first failure makes
the coordinator forget the request, so that with unique ids it ignores the
second report (`IgnoreCompletion`, which late reports of aborted requests reach).

An operator preceded by a comment `mutant:` is not part of a model: it is a
faulty variant of the definition below it, used to confirm that a property
notices the fault. Every module has a `TypeOK`; it documents the state and
serves the proofs, and is not a property of the runs. In `RouterProxy` and
`RealtimeSession` it, `Init`, `Next`, `Spec` and `vars` carry a prefix, because
each shares a module of proofs with another component.

### RequestLifecycle and CoordinatorRefinement

A call opens a request; its *fate* is decided once, granted when the reports of
its terminals make up a whole resolution, revoked by an abort or a failure; the
answer follows the fate. Under the refinement mapping the fate is the state of
the future. `stream()` never looks at that future and ends on what its queue
brings, so the refinement says that the two ways of answering agree.

### Coordinator

A *call* is one activation of `submit()` or `stream()`. Futures and queues are
objects that two calls with one id may hold in different versions, so an object
is named by the call that created it and `futureOf`, `queueOf` map an id to
such a name. The code between two awaits that can suspend is one action. Three
awaits suspend: the PUSH send (`SubmitSuspends`, `SendFlushed`,
`SubmitResumes`), `submit()`'s wait (`AwaitFuture`) and `stream()`'s wait
(`DrainQueue`). `CancelCall` is a client disconnect at any of them. The
completion loop is `HandleStream`, `HandleFailure`, `HandleSuccess` and
`IgnoreCompletion`; after `FailPendingRequests` it handles one message more,
because it is blocked in `recv` when `_running` becomes false. Stages are an
environment that streams, finishes, fails, and obeys an abort or misses it.

Variables that only record history: `abortOk`, `emitted`, and `expected` and
`completed` of `submit()` calls.

### Stage

Each `data_ready` message becomes a task in the *lane* of its request and
source. Tasks read concurrently and act in order, since each awaits its
predecessor's future; a lane is a sequence whose head leaves when its handler
returns. `StartTask` is a handler up to its read, `ReadEnds` the end of the
read with its acknowledgement, `FinishTask` the rest, when it is the task's
turn. Data may also come by direct CUDA IPC (no read, no acknowledgement) or
from a stage of the same process (`ArriveLocal`). `DrainOutbox` is the outbox
drain up to its first send; `RouteEnds` the end of the sends to other stages,
`ReportSuccess` the call of `send_complete` after the ends of the streams have
been sent, `ReportSent` the return of a report. `OnAbort` is the abort listener;
`PurgeAborted` the effect of the cap on `_aborted`, caused by marks of requests
outside the model.

The report of a failure suspends between the mark and the clearing of the
request's state, and the request is still active in between. `SendFailure` is
the part before; the part after is `Reported` for a receive task or a local
sender (`reporting` holds those that are suspended), `ReportSent` for the drain
(`routing`) and `CrashReported` for the crash handler (`failing`).
`SchedulerCrashes`, `CrashListed` to `CrashHandlerEnds` (which fail the requests
listed in `lost` one after the other), `Shutdown`, `StopBegins`, `Unwind` and
`StopEnds` are the end of the stage. Once `run()` has left its loop only the
crash handler and the receive tasks are followed.

The admin messages are in `Admin`, the sends of the drain in `Transfer`.
Not modelled: profiler messages and `_comm.cleanup`.

### Transfer

A *job* is one send. The drain hands over an *item* at a time (`DrainItem`), a
chunk that several targets get being several jobs at once. The target's worker
takes a job (`TakeJob`), writes one tensor after the other while it keeps the
slots of those before (`WriteTensor`, `WriteRaises`), registers the transfer
under its object id (`Register`, `RegisterDuplicate`), announces it (`Announce`,
`Announced`, `AnnounceRaises`) and arms its watcher (`WatchSucceeds`,
`WatchFails`, the timeout included). `Close` is `close()`. A failed operation
gives its slots back in shm; in cuda_ipc it keeps them and poisons the relay.
The receiver reads and acknowledges in its own time, or never.

### OmniScheduler

The scheduler thread is a program counter through the lookahead loop:
`ReceiveRequests`, `SelectPrefill` or `SelectDecode` (external: SGLang chooses
the batch, so any choice is allowed), then either `LaunchStep` and
`ResolvePrevious`, or `DrainPending`, `RunBatch` and `RunEnds`. A step in flight
is the requests it will be processed for and the rows it was launched with;
`abort()` may shorten the former. `AbortMarks`, `AbortLocked` and
`AbortCleansUp` are the three parts of `abort()` on the event loop's thread, the
second under the admission lock. `PauseBegins` to `UpdateEnds` are the admin
operations. A request's KV is the version of the weights it was computed with.
History: `doubleFreed`, `misrowed`, `swept`, `torn` and `orphaned`; the last two
name the requests for which the code itself loses track, which the properties
except by name.

Not modelled: the loop without lookahead (its steps are `RunBatch` and
`RunEnds`), the request-build threads, stream input with deferred payloads.

### SimpleSchedulers

One module for four schedulers, chosen in `Init`, because they share the inbox,
the pushed-back messages, the batch and the marks. `TakeMessage`, `CollectMore`,
`PushBack`, `CostRaises` and `CollectEnds` gather a batch, `Compute`,
`AnswerNext` and `BatchEnds` run it; `ThreadStarts` and `Finish` are the pool of
the threaded and the concurrent one; `NewStream`, `HandleChunk` and `HandleDone`
the streams. `Abort`, or `AbortMarks` and `AbortClears`, run on the other
thread, between any two of these.

### Admin

A stage stands for its leader rank. `CallAdmin` to `Complete` are `admin()` and
its lock; `TakeOp` is `_on_admin` up to the scheduler's queue, with the fan-out
to the followers before it; `RunAdmin` the scheduler; `HandlerTimesOut` the wait
that gives up while the operation stays queued; `Collect` and `LeaderAnswers`
the gathering of the followers' answers. `Raise` and `CancelLocking` are callers
that time out or are cancelled.

### SpeechServing

One connection, of a kind chosen in `Init`. In a WebSocket session a generation
(`StartSentence`, `SentenceEnds`) races `Watch`, which takes frames off the
socket and puts them aside until the session reads them (`Waiting`). The
endpoint polls for a disconnection (`PollDisconnect`) while it waits for the
whole audio (`Respond`) or the first chunk (`FirstChunk`), and then leaves the
request to the body of the response (`BodyEnds`, `BodyNeverStarts`).

### RealtimeSession

Audio is counted in frames of the voice activity detector. `AudioAppend` is one
event: the detector runs over the end of the buffer that `BufferTail` gives it
(`VadFrame`), which is the whole buffer when the event was empty; then each of
its emits is handled (`HandleVadEmit`), where a commit drops the buffer, resets
the detector and queues a turn. `TakeTurn` to `TurnReaped` are the drainer and
its turns, `CancelActive` the cancellation shared by `ResponseCancel` and
teardown. History: `skewed` says that the detector has heard the present buffer
twice, `garbled` holds the frames that a commit dropped in that state, `cleared`
and `trailing` those that a clear dropped or that came behind an utterance.

### RouterPool

A worker object enters the pool once. `StartProbe`/`FinishProbe` surround a
health check's await; `SelectWorker`, `RelayEnds`, `RelayFails` are a relay as
the pool sees it; `CreateWorker`, `DeleteWorker`, `UpdateWorker` the endpoints;
`BeginUpdate` to `FinishUpdate` an admin broadcast with its lock. Streak
counters saturate at their thresholds: past them only "at least" matters.
`asked` and `overridden` are history. The first is the flag an operator last
asked for, or that it asked during a broadcast to the worker, which undoes it, or
that group initialisation failed there; the second are the workers whose flag was
written during the broadcast in progress. A send that raises anything but an
`httpx.HTTPError` makes `gather` raise at once, and the flags are restored while
the other sends go on; `FinishUpdate` is the end of the update there too.

### RouterProxy

A request goes from `TryAcquire` over `SendUpstream` to `HeadersArrive`; then
the response's `__call__` (`CallResponse`, `CallEnds`, `CallCleaned`) and its
body iterator (`OpenBody`, `BodyEnds`, `BodyCleaned`) share one cleanup. Any
nonempty set of workers may be eligible. `drift` counts increments of a
worker's load that no code path will undo.

## 3. Runs

| run | instance | result |
|---|---|---|
| `coordinator` | 1 call of either kind, 2 stages, resolutions {t1} and {t1,t2}, 1 chunk per stage, fairness | 38 thousand states; it returns with all it is owed, and implements `RequestLifecycle` |
| `coordinator_reuse` | 2 calls sharing an id, no chunks, calls symmetric | 1.2 million states; what was collected for a request goes with it |
| `stage` | 1 request, payload from a local source b, 1 chunk, end and payload from a remote source a, in the fan-in or not, fairness | 1.0 million states; all six properties hold |
| `transfer` | 4 slots; a payload of 2, a chunk of 1+1 for two targets, the payload's id again; both relays, fairness | 0.51 million states; slots are exclusive, not reused early, not lost; everything settles |
| `omni` | 2 requests of up to 2 tokens, lookahead from batch size 2, 1 retraction, 1 admin operation, fairness | 0.35 million states; KV, places, answers and clean-up hold |
| `omni_rows` | 2 requests of up to 3 tokens | violated, see findings |
| `schedulers` | 3 requests, two of them streams of 2 and 1 chunks, batches of 2, 2 threads, 1 abort, all four schedulers, fairness | 0.75 million states; answered once and at last, in order |
| `admin` | 2 operations, stage a with a follower, stage b without, 2 faults | 2.1 million states; success means applied, order kept |
| `speech` | 5 frames of 4 control and 3 text kinds, 2 put aside, all three connections, fairness | 0.95 million states; nothing abandoned, order kept, owners end |
| `realtime` | 4 events of 5 kinds of audio, none at all included, clears, cancels; padding 1, silence 2, buffer 5 frames | 0.75 million states; speech committed, history in order, nothing left |
| `router_pool` | 2 workers, 2 updates, thresholds 1, 1 probe and 1 relay per worker, symmetric | 2.7 million states; exclusion, restoration and health hold |
| `router_proxy` | 3 requests, 2 slots, 2 workers, `least_request`, drift 1, fairness | 70 thousand states; counters exact, slots return |

**Why these bounds are enough.** With unique ids two calls of the coordinator
share only the sockets, and a message concerns one id, so one call against all
interleavings is the interesting instance; reuse needs two calls on one id. Two
terminals are the least that exercise merging, one chunk the least that can be
lost (its position is irrelevant to the coordinator, which keeps FIFO order).
In a stage, requests share no lane, fan-in or table entry, and the drain's sends
for another request only delay those for this one. Two sources make a real
fan-in. When the remote one streams beside it, its chunks are read, fail or come
too late while the scheduler works on the request or its result is on the way,
which is when a failure and a success cross; a chunk, the end signal and the
payload give a lane of three tasks, the least in which one overtakes another
with a third behind.

Transfers: a payload that needs two adjacent slots of four makes fragmentation
and waiting happen, a chunk for two targets makes two senders compete, and the
repeated object id makes late acknowledgements ambiguous. Two requests are the
least for which a batch can be reordered, shortened or retracted in part, and a
minimum batch of two makes the loop change between its two paths; one admin
operation at a time is what the code admits. Three requests for batches of two
leave one to be pushed back, and two threads can finish in either order. Two
operations are the least of which one can be late; two faults let one be given
up at two levels. Five frames of buffer hold an utterance with its padding and
silence and still overflow; four events commit two utterances while the turn of
the first is under way.

Two updates are the least that can overlap, and a second worker lets their
targets differ and one be registered after the choice. Thresholds of one make
every result decisive; `HealthSafe` covers streaks of any length. Three requests
for two slots are the least that can exceed admission. The theorems of section 4
remove the bounds where they apply.

Deadlock is checked in `router_proxy` and `omni`, which always have a next
step. Elsewhere the system may stop: calls, frames, items and messages are finite
in number, a pipeline may die, a stage stops. That nobody waits for ever is what
the liveness properties say there.

**Fairness.** Weak fairness of each task that the event loop can run, since
asyncio schedules every runnable task, and of each thread.

- `Coordinator`: the pipeline takes and finishes work only while it is alive;
  nothing obliges a client to abort or cancel, a stage to stream or fail, or an
  abort to arrive.
- `Stage`: reads, sends and reports end (relays time out, the control plane
  delivers) and the scheduler thread works while it lives.
- `Transfer`: workers and watchers run, timeouts fire, and a stage one of whose
  tasks crashed closes its engine. The receiver owes nothing.
- `OmniScheduler`: both threads run. Nobody has to abort, pause or continue, so
  its liveness properties are about behaviours that do not stay paused.
- `SimpleSchedulers`: threads run, computations end, and what a source began to
  send it goes on sending.
- `SpeechServing`: runnable tasks run and the poll sees a disconnection. The
  engine may take for ever, the client may stay silent.
- `RouterProxy`: every await ends. The HTTP client's timeouts end the waits on
  workers. Nothing in the router ends a wait on a client, to read its body
  (`proxy.py:573`) or to send to it: that clients finish or leave is an
  assumption about them, and `SlotsReturn` rests on it. New requests and the
  exception paths are not required.

## 4. Proofs

Checked by TLAPS for every value of the constants, from the assumptions named
in the modules. Each invariant below was first checked by TLC on the instance of
its run. The bounds that keep an instance finite (`MaxChunks`, `MaxInbox`,
`MaxFaults` and the like) are any natural numbers in the proofs.

**Coordinator** (`CoordinatorProofs`).

- `TypeCorrect`: the type invariant is inductive as it stands.
- `PartialsSafe`: collected results belong to a tracked request that still
  misses a terminal. Inductive with `TypeOK`: every action that forgets a
  request also forgets what it collected, and admission requires an untracked
  id, for which nothing is collected. Holds with reused ids.
- `WaitersReachable`, assuming `UniqueIds`: no `submit()` waits on a future
  the coordinator has lost. `NoOrphanedWaiter` says nothing about calls that
  have not reached their wait, so the induction needs `WaiterInv`: ids are
  unique, an admitted call owns the registered future until it leaves, a
  pending future's request is tracked, and a call waits on its own future.
- `AbortsAreFinal`, `NothingLeaks`, assuming `UniqueIds`. Both follow from
  `LifeInv`: the dictionaries hold calls of that id; a call that waits owns its
  future, which is pending exactly as long as the request is tracked; and what
  a stream's consumer knows or will find in its queue agrees with the future it
  never looks at. That last part (`StreamOK`) is what makes `stream()`, which
  ends on its queue alone, agree with an abort, which ends the future.
- `NoChunkIsLost`, assuming `UniqueIds`: `ChunkInv` counts. What a stage has
  emitted for a stream is what the consumer has yielded, plus what waits in its
  queue, plus what is on the stage's socket; and a stage's end of work is the
  last it says of a request, on the socket and in the queue. Hence a consumer
  that has seen the end of a stage has seen all its chunks.
- `CoordinatorImplements`, assuming `UniqueIds`: every initial state maps to one
  of `RequestLifecycle`, and every step to one of its steps or to a stutter. The
  steps need `LifeInv`: it says that an answer given from the queue is the one
  the fate allows.

**Stage** (`StageProofs`).

- `AbortedStayOut`: an aborted request leaves nothing in a stage's tables and
  nothing comes back; one that the stage fails itself is gone when the report has
  been sent. Inductive with the types of the tables (`QuietInv`) and with the fact
  that the drain and the crash handler send one report at a time (`OneReport`).
- `FailureIsLast`: once the report of a failure has been sent, the drain takes no
  result of the request. Whoever reports the failure also marks the request
  (`FailMarked`), marks stay unless the cap of `_aborted` drops them, and a marked
  request is not active unless its report is under way (`AbortedStayOut`). While
  it is under way the code does let a success pass, and the theorem is silent.
- `TransfersAreAcked`, `FanInsMergeOnce`, `StreamsInOrder`: from `LaneInv` and
  `FanInv`. The acknowledgements owed are exactly the tasks of the lanes that
  have not read yet; what a scheduler has got of a stream is a prefix of it,
  and the lane holds the rest by number; a payload is the last message of its
  lane, and is either in it or used.

**Transfer** (`TransferProofs`): `SlotsStayExclusive`, `SlotsKeptWhileRead`,
`NoSlotLost`. `TransferInv` ties the entry in `_pending`, the watcher and the
state of the send to each other (`JobOK`), and says that while the relay has not
been poisoned a future holds the acknowledgement of its own job (`OwnAck`),
although acknowledgements name object ids that are used again. `ItemsAssumption`
says that the drain sends an item once.

**OmniScheduler** (`OmniSchedulerProofs`): `OmniInvariance` is the inductive
invariant, from which `KvIsReleasedOnce`, `RequestsStayPlaced` and
`NoResultAfterAnswer` follow. It says where a request may be at which point of
the loop, and that whatever is still going to be processed holds its KV: a
request in a batch until it has finished, one in a step in flight until it has
finished or was retracted. Finitely many requests are assumed
(`RequestsAssumption`), because a prefill batch is a set of them in some order.

**SimpleSchedulers** (`SimpleSchedulersProofs`): `TypesKept`,
`AnsweredAtMostOnce`, `ChunksHandledInOrder`, `StateIsReleased`, for all four
schedulers at once. The batch in hand, the pushed-back message and the inbox are
looked at as one *line*. Every step either appends to the line or cuts a piece
out of it (`Cut`); collecting and pushing back leave it as it is, which is the
reason why they reorder nothing. `SchedInv` then says what is in the line (one
payload and one end per request, its chunks in order and before the end, nothing
that was consumed or answered), that the chunks of a stream that is not aborted
are handled or in the line, and that an aborted stream keeps its mark unless a
message raced the abort. Between two steps the loop has in hand what its place
says (`LoopOK`, `BatchOK`: chunks and payloads are batched with their like, one
per request).

**Admin** (`AdminProofs`).

- `SuccessIsTrue`: `AdminInv` says of every answer, wherever it is on its way
  and however late, that the rank which gave it has applied the operation it
  names; an answer that names another operation than the one waited for is not
  counted.
- `OperationsInOrder`: `OrderInv` says that what a rank has applied comes, in
  the order of issue, before what is queued for it, and that before what is in
  its leader's inbox; an operation not yet sent to a stage is nowhere in it.

**RouterPool** (`RouterProofs`).

- `PoolTypeCorrect`: the type invariant is inductive as it stands.
- `HealthSafe`: state and streaks agree, for any thresholds.
- `FlagsSafe`, `RoutingSafe`: both follow from `FlagInv`. Restoration is
  correct only if what an update remembered is still what operators want, and
  that holds because the lock admits one update past it, and a flag written in
  between is not wanted any longer when it ends: the operator who wrote it is
  overruled, and `FlagsRestored` says nothing of that worker until somebody asks
  again. Hence `FlagInv` carries mutual exclusion, the meaning of `previous`, and
  the disabled targets.

**RouterProxy** (`RouterProofs`): `AdmissionIsExact`, `LoadIsAccountedFor`
and `NoUnderflow` (the assertion of `decrement_active`). The counters are
cardinalities of sets of requests (`CountOK`); what keeps them so is where a
relay is in its teardown, that is which of its two owners has entered
`_RelayCleanup` and that the other then finds `_done` set (`RequestOK`).

**SpeechServing** (`ServingProofs`).

- `NothingAbandoned`: `EngineOK` says that the request an owner answers for is
  the only one that may run, and that an owner who is idle or has ended answers
  for none.
- `SpokenAsSent`: the frames put aside by the watcher and those on the socket
  are the ones after those in hand, by number (`LineOK`), although the watcher
  and the session take frames from the same socket; what has been spoken
  together with what is about to be is what the frames in hand complete, and the
  splitter holds a rest exactly when their text is unfinished (`ReadOK`). This
  is so while the session reads on; afterwards nothing is spoken any more.

**RealtimeSession** (`ServingProofs`), from `SessionInv`.

- `NoSpeechLost`: unless it is `skewed`, the detector has consumed what is in
  the buffer, and either it is in an utterance that began before any speech it
  has heard, or it has heard none (`AudioOK`); what has left the buffer is in a
  turn, was cleared, or came behind an utterance (`KeptOK`). `HearOK` carries
  this through an append, in which several utterances may end: the first of them
  is committed with all speech before its end, and the offsets of the others
  refer to a buffer that is dropped. Once an empty event has put the detector
  out of step only the shape of what it says is known (`HeardAny`, `EmitsAny`),
  until the buffer is dropped and the detector reset.
- `ConversationInOrder`, `TeardownComplete`: one drainer at most holds one turn,
  which is the active task, and turns before one that was taken are over
  (`TurnsInv`). The code starts drainers on demand, so that there is one at most
  is part of the invariant, and the queue is any sequence of utterances an
  append may commit.

`Spoken` and `AudioAppend` are folds over sequences of any length. The library's
induction theorems take an operator and cannot be used; `SetInduction` states
induction for a set of numbers, from the well-foundedness of `<`. From it follow
that a recursion whose step is a function has a computation of every length and
only one (`ComputationExists`, `ComputesSame`), and that the library's
definitions of `FlattenSeq` and `FoldLeft` are such computations
(`FlattenComputes`, `FlattenLast`, `FoldExists`). The proofs above then reason
about a fold one step at a time.

Every safety invariant, action property and refinement that a passing run checks
is thus a theorem. Only model-checked are the liveness properties (`CallsReturn`,
`SlotsReturn`, `WorkIsAnswered`, `AbortsCleanedUp`, `WorkEnds`,
`TransfersSettle`, `EveryoneAnswered`, `OwnerEnds`): fairness and `ENABLED` are
out of the prover's reach. `RowsInLockstep` is violated (section 5).

## 5. Findings

**`omni_rows`.** `abort()` marks a request that is in a batch and leaves its
clean-up to the loop, unless the request has finished already. A finished request
is still in the step in flight, which was launched before its last token was
seen. `abort()` then takes it out of that step's `reqs` with
`_remove_from_batch`, while the tensor of next tokens keeps its row, and
`_resolve_and_process` pairs requests and rows by position: the request behind
it gets its token.

Other behaviour met while modelling. Where the code itself does not keep
something, the property that would state it is not part of the project, or
excepts the case by name; the model contains the behaviour.

- A `submit()` that reuses the id of a finished `stream()` whose consumer has
  not drained yet is cancelled instead of receiving the error
  (`coordinator.py:427`).
- A `stream()` rejected because a `submit()` with its id is in flight runs its
  `finally`, which pops that call's future; not even `fail_pending_requests`
  finds it afterwards (`coordinator.py:357`).
- Messages name a request by its id only. The success of an aborted request that
  is still on the socket is credited to the call that has reused the id meanwhile
  (`coordinator.py:566`); `PartialsBelongToRequest` is about what had been
  collected before, not about this.
- While the report of a failure is being sent, the request stays in
  `_active_requests`, so the drain still takes a result of it; and the drain does
  not look again between that test and its own report (`runtime.py:952`, `1023`,
  `1039`, `1491`). The coordinator can thus be told of a success after the
  failure, and of a failure twice.
- What an operator asks of a worker's `disabled` flag during an admin broadcast to
  that worker is undone without notice when it ends, since the flags read before
  it are written back (`app.py:511`, `569`): a worker disabled for maintenance is
  enabled again, one enabled is disabled. `FlagsRestored` excepts it by name.
- A probe in flight when an operator marks a worker dead records its answer and
  brings the worker back (`health.py:75`).
- A cancelled upstream send, an `aclose()` that raises after a header failure,
  and a response that is never called leave the worker's load raised
  (`proxy.py:386`; `drift` in `RouterProxy`).
- `stop()` cancels all receive tasks at once. A task waiting for its predecessor
  raises from its `finally` before it sets its own future, so a later task of
  the lane that was reading waits for ever, and `stop()` with it
  (`runtime.py:350`).
- Acknowledgements are matched by object id. One that missed its timeout may
  complete the transfer of the same request sent again, and release slots that
  the receiver still reads, although "a pooled CUDA IPC sender retains its
  complete slot range until the receiver's one logical ACK"
  (`docs/developer_reference/communication.md:228`). The timeout has
  poisoned the relay by then, so nothing is written to them: the reason why
  `NoReuseWhileRead` is about a relay that is not poisoned.
- With two credits, the default, and chunks with one metadata tensor sent to two
  targets, each sender holds a credit and waits for its second one: the drain
  never ends, since no transfer is announced whose timeout could fire
  (`stage_io.py:510`). `transfer` has four slots, for which `TransfersSettle`
  holds.
- A pause with retraction leaves a prefill batch that has not joined the running
  batch alone; after a weight update it goes on with the KV of the old weights
  (`omni_scheduler.py:1576`; `RetractRunning`).
- `abort()` that finds its request in no batch and removes it from one that the
  scheduler has built meanwhile (`torn`), or that finds it in a step in flight
  although it has been retracted to the queue (`orphaned`).
- In the streaming scheduler a payload that was past its test for abort erases
  the mark of the abort that came meanwhile (`raced`); in the serial one a cost
  function that raises answers only the first request of the batch (`lost`).
- A streamed speech response whose client leaves before the body is iterated is
  not aborted, because the `finally` of a generator that never started does not
  run (`unstarted`).
- Realtime: an event that decodes to no audio asks for `tail(0)`, which is
  `buf[-0:]`, the whole buffer (`audio_buffer.py:76`). The detector hears all of
  it again, its offsets run ahead, and the start it reports for a later utterance
  may lie behind the speech it was found in, which is then not committed; that
  lasts until the buffer is dropped (`skewed`, `garbled`).
- Realtime: speech behind the end of an utterance in one append is lost
  (`trailing`); silence fills the buffer, which only a commit or a clear empties,
  so a long silence ends the session (`AudioOverflow`); a turn that dies in a
  send leaves its request running (`abandoned`); a response whose transcription
  fails or is cancelled does not enter the conversation although the client has
  heard it.

## 6. Plan

The request-build threads of the autoregressive scheduler, and its stream input
with deferred payloads, are the next parts to model: both feed the waiting queue
from another thread.

## 7. Not modelled

- Model code, model workers, preprocessing, vocoders: numerical code on GPUs.
  It is some three fifths of the implementation's lines, and most of the others
  are parsing, configuration and tools: the code with state to model is a small
  part of the repository, so the share of lines the map covers is small too. Of
  the files named in the table of section 1 it covers about half.
- Device transfers of CUDA IPC, NCCL, NIXL and Mooncake: I/O; their effect on
  slots and acknowledgements is in `Transfer`.
- Configuration, placement, route metadata, protocol classes, CLI: parsing and
  validation, evaluated once, no state afterwards.
- Process control (runner, launchers): spawning and signals of the host; the
  death of a child is an action of `Coordinator`.
- `dllm_scheduler.py`, `prepared_request_queue.py`: a loop without a second
  thread but for its abort set, and a set whose every transition is under one
  lock; smaller cases of `SimpleSchedulers`.
- The profiler: observability only.
