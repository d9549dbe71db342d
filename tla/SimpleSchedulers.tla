--------------------------- MODULE SimpleSchedulers ---------------------------
(***************************************************************************)
(* The schedulers of the stages that are not autoregressive                *)
(* (sglang_omni/scheduling): SimpleScheduler with its serial loop          *)
(* ("serial") and with worker coroutines ("workers"),                      *)
(* ThreadedSimpleScheduler ("threaded") and StreamingSimpleScheduler       *)
(* ("streaming").  Which one runs is chosen in Init.                       *)
(*                                                                         *)
(* The scheduler thread takes messages from the inbox, gathers batches,    *)
(* pushes back what does not fit, computes without a lock and answers.     *)
(* The stage's event loop puts messages and calls abort(); marks of        *)
(* aborted requests are all the two threads share.  What is computed, and  *)
(* whether it raises, is left open.                                        *)
(***************************************************************************)
EXTENDS Naturals, Sequences, FiniteSets, SequencesExt

CONSTANTS
  Requests,
  NoRequest,
  Kinds,       \* schedulers to check, of AllKinds
  Streaming,   \* requests whose payload is_streaming_payload
  Chunks,      \* Chunks[r]: chunks of streaming request r
  MaxBatch,    \* max_batch_size and the cap of a chunk batch
  MaxThreads,  \* max_concurrency
  MaxInbox,    \* bound of the instance on the messages waiting
  MaxAborts    \* bound of the instance on the requests aborted

AllKinds == {"serial", "workers", "threaded", "streaming"}

ASSUME KindsAssumption == Kinds \subseteq AllKinds
ASSUME StreamingAssumption == Streaming \subseteq Requests
ASSUME LimitsAssumption ==
  /\ Chunks \in [Streaming -> Nat] /\ MaxBatch \in Nat \ {0} /\ MaxThreads \in Nat \ {0}
  /\ MaxInbox \in Nat /\ MaxAborts \in Nat
ASSUME NoRequestAssumption == NoRequest \notin Requests

VARIABLES
  kind,
  inbox, pending,  \* inbox and _pending_messages
  put,             \* per request: has its payload been put, its chunks and done
  pc,              \* scheduler thread: "idle", "collect", "run", "answer"
  batch,           \* messages in hand
  outcome,         \* what the computation of the batch gave
  tasks,           \* requests of _pending, or of busy workers
  running,         \* those whose thread has started
  marks,           \* aborted request ids
  abortOf,         \* streaming: the request whose abort() is between its steps
  payloads, pendingDone, completed,   \* streaming: per-request state
  handled,         \* chunks handled, per request
  told,            \* terminal messages, per request
  stopped,         \* history: requests for which the stage called abort()
  lost,            \* history: messages dropped by a raising cost function
  raced          \* history: requests aborted between a message's test and its handling

streamVars == <<payloads, pendingDone, completed, handled>>
ghostVars == <<stopped, lost, raced>>
vars == <<kind, inbox, pending, put, pc, batch, outcome, tasks, running, marks,
          abortOf, streamVars, told, ghostVars>>

Messages == [type : {"new", "done"}, req : Requests]
            \cup UNION {[type : {"chunk"}, req : {r}, n : 1..Chunks[r]] : r \in Streaming}

Streams(r) == kind = "streaming" /\ r \in Streaming

TypeOK ==
  /\ kind \in Kinds
  /\ \A q \in {inbox, pending, batch} : q \in Seq(Messages)
  /\ put \in [Requests -> [new : BOOLEAN, n : Nat, done : BOOLEAN]]
  /\ pc \in {"idle", "collect", "run", "answer"}
  /\ outcome \in {"none", "result", "error"}
  /\ tasks \subseteq Requests /\ running \subseteq Requests
  /\ Cardinality(tasks) <= MaxThreads
  /\ marks \subseteq Requests /\ abortOf \in Requests \cup {NoRequest}
  /\ payloads \subseteq Requests /\ pendingDone \subseteq Requests
  /\ completed \subseteq Requests
  /\ handled \in [Requests -> Seq(Nat)]
  /\ told \in [Requests -> Seq({"result", "error"})]
  /\ stopped \subseteq Requests /\ lost \subseteq Requests /\ raced \subseteq Requests

Init ==
  /\ kind \in Kinds
  /\ inbox = <<>> /\ pending = <<>> /\ batch = <<>>
  /\ put = [r \in Requests |-> [new |-> FALSE, n |-> 0, done |-> FALSE]]
  /\ pc = "idle" /\ outcome = "none" /\ tasks = {} /\ running = {}
  /\ marks = {} /\ abortOf = NoRequest
  /\ payloads = {} /\ pendingDone = {} /\ completed = {}
  /\ handled = [r \in Requests |-> <<>>] /\ told = [r \in Requests |-> <<>>]
  /\ stopped = {} /\ lost = {} /\ raced = {}
-----------------------------------------------------------------------------
(* The stage's side.                                                       *)

\* the stage puts the payload; chunks and the end of the stream come in
\* order but may overtake it
Put(m) ==
  LET r == m.req IN
  /\ r \notin stopped /\ Len(inbox) < MaxInbox
  /\ \/ m.type = "new" /\ ~put[r].new /\ put' = [put EXCEPT ![r].new = TRUE]
     \/ /\ m.type = "chunk" /\ Streams(r) /\ ~put[r].done /\ m.n = put[r].n + 1
        /\ put' = [put EXCEPT ![r].n = m.n]
     \/ /\ m.type = "done" /\ Streams(r) /\ ~put[r].done /\ put[r].n = Chunks[r]
        /\ put' = [put EXCEPT ![r].done = TRUE]
  /\ inbox' = Append(inbox, m)
  /\ UNCHANGED <<kind, pending, pc, batch, outcome, tasks, running, marks, abortOf,
                 streamVars, told, ghostVars>>

\* abort() of the other schedulers; a thread that has not started is cancelled
Abort(r) ==
  /\ kind # "streaming" /\ r \notin stopped /\ Cardinality(stopped) < MaxAborts
  /\ stopped' = stopped \cup {r} /\ marks' = marks \cup {r}
  /\ tasks' = IF kind = "threaded" THEN tasks \ {r} ELSE tasks
  /\ UNCHANGED <<kind, inbox, pending, put, pc, batch, outcome, running, abortOf,
                 streamVars, told, lost, raced>>

\* abort() of the streaming one, _record_aborted_request_id first
AbortMarks(r) ==
  /\ kind = "streaming" /\ r \notin stopped /\ abortOf = NoRequest
  /\ Cardinality(stopped) < MaxAborts
  /\ stopped' = stopped \cup {r} /\ marks' = marks \cup {r} /\ abortOf' = r
  /\ UNCHANGED <<kind, inbox, pending, put, pc, batch, outcome, tasks, running,
                 streamVars, told, lost, raced>>

\* mutant: an early stream_done survives the abort
AbortKeepsDone ==
  /\ abortOf # NoRequest /\ abortOf' = NoRequest
  /\ payloads' = payloads \ {abortOf}
  /\ UNCHANGED <<kind, inbox, pending, put, pc, batch, outcome, tasks, running, marks,
                 pendingDone, completed, handled, told, ghostVars>>

\* and then _clear_request_state(keep_aborted=True)
AbortClears ==
  /\ abortOf # NoRequest /\ abortOf' = NoRequest
  /\ payloads' = payloads \ {abortOf} /\ pendingDone' = pendingDone \ {abortOf}
  /\ UNCHANGED <<kind, inbox, pending, put, pc, batch, outcome, tasks, running, marks,
                 completed, handled, told, ghostVars>>
-----------------------------------------------------------------------------
(* Taking messages.                                                        *)

\* _consume_if_aborted takes the mark away, _is_aborted and the threaded
\* scheduler's test leave it
MarksWithout(r) == IF kind \in {"serial", "workers"} THEN marks \ {r} ELSE marks

\* what _next_message or inbox.get returns, and what is left
NextQueue == IF pending # <<>> THEN pending ELSE inbox
NextMessage == Head(NextQueue)

\* _wait_for_capacity, or a worker that is free
HasCapacity == Cardinality(tasks) < MaxThreads

TakeMessage ==
  /\ pc = "idle" /\ NextQueue # <<>>
  /\ kind \in {"threaded", "workers"} => HasCapacity
  /\ IF pending # <<>> THEN pending' = Tail(pending) /\ UNCHANGED inbox
                       ELSE inbox' = Tail(inbox) /\ UNCHANGED pending
  /\ IF NextMessage.req \in marks
     THEN marks' = MarksWithout(NextMessage.req) /\ UNCHANGED <<pc, batch, tasks>>
     ELSE /\ UNCHANGED marks
          /\ IF kind \in {"threaded", "workers"}
             THEN tasks' = tasks \cup {NextMessage.req} /\ UNCHANGED <<pc, batch>>
             ELSE pc' = "collect" /\ batch' = <<NextMessage>> /\ UNCHANGED tasks
  /\ UNCHANGED <<kind, put, outcome, running, abortOf, streamVars, told, ghostVars>>

\* the batch is complete: its size, an empty inbox or the deadline
CollectEnds ==
  /\ pc = "collect" /\ pc' = "run"
  /\ UNCHANGED <<kind, inbox, pending, put, batch, outcome, tasks, running, marks,
                 abortOf, streamVars, told, ghostVars>>

\* does the collection that the first message began take m as well?
Joins(m) ==
  IF batch[1].type = "chunk"
  THEN m.type = "chunk"
       /\ \A i \in 1..Len(batch) : batch[i].req # m.req  \* distinct requests
  ELSE batch[1].type = "new" /\ ~Streams(batch[1].req)
       /\ m.type = "new" /\ ~Streams(m.req)

Collects == batch[1].type = "chunk" \/ (batch[1].type = "new" /\ ~Streams(batch[1].req))

\* an aborted request's message is dropped on the way, if its kind is not
\* looked at first
Skips(m) ==
  kind = "streaming" /\ m.req \in marks /\ (batch[1].type = "chunk" => m.type = "chunk")

Collecting == pc = "collect" /\ Collects /\ Len(batch) < MaxBatch /\ inbox # <<>>

CollectMore ==
  LET m == Head(inbox) IN
  /\ Collecting /\ (Skips(m) \/ Joins(m))
  /\ inbox' = Tail(inbox)
  /\ batch' = IF Skips(m) THEN batch ELSE Append(batch, m)
  /\ UNCHANGED <<kind, pending, put, pc, outcome, tasks, running, marks, abortOf,
                 streamVars, told, ghostVars>>

\* mutant: collection goes on behind a message that was pushed back
PushBackAndGoOn ==
  /\ Collecting /\ ~Skips(Head(inbox)) /\ ~Joins(Head(inbox))
  /\ inbox' = Tail(inbox)
  /\ pending' = <<Head(inbox)>> \o pending
  /\ UNCHANGED <<kind, put, pc, batch, outcome, tasks, running, marks, abortOf,
                 streamVars, told, ghostVars>>

\* a message that does not fit, for its kind or its cost, is pushed back and
\* ends the collection
PushBack ==
  LET m == Head(inbox) IN
  /\ Collecting /\ ~Skips(m)
  /\ ~Joins(m) \/ batch[1].type = "new"
  /\ inbox' = Tail(inbox)
  /\ pending' = <<m>> \o pending
  /\ pc' = "run"
  /\ UNCHANGED <<kind, put, batch, outcome, tasks, running, marks, abortOf, streamVars,
                 told, ghostVars>>

\* mutant: a failed message leaves its request open
FailOpen(r) ==
  /\ told' = [told EXCEPT ![r] = Append(@, "error")]
  /\ UNCHANGED <<marks, payloads, pendingDone>>

\* _emit_error and abort() on the scheduler's own thread
FailStream(r) ==
  /\ told' = [told EXCEPT ![r] = Append(@, "error")]
  /\ marks' = marks \cup {r}
  /\ payloads' = payloads \ {r} /\ pendingDone' = pendingDone \ {r}

\* the cost function raises.  The streaming scheduler answers that request
\* and goes on; the serial one answers only the first and forgets the rest.
CostRaises ==
  LET r == Head(inbox).req IN
  /\ Collecting /\ batch[1].type = "new" /\ Joins(Head(inbox))
  /\ inbox' = Tail(inbox)
  /\ \/ /\ kind = "streaming" /\ r \notin marks
        /\ FailStream(r)
        /\ UNCHANGED <<pc, batch, outcome, lost>>
     \/ /\ kind = "serial"
        /\ lost' = lost \cup {r} \cup {batch[i].req : i \in 2..Len(batch)}
        /\ batch' = <<batch[1]>> /\ outcome' = "error" /\ pc' = "answer"
        /\ UNCHANGED <<marks, told, payloads, pendingDone>>
  /\ UNCHANGED <<kind, pending, put, tasks, running, abortOf, completed, handled,
                 stopped, raced>>

\* it raises for the first payload of the streaming scheduler
FirstRaises ==
  /\ pc = "collect" /\ kind = "streaming" /\ Len(batch) = 1 /\ batch[1].type = "new"
  /\ FailStream(batch[1].req)
  /\ pc' = "idle" /\ batch' = <<>>
  /\ UNCHANGED <<kind, inbox, pending, put, outcome, tasks, running, abortOf, completed,
                 handled, ghostVars>>
-----------------------------------------------------------------------------
(* Computing and answering a batch of payloads.                            *)

Compute ==
  /\ pc = "run" /\ batch[1].type = "new" /\ ~Streams(batch[1].req)
  /\ pendingDone' = (IF kind = "streaming"
                     THEN pendingDone \ ({m.req : m \in Range(batch)} \ marks)
                     ELSE pendingDone)
  /\ outcome' \in {"result", "error"} /\ pc' = "answer"
  /\ UNCHANGED <<kind, inbox, pending, put, batch, tasks, running, marks, abortOf,
                 payloads, completed, handled, told, ghostVars>>

\* one message of the batch after the other: aborted, or answered, also with
\* the error of the streaming scheduler's validation
AnswerNext ==
  LET r == batch[1].req IN
  /\ pc = "answer" /\ batch # <<>>
  /\ batch' = Tail(batch)
  /\ \/ r \in marks /\ marks' = MarksWithout(r) /\ UNCHANGED <<told, completed>>
     \/ /\ r \notin marks /\ UNCHANGED marks
        /\ \E answer \in {outcome} \cup (IF kind = "streaming" THEN {"error"} ELSE {}) :
             told' = [told EXCEPT ![r] = Append(@, answer)]
        /\ completed' = IF kind = "streaming" THEN completed \cup {r} ELSE completed
  /\ UNCHANGED <<kind, inbox, pending, put, pc, outcome, tasks, running, abortOf,
                 payloads, pendingDone, handled, ghostVars>>

BatchEnds ==
  /\ pc = "answer" /\ batch = <<>>
  /\ pc' = "idle" /\ outcome' = "none"
  /\ UNCHANGED <<kind, inbox, pending, put, batch, tasks, running, marks, abortOf,
                 streamVars, told, ghostVars>>

\* threads of the pool, or of the workers' to_thread
ThreadStarts(r) ==
  /\ r \in tasks \ running /\ Cardinality(running) < MaxThreads
  /\ running' = running \cup {r}
  /\ UNCHANGED <<kind, inbox, pending, put, pc, batch, outcome, tasks, marks, abortOf,
                 streamVars, told, ghostVars>>

\* _finish, or the rest of worker()
Finish(r, answer) ==
  /\ r \in running /\ running' = running \ {r} /\ tasks' = tasks \ {r}
  /\ \/ r \in marks /\ marks' = MarksWithout(r) /\ UNCHANGED told
     \/ r \notin marks /\ told' = [told EXCEPT ![r] = Append(@, answer)] /\ UNCHANGED marks
  /\ UNCHANGED <<kind, inbox, pending, put, pc, batch, outcome, abortOf, streamVars,
                 ghostVars>>
-----------------------------------------------------------------------------
(* Streams.                                                                *)

\* _handle_stream_done with the payload at hand: the result, then the state
\* is cleared with the mark, unless the request was aborted
FinishStream(r, aborted) ==
  /\ told' = IF aborted THEN told ELSE [told EXCEPT ![r] = Append(@, "result")]
  /\ pendingDone' = pendingDone \ {r}

\* the batch's second test for abort and, past it, _handle_streaming_new_request,
\* which removes a mark that came in between
NewStream ==
  LET r == batch[1].req IN
  /\ pc = "run" /\ batch[1].type = "new" /\ Streams(r)
  /\ pc' = "idle" /\ batch' = <<>>
  /\ \/ /\ marks' = marks \ {r}
        /\ raced' = raced \cup ({r} \cap marks)
        /\ \/ r \notin pendingDone /\ payloads' = payloads \cup {r}
              /\ UNCHANGED <<pendingDone, told>>
           \/ r \in pendingDone /\ FinishStream(r, FALSE) /\ UNCHANGED payloads
        /\ completed' = completed \ {r}
     \/ FailStream(r) /\ UNCHANGED <<raced, completed>>
     \/ /\ r \in marks
        /\ UNCHANGED <<marks, raced, payloads, pendingDone, told, completed>>
  /\ UNCHANGED <<kind, inbox, pending, put, outcome, tasks, running, abortOf, handled,
                 stopped, lost>>

\* _handle_stream_chunk of each chunk of the batch; an aborted request's are
\* skipped
HandleChunk ==
  LET m == batch[1] IN
  /\ pc = "run" /\ m.type = "chunk"
  /\ batch' = Tail(batch)
  /\ pc' = IF Len(batch) = 1 THEN "idle" ELSE "run"
  /\ \/ m.req \in marks /\ UNCHANGED <<handled, told, marks, payloads, pendingDone>>
     \/ /\ m.req \notin marks
        /\ handled' = [handled EXCEPT ![m.req] = Append(@, m.n)]
        /\ UNCHANGED <<told, marks, payloads, pendingDone>>
     \/ m.req \notin marks /\ FailStream(m.req) /\ UNCHANGED handled
  /\ UNCHANGED <<kind, inbox, pending, put, outcome, tasks, running, abortOf, completed,
                 ghostVars>>

\* mutant: the end of a stream whose payload is not there yet is dropped
DropEarlyDone(r) == pendingDone

\* the end of a stream whose payload is not there yet waits for it
EarlyDone(r) == IF r \in completed THEN pendingDone ELSE pendingDone \cup {r}

\* _handle_stream_done
HandleDone ==
  LET r == batch[1].req IN
  /\ pc = "run" /\ batch[1].type = "done"
  /\ pc' = "idle" /\ batch' = <<>>
  /\ \/ /\ r \notin payloads
        /\ pendingDone' = EarlyDone(r)
        /\ raced' = raced \cup ({r} \cap marks)
        /\ UNCHANGED <<told, marks, payloads>>
     \/ /\ r \in payloads
        /\ FinishStream(r, r \in marks)
        /\ payloads' = IF r \in marks THEN payloads ELSE payloads \ {r}
        /\ UNCHANGED <<marks, raced>>
     \/ r \in payloads /\ FailStream(r) /\ UNCHANGED raced
  /\ UNCHANGED <<kind, inbox, pending, put, outcome, tasks, running, abortOf, completed,
                 handled, stopped, lost>>
-----------------------------------------------------------------------------
Collect == CollectMore \/ PushBack \/ CostRaises \/ FirstRaises \/ CollectEnds

Loop ==
  \/ TakeMessage \/ Collect \/ Compute \/ AnswerNext \/ BatchEnds
  \/ NewStream \/ HandleChunk \/ HandleDone

Threads ==
  \E r \in Requests : ThreadStarts(r) \/ Finish(r, "result") \/ Finish(r, "error")

Next ==
  \/ Loop \/ Threads
  \/ \E m \in Messages : Put(m)
  \/ \E r \in Requests : Abort(r) \/ AbortMarks(r)
  \/ AbortClears

Spec == Init /\ [][Next]_vars

\* threads run, computations end, and a stream that began is ended by its
\* source; nobody has to abort
FairSpec ==
  /\ Spec
  /\ WF_vars(Loop) /\ WF_vars(Threads) /\ WF_vars(AbortClears)
  /\ WF_vars(\E m \in Messages : Put(m))
-----------------------------------------------------------------------------
(* Properties.                                                             *)

\* However its payload travels (batch, pushback, worker, thread, stream), a
\* request is answered at most once.
AnsweredOnce == \A r \in Requests : Len(told[r]) <= 1

\* The chunks of a request are handled in the order they were put and, when
\* the result is sent, all of them were: batching chunks of several requests
\* and pushing messages back does not reorder one request's messages.
ChunksInOrder ==
  \A r \in Streaming :
    /\ \A i \in 1..Len(handled[r]) : handled[r][i] = i
    /\ kind = "streaming" /\ told[r] = <<"result">> => Len(handled[r]) = Chunks[r]

\* A stream that ended or failed, or whose abort() returned, keeps no state.
\* Excepted is a request of which a message was past its test for abort when
\* abort() came: a payload then erases the mark, an early end is kept.
StateReleased ==
  \A r \in payloads \cup pendingDone :
    /\ told[r] = <<>>
    /\ r \in stopped => r \in raced \cup {abortOf}

\* Every request whose payload was put is answered unless it is aborted or a
\* raising cost function lost it.
EveryoneAnswered ==
  <>[](\A r \in Requests : put[r].new => told[r] # <<>> \/ r \in stopped \cup lost)
=============================================================================
