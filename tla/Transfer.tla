------------------------------- MODULE Transfer -------------------------------
(***************************************************************************)
(* The sender's half of a relayed transfer (sglang_omni/comm/engine.py,    *)
(* stage_io.py) over a bounded relay: the slot pool of cuda_ipc            *)
(* (relay/cuda_ipc.py) or the credits of shm (relay/shm.py).               *)
(*                                                                         *)
(* The outbox drain of a stage hands over one ITEM at a time; an item is   *)
(* one send, or one stream chunk sent to several targets at once.  The     *)
(* send worker of the target writes every tensor of the job into the       *)
(* relay, registers the transfer, announces it to the receiver and arms a  *)
(* watcher, which gives the slots back when the receiver's one             *)
(* acknowledgement arrives, or fails after a timeout.  All of it shares    *)
(* one event loop; the steps below are what runs between two awaits.       *)
(*                                                                         *)
(* The receiver (Stage) is reduced to reading and acknowledging.  It may   *)
(* be slow or gone: nothing here relies on it.                             *)
(***************************************************************************)
EXTENDS Naturals, Sequences, FiniteSets

CONSTANTS
  Jobs,
  NoJob,
  Items,      \* outbox items in order: the jobs that each one sends
  Target,     \* [Jobs -> targets]: each target has its send worker
  ObjectId,   \* [Jobs -> object ids]: equal for a request sent again
  Sizes,      \* [Jobs -> Seq(Nat)]: slots of each tensor of the job
  NumSlots    \* slot_count of cuda_ipc, credits of shm

ASSUME JobsAssumption == NoJob \notin Jobs
ASSUME ItemsAssumption ==
  /\ Items \in Seq(SUBSET Jobs)
  /\ \A i, k \in 1..Len(Items) : i # k => Items[i] \cap Items[k] = {}
ASSUME SizesAssumption ==
  Sizes \in [Jobs -> Seq(1..NumSlots)] /\ \A j \in Jobs : Sizes[j] # <<>>
ASSUME NumSlotsAssumption == NumSlots \in Nat \ {0}

VARIABLES
  relay,     \* which relay the jobs use
  next,      \* next item of the outbox
  st,        \* the send of each job
  wrote,     \* tensors of the job that are in the relay
  held,      \* slots that its operations hold
  free,      \* free slots of the relay
  poisoned,  \* cuda_ipc: _failed_error is set
  pend,      \* _pending: which job is registered under an object id
  watch,     \* its watcher: "none", "registered" (unarmed), "armed", "over"
  ack,       \* its ack future: "none", "ok", "failed"
  recv,      \* the receiver: "none", "announced", "reading", "done", "failed"
  acks,      \* acknowledgements on their way
  broken,    \* a background task of the stage has crashed
  closed     \* close() was called

sendVars == <<next, st>>
slotVars == <<wrote, held, free, poisoned>>
pendVars == <<pend, watch, ack>>
vars == <<relay, sendVars, slotVars, pendVars, recv, acks, broken, closed>>

Ids == {ObjectId[j] : j \in Jobs}
Slots == 1..NumSlots

TypeOK ==
  /\ relay \in {"cuda_ipc", "shm"}
  /\ next \in 1..(Len(Items) + 1)
  /\ st \in [Jobs -> {"idle", "queued", "writing", "sending", "sent", "failed", "dropped"}]
  /\ wrote \in [Jobs -> Nat] /\ \A j \in Jobs : wrote[j] <= Len(Sizes[j])
  /\ held \in [Jobs -> SUBSET Slots] /\ free \subseteq Slots
  /\ pend \in [Ids -> Jobs \cup {NoJob}]
  /\ watch \in [Jobs -> {"none", "registered", "armed", "over"}]
  /\ ack \in [Jobs -> {"none", "ok", "failed"}]
  /\ recv \in [Jobs -> {"none", "announced", "reading", "done", "failed"}]
  /\ acks \subseteq [job : Jobs, ok : BOOLEAN]
  /\ poisoned \in BOOLEAN /\ broken \in BOOLEAN /\ closed \in BOOLEAN

Init ==
  /\ relay \in {"cuda_ipc", "shm"}
  /\ next = 1 /\ st = [j \in Jobs |-> "idle"]
  /\ wrote = [j \in Jobs |-> 0] /\ held = [j \in Jobs |-> {}]
  /\ free = Slots /\ poisoned = FALSE
  /\ pend = [i \in Ids |-> NoJob]
  /\ watch = [j \in Jobs |-> "none"] /\ ack = [j \in Jobs |-> "none"]
  /\ recv = [j \in Jobs |-> "none"] /\ acks = {}
  /\ broken = FALSE /\ closed = FALSE
-----------------------------------------------------------------------------
(* The slots.                                                              *)

\* mutant: the run of free slots is one too short
TooShort(n) ==
  LET starts == {s \in Slots : s..(s + n - 2) \subseteq free}
      first  == CHOOSE s \in starts : \A u \in starts : s <= u
  IN  IF starts = {} THEN {} ELSE first..(first + n - 1)

\* _find_contiguous: the first run of n free slots, or {}
FindContiguous(n) ==
  LET starts == {s \in Slots : s..(s + n - 1) \subseteq free}
      first  == CHOOSE s \in starts : \A u \in starts : s <= u
  IN  IF starts = {} THEN {} ELSE first..(first + n - 1)

\* a tensor takes its slots of cuda_ipc, or one credit of shm
SlotsNeeded(j) == IF relay = "shm" THEN 1 ELSE Sizes[j][wrote[j] + 1]

Release(j) == free' = free \cup held[j] /\ held' = [held EXCEPT ![j] = {}]

\* mutant: a failed operation gives its slots back whatever the relay
ReleaseAnyway(j) == Release(j) /\ UNCHANGED poisoned

\* wait_for_completion of failed operations: shm gives the credits back,
\* cuda_ipc keeps the slots, which may still be read, and fails the relay
ReleaseFailed(j) ==
  \/ relay = "shm" /\ Release(j) /\ UNCHANGED poisoned
  \/ relay = "cuda_ipc" /\ poisoned' = TRUE /\ UNCHANGED <<held, free>>
-----------------------------------------------------------------------------
(* Sending.                                                                *)

\* _drain_outbox_external: an item is sent once all sends before it returned
DrainItem ==
  /\ next <= Len(Items)
  /\ \A j \in Jobs : st[j] \in {"idle", "sent"}
  /\ next' = next + 1
  /\ st' = [j \in Jobs |-> IF j \notin Items[next] THEN st[j]
                           ELSE IF closed THEN "failed" ELSE "queued"]
  /\ broken' = (broken \/ closed)
  /\ UNCHANGED <<relay, slotVars, pendVars, recv, acks, closed>>

\* the target's worker, _run_send_worker, takes the job
TakeJob(j) ==
  /\ st[j] = "queued" /\ ~closed
  /\ \A k \in Jobs : Target[k] = Target[j] => st[k] \notin {"writing", "sending"}
  /\ st' = [st EXCEPT ![j] = "writing"]
  /\ UNCHANGED <<relay, next, slotVars, pendVars, recv, acks, broken, closed>>

\* mutant: the drain survives a failed send
SendForgotten(j) == st' = [st EXCEPT ![j] = "sent"] /\ UNCHANGED broken

\* the send raises, and with it the drain
SendRaises(j) == st' = [st EXCEPT ![j] = "failed"] /\ broken' = TRUE

\* put_async of the next tensor waits for slots, unless the relay failed
WriteTensor(j) ==
  LET slots == FindContiguous(SlotsNeeded(j)) IN
  /\ st[j] = "writing" /\ wrote[j] < Len(Sizes[j])
  /\ ~poisoned /\ slots # {}
  /\ wrote' = [wrote EXCEPT ![j] = @ + 1]
  /\ held' = [held EXCEPT ![j] = @ \cup slots]
  /\ free' = free \ slots
  /\ UNCHANGED <<relay, sendVars, poisoned, pendVars, recv, acks, broken, closed>>

\* put_async raises: the tensors written so far keep their slots
WriteRaises(j) ==
  /\ st[j] = "writing" /\ wrote[j] < Len(Sizes[j])
  /\ poisoned \/ FindContiguous(SlotsNeeded(j)) # {}
  /\ SendRaises(j)
  /\ UNCHANGED <<relay, next, slotVars, pendVars, recv, acks, closed>>

\* _fail_pending
FailPending(js) ==
  /\ ack' = [j \in Jobs |-> IF j \in js /\ ack[j] = "none" THEN "failed" ELSE ack[j]]
  /\ watch' = [j \in Jobs |-> IF j \in js /\ watch[j] = "registered" THEN "armed"
                              ELSE watch[j]]

Register(j) ==
  /\ st[j] = "writing" /\ wrote[j] = Len(Sizes[j])
  /\ pend[ObjectId[j]] = NoJob
  /\ pend' = [pend EXCEPT ![ObjectId[j]] = j]
  /\ watch' = [watch EXCEPT ![j] = "registered"]
  /\ st' = [st EXCEPT ![j] = "sending"]
  /\ UNCHANGED <<relay, next, slotVars, ack, recv, acks, broken, closed>>

\* the object id is taken: the send raises and the transfer that is
\* registered under it fails
RegisterDuplicate(j) ==
  /\ st[j] = "writing" /\ wrote[j] = Len(Sizes[j])
  /\ pend[ObjectId[j]] # NoJob
  /\ FailPending({pend[ObjectId[j]]})
  /\ SendRaises(j)
  /\ UNCHANGED <<relay, next, slotVars, pend, recv, acks, closed>>

\* the DataReadyMessage leaves while send_to_stage is awaited
Announce(j) ==
  /\ st[j] = "sending" /\ recv[j] = "none"
  /\ recv' = [recv EXCEPT ![j] = "announced"]
  /\ UNCHANGED <<relay, sendVars, slotVars, pendVars, acks, broken, closed>>

\* send_to_stage returns: _arm_pending; it raises when _fail_pending armed
\* the transfer meanwhile
Announced(j) ==
  /\ st[j] = "sending" /\ recv[j] # "none"
  /\ \/ /\ watch[j] = "registered"
        /\ watch' = [watch EXCEPT ![j] = "armed"]
        /\ st' = [st EXCEPT ![j] = "sent"]
        /\ UNCHANGED broken
     \/ watch[j] # "registered" /\ SendRaises(j) /\ UNCHANGED watch
  /\ UNCHANGED <<relay, next, slotVars, pend, ack, recv, acks, closed>>

AnnounceRaises(j) ==
  /\ st[j] = "sending" /\ recv[j] = "none"
  /\ FailPending({j})
  /\ SendRaises(j)
  /\ UNCHANGED <<relay, next, slotVars, pend, recv, acks, closed>>
-----------------------------------------------------------------------------
(* Acknowledgement.                                                        *)

\* ack_transfer finds the transfer by its object id; a stale one is ignored
AckTransfer(m) ==
  LET j == pend[ObjectId[m.job]] IN
  /\ m \in acks /\ acks' = acks \ {m}
  /\ ack' = IF j = NoJob \/ (j # NoJob /\ ack[j] # "none") THEN ack
            ELSE [ack EXCEPT ![j] = IF m.ok THEN "ok" ELSE "failed"]
  /\ UNCHANGED <<relay, sendVars, slotVars, pend, watch, recv, broken, closed>>

\* mutant: without the timeout
WatchWaits(j) ==
  /\ watch[j] = "armed" /\ ack[j] = "failed"
  /\ ReleaseFailed(j)
  /\ pend' = [pend EXCEPT ![ObjectId[j]] = NoJob]
  /\ watch' = [watch EXCEPT ![j] = "over"]
  /\ broken' = TRUE
  /\ UNCHANGED <<relay, sendVars, wrote, ack, recv, acks, closed>>

\* _watch_pending, when the future holds a result
WatchSucceeds(j) ==
  /\ watch[j] = "armed" /\ ack[j] = "ok"
  /\ Release(j)
  /\ pend' = [pend EXCEPT ![ObjectId[j]] = NoJob]
  /\ watch' = [watch EXCEPT ![j] = "over"]
  /\ UNCHANGED <<relay, sendVars, wrote, poisoned, ack, recv, acks, broken, closed>>

\* when it holds an error, or the timeout comes first
WatchFails(j) ==
  /\ watch[j] = "armed" /\ ack[j] # "ok"
  /\ ReleaseFailed(j)
  /\ pend' = [pend EXCEPT ![ObjectId[j]] = NoJob]
  /\ watch' = [watch EXCEPT ![j] = "over"]
  /\ ack' = [ack EXCEPT ![j] = "failed"]
  /\ broken' = TRUE
  /\ UNCHANGED <<relay, sendVars, wrote, recv, acks, closed>>

\* close(): the workers are cancelled, what is registered fails
Close ==
  /\ ~closed /\ closed' = TRUE
  /\ st' = [j \in Jobs |-> IF st[j] \in {"queued", "writing", "sending"} THEN "dropped"
                           ELSE st[j]]
  /\ FailPending({j \in Jobs : pend[ObjectId[j]] = j})
  /\ UNCHANGED <<relay, next, slotVars, pend, recv, acks, broken>>
-----------------------------------------------------------------------------
(* The receiver (external to the sender: Stage models it).                 *)

ReadBegins(j) ==
  /\ recv[j] = "announced" /\ recv' = [recv EXCEPT ![j] = "reading"]
  /\ UNCHANGED <<relay, sendVars, slotVars, pendVars, acks, broken, closed>>

\* a read that fails, for instance in a timeout of its own, may leave a copy
\* running on the device
ReadEnds(j, ok) ==
  /\ recv[j] = "reading"
  /\ recv' = [recv EXCEPT ![j] = IF ok THEN "done" ELSE "failed"]
  /\ acks' = acks \cup {[job |-> j, ok |-> ok]}
  /\ UNCHANGED <<relay, sendVars, slotVars, pendVars, broken, closed>>
-----------------------------------------------------------------------------
Worker(j) ==
  \/ TakeJob(j) \/ WriteTensor(j) \/ WriteRaises(j) \/ Register(j) \/ RegisterDuplicate(j)
  \/ Announce(j) \/ Announced(j) \/ AnnounceRaises(j)

Watcher(j) == WatchSucceeds(j) \/ WatchFails(j)

Next ==
  \/ DrainItem \/ Close
  \/ \E j \in Jobs : Worker(j) \/ Watcher(j) \/ ReadBegins(j)
  \/ \E j \in Jobs, ok \in BOOLEAN : ReadEnds(j, ok)
  \/ \E m \in acks : AckTransfer(m)

Spec == Init /\ [][Next]_vars

\* tasks of the event loop run and timeouts fire, and a stage with a crashed
\* task closes; the receiver owes nothing
Fairness ==
  /\ WF_vars(DrainItem) /\ WF_vars(broken /\ Close)
  /\ \A j \in Jobs : WF_vars(Worker(j)) /\ WF_vars(Watcher(j))

FairSpec == Spec /\ Fairness
-----------------------------------------------------------------------------
(* Properties.                                                             *)

\* _ContiguousSlotAllocator, the shm semaphore: no slot belongs to two
\* transfers, or to one and the free list, whatever fails in between.
SlotsExclusive ==
  /\ \A j, k \in Jobs : j # k => held[j] \cap held[k] = {}
  /\ \A j \in Jobs : held[j] \cap free = {}

\* "a pooled CUDA IPC sender retains its complete slot range until the
\* receiver's one logical ACK": slots that a receiver reads, or failed to
\* read, are not written again, although acknowledgements are matched by
\* object id, come late, and race the timeout.  A late one may complete the
\* transfer of a request sent again under the same id, and give back slots
\* that are being read; the timeout it missed has failed the relay by then,
\* which takes no more tensors.
NoReuseWhileRead ==
  \A j \in Jobs :
    relay = "cuda_ipc" /\ ~poisoned /\ recv[j] \in {"reading", "failed"} =>
      wrote[j] = Len(Sizes[j]) /\ held[j] # {}

\* As long as no task of the stage crashed, every slot that is not free is
\* held for a transfer that is being written or awaits its acknowledgement:
\* a failed or duplicate send that keeps its slots takes the stage down.
SlotsAccountedFor ==
  ~broken /\ ~closed =>
    /\ free \cup UNION {held[j] : j \in Jobs} = Slots
    /\ \A j \in Jobs : held[j] # {} =>
         st[j] \in {"writing", "sending"} \/ watch[j] \in {"registered", "armed"}

\* Whatever the receivers do, the engine comes to rest: no transfer stays
\* pending, and no send is stuck between its queue and its announcement: it
\* returns, fails, or is dropped by close().  It takes more slots than two
\* senders hold while each waits for its next one.
TransfersSettle ==
  <>[]( \A j \in Jobs : /\ watch[j] \notin {"registered", "armed"}
                       /\ st[j] \notin {"queued", "writing", "sending"} )
=============================================================================
