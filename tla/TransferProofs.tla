---------------------------- MODULE TransferProofs ----------------------------
(***************************************************************************)
(* Transfer: the slots of the relay, for any number of jobs, targets and   *)
(* slots, any sizes, and object ids that are used again.                   *)
(*                                                                         *)
(* The slots are safe because of who may give them back: the watcher of    *)
(* the transfer, once.  The invariant ties the entry in _pending, the      *)
(* watcher and the state of the send to each other, and says whose         *)
(* acknowledgement a future may hold while the relay has not failed.       *)
(***************************************************************************)
EXTENDS Transfer, SequenceTheorems, WellFoundedInduction, TLAPS

Pending(j) == watch[j] \in {"registered", "armed"}

\* items still to be sent have not been touched
DrainOK ==
  \A i \in 1..Len(Items) : i >= next => \A j \in Items[i] : st[j] = "idle"

\* how far the send of a job and its watcher are
JobOK(j) ==
  /\ wrote[j] = 0 => held[j] = {}
  /\ st[j] \in {"idle", "queued"} => wrote[j] = 0
  /\ st[j] \in {"idle", "queued", "writing"} => watch[j] = "none"
  /\ st[j] \in {"sending", "sent"} => watch[j] # "none"
  /\ watch[j] = "registered" => st[j] = "sending"
  /\ watch[j] = "none" => recv[j] = "none"
  /\ watch[j] # "none" => wrote[j] = Len(Sizes[j])
  /\ wrote[j] > 0 /\ watch[j] # "over" => held[j] # {}
  /\ pend[ObjectId[j]] = j <=> Pending(j)
  /\ st[j] = "failed" => broken
  /\ st[j] = "dropped" => closed
  /\ watch[j] = "over" /\ ~broken => held[j] = {}

\* acknowledgements are sent once, by a receiver that ended its read
AcksOK ==
  \A m \in acks : recv[m.job] = IF m.ok THEN "done" ELSE "failed"

\* while the relay has not failed, a future holds the success of its own job,
\* whose acknowledgement is used up
OwnAck(j) ==
  relay = "cuda_ipc" /\ ~poisoned =>
    /\ ack[j] = "ok" => recv[j] = "done" /\ \A m \in acks : m.job # j
    /\ watch[j] = "over" => ack[j] = "ok"

AllSlots == \A s \in Slots : s \in free \/ \E j \in Jobs : s \in held[j]

TransferInv ==
  /\ TypeOK
  /\ SlotsExclusive
  /\ AllSlots
  /\ DrainOK
  /\ AcksOK
  /\ poisoned => broken
  /\ \A j \in Jobs : JobOK(j)
  /\ \A j \in Jobs : OwnAck(j)
-----------------------------------------------------------------------------
(* The slots.                                                              *)

\* _find_contiguous returns free slots, and as many as were asked for.
LEMMA ContiguousFree ==
  ASSUME TypeOK, NEW n \in 1..NumSlots
  PROVE  FindContiguous(n) \subseteq free
<1> DEFINE starts == {s \in Slots : s..(s + n - 1) \subseteq free}
           first  == CHOOSE s \in starts : \A u \in starts : s <= u
<1>1. CASE starts = {}
  BY <1>1 DEF FindContiguous
<1>2. CASE starts # {}
  <2>1. starts \subseteq Nat
    BY NumSlotsAssumption DEF Slots
  <2> DEFINE R == {ss \in Nat \X Nat : ss[1] < ss[2]}
  <2>0. IsWellFoundedOn(R, Nat)
    BY NatLessThanWellFounded DEF OpToRel
  <2> HIDE DEF R
  <2>2. \E s \in starts : \A u \in starts : ~(<<u, s>> \in R)
    BY <1>2, <2>0, <2>1, WFMin
  <2>3. \E s \in starts : \A u \in starts : s <= u
    <3> PICK s \in starts : \A u \in starts : ~(<<u, s>> \in R)
      BY <2>2
    <3>1. \A u \in starts : ~(u < s)
      BY <2>1 DEF R
    <3> QED BY <2>1, <3>1
  <2>4. first \in starts
    BY <2>3
  <2>5. FindContiguous(n) = first..(first + n - 1)
    BY <1>2 DEF FindContiguous
  <2> QED BY <2>4, <2>5
<1> QED BY <1>1, <1>2

\* The next tensor of a job needs at least one slot and no more than there are.
LEMMA NeededBound ==
  ASSUME TypeOK, NEW j \in Jobs, wrote[j] < Len(Sizes[j])
  PROVE  SlotsNeeded(j) \in 1..NumSlots
<1> DEFINE sizes == Sizes[j]
           n     == wrote[j] + 1
           range == 1..NumSlots
<1>1. sizes \in Seq(range) /\ wrote[j] \in Nat
  BY SizesAssumption DEF TypeOK
<1>2. Len(sizes) \in Nat
  BY <1>1, LenProperties
<1>3. n \in 1..Len(sizes)
  BY <1>1, <1>2
<1>4. sizes[n] \in range
  <2> HIDE DEF sizes, n, range
  <2> QED BY <1>1, <1>3, ElementOfSeq
<1> QED BY <1>4, NumSlotsAssumption DEF SlotsNeeded

\* the part of the invariant that is about the slots alone
SlotInv ==
  /\ held \in [Jobs -> SUBSET Slots] /\ free \subseteq Slots
  /\ SlotsExclusive /\ AllSlots

\* Slots that move from the free list to a job stay exclusive.
LEMMA SlotsTaken ==
  ASSUME SlotInv, NEW j \in Jobs, NEW slots \in SUBSET free,
         held' = [held EXCEPT ![j] = @ \cup slots], free' = free \ slots
  PROVE  SlotInv'
BY DEF SlotInv, SlotsExclusive, AllSlots, Slots

\* Slots that a job gives back are free and nobody else's.
LEMMA SlotsReleased ==
  ASSUME SlotInv, NEW j \in Jobs, Release(j)
  PROVE  SlotInv'
BY DEF SlotInv, SlotsExclusive, AllSlots, Slots, Release

\* Steps that leave the slots alone.
LEMMA SlotsFrame ==
  ASSUME SlotInv, UNCHANGED <<held, free>>
  PROVE  SlotInv'
BY DEF SlotInv, SlotsExclusive, AllSlots, Slots

\* The invariant contains what the lemmas on slots need.
LEMMA InvSlots == TransferInv => SlotInv
BY DEF TransferInv, SlotInv, TypeOK
-----------------------------------------------------------------------------
(* The steps.                                                              *)

\* A tensor is written into slots that were free.
LEMMA StepWrite ==
  ASSUME TransferInv, NEW j \in Jobs, WriteTensor(j)
  PROVE  TransferInv'
<1> DEFINE slots == FindContiguous(SlotsNeeded(j))
<1>0. slots \in SUBSET free /\ slots # {}
  BY ContiguousFree, NeededBound DEF WriteTensor, TransferInv
<1> HIDE DEF slots
<1>1. /\ st[j] = "writing" /\ wrote[j] < Len(Sizes[j])
      /\ wrote' = [wrote EXCEPT ![j] = @ + 1]
      /\ held' = [held EXCEPT ![j] = @ \cup slots]
      /\ free' = free \ slots
      /\ UNCHANGED <<relay, next, st, poisoned, pend, watch, ack, recv, acks, broken, closed>>
  BY DEF WriteTensor, slots, sendVars, pendVars
<1>2. SlotInv'
  BY <1>0, <1>1, SlotsTaken, InvSlots
<1>3. TypeOK'
  <2>1. Len(Sizes[j]) \in Nat
    BY SizesAssumption, LenProperties
  <2> QED BY <1>1, <1>2, <2>1 DEF TransferInv, TypeOK, SlotInv
<1>4. DrainOK' /\ AcksOK' /\ (poisoned => broken)'
  BY <1>1 DEF TransferInv, DrainOK, AcksOK
<1>5. ASSUME NEW k \in Jobs
      PROVE  JobOK(k)' /\ OwnAck(k)'
  <2>1. JobOK(k) /\ OwnAck(k) /\ wrote[k] \in Nat
    BY DEF TransferInv, TypeOK
  <2>2. CASE k # j
    BY <1>1, <2>1, <2>2 DEF JobOK, OwnAck, Pending, TransferInv, TypeOK
  <2>3. CASE k = j
    BY <1>0, <1>1, <2>1, <2>3 DEF JobOK, OwnAck, Pending, TransferInv, TypeOK
  <2> QED BY <2>2, <2>3
<1> QED BY <1>2, <1>3, <1>4, <1>5 DEF TransferInv, SlotInv

\* An item leaves the outbox: its jobs have not been sent before.
LEMMA StepDrain ==
  ASSUME TransferInv, DrainItem
  PROVE  TransferInv'
<1>1. SlotInv'
  BY InvSlots, SlotsFrame DEF DrainItem, slotVars
<1>2. next \in 1..Len(Items) /\ next' = next + 1 /\ Len(Items) \in Nat
  BY ItemsAssumption, LenProperties DEF DrainItem, TransferInv, TypeOK
<1>3. \A k \in Items[next] : st[k] = "idle"
  BY <1>2 DEF TransferInv, DrainOK
<1>4. TypeOK'
  BY <1>2 DEF DrainItem, TransferInv, TypeOK, slotVars, pendVars
<1>5. DrainOK'
  <2> SUFFICES ASSUME NEW i \in 1..Len(Items), i >= next + 1, NEW k \in Items[i]
               PROVE  st'[k] = "idle"
    BY <1>2 DEF DrainOK
  <2>1. st[k] = "idle"
    BY <1>2 DEF TransferInv, DrainOK
  <2>2. k \notin Items[next]
    BY <1>2, ItemsAssumption
  <2>3. k \in Jobs
    BY ItemsAssumption, ElementOfSeq
  <2> QED BY <2>1, <2>2, <2>3 DEF DrainItem
<1>6. AcksOK' /\ (poisoned => broken)'
  BY DEF TransferInv, AcksOK, DrainItem, slotVars, TypeOK
<1>7. ASSUME NEW k \in Jobs
      PROVE  JobOK(k)' /\ OwnAck(k)'
  <2>1. JobOK(k) /\ OwnAck(k)
    BY DEF TransferInv
  <2>2. UNCHANGED <<relay, wrote, held, poisoned, pend, watch, ack, recv, acks, closed>>
    BY DEF DrainItem, slotVars, pendVars
  <2>3. /\ st'[k] = IF k \notin Items[next] THEN st[k]
                    ELSE IF closed THEN "failed" ELSE "queued"
        /\ broken' = (broken \/ closed)
    BY DEF DrainItem
  <2> QED BY <1>3, <2>1, <2>2, <2>3 DEF JobOK, OwnAck, Pending
<1> QED BY <1>1, <1>4, <1>5, <1>6, <1>7 DEF TransferInv, SlotInv

\* Items still to be sent stay untouched by a step that touches no idle job.
LEMMA DrainKept ==
  ASSUME TransferInv, next' = next, \A k \in Jobs : st[k] = "idle" => st'[k] = "idle"
  PROVE  DrainOK'
<1> SUFFICES ASSUME NEW i \in 1..Len(Items), i >= next, NEW k \in Items[i]
             PROVE  st'[k] = "idle"
  BY DEF DrainOK
<1>1. k \in Jobs
  BY ItemsAssumption, ElementOfSeq
<1>2. st[k] = "idle"
  BY DEF TransferInv, DrainOK
<1> QED BY <1>1, <1>2

\* Steps of a send worker that neither register nor announce anything: it
\* takes the job, or put_async raises.
LEMMA StepSend ==
  ASSUME TransferInv, NEW j \in Jobs, TakeJob(j) \/ WriteRaises(j)
  PROVE  TransferInv'
<1>1. /\ UNCHANGED <<relay, next, wrote, held, free, poisoned, pend, watch, ack, recv,
                     acks, closed>>
      /\ \/ st[j] = "queued" /\ st' = [st EXCEPT ![j] = "writing"] /\ broken' = broken
         \/ st[j] = "writing" /\ st' = [st EXCEPT ![j] = "failed"] /\ broken' = TRUE
  BY DEF TakeJob, WriteRaises, SendRaises, slotVars, pendVars
<1>2. SlotInv'
  BY <1>1, InvSlots, SlotsFrame
<1>3. TypeOK'
  BY <1>1 DEF TransferInv, TypeOK
<1>4. DrainOK'
  BY <1>1, DrainKept DEF TransferInv, TypeOK
<1>5. AcksOK' /\ (poisoned => broken)'
  BY <1>1 DEF TransferInv, AcksOK
<1>6. ASSUME NEW k \in Jobs
      PROVE  JobOK(k)' /\ OwnAck(k)'
  <2>1. JobOK(k) /\ OwnAck(k)
    BY DEF TransferInv
  <2> QED BY <1>1, <2>1 DEF JobOK, OwnAck, Pending, TransferInv, TypeOK
<1> QED BY <1>2, <1>3, <1>4, <1>5, <1>6 DEF TransferInv, SlotInv

\* The transfer is registered under an object id that nobody holds.
LEMMA StepRegister ==
  ASSUME TransferInv, NEW j \in Jobs, Register(j)
  PROVE  TransferInv'
<1>1. /\ st[j] = "writing" /\ wrote[j] = Len(Sizes[j]) /\ pend[ObjectId[j]] = NoJob
      /\ pend' = [pend EXCEPT ![ObjectId[j]] = j]
      /\ watch' = [watch EXCEPT ![j] = "registered"]
      /\ st' = [st EXCEPT ![j] = "sending"]
      /\ UNCHANGED <<relay, next, wrote, held, free, poisoned, ack, recv, acks, broken, closed>>
  BY DEF Register, slotVars
<1>2. SlotInv'
  BY <1>1, InvSlots, SlotsFrame
<1>3. TypeOK'
  BY <1>1 DEF TransferInv, TypeOK, Ids
<1>4. DrainOK'
  BY <1>1, DrainKept DEF TransferInv, TypeOK
<1>5. AcksOK' /\ (poisoned => broken)'
  BY <1>1 DEF TransferInv, AcksOK
<1>6. ASSUME NEW k \in Jobs
      PROVE  JobOK(k)' /\ OwnAck(k)'
  <2>1. JobOK(k) /\ OwnAck(k) /\ JobOK(j)
    BY DEF TransferInv
  <2>2. wrote[j] > 0
    <3>1. Sizes[j] \in Seq(1..NumSlots) /\ Sizes[j] # <<>>
      BY SizesAssumption
    <3>2. Len(Sizes[j]) \in Nat /\ Len(Sizes[j]) # 0
      BY <3>1, LenProperties, EmptySeq
    <3> QED BY <1>1, <3>2
  <2>3. ObjectId[k] \in Ids /\ ObjectId[j] \in Ids
    BY DEF Ids
  <2>4. CASE k = j
    BY <1>1, <2>1, <2>2, <2>3, <2>4 DEF JobOK, OwnAck, Pending, TransferInv, TypeOK
  <2>5. CASE k # j /\ ObjectId[k] # ObjectId[j]
    BY <1>1, <2>1, <2>3, <2>5 DEF JobOK, OwnAck, Pending, TransferInv, TypeOK
  <2>6. CASE k # j /\ ObjectId[k] = ObjectId[j]
    BY <1>1, <2>1, <2>3, <2>6, JobsAssumption DEF JobOK, OwnAck, Pending, TransferInv, TypeOK
  <2> QED BY <2>4, <2>5, <2>6
<1> QED BY <1>2, <1>3, <1>4, <1>5, <1>6 DEF TransferInv, SlotInv

\* _fail_pending arms a watcher and fills an empty future, no more.
LEMMA FailPendingEffect ==
  ASSUME TypeOK, NEW js, FailPending(js)
  PROVE  /\ ack' \in [Jobs -> {"none", "ok", "failed"}]
         /\ watch' \in [Jobs -> {"none", "registered", "armed", "over"}]
         /\ \A k \in Jobs :
              /\ ack'[k] = ack[k] \/ (ack[k] = "none" /\ ack'[k] = "failed")
              /\ watch'[k] = watch[k] \/ (watch[k] = "registered" /\ watch'[k] = "armed")
BY DEF TypeOK, FailPending

\* A send fails after its tensors were written: the id is taken, or the
\* announcement raises; a transfer may be failed with it.
LEMMA StepSendFails ==
  ASSUME TransferInv, NEW j \in Jobs, RegisterDuplicate(j) \/ AnnounceRaises(j)
  PROVE  TransferInv'
<1>1. /\ st' = [st EXCEPT ![j] = "failed"] /\ broken' = TRUE
      /\ st[j] = "writing" \/ (st[j] = "sending" /\ watch'[j] # "registered")
      /\ UNCHANGED <<relay, next, wrote, held, free, poisoned, pend, recv, acks, closed>>
  BY DEF RegisterDuplicate, AnnounceRaises, SendRaises, FailPending, slotVars, TransferInv,
         TypeOK
<1>2. /\ ack' \in [Jobs -> {"none", "ok", "failed"}]
      /\ watch' \in [Jobs -> {"none", "registered", "armed", "over"}]
      /\ \A k \in Jobs :
           /\ ack'[k] = ack[k] \/ (ack[k] = "none" /\ ack'[k] = "failed")
           /\ watch'[k] = watch[k] \/ (watch[k] = "registered" /\ watch'[k] = "armed")
  BY FailPendingEffect DEF RegisterDuplicate, AnnounceRaises, TransferInv
<1>3. SlotInv'
  BY <1>1, InvSlots, SlotsFrame
<1>4. TypeOK'
  BY <1>1, <1>2 DEF TransferInv, TypeOK
<1>5. DrainOK'
  BY <1>1, DrainKept DEF TransferInv, TypeOK
<1>6. AcksOK' /\ (poisoned => broken)'
  BY <1>1 DEF TransferInv, AcksOK
<1>7. ASSUME NEW k \in Jobs
      PROVE  JobOK(k)' /\ OwnAck(k)'
  <2>1. JobOK(k) /\ OwnAck(k)
    BY DEF TransferInv
  <2>2. CASE k = j
    BY <1>1, <1>2, <2>1, <2>2 DEF JobOK, OwnAck, Pending, TransferInv, TypeOK
  <2>3. CASE k # j
    BY <1>1, <1>2, <2>1, <2>3 DEF JobOK, OwnAck, Pending, TransferInv, TypeOK
  <2> QED BY <2>2, <2>3
<1> QED BY <1>3, <1>4, <1>5, <1>6, <1>7 DEF TransferInv, SlotInv

\* close() drops the sends under way and fails what is registered.
LEMMA StepClose ==
  ASSUME TransferInv, Close
  PROVE  TransferInv'
<1>1. /\ closed' = TRUE
      /\ st' = [k \in Jobs |-> IF st[k] \in {"queued", "writing", "sending"} THEN "dropped"
                               ELSE st[k]]
      /\ UNCHANGED <<relay, next, wrote, held, free, poisoned, pend, recv, acks, broken>>
  BY DEF Close, slotVars
<1>2. /\ ack' \in [Jobs -> {"none", "ok", "failed"}]
      /\ watch' \in [Jobs -> {"none", "registered", "armed", "over"}]
      /\ \A k \in Jobs :
           /\ ack'[k] = ack[k] \/ (ack[k] = "none" /\ ack'[k] = "failed")
           /\ watch'[k] = watch[k] \/ (watch[k] = "registered" /\ watch'[k] = "armed")
  BY FailPendingEffect DEF Close, TransferInv
<1>3. \A k \in Jobs : watch'[k] # "registered"
  BY DEF Close, FailPending, TransferInv, JobOK, Pending, TypeOK
<1>4. SlotInv'
  BY <1>1, InvSlots, SlotsFrame
<1>5. TypeOK'
  BY <1>1, <1>2 DEF TransferInv, TypeOK
<1>6. DrainOK'
  BY <1>1, DrainKept DEF TransferInv, TypeOK
<1>7. AcksOK' /\ (poisoned => broken)'
  BY <1>1 DEF TransferInv, AcksOK
<1>8. ASSUME NEW k \in Jobs
      PROVE  JobOK(k)' /\ OwnAck(k)'
  <2>1. JobOK(k) /\ OwnAck(k)
    BY DEF TransferInv
  <2>2. st'[k] = IF st[k] \in {"queued", "writing", "sending"} THEN "dropped" ELSE st[k]
    BY <1>1
  <2> QED BY <1>1, <1>2, <1>3, <2>1, <2>2 DEF JobOK, OwnAck, Pending
<1> QED BY <1>4, <1>5, <1>6, <1>7, <1>8 DEF TransferInv, SlotInv

\* send_to_stage returns: the watcher is armed, or was armed already and the
\* send raises.
LEMMA StepAnnounced ==
  ASSUME TransferInv, NEW j \in Jobs, Announced(j)
  PROVE  TransferInv'
<1>1. /\ st[j] = "sending"
      /\ \/ /\ watch[j] = "registered" /\ watch' = [watch EXCEPT ![j] = "armed"]
            /\ st' = [st EXCEPT ![j] = "sent"] /\ broken' = broken
         \/ /\ watch[j] # "registered" /\ watch' = watch
            /\ st' = [st EXCEPT ![j] = "failed"] /\ broken' = TRUE
      /\ UNCHANGED <<relay, next, wrote, held, free, poisoned, pend, ack, recv, acks, closed>>
  BY DEF Announced, SendRaises, slotVars
<1>2. SlotInv'
  BY <1>1, InvSlots, SlotsFrame
<1>3. TypeOK'
  BY <1>1 DEF TransferInv, TypeOK
<1>4. DrainOK'
  BY <1>1, DrainKept DEF TransferInv, TypeOK
<1>5. AcksOK' /\ (poisoned => broken)'
  BY <1>1 DEF TransferInv, AcksOK
<1>6. ASSUME NEW k \in Jobs
      PROVE  JobOK(k)' /\ OwnAck(k)'
  <2>1. JobOK(k) /\ OwnAck(k)
    BY DEF TransferInv
  <2>2. CASE k = j
    BY <1>1, <2>1, <2>2 DEF JobOK, OwnAck, Pending, TransferInv, TypeOK
  <2>3. CASE k # j
    BY <1>1, <2>1, <2>3 DEF JobOK, OwnAck, Pending, TransferInv, TypeOK
  <2> QED BY <2>2, <2>3
<1> QED BY <1>2, <1>3, <1>4, <1>5, <1>6 DEF TransferInv, SlotInv

\* The receiver's steps: the announcement reaches it, it reads and answers.
LEMMA StepReceive ==
  ASSUME TransferInv, NEW j \in Jobs, NEW ok \in BOOLEAN,
         Announce(j) \/ ReadBegins(j) \/ ReadEnds(j, ok)
  PROVE  TransferInv'
<1>1. /\ UNCHANGED <<relay, next, st, wrote, held, free, poisoned, pend, watch, ack, broken,
                     closed>>
      /\ \/ /\ st[j] = "sending" /\ recv[j] = "none"
            /\ recv' = [recv EXCEPT ![j] = "announced"] /\ acks' = acks
         \/ /\ recv[j] = "announced"
            /\ recv' = [recv EXCEPT ![j] = "reading"] /\ acks' = acks
         \/ /\ recv[j] = "reading"
            /\ recv' = [recv EXCEPT ![j] = IF ok THEN "done" ELSE "failed"]
            /\ acks' = acks \cup {[job |-> j, ok |-> ok]}
  BY DEF Announce, ReadBegins, ReadEnds, sendVars, slotVars, pendVars
<1>2. SlotInv'
  BY <1>1, InvSlots, SlotsFrame
<1>3. TypeOK'
  <2>1. recv' \in [Jobs -> {"none", "announced", "reading", "done", "failed"}]
    BY <1>1 DEF TransferInv, TypeOK
  <2>2. acks' \subseteq [job : Jobs, ok : BOOLEAN]
    BY <1>1 DEF TransferInv, TypeOK
  <2> QED BY <1>1, <2>1, <2>2 DEF TransferInv, TypeOK
<1>4. DrainOK'
  BY <1>1, DrainKept DEF TransferInv, TypeOK
<1>5. AcksOK'
  <2> SUFFICES ASSUME NEW m \in acks'
               PROVE  recv'[m.job] = IF m.ok THEN "done" ELSE "failed"
    BY DEF AcksOK
  <2>1. CASE m \in acks
    <3>1. recv[m.job] = IF m.ok THEN "done" ELSE "failed"
      BY <2>1 DEF TransferInv, AcksOK
    <3>2. m.job # j
      BY <1>1, <3>1
    <3>3. recv'[m.job] = recv[m.job]
      BY <1>1, <3>2 DEF TransferInv, TypeOK
    <3> QED BY <3>1, <3>3
  <2>2. CASE m \notin acks
    BY <1>1, <2>2 DEF TransferInv, TypeOK
  <2> QED BY <2>1, <2>2
<1>6. ASSUME NEW k \in Jobs
      PROVE  JobOK(k)' /\ OwnAck(k)'
  <2>1. JobOK(k) /\ OwnAck(k)
    BY DEF TransferInv
  <2>2. JobOK(k)'
    BY <1>1, <2>1 DEF JobOK, Pending, TransferInv, TypeOK
  <2>3. CASE k = j
    <3>1. recv[k] # "done"
      BY <1>1, <2>3
    <3>2. CASE recv[k] = "none" \/ recv[k] = "announced" \/ recv[k] = "reading"
      BY <1>1, <2>1, <2>2, <3>1 DEF OwnAck
    <3> QED BY <1>1, <2>3, <3>2
  <2>4. CASE k # j
    <3>1. recv'[k] = recv[k]
      BY <1>1, <2>4 DEF TransferInv, TypeOK
    <3>2. (\A m \in acks : m.job # k) => \A m \in acks' : m.job # k
      BY <1>1, <2>4
    <3> QED BY <1>1, <2>1, <2>2, <3>1, <3>2 DEF OwnAck
  <2> QED BY <2>2, <2>3, <2>4
<1>7. (poisoned => broken)'
  BY <1>1 DEF TransferInv
<1> QED BY <1>2, <1>3, <1>4, <1>5, <1>6, <1>7 DEF TransferInv, SlotInv

\* An acknowledgement fills the future registered under its object id.  While
\* the relay has not failed, that is the future of the job it was sent for:
\* a transfer that is over has used up its own acknowledgement.
LEMMA StepAck ==
  ASSUME TransferInv, NEW m \in acks, AckTransfer(m)
  PROVE  TransferInv'
<1> DEFINE j == pend[ObjectId[m.job]]
<1>0. m \in [job : Jobs, ok : BOOLEAN] /\ m.job \in Jobs /\ m.ok \in BOOLEAN
  BY DEF TransferInv, TypeOK
<1>1. /\ UNCHANGED <<relay, next, st, wrote, held, free, poisoned, pend, watch, recv, broken,
                     closed>>
      /\ acks' = acks \ {m}
      /\ ack' = IF j = NoJob \/ (j # NoJob /\ ack[j] # "none") THEN ack
                ELSE [ack EXCEPT ![j] = IF m.ok THEN "ok" ELSE "failed"]
  BY DEF AckTransfer, sendVars, slotVars
<1>2. SlotInv'
  BY <1>1, InvSlots, SlotsFrame
<1>3. j \in Jobs \cup {NoJob}
  BY <1>0 DEF TransferInv, TypeOK, Ids
<1>4. TypeOK'
  BY <1>1, <1>3 DEF TransferInv, TypeOK
<1>5. DrainOK'
  BY <1>1, DrainKept DEF TransferInv, TypeOK
<1>6. AcksOK' /\ (poisoned => broken)'
  BY <1>1 DEF TransferInv, AcksOK
<1>7. ASSUME NEW k \in Jobs
      PROVE  JobOK(k)' /\ OwnAck(k)'
  <2>1. JobOK(k) /\ OwnAck(k)
    BY DEF TransferInv
  <2>2. JobOK(k)'
    BY <1>1, <2>1 DEF JobOK, Pending
  <2>3. CASE ack'[k] = ack[k]
    <3>1. \A n \in acks' : n \in acks
      BY <1>1
    <3>2. UNCHANGED <<relay, poisoned, watch, recv>>
      BY <1>1
    <3> QED BY <2>1, <2>2, <2>3, <3>1, <3>2 DEF OwnAck
  <2>4. CASE ack'[k] # ack[k]
    <3>1. k = j /\ ack[k] = "none" /\ ack'[k] = IF m.ok THEN "ok" ELSE "failed"
      BY <1>1, <2>4 DEF TransferInv, TypeOK
    <3>2. watch[k] # "over" \/ poisoned \/ relay # "cuda_ipc"
      BY <2>1, <3>1 DEF OwnAck
    <3>3. CASE relay = "cuda_ipc" /\ ~poisoned /\ m.ok
      <4>1. recv[m.job] = "done" /\ JobOK(m.job) /\ OwnAck(m.job)
        BY <1>0, <3>3 DEF TransferInv, AcksOK
      <4>2. watch[m.job] \in {"registered", "armed"}
        BY <1>0, <3>3, <4>1 DEF JobOK, OwnAck, TransferInv, TypeOK
      <4>3. m.job = k
        BY <3>1, <4>1, <4>2 DEF JobOK, Pending
      <4>4. \A n \in acks : n.job = k => n = m
        <5> SUFFICES ASSUME NEW n \in acks, n.job = k PROVE n = m
          OBVIOUS
        <5>1. n \in [job : Jobs, ok : BOOLEAN]
          BY DEF TransferInv, TypeOK
        <5>2. n.ok = TRUE /\ m.ok = TRUE
          BY <3>3, <4>1, <4>3, <5>1, <1>0 DEF TransferInv, AcksOK
        <5> QED BY <1>0, <4>3, <5>1, <5>2
      <4> QED BY <1>1, <2>2, <3>1, <3>2, <3>3, <4>1, <4>3, <4>4 DEF OwnAck
    <3>4. CASE ~(relay = "cuda_ipc" /\ ~poisoned /\ m.ok)
      BY <1>1, <2>2, <3>1, <3>2, <3>4 DEF OwnAck
    <3> QED BY <3>3, <3>4
  <2> QED BY <2>2, <2>3, <2>4
<1> QED BY <1>2, <1>4, <1>5, <1>6, <1>7 DEF TransferInv, SlotInv

\* The watcher ends well: the slots come back and the entry is removed.
LEMMA StepWatchSucceeds ==
  ASSUME TransferInv, NEW j \in Jobs, WatchSucceeds(j)
  PROVE  TransferInv'
<1>1. /\ watch[j] = "armed" /\ ack[j] = "ok"
      /\ held' = [held EXCEPT ![j] = {}]
      /\ pend' = [pend EXCEPT ![ObjectId[j]] = NoJob]
      /\ watch' = [watch EXCEPT ![j] = "over"]
      /\ UNCHANGED <<relay, next, st, wrote, poisoned, ack, recv, acks, broken, closed>>
  BY DEF WatchSucceeds, Release, sendVars
<1>2. SlotInv'
  BY InvSlots, SlotsReleased DEF WatchSucceeds
<1>3. TypeOK'
  BY <1>1, <1>2 DEF TransferInv, TypeOK, SlotInv
<1>4. DrainOK'
  BY <1>1, DrainKept DEF TransferInv, TypeOK
<1>5. AcksOK' /\ (poisoned => broken)'
  BY <1>1 DEF TransferInv, AcksOK
<1>6. ASSUME NEW k \in Jobs
      PROVE  JobOK(k)' /\ OwnAck(k)'
  <2>1. JobOK(k) /\ OwnAck(k) /\ JobOK(j)
    BY DEF TransferInv
  <2>2. ObjectId[k] \in Ids /\ ObjectId[j] \in Ids /\ pend[ObjectId[j]] = j
    BY <1>1, <2>1 DEF Ids, JobOK, Pending
  <2>3. OwnAck(k)'
    BY <1>1, <2>1 DEF OwnAck, TransferInv, TypeOK
  <2>4. CASE k = j
    BY <1>1, <2>1, <2>2, <2>3, <2>4, JobsAssumption DEF JobOK, Pending, TransferInv, TypeOK
  <2>5. CASE k # j
    BY <1>1, <2>1, <2>2, <2>3, <2>5, JobsAssumption DEF JobOK, Pending, TransferInv, TypeOK
  <2> QED BY <2>4, <2>5
<1> QED BY <1>2, <1>3, <1>4, <1>5, <1>6 DEF TransferInv, SlotInv

\* The watcher fails: shm gives the credits back, cuda_ipc keeps the slots
\* and fails the relay.
LEMMA StepWatchFails ==
  ASSUME TransferInv, NEW j \in Jobs, WatchFails(j)
  PROVE  TransferInv'
<1>1. /\ watch[j] = "armed" /\ ack[j] # "ok"
      /\ pend' = [pend EXCEPT ![ObjectId[j]] = NoJob]
      /\ watch' = [watch EXCEPT ![j] = "over"]
      /\ ack' = [ack EXCEPT ![j] = "failed"]
      /\ broken' = TRUE
      /\ UNCHANGED <<relay, next, st, wrote, recv, acks, closed>>
      /\ \/ relay = "shm" /\ held' = [held EXCEPT ![j] = {}] /\ poisoned' = poisoned
         \/ relay = "cuda_ipc" /\ poisoned' = TRUE /\ held' = held /\ free' = free
  BY DEF WatchFails, ReleaseFailed, Release, sendVars
<1>2. SlotInv'
  BY InvSlots, SlotsReleased, SlotsFrame DEF WatchFails, ReleaseFailed
<1>3. TypeOK'
  BY <1>1, <1>2 DEF TransferInv, TypeOK, SlotInv
<1>4. DrainOK'
  BY <1>1, DrainKept DEF TransferInv, TypeOK
<1>5. AcksOK' /\ (poisoned => broken)'
  BY <1>1 DEF TransferInv, AcksOK
<1>6. ASSUME NEW k \in Jobs
      PROVE  JobOK(k)' /\ OwnAck(k)'
  <2>1. JobOK(k) /\ OwnAck(k) /\ JobOK(j)
    BY DEF TransferInv
  <2>2. ObjectId[k] \in Ids /\ ObjectId[j] \in Ids /\ pend[ObjectId[j]] = j
    BY <1>1, <2>1 DEF Ids, JobOK, Pending
  <2>3. OwnAck(k)'
    BY <1>1 DEF OwnAck
  <2>4. CASE k = j
    BY <1>1, <2>1, <2>2, <2>3, <2>4, JobsAssumption DEF JobOK, Pending, TransferInv, TypeOK
  <2>5. CASE k # j
    BY <1>1, <2>1, <2>2, <2>3, <2>5, JobsAssumption DEF JobOK, Pending, TransferInv, TypeOK
  <2> QED BY <2>4, <2>5
<1> QED BY <1>2, <1>3, <1>4, <1>5, <1>6 DEF TransferInv, SlotInv

\* Every step of the engine, of its watchers and of the receivers keeps the
\* invariant.
LEMMA TransferStep == TransferInv /\ [Next]_vars => TransferInv'
<1> SUFFICES ASSUME TransferInv, [Next]_vars PROVE TransferInv'
  OBVIOUS
<1>1. CASE UNCHANGED vars
  BY <1>1 DEF vars, sendVars, slotVars, pendVars, TransferInv, TypeOK, SlotsExclusive, AllSlots,
              DrainOK, AcksOK, JobOK, Pending, OwnAck
<1>2. CASE DrainItem \/ Close
  BY <1>2, StepDrain, StepClose
<1>3. ASSUME NEW j \in Jobs, Worker(j) \/ Watcher(j) \/ ReadBegins(j)
      PROVE  TransferInv'
  BY <1>3, StepSend, StepWrite, StepRegister, StepSendFails, StepAnnounced, StepReceive,
     StepWatchSucceeds, StepWatchFails DEF Worker, Watcher
<1>4. ASSUME NEW j \in Jobs, NEW ok \in BOOLEAN, ReadEnds(j, ok)
      PROVE  TransferInv'
  BY <1>4, StepReceive
<1>5. ASSUME NEW m \in acks, AckTransfer(m)
      PROVE  TransferInv'
  BY <1>5, StepAck
<1> QED BY <1>1, <1>2, <1>3, <1>4, <1>5 DEF Next

\* The engine starts with every slot free and nothing sent.
LEMMA TransferInit == Init => TransferInv
<1> SUFFICES ASSUME Init PROVE TransferInv
  OBVIOUS
<1>1. Len(Items) \in Nat /\ \A j \in Jobs : Len(Sizes[j]) \in Nat
  BY ItemsAssumption, SizesAssumption, LenProperties
<1>2. TypeOK
  <2>1. next \in 1..(Len(Items) + 1)
    BY <1>1 DEF Init
  <2>2. wrote \in [Jobs -> Nat] /\ \A j \in Jobs : wrote[j] <= Len(Sizes[j])
    BY <1>1 DEF Init
  <2>3. pend \in [Ids -> Jobs \cup {NoJob}]
    BY DEF Init
  <2> QED BY <2>1, <2>2, <2>3 DEF Init, TypeOK
<1>3. SlotsExclusive /\ AllSlots /\ AcksOK /\ (poisoned => broken)
  BY DEF Init, SlotsExclusive, AllSlots, AcksOK
<1>4. DrainOK
  <2> SUFFICES ASSUME NEW i \in 1..Len(Items), NEW j \in Items[i] PROVE st[j] = "idle"
    BY DEF DrainOK
  <2>1. j \in Jobs
    BY ItemsAssumption, ElementOfSeq
  <2> QED BY <2>1 DEF Init
<1>5. ASSUME NEW j \in Jobs PROVE JobOK(j) /\ OwnAck(j)
  <2>1. ObjectId[j] \in Ids
    BY DEF Ids
  <2> QED BY <2>1, JobsAssumption DEF Init, JobOK, Pending, OwnAck
<1> QED BY <1>2, <1>3, <1>4, <1>5 DEF TransferInv

\* In every behaviour of the engine the invariant holds.
LEMMA TransferInvariant == Spec => []TransferInv
BY TransferInit, TransferStep, PTL DEF Spec
-----------------------------------------------------------------------------
\* _ContiguousSlotAllocator and the shm semaphore: a slot belongs to one
\* transfer or to the free list, never to two of them.
THEOREM SlotsStayExclusive == Spec => []SlotsExclusive
<1>1. TransferInv => SlotsExclusive
  BY DEF TransferInv
<1> QED BY <1>1, TransferInvariant, PTL

\* CudaIpcPutOperation, ack_transfer: unless the relay has failed, the slots
\* that a receiver reads or failed to read are held, whatever acknowledgements
\* of transfers with the same object id arrive.
THEOREM SlotsKeptWhileRead == Spec => []NoReuseWhileRead
<1>1. ASSUME TransferInv, NEW j \in Jobs, relay = "cuda_ipc", ~poisoned,
             recv[j] \in {"reading", "failed"}
      PROVE  wrote[j] = Len(Sizes[j]) /\ held[j] # {}
  <2>1. JobOK(j) /\ OwnAck(j)
    BY <1>1 DEF TransferInv
  <2>2. watch[j] # "none" /\ watch[j] # "over"
    BY <1>1, <2>1 DEF JobOK, OwnAck
  <2>3. wrote[j] > 0
    <3>1. Sizes[j] \in Seq(1..NumSlots) /\ Sizes[j] # <<>>
      BY SizesAssumption
    <3>2. Len(Sizes[j]) \in Nat /\ Len(Sizes[j]) # 0
      BY <3>1, LenProperties, EmptySeq
    <3> QED BY <2>1, <2>2, <3>2 DEF JobOK
  <2> QED BY <2>1, <2>2, <2>3 DEF JobOK
<1>2. TransferInv => NoReuseWhileRead
  BY <1>1 DEF NoReuseWhileRead
<1> QED BY <1>2, TransferInvariant, PTL

\* _watch_pending, _fail_pending, close(): while no task of the stage has
\* crashed, no slot is lost, and a slot that is not free is held for a send
\* under way or a transfer that awaits its acknowledgement.
THEOREM NoSlotLost == Spec => []SlotsAccountedFor
<1>1. ASSUME TransferInv, ~broken, ~closed
      PROVE  free \cup UNION {held[j] : j \in Jobs} = Slots
  BY <1>1 DEF TransferInv, TypeOK, AllSlots
<1>2. ASSUME TransferInv, ~broken, ~closed, NEW j \in Jobs, held[j] # {}
      PROVE  st[j] \in {"writing", "sending"} \/ watch[j] \in {"registered", "armed"}
  BY <1>2 DEF TransferInv, TypeOK, JobOK
<1>3. TransferInv => SlotsAccountedFor
  BY <1>1, <1>2 DEF SlotsAccountedFor
<1> QED BY <1>3, TransferInvariant, PTL
=============================================================================
