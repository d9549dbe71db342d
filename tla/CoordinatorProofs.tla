-------------------------- MODULE CoordinatorProofs --------------------------
(***************************************************************************)
(* Theorems about Coordinator, for any number of calls, ids and stages:    *)
(*   - type correctness, and partial results that belong to their request  *)
(*     (whatever the ids);                                                 *)
(*   - under unique ids, a waiter that can always be reached (WaiterInv);  *)
(*   - under unique ids, tables that leak nothing and aborts that are      *)
(*     final.  They rest on LifeInv, which ties a call to its future, its  *)
(*     future to the tracked request, and what a stream's queue holds to   *)
(*     what the coordinator has collected;                                 *)
(*   - under unique ids, streams that lose no chunk (ChunkInv);            *)
(*   - under unique ids, the refinement of RequestLifecycle, from LifeInv. *)
(***************************************************************************)
EXTENDS CoordinatorRefinement, FiniteSetTheorems, TLAPS

(* What the shared updates do to the types.                                *)

\* The finally blocks of submit() and stream() only remove entries.
LEMMA PopOnExitType ==
  ASSUME TypeOK, NEW c \in Calls, PopOnExit(c)
  PROVE  /\ futureOf' \in [Ids -> Calls \cup {NoCall}]
         /\ queueOf' \in [Ids -> Calls \cup {NoCall}]
BY DEF TypeOK, CoordTypeOK, CallTypeOK, PopOnExit, Pop

\* Putting a message in a registered queue leaves well-formed queues.
LEMMA PutType ==
  ASSUME TypeOK, NEW id \in Ids, NEW msg \in QueueMsg, Put(id, msg)
  PROVE  queue' \in [Calls -> Seq(QueueMsg)]
<1>1. CASE queueOf[id] = NoCall
  BY <1>1 DEF TypeOK, CallTypeOK, Put
<1>2. CASE queueOf[id] # NoCall
  <2>1. queueOf[id] \in Calls
    BY <1>2 DEF TypeOK, CoordTypeOK
  <2>2. Append(queue[queueOf[id]], msg) \in Seq(QueueMsg)
    BY <2>1 DEF TypeOK, CallTypeOK
  <2> QED
    BY <1>2, <2>1, <2>2 DEF TypeOK, CallTypeOK, Put
<1> QED BY <1>1, <1>2

\* Taking a message off a stage's socket yields a stage message.
LEMMA ReceiveType ==
  ASSUME TypeOK, NEW t \in Stages, NEW kinds, Receive(t, kinds)
  PROVE  /\ chan' \in [Stages -> Seq(StageMsg)]
         /\ running' \in {"running", "last", "stopped"}
         /\ Head(chan[t]) \in StageMsg
         /\ Head(chan[t]).id \in Ids
<1>1. chan[t] \in Seq(StageMsg) /\ chan[t] # <<>>
  BY DEF TypeOK, StageTypeOK, Receive
<1>2. Head(chan[t]) \in StageMsg /\ Tail(chan[t]) \in Seq(StageMsg)
  BY <1>1
<1>3. Head(chan[t]).id \in Ids
  BY <1>2 DEF StageMsg
<1> QED
  BY <1>2, <1>3 DEF TypeOK, StageTypeOK, CoordTypeOK, Receive

\* Settling a future leaves every future in a known state.
LEMMA SettleType ==
  ASSUME TypeOK, NEW id \in Ids, NEW res \in SUBSET Stages
  PROVE  /\ RejectCompletionFuture(id) =>
              fut' \in [Calls -> {"none", "pending", "result", "error", "cancelled"}]
         /\ ResolveCompletionFuture(id, res) =>
              /\ fut' \in [Calls -> {"none", "pending", "result", "error", "cancelled"}]
              /\ value' \in [Calls -> SUBSET Stages]
BY DEF TypeOK, CallTypeOK, RejectCompletionFuture, ResolveCompletionFuture

\* Forgetting a request leaves well-formed request tables.
LEMMA UntrackType ==
  ASSUME TypeOK, NEW id \in Ids, Untrack(id)
  PROVE  /\ reqState' \in [Ids -> {"none", "PENDING", "RUNNING"}]
         /\ terminals' \in [Ids -> SUBSET Stages]
         /\ partials' \in [Ids -> SUBSET Stages]
BY DEF TypeOK, CoordTypeOK, Untrack

\* The messages the coordinator forwards are queue messages.
LEMMA MsgType ==
  /\ FailMsg("coordinator") \in QueueMsg
  /\ \A t \in Stages : FailMsg(t) \in QueueMsg
  /\ \A t \in Stages : [t |-> "chunk", from |-> t] \in QueueMsg
  /\ \A t \in Stages : [t |-> "ok", from |-> t] \in QueueMsg
BY DEF QueueMsg, FailMsg

\* A call that goes on once its request is submitted waits as its kind does.
LEMMA ProceedType ==
  ASSUME TypeOK, NEW c \in Calls, NEW ts \in SUBSET Stages, NEW future,
         kind[c] = "submit" => future \in Calls, Proceed(c, ts, future)
  PROVE  /\ expected' \in [Calls -> SUBSET Stages] /\ pc' \in [Calls -> {"idle", "done"} \cup Waiting]
         /\ waitsOn' \in [Calls -> Calls \cup {NoCall}]
         /\ \A d \in Calls : pc'[d] = "awaiting" => waitsOn'[d] \in Calls
<1>1. /\ pc \in [Calls -> {"idle", "done"} \cup Waiting] /\ waitsOn \in [Calls -> Calls \cup {NoCall}]
      /\ expected \in [Calls -> SUBSET Stages]
      /\ \A d \in Calls : pc[d] = "awaiting" => waitsOn[d] \in Calls
  BY DEF TypeOK, CallTypeOK
<1>2. expected' \in [Calls -> SUBSET Stages]
  BY <1>1 DEF Proceed
<1>3. CASE kind[c] = "submit"
  BY <1>1, <1>2, <1>3 DEF Proceed, Waiting
<1>4. CASE kind[c] # "submit"
  BY <1>1, <1>2, <1>4 DEF Proceed, Waiting
<1> QED BY <1>3, <1>4

\* The type invariant is inductive: Init establishes it and every step of the
\* callers, the completion loop, abort(), fail_pending_requests and the
\* stages keeps it.
LEMMA TypeStep == TypeOK /\ [Next]_vars => TypeOK'
<1> SUFFICES ASSUME TypeOK, [Next]_vars PROVE TypeOK'
  OBVIOUS
<1> USE DEF TypeOK, CoordTypeOK, CallTypeOK, StageTypeOK, Waiting
<1>1. ASSUME NEW c \in Calls, AlreadyStreaming(c) PROVE TypeOK'
  BY <1>1 DEF AlreadyStreaming, Return, coordVars, stageVars
<1>2. ASSUME NEW c \in Calls, NEW why \in {"fatal", "exists", "resolver"},
             RejectCall(c, why)
      PROVE  TypeOK'
  BY <1>2, PopOnExitType DEF RejectCall, Return, stageVars
<1>3. ASSUME NEW c \in Calls, NEW ts \in Resolutions, SubmitRequest(c, ts)
      PROVE  TypeOK'
  <2>1. ts \in SUBSET Stages /\ rid[c] \in Ids
    BY ResolutionsAssumption
  <2>2. CoordTypeOK'
    BY <1>3, <2>1 DEF SubmitRequest, Admit, Register
  <2>3. CallTypeOK'
    <3>1. Proceed(c, ts, c)
      BY <1>3 DEF SubmitRequest
    <3> QED BY <1>3, <2>1, <3>1, ProceedType DEF SubmitRequest, Admit
  <2>4. StageTypeOK'
    BY <1>3, <2>1 DEF SubmitRequest
  <2> QED BY <2>2, <2>3, <2>4
<1>4. ASSUME NEW c \in Calls, NEW ts \in Resolutions, SubmitSuspends(c, ts)
      PROVE  TypeOK'
  <2>1. ts \in SUBSET Stages /\ rid[c] \in Ids
    BY ResolutionsAssumption
  <2> QED
    BY <1>4, <2>1 DEF SubmitSuspends, Admit, Register, stageVars
<1>5. ASSUME NEW c \in Calls, NEW ts \in Resolutions, SubmitFails(c, ts)
      PROVE  TypeOK'
  <2>1. ts \in SUBSET Stages /\ rid[c] \in Ids
    BY ResolutionsAssumption
  <2> QED
    BY <1>5, <2>1, PopOnExitType DEF SubmitFails, Admit, Return, stageVars
<1>6. ASSUME NEW c \in Calls, SendFlushed(c) PROVE TypeOK'
  <2>1. Append(entry, rid[c]) \in Seq(Ids)
    OBVIOUS
  <2> QED
    BY <1>6, <2>1 DEF SendFlushed, coordVars
<1>7. ASSUME NEW c \in Calls, SubmitResumes(c) PROVE TypeOK'
  <2>1. CoordTypeOK'
    BY <1>7, PopOnExitType DEF SubmitResumes
  <2>2. CallTypeOK'
    <3>1. rid[c] \in Ids /\ terminals[rid[c]] \in SUBSET Stages
      OBVIOUS
    <3>2. futureOf[rid[c]] # NoCall => futureOf[rid[c]] \in Calls
      BY <3>1
    <3>3. CASE Tracked(rid[c]) /\ (kind[c] = "submit" => futureOf[rid[c]] # NoCall)
      <4>1. /\ Proceed(c, terminals[rid[c]], futureOf[rid[c]])
            /\ UNCHANGED <<outcome, kind, rid, fut, value, queue, completed, yielded>>
        BY <1>7, <3>3 DEF SubmitResumes
      <4> QED BY <3>1, <3>2, <3>3, <4>1, ProceedType
    <3>4. CASE ~(Tracked(rid[c]) /\ (kind[c] = "submit" => futureOf[rid[c]] # NoCall))
      BY <1>7, <3>4 DEF SubmitResumes, Return
    <3> QED BY <3>3, <3>4
  <2>3. StageTypeOK'
    BY <1>7 DEF SubmitResumes, stageVars
  <2> QED BY <2>1, <2>2, <2>3
<1>8. ASSUME NEW c \in Calls, AwaitFuture(c) PROVE TypeOK'
  <2>1. CoordTypeOK'
    BY <1>8, PopOnExitType DEF AwaitFuture
  <2>2. waitsOn[c] \in Calls /\ value[waitsOn[c]] \in SUBSET Stages
    BY <1>8 DEF AwaitFuture
  <2>3. CallTypeOK'
    BY <1>8, <2>2 DEF AwaitFuture, Return
  <2>4. StageTypeOK'
    BY <1>8 DEF AwaitFuture, stageVars
  <2> QED BY <2>1, <2>3, <2>4
<1>9. ASSUME NEW c \in Calls, DrainQueue(c) PROVE TypeOK'
  <2> DEFINE msg == Head(queue[c])
  <2>1. CoordTypeOK'
    BY <1>9, PopOnExitType DEF DrainQueue
  <2>2. msg \in QueueMsg /\ Tail(queue[c]) \in Seq(QueueMsg)
    BY <1>9 DEF DrainQueue
  <2>3. queue' \in [Calls -> Seq(QueueMsg)]
    BY <1>9, <2>2 DEF DrainQueue
  <2>4. msg.t = "ok" \/ msg.t = "chunk" => msg.from \in Stages
    BY <2>2 DEF QueueMsg
  <2>5. UNCHANGED <<kind, rid, fut, value, waitsOn, expected, stageVars, abortOk>>
    BY <1>9 DEF DrainQueue
  <2>6. CASE /\ msg.t = "chunk"
             /\ yielded' = [yielded EXCEPT ![c][msg.from] = @ + 1]
             /\ UNCHANGED <<pc, outcome, completed>>
    <3>1. [yielded[c] EXCEPT ![msg.from] = @ + 1] \in [Stages -> Nat]
      BY <2>4, <2>6
    <3>2. yielded' \in [Calls -> [Stages -> Nat]]
      BY <2>6, <3>1
    <3> QED BY <2>1, <2>3, <2>5, <2>6, <3>2 DEF stageVars
  <2>7. CASE msg.t = "fail" /\ Return(c, "error") /\ UNCHANGED <<yielded, completed>>
    BY <2>1, <2>3, <2>5, <2>7 DEF Return, stageVars
  <2>8. CASE /\ msg.t = "ok"
             /\ completed' = [completed EXCEPT ![c] = @ \cup {msg.from}]
             /\ Return(c, "ok") \/ UNCHANGED <<pc, outcome>>
             /\ UNCHANGED yielded
    <3>1. completed' \in [Calls -> SUBSET Stages]
      BY <2>4, <2>8
    <3>2. CallTypeOK'
      BY <2>3, <2>5, <2>8, <3>1 DEF Return
    <3> QED BY <2>1, <2>5, <3>2 DEF stageVars
  <2> QED BY <1>9, <2>6, <2>7, <2>8 DEF DrainQueue
<1>10. ASSUME NEW c \in Calls, CancelCall(c) PROVE TypeOK'
  BY <1>10, PopOnExitType DEF CancelCall, Return, stageVars
<1>11. ASSUME NEW id \in Ids, Abort(id) PROVE TypeOK'
  BY <1>11, SettleType, UntrackType, PutType, MsgType DEF Abort, BroadcastAbort
<1>12. ASSUME NEW t \in Stages, HandleStream(t) PROVE TypeOK'
  BY <1>12, ReceiveType, PutType, MsgType DEF HandleStream
<1>13. ASSUME NEW t \in Stages, HandleFailure(t) PROVE TypeOK'
  BY <1>13, ReceiveType, SettleType, UntrackType, PutType, MsgType
     DEF HandleFailure, BroadcastAbort
<1>14. ASSUME NEW t \in Stages, HandleSuccess(t) PROVE TypeOK'
  <2> DEFINE id == Head(chan[t]).id
             have == partials[id] \cup {t}
  <2>1. id \in Ids /\ chan' \in [Stages -> Seq(StageMsg)]
        /\ running' \in {"running", "last", "stopped"}
    BY <1>14, ReceiveType DEF HandleSuccess
  <2>2. queue' \in [Calls -> Seq(QueueMsg)]
    BY <1>14, <2>1, PutType, MsgType DEF HandleSuccess
  <2>3. have \in SUBSET Stages
    BY <2>1
  <2>4. CoordTypeOK'
    BY <1>14, <2>1, <2>3, UntrackType DEF HandleSuccess
  <2>5. CallTypeOK'
    BY <1>14, <2>1, <2>2, <2>3, SettleType DEF HandleSuccess
  <2>6. StageTypeOK'
    BY <1>14, <2>1 DEF HandleSuccess
  <2> QED BY <2>4, <2>5, <2>6
<1>15. ASSUME NEW t \in Stages, IgnoreCompletion(t) PROVE TypeOK'
  BY <1>15, ReceiveType DEF IgnoreCompletion, callVars
<1>16. CASE FailPendingRequests
  <2>1. ASSUME NEW c \in Calls
        PROVE  Append(queue[c], FailMsg("coordinator")) \in Seq(QueueMsg)
    BY MsgType
  <2> QED
    BY <1>16, <2>1 DEF FailPendingRequests, stageVars
<1>17. ASSUME NEW ts \in SUBSET Stages, PipelineAccepts(ts) PROVE TypeOK'
  <2>1. Head(entry) \in Ids /\ Tail(entry) \in Seq(Ids)
    BY <1>17 DEF PipelineAccepts
  <2> QED
    BY <1>17, <2>1 DEF PipelineAccepts, coordVars, callVars
<1>18. ASSUME NEW t \in Stages, NEW id \in Ids, StageStreams(t, id) PROVE TypeOK'
  <2>1. [t |-> "chunk", from |-> t, id |-> id] \in StageMsg
    BY DEF StageMsg
  <2>2. Append(chan[t], [t |-> "chunk", from |-> t, id |-> id]) \in Seq(StageMsg)
    BY <2>1
  <2>3. StageTypeOK'
    BY <1>18, <2>2 DEF StageStreams
  <2> QED
    BY <1>18, <2>3 DEF StageStreams, coordVars, callVars
<1>19. ASSUME NEW t \in Stages, NEW id \in Ids, NEW how \in {"ok", "fail"},
              StageFinishes(t, id, how)
       PROVE  TypeOK'
  <2>1. [t |-> how, from |-> t, id |-> id] \in StageMsg
    BY DEF StageMsg
  <2>2. Append(chan[t], [t |-> how, from |-> t, id |-> id]) \in Seq(StageMsg)
    BY <2>1
  <2> QED
    BY <1>19, <2>2 DEF StageFinishes, coordVars, callVars
<1>20. ASSUME NEW t \in Stages, NEW id \in Ids, StageAborts(t, id) PROVE TypeOK'
  BY <1>20 DEF StageAborts, coordVars, callVars
<1>21. CASE UNCHANGED vars
  BY <1>21 DEF vars, coordVars, callVars, stageVars
<1> HIDE DEF TypeOK
<1> QED
  BY <1>1, <1>2, <1>3, <1>4, <1>5, <1>6, <1>7, <1>8, <1>9, <1>10, <1>11, <1>12,
     <1>13, <1>14, <1>15, <1>16, <1>17, <1>18, <1>19, <1>20, <1>21
     DEF Next, CallStep, LoopStep, StageStep

\* Every reachable state of the coordinator, its callers and the stages has
\* the shape TypeOK gives it.
THEOREM TypeCorrect == Spec => []TypeOK
<1>1. Init => TypeOK
  <2> SUFFICES ASSUME Init PROVE TypeOK
    OBVIOUS
  <2>1. CoordTypeOK
    BY DEF Init, CoordTypeOK
  <2>2. CallTypeOK
    <3>1. <<>> \in Seq(QueueMsg) /\ 0 \in Nat
      OBVIOUS
    <3> QED BY <3>1 DEF Init, CallTypeOK
  <2>3. StageTypeOK
    <3>1. <<>> \in Seq(StageMsg) /\ <<>> \in Seq(Ids) /\ 0 \in Nat
      OBVIOUS
    <3> QED BY <3>1 DEF Init, StageTypeOK
  <2> QED BY <2>1, <2>2, <2>3 DEF TypeOK
<1> QED
  BY <1>1, TypeStep, PTL DEF Spec

-----------------------------------------------------------------------------
(* Partial results, under any choice of ids.                               *)

\* A step that neither touches the collected results nor ends or replaces a
\* tracked request keeps PartialsBelongToRequest.
LEMMA PartialsFrame ==
  ASSUME PartialsBelongToRequest, UNCHANGED <<partials, terminals>>,
         \A id \in Ids : Tracked(id) => Tracked(id)'
  PROVE  PartialsBelongToRequest'
BY DEF PartialsBelongToRequest

\* Forgetting a request forgets what was collected for it.
LEMMA PartialsUntrack ==
  ASSUME TypeOK, PartialsBelongToRequest, NEW id \in Ids, Untrack(id)
  PROVE  PartialsBelongToRequest'
BY DEF TypeOK, CoordTypeOK, PartialsBelongToRequest, Untrack, Tracked

\* Recording a request that is not tracked starts with nothing collected.
LEMMA PartialsAdmit ==
  ASSUME TypeOK, PartialsBelongToRequest, NEW c \in Calls,
         NEW ts \in Resolutions, NEW state \in {"PENDING", "RUNNING"},
         Admit(c, ts, state), UNCHANGED partials
  PROVE  PartialsBelongToRequest'
BY DEF TypeOK, CoordTypeOK, CallTypeOK, PartialsBelongToRequest, Admit, Tracked

\* What the coordinator holds for a multi-terminal request belongs to the
\* request now tracked under the id and lacks one of its terminals, even when
\* clients reuse ids, sends are suspended and stale completions arrive.
THEOREM PartialsSafe == Spec => []PartialsBelongToRequest
<1>1. Init => PartialsBelongToRequest
  BY DEF Init, PartialsBelongToRequest
<1>2. TypeOK /\ PartialsBelongToRequest /\ [Next]_vars => PartialsBelongToRequest'
  <2> SUFFICES ASSUME TypeOK, PartialsBelongToRequest, [Next]_vars
               PROVE  PartialsBelongToRequest'
    OBVIOUS
  <2>1. ASSUME NEW c \in Calls, NEW why \in {"fatal", "exists", "resolver"},
               AlreadyStreaming(c) \/ RejectCall(c, why) \/ SendFlushed(c)
                 \/ AwaitFuture(c) \/ DrainQueue(c) \/ CancelCall(c)
        PROVE  PartialsBelongToRequest'
    <3>1. UNCHANGED <<reqState, partials, terminals>>
      BY <2>1 DEF AlreadyStreaming, RejectCall, SendFlushed, AwaitFuture,
                  DrainQueue, CancelCall, coordVars
    <3> QED BY <3>1, PartialsFrame DEF Tracked
  <2>2. ASSUME NEW c \in Calls, NEW ts \in Resolutions,
               SubmitRequest(c, ts) \/ SubmitSuspends(c, ts) \/ SubmitFails(c, ts)
        PROVE  PartialsBelongToRequest'
    BY <2>2, PartialsAdmit DEF SubmitRequest, SubmitSuspends, SubmitFails
  <2>3. ASSUME NEW c \in Calls, SubmitResumes(c) PROVE PartialsBelongToRequest'
    <3>1. \A id \in Ids : Tracked(id) => Tracked(id)'
      BY <2>3 DEF SubmitResumes, Tracked, TypeOK, CoordTypeOK, CallTypeOK
    <3> QED BY <2>3, <3>1, PartialsFrame DEF SubmitResumes
  <2>4. ASSUME NEW id \in Ids, Abort(id) PROVE PartialsBelongToRequest'
    BY <2>4, PartialsUntrack DEF Abort
  <2>5. ASSUME NEW t \in Stages, HandleFailure(t) PROVE PartialsBelongToRequest'
    BY <2>5, ReceiveType, PartialsUntrack DEF HandleFailure
  <2>6. ASSUME NEW t \in Stages, HandleSuccess(t) PROVE PartialsBelongToRequest'
    <3> DEFINE msg == Head(chan[t])
               want == terminals[msg.id]
               have == partials[msg.id] \cup {t}
    <3>1. msg.id \in Ids /\ Tracked(msg.id)
      BY <2>6, ReceiveType DEF HandleSuccess, Ignored
    <3>2. CASE Cardinality(want) <= 1 \/ AllReported(have, want)
      BY <2>6, <3>1, <3>2, PartialsUntrack DEF HandleSuccess
    <3>3. CASE ~(Cardinality(want) <= 1 \/ AllReported(have, want))
      <4>1. /\ partials' = [partials EXCEPT ![msg.id] = have]
            /\ UNCHANGED <<reqState, terminals>>
        BY <2>6, <3>3 DEF HandleSuccess
      <4>2. have \subseteq want /\ have # want
        BY <3>3 DEF AllReported
      <4> QED
        BY <3>1, <4>1, <4>2
           DEF PartialsBelongToRequest, Tracked, TypeOK, CoordTypeOK
    <3> QED BY <3>2, <3>3
  <2>7. ASSUME NEW t \in Stages, HandleStream(t) \/ IgnoreCompletion(t)
        PROVE  PartialsBelongToRequest'
    BY <2>7, PartialsFrame DEF HandleStream, IgnoreCompletion, Tracked
  <2>8. CASE FailPendingRequests
    BY <2>8 DEF FailPendingRequests, PartialsBelongToRequest
  <2>9. ASSUME NEW ts \in SUBSET Stages, PipelineAccepts(ts)
        PROVE  PartialsBelongToRequest'
    BY <2>9, PartialsFrame DEF PipelineAccepts, coordVars, Tracked
  <2>10. ASSUME NEW t \in Stages, NEW id \in Ids, StageStep(t, id)
         PROVE  PartialsBelongToRequest'
    BY <2>10, PartialsFrame
       DEF StageStep, StageStreams, StageFinishes, StageAborts, coordVars, Tracked
  <2>11. CASE UNCHANGED vars
    BY <2>11, PartialsFrame DEF vars, coordVars, Tracked
  <2> QED
    BY <2>1, <2>2, <2>3, <2>4, <2>5, <2>6, <2>7, <2>8, <2>9, <2>10, <2>11
       DEF Next, CallStep, LoopStep
<1> QED
  BY <1>1, <1>2, TypeCorrect, PTL DEF Spec

-----------------------------------------------------------------------------
(* Waiting callers, under unique ids.                                      *)

\* A call that leaves, popping only entries of its own id, disturbs no other.
LEMMA WaiterLeaves ==
  ASSUME TypeOK, WaiterInv, NEW c \in Calls,
         pc' = [pc EXCEPT ![c] = "done"],
         futureOf' \in {futureOf, Pop(futureOf, rid[c])},
         UNCHANGED <<reqState, rid, waitsOn>>,
         \A d \in Calls : fut'[d] = "pending" => fut[d] = "pending"
  PROVE  WaiterInv'
BY DEF TypeOK, CoordTypeOK, CallTypeOK, WaiterInv, Owns, Tracked, Pop

\* Recording a request gives its call a fresh future and nobody else's.
LEMMA WaiterAdmit ==
  ASSUME TypeOK, WaiterInv, NEW c \in Calls, NEW ts \in Resolutions,
         NEW state \in {"PENDING", "RUNNING"}, NEW to \in {"sending", "awaiting", "draining"},
         Admit(c, ts, state), UNCHANGED rid,
         futureOf' = [futureOf EXCEPT ![rid[c]] = c],
         pc' = [pc EXCEPT ![c] = to],
         waitsOn' = IF to = "awaiting" THEN [waitsOn EXCEPT ![c] = c] ELSE waitsOn
  PROVE  WaiterInv'
BY DEF TypeOK, CoordTypeOK, CallTypeOK, WaiterInv, Owns, Tracked, Admit

\* Forgetting a request while settling its registered future, if that is
\* unsettled, leaves nobody waiting on it.
LEMMA WaiterSettle ==
  ASSUME TypeOK, WaiterInv, NEW id \in Ids, Untrack(id),
         UNCHANGED <<futureOf, pc, rid, waitsOn>>,
         \A d \in Calls : fut'[d] = "pending" => fut[d] = "pending",
         HasPendingFuture(id) => fut'[futureOf[id]] # "pending"
  PROVE  WaiterInv'
<1>1. ASSUME NEW c \in Calls, Owns(c)', fut'[c] = "pending" PROVE Tracked(rid[c])'
  <2>1. Owns(c) /\ fut[c] = "pending" /\ rid[c] \in Ids
    BY <1>1 DEF Owns, TypeOK, CallTypeOK
  <2>2. futureOf[rid[c]] = c /\ Tracked(rid[c])
    BY <2>1 DEF WaiterInv
  <2>3. rid[c] # id
    BY <1>1, <2>1, <2>2, NoCallAssumption DEF HasPendingFuture
  <2> QED BY <2>1, <2>2, <2>3 DEF Untrack, Tracked, TypeOK, CoordTypeOK
<1> QED BY <1>1 DEF WaiterInv, Owns

\* A step that leaves the tables of requests, futures and calls alone.
LEMMA WaiterFrame ==
  ASSUME WaiterInv, UNCHANGED <<reqState, futureOf, pc, rid, fut, waitsOn>>
  PROVE  WaiterInv'
BY DEF WaiterInv, Owns, Tracked

\* Rejecting or resolving settles the registered future and creates no
\* unsettled one.
LEMMA SettleEffect ==
  ASSUME TypeOK, NEW id \in Ids, NEW res,
         RejectCompletionFuture(id) \/ ResolveCompletionFuture(id, res)
  PROVE  /\ \A d \in Calls : fut'[d] = "pending" => fut[d] = "pending"
         /\ HasPendingFuture(id) => fut'[futureOf[id]] # "pending"
<1>1. futureOf[id] # NoCall => futureOf[id] \in Calls
  BY DEF TypeOK, CoordTypeOK
<1>2. CASE HasPendingFuture(id)
  <2>1. PICK x \in {"result", "error", "cancelled"} :
          fut' = [fut EXCEPT ![futureOf[id]] = x]
    BY <1>2 DEF RejectCompletionFuture, ResolveCompletionFuture
  <2> QED BY <1>1, <1>2, <2>1 DEF TypeOK, CallTypeOK, HasPendingFuture
<1>3. CASE ~HasPendingFuture(id)
  BY <1>3 DEF RejectCompletionFuture, ResolveCompletionFuture
<1> QED BY <1>2, <1>3

\* Every step keeps each waiting call the owner of a future that is settled
\* or still reachable from its tracked request.
LEMMA WaiterStep == TypeOK /\ WaiterInv /\ [Next]_vars => WaiterInv'
<1> SUFFICES ASSUME TypeOK, WaiterInv, [Next]_vars PROVE WaiterInv'
  OBVIOUS
<1>1. ASSUME NEW c \in Calls, AlreadyStreaming(c) PROVE WaiterInv'
  BY <1>1, WaiterLeaves DEF AlreadyStreaming, Return, coordVars
<1>2. ASSUME NEW c \in Calls, NEW why \in {"fatal", "exists", "resolver"},
             RejectCall(c, why)
      PROVE  WaiterInv'
  BY <1>2, WaiterLeaves DEF RejectCall, Return, PopOnExit
<1>3. ASSUME NEW c \in Calls, NEW ts \in Resolutions, SubmitRequest(c, ts)
      PROVE  WaiterInv'
  BY <1>3, WaiterAdmit DEF SubmitRequest, Register, Proceed
<1>4. ASSUME NEW c \in Calls, NEW ts \in Resolutions, SubmitSuspends(c, ts)
      PROVE  WaiterInv'
  BY <1>4, WaiterAdmit DEF SubmitSuspends, Register
<1>5. ASSUME NEW c \in Calls, NEW ts \in Resolutions, SubmitFails(c, ts)
      PROVE  WaiterInv'
  BY <1>5 DEF SubmitFails, Admit, Entering, Return, PopOnExit, Pop, WaiterInv, Owns,
              Tracked, TypeOK, CoordTypeOK, CallTypeOK
<1>6. ASSUME NEW c \in Calls, SendFlushed(c) PROVE WaiterInv'
  BY <1>6 DEF SendFlushed, coordVars, WaiterInv, Owns, Tracked, TypeOK, CallTypeOK
<1>7. ASSUME NEW c \in Calls, SubmitResumes(c) PROVE WaiterInv'
  <2>1. futureOf[rid[c]] = c /\ rid[c] \in Ids
    BY <1>7 DEF SubmitResumes, WaiterInv, Owns, TypeOK, CallTypeOK
  <2>2. CASE Tracked(rid[c]) /\ (kind[c] = "submit" => futureOf[rid[c]] # NoCall)
    <3>1. /\ reqState' = [reqState EXCEPT ![rid[c]] = "RUNNING"]
          /\ pc' = [pc EXCEPT ![c] = IF kind[c] = "submit" THEN "awaiting"
                                                           ELSE "draining"]
          /\ waitsOn' = IF kind[c] = "submit" THEN [waitsOn EXCEPT ![c] = c]
                                              ELSE waitsOn
          /\ UNCHANGED <<futureOf, rid, fut>>
      BY <1>7, <2>1, <2>2 DEF SubmitResumes, Proceed
    <3>2. \A d \in Calls : Tracked(rid[d]) => Tracked(rid[d])'
      BY <2>1, <3>1 DEF Tracked, TypeOK, CoordTypeOK, CallTypeOK
    <3>3. \A d \in Calls : Owns(d)' => Owns(d)
      BY <1>7, <3>1 DEF SubmitResumes, Owns, TypeOK, CallTypeOK
    <3> QED
      BY <2>1, <3>1, <3>2, <3>3 DEF WaiterInv, TypeOK, CallTypeOK
  <2>3. CASE ~Tracked(rid[c])
    BY <1>7, <2>3, WaiterLeaves DEF SubmitResumes, Return, PopOnExit
  <2> QED BY <2>1, <2>2, <2>3, NoCallAssumption
<1>8. ASSUME NEW c \in Calls, AwaitFuture(c) PROVE WaiterInv'
  BY <1>8, WaiterLeaves DEF AwaitFuture, Return, PopOnExit
<1>9. ASSUME NEW c \in Calls, DrainQueue(c) PROVE WaiterInv'
  <2>1. UNCHANGED <<reqState, rid, waitsOn, fut>>
    BY <1>9 DEF DrainQueue
  <2>2. \/ UNCHANGED <<pc, futureOf>>
        \/ /\ pc' = [pc EXCEPT ![c] = "done"]
           /\ futureOf' = Pop(futureOf, rid[c])
    BY <1>9 DEF DrainQueue, Return, PopOnExit
  <2> QED BY <2>1, <2>2, WaiterLeaves, WaiterFrame
<1>10. ASSUME NEW c \in Calls, CancelCall(c) PROVE WaiterInv'
  <2>1. \A d \in Calls : fut'[d] = "pending" => fut[d] = "pending"
    <3>1. fut' \in {fut, [fut EXCEPT ![waitsOn[c]] = "cancelled"]}
      BY <1>10 DEF CancelCall
    <3> QED BY <3>1 DEF TypeOK, CallTypeOK
  <2> QED BY <1>10, <2>1, WaiterLeaves DEF CancelCall, Return, PopOnExit
<1>11. ASSUME NEW id \in Ids, Abort(id) PROVE WaiterInv'
  BY <1>11, SettleEffect, WaiterSettle DEF Abort
<1>12. ASSUME NEW t \in Stages, HandleStream(t) \/ IgnoreCompletion(t)
       PROVE  WaiterInv'
  BY <1>12, WaiterFrame DEF HandleStream, IgnoreCompletion, callVars
<1>13. ASSUME NEW t \in Stages, HandleFailure(t) PROVE WaiterInv'
  BY <1>13, ReceiveType, SettleEffect, WaiterSettle DEF HandleFailure
<1>14. ASSUME NEW t \in Stages, HandleSuccess(t) PROVE WaiterInv'
  BY <1>14, ReceiveType, SettleEffect, WaiterSettle, WaiterFrame DEF HandleSuccess
<1>15. CASE FailPendingRequests
  BY <1>15 DEF FailPendingRequests, WaiterInv, Owns, Tracked, TypeOK, CallTypeOK
<1>16. ASSUME NEW ts \in SUBSET Stages, PipelineAccepts(ts) PROVE WaiterInv'
  BY <1>16, WaiterFrame DEF PipelineAccepts, coordVars, callVars
<1>17. ASSUME NEW t \in Stages, NEW id \in Ids, StageStep(t, id) PROVE WaiterInv'
  BY <1>17, WaiterFrame
     DEF StageStep, StageStreams, StageFinishes, StageAborts, coordVars, callVars
<1>18. CASE UNCHANGED vars
  BY <1>18, WaiterFrame DEF vars, coordVars, callVars
<1> QED
  BY <1>1, <1>2, <1>3, <1>4, <1>5, <1>6, <1>7, <1>8, <1>9, <1>10, <1>11, <1>12,
     <1>13, <1>14, <1>15, <1>16, <1>17, <1>18
     DEF Next, CallStep, LoopStep

\* When ids come from uuid4, no interleaving of callers, cancellations,
\* aborts, completions and a pipeline failure leaves a submit() call waiting
\* on a future that nobody can settle any more.
THEOREM WaitersReachable ==
  ASSUME UniqueIds
  PROVE  Spec => []NoOrphanedWaiter
<1>1. Init => WaiterInv
  BY DEF Init, WaiterInv, Owns
<1>2. TypeOK /\ WaiterInv => NoOrphanedWaiter
  BY DEF WaiterInv, NoOrphanedWaiter, Owns, TypeOK, CallTypeOK
<1> QED
  BY <1>1, <1>2, WaiterStep, TypeCorrect, PTL DEF Spec
-----------------------------------------------------------------------------
(* With unique ids: the tables, the calls and their streams agree.         *)

Revoked(c) == fut[c] \in {"error", "cancelled"}

\* the entries of the dictionaries belong to calls with that id
TablesOK ==
  \A id \in Ids :
    /\ futureOf[id] # NoCall => rid[futureOf[id]] = id
    /\ queueOf[id] # NoCall => rid[queueOf[id]] = id
    /\ Tracked(id) => terminals[id] \in Resolutions

\* a call before it is admitted, while it is under way, and after it
IdleOK(c) ==
  pc[c] = "idle" =>
    /\ fut[c] = "none" /\ ~Tracked(rid[c]) /\ rid[c] \notin abortOk
    /\ futureOf[rid[c]] = NoCall /\ queueOf[rid[c]] = NoCall
    /\ waitsOn[c] = NoCall /\ queue[c] = <<>> /\ completed[c] = {}

WaitingOK(c) ==
  /\ pc[c] \in Waiting =>
       /\ fut[c] # "none" /\ futureOf[rid[c]] = c
       /\ fut[c] = "pending" <=> Tracked(rid[c])
  /\ pc[c] \in {"sending", "sent"} => waitsOn[c] = NoCall
  /\ pc[c] = "awaiting" => kind[c] = "submit" /\ waitsOn[c] = c
  /\ pc[c] = "draining" => kind[c] = "stream"
  /\ pc[c] # "done" => outcome[c] = "none"

EndOK(c) ==
  /\ queueOf[rid[c]] = c <=> kind[c] = "stream" /\ pc[c] \in Waiting
  /\ futureOf[rid[c]] = c => pc[c] \in Waiting \/ (kind[c] = "submit" /\ waitsOn[c] = NoCall)
  /\ fut[c] = "result" => ~Tracked(rid[c])
  /\ outcome[c] = "ok" => fut[c] = "result"
  /\ rid[c] \in abortOk => ~Tracked(rid[c]) /\ fut[c] # "result"

\* the consumer has been told, or finds in its queue, that t has finished
Reported(c, t) ==
  t \in completed[c] \/ \E i \in 1..Len(queue[c]) : queue[c][i].t = "ok" /\ queue[c][i].from = t

\* what a stream's consumer finds in its queue agrees with the future it
\* never looks at
StreamOK(c) ==
  kind[c] = "stream" /\ pc[c] \in Waiting =>
    /\ \A i \in 1..Len(queue[c]) : queue[c][i].t = "fail" => Revoked(c)
    /\ fut[c] = "pending" => \A t \in Stages : Reported(c, t) => t \in partials[rid[c]]
    /\ fut[c] = "result" => \A t \in Stages : Reported(c, t) => t \in value[c]
    /\ pc[c] = "draining" =>
         /\ fut[c] = "pending" => expected[c] = terminals[rid[c]]
         /\ fut[c] = "result" =>
              \/ value[c] = expected[c] /\ expected[c] # {}
              \/ expected[c] = {} /\ \E t \in Stages : value[c] = {t}
         /\ Revoked(c) => IF expected[c] = {} THEN \A t \in Stages : ~Reported(c, t)
                                              ELSE \E t \in expected[c] : ~Reported(c, t)

CallOK(c) == IdleOK(c) /\ WaitingOK(c) /\ EndOK(c) /\ StreamOK(c)

LifeInv ==
  /\ \A c, d \in Calls : rid[c] = rid[d] => c = d
  /\ TablesOK
  /\ \A c \in Calls : CallOK(c)
-----------------------------------------------------------------------------
(* Frames.                                                                 *)

\* the step leaves a call, its objects and the entries of its id alone
Same(d) ==
  /\ pc'[d] = pc[d] /\ kind'[d] = kind[d] /\ rid'[d] = rid[d] /\ fut'[d] = fut[d]
  /\ value'[d] = value[d] /\ waitsOn'[d] = waitsOn[d] /\ queue'[d] = queue[d]
  /\ expected'[d] = expected[d] /\ completed'[d] = completed[d] /\ outcome'[d] = outcome[d]
  /\ reqState'[rid[d]] = reqState[rid[d]] /\ terminals'[rid[d]] = terminals[rid[d]]
  /\ futureOf'[rid[d]] = futureOf[rid[d]] /\ queueOf'[rid[d]] = queueOf[rid[d]]
  /\ partials'[rid[d]] = partials[rid[d]] /\ (rid[d] \in abortOk' <=> rid[d] \in abortOk)

Others(c) == \A d \in Calls : d # c => Same(d)

\* What a step leaves alone keeps its invariant.
LEMMA SameCall ==
  ASSUME NEW d \in Calls, CallOK(d), Same(d)
  PROVE  CallOK(d)'
<1>1. IdleOK(d)'
  BY DEF Same, CallOK, IdleOK, Tracked
<1>2. WaitingOK(d)'
  BY DEF Same, CallOK, WaitingOK, Tracked
<1>3. EndOK(d)'
  BY DEF Same, CallOK, EndOK, Tracked
<1>4. \A t \in Stages : Reported(d, t)' <=> Reported(d, t)
  BY DEF Same, Reported
<1>5. StreamOK(d)'
  <2>1. /\ pc'[d] = pc[d] /\ kind'[d] = kind[d] /\ fut'[d] = fut[d] /\ value'[d] = value[d]
        /\ queue'[d] = queue[d] /\ expected'[d] = expected[d]
        /\ terminals'[rid'[d]] = terminals[rid[d]] /\ partials'[rid'[d]] = partials[rid[d]]
    BY DEF Same
  <2>2. Revoked(d)' <=> Revoked(d)
    BY <2>1 DEF Revoked
  <2>3. StreamOK(d)
    BY DEF CallOK
  <2>4. (\E t \in expected[d] : ~Reported(d, t)) => \E t \in expected'[d] : ~Reported(d, t)'
    BY <2>1 DEF Same, Reported
  <2> QED BY <1>4, <2>1, <2>2, <2>3, <2>4 DEF StreamOK
<1> QED BY <1>1, <1>2, <1>3, <1>5 DEF CallOK

\* A step of one call that keeps its id's entries its own.
LEMMA OneCall ==
  ASSUME LifeInv, NEW c \in Calls, UNCHANGED rid, TablesOK', CallOK(c)',
         \A d \in Calls : rid[d] # rid[c] => Same(d)
  PROVE  LifeInv' /\ Others(c)
<1>1. \A d \in Calls : CallOK(d)'
  BY SameCall DEF LifeInv
<1> QED BY <1>1 DEF LifeInv, Others

\* A step about one id: at most one call has it.
LEMMA OneId ==
  ASSUME LifeInv, NEW id \in Ids, UNCHANGED rid, TablesOK',
         \A d \in Calls : rid[d] # id => Same(d),
         \A d \in Calls : rid[d] = id => CallOK(d)'
  PROVE  LifeInv'
<1>1. \A d \in Calls : CallOK(d)'
  BY SameCall DEF LifeInv
<1> QED BY <1>1 DEF LifeInv

\* Calls, futures and the tables have their types.
LEMMA Types ==
  ASSUME TypeOK
  PROVE  /\ reqState \in [Ids -> {"none", "PENDING", "RUNNING"}] /\ terminals \in [Ids -> SUBSET Stages]
         /\ futureOf \in [Ids -> Calls \cup {NoCall}] /\ queueOf \in [Ids -> Calls \cup {NoCall}]
         /\ partials \in [Ids -> SUBSET Stages]
         /\ pc \in [Calls -> {"idle", "done"} \cup Waiting] /\ kind \in [Calls -> {"submit", "stream"}]
         /\ rid \in [Calls -> Ids] /\ value \in [Calls -> SUBSET Stages]
         /\ fut \in [Calls -> {"none", "pending", "result", "error", "cancelled"}]
         /\ waitsOn \in [Calls -> Calls \cup {NoCall}] /\ queue \in [Calls -> Seq(QueueMsg)]
         /\ expected \in [Calls -> SUBSET Stages] /\ completed \in [Calls -> SUBSET Stages]
         /\ outcome \in [Calls -> {"none", "ok", "error", "rejected", "cancelled"}]
BY DEF TypeOK, CoordTypeOK, CallTypeOK
-----------------------------------------------------------------------------
(* The steps of a call.                                                    *)

\* A call refused before anything is recorded.
LEMMA LifeReject ==
  ASSUME TypeOK, LifeInv, NEW c \in Calls, NEW why, RejectCall(c, why)
  PROVE  LifeInv' /\ Others(c)
<1> USE Types
<1>1. /\ CallOK(c) /\ rid[c] \in Ids /\ pc[c] = "idle" /\ TablesOK
      /\ pc' = [pc EXCEPT ![c] = "done"] /\ outcome' = [outcome EXCEPT ![c] = "rejected"]
      /\ UNCHANGED <<reqState, terminals, partials, kind, rid, fut, value, waitsOn, queue,
                     expected, completed, abortOk>>
  BY DEF LifeInv, RejectCall, Entering, Return
<1>2. UNCHANGED <<futureOf, queueOf>>
  BY <1>1 DEF RejectCall, PopOnExit, Pop, CallOK, IdleOK
<1>3. TablesOK'
  BY <1>1, <1>2 DEF TablesOK, Tracked
<1>4. \A d \in Calls : rid[d] # rid[c] => Same(d)
  BY <1>1, <1>2 DEF Same
<1>5. CallOK(c)'
  BY <1>1, <1>2, NoCallAssumption DEF CallOK, IdleOK, WaitingOK, EndOK, StreamOK, Waiting, Tracked
<1> QED BY <1>1, <1>3, <1>4, <1>5, OneCall

\* A request is recorded for a call that goes on to the socket or its wait.
LEMMA LifeAdmit ==
  ASSUME TypeOK, LifeInv, NEW c \in Calls, NEW ts \in Resolutions,
         SubmitRequest(c, ts) \/ SubmitSuspends(c, ts)
  PROVE  LifeInv' /\ Others(c)
<1> USE Types
<1>1. PICK state \in {"PENDING", "RUNNING"}, to \in {"sending", "awaiting", "draining"} :
        /\ reqState' = [reqState EXCEPT ![rid[c]] = state]
        /\ pc' = [pc EXCEPT ![c] = to]
        /\ to = "awaiting" => kind[c] = "submit" /\ waitsOn' = [waitsOn EXCEPT ![c] = c]
        /\ to # "awaiting" => waitsOn' = waitsOn
        /\ to = "draining" => kind[c] = "stream"
        /\ to # "sending" => expected' = [expected EXCEPT ![c] = ts]
        /\ to = "sending" => expected' = expected
  BY DEF SubmitRequest, SubmitSuspends, Admit, Proceed
<1>2. /\ CallOK(c) /\ rid[c] \in Ids /\ pc[c] = "idle" /\ TablesOK /\ ts \in SUBSET Stages
      /\ terminals' = [terminals EXCEPT ![rid[c]] = ts]
      /\ fut' = [fut EXCEPT ![c] = "pending"]
      /\ futureOf' = [futureOf EXCEPT ![rid[c]] = c]
      /\ queueOf' = IF kind[c] = "stream" THEN [queueOf EXCEPT ![rid[c]] = c] ELSE queueOf
      /\ UNCHANGED <<partials, kind, rid, value, queue, completed, outcome, abortOk>>
  BY ResolutionsAssumption DEF LifeInv, SubmitRequest, SubmitSuspends, Admit, Entering, Register
<1>3. TablesOK'
  BY <1>1, <1>2 DEF TablesOK, Tracked
<1>4. \A d \in Calls : rid[d] # rid[c] => Same(d)
  BY <1>1, <1>2 DEF Same
<1>5. IdleOK(c)' /\ WaitingOK(c)' /\ EndOK(c)'
  BY <1>1, <1>2, NoCallAssumption DEF CallOK, IdleOK, WaitingOK, EndOK, Waiting, Tracked
<1>6. StreamOK(c)'
  <2>1. queue'[c] = <<>> /\ completed'[c] = {} /\ fut'[c] = "pending"
    BY <1>2 DEF CallOK, IdleOK
  <2>2. Len(queue'[c]) = 0
    BY <2>1
  <2>3. \A t \in Stages : ~Reported(c, t)'
    BY <2>1, <2>2 DEF Reported
  <2>4. pc'[c] = "draining" => expected'[c] = terminals'[rid'[c]]
    BY <1>1, <1>2
  <2> QED BY <2>1, <2>2, <2>3, <2>4 DEF StreamOK, Revoked
<1>7. CallOK(c)'
  BY <1>5, <1>6 DEF CallOK
<1> QED BY <1>2, <1>3, <1>4, <1>7, OneCall

\* A call leaves: it settles nothing but its own future, and its request is
\* not granted in this step.
LEMMA LifeLeaves ==
  ASSUME TypeOK, LifeInv, NEW c \in Calls, NEW how, pc[c] \in Waiting,
         pc' = [pc EXCEPT ![c] = "done"], outcome' = [outcome EXCEPT ![c] = how],
         how = "ok" => fut[c] = "result",
         kind[c] = "stream" \/ pc[c] = "awaiting" => PopOnExit(c),
         kind[c] # "stream" /\ pc[c] # "awaiting" => UNCHANGED <<futureOf, queueOf>>,
         reqState' = reqState \/ (Tracked(rid[c]) /\ reqState' = [reqState EXCEPT ![rid[c]] = "RUNNING"]),
         fut' = fut \/ (fut[c] = "pending" /\ fut' = [fut EXCEPT ![c] = "cancelled"]),
         completed' = completed \/ \E v : completed' = [completed EXCEPT ![c] = v],
         queue' = queue \/ \E q : queue' = [queue EXCEPT ![c] = q],
         UNCHANGED <<terminals, partials, kind, rid, value, waitsOn, expected, abortOk>>
  PROVE  LifeInv' /\ Others(c)
<1> USE Types
<1>1. CallOK(c) /\ rid[c] \in Ids /\ TablesOK
  BY DEF LifeInv
<1>2. /\ futureOf' = futureOf \/ futureOf' = [futureOf EXCEPT ![rid[c]] = NoCall]
      /\ queueOf' = queueOf \/ queueOf' = [queueOf EXCEPT ![rid[c]] = NoCall]
      /\ kind[c] = "stream" => queueOf'[rid[c]] = NoCall
      /\ kind[c] = "stream" \/ pc[c] = "awaiting" => futureOf'[rid[c]] = NoCall
  BY <1>1 DEF PopOnExit, Pop, Waiting, CallOK, WaitingOK
<1>3. TablesOK'
  BY <1>1, <1>2 DEF TablesOK, Tracked
<1>4. \A d \in Calls : rid[d] # rid[c] => Same(d)
  BY <1>1, <1>2 DEF Same
<1>5. \A i \in Ids : Tracked(i)' <=> Tracked(i)
  BY <1>1 DEF Tracked
<1>6. pc'[c] = "done" /\ outcome'[c] = how
  OBVIOUS
<1>7. EndOK(c)'
  <2>1. kind[c] # "stream" => queueOf[rid[c]] # c
    BY <1>1 DEF CallOK, EndOK
  <2>2. queueOf'[rid[c]] # c
    BY <1>1, <1>2, <2>1, NoCallAssumption
  <2>3. futureOf'[rid[c]] = c => kind[c] = "submit" /\ waitsOn[c] = NoCall
    BY <1>1, <1>2, NoCallAssumption DEF CallOK, WaitingOK, Waiting
  <2>4. fut'[c] = "result" <=> fut[c] = "result"
    OBVIOUS
  <2> QED BY <1>1, <1>5, <1>6, <2>2, <2>3, <2>4 DEF CallOK, EndOK, Waiting
<1>8. CallOK(c)'
  BY <1>6, <1>7 DEF CallOK, IdleOK, WaitingOK, StreamOK, Waiting
<1> QED BY <1>3, <1>4, <1>8, OneCall

\* The message cannot be serialized: the request stays recorded.
LEMMA LifeFails ==
  ASSUME TypeOK, LifeInv, NEW c \in Calls, NEW ts \in Resolutions, SubmitFails(c, ts)
  PROVE  LifeInv' /\ Others(c)
<1> USE Types
<1>1. /\ CallOK(c) /\ rid[c] \in Ids /\ pc[c] = "idle" /\ TablesOK /\ ts \in SUBSET Stages
      /\ reqState' = [reqState EXCEPT ![rid[c]] = "PENDING"]
      /\ terminals' = [terminals EXCEPT ![rid[c]] = ts]
      /\ fut' = [fut EXCEPT ![c] = "pending"]
      /\ pc' = [pc EXCEPT ![c] = "done"] /\ outcome' = [outcome EXCEPT ![c] = "error"]
      /\ futureOf' = [futureOf EXCEPT ![rid[c]] = IF kind[c] = "stream" THEN NoCall ELSE c]
      /\ UNCHANGED <<partials, kind, rid, value, waitsOn, queue, expected, completed, abortOk>>
  BY ResolutionsAssumption DEF LifeInv, SubmitFails, Admit, Entering, Return, PopOnExit, Pop
<1>2. queueOf' = queueOf
  BY <1>1 DEF SubmitFails, PopOnExit, Pop, CallOK, IdleOK
<1>3. TablesOK'
  BY <1>1, <1>2 DEF TablesOK, Tracked
<1>4. \A d \in Calls : rid[d] # rid[c] => Same(d)
  BY <1>1, <1>2 DEF Same
<1>5. CallOK(c)'
  BY <1>1, <1>2, NoCallAssumption DEF CallOK, IdleOK, WaitingOK, EndOK, StreamOK, Waiting, Tracked
<1> QED BY <1>1, <1>3, <1>4, <1>5, OneCall

\* The suspended message leaves the socket's queue.
LEMMA LifeFlushed ==
  ASSUME TypeOK, LifeInv, NEW c \in Calls, SendFlushed(c)
  PROVE  LifeInv' /\ Others(c)
<1> USE Types
<1>1. /\ CallOK(c) /\ rid[c] \in Ids /\ pc[c] = "sending" /\ TablesOK
      /\ pc' = [pc EXCEPT ![c] = "sent"]
      /\ UNCHANGED <<coordVars, kind, rid, fut, value, waitsOn, queue, expected, completed,
                     outcome, abortOk>>
  BY DEF LifeInv, SendFlushed
<1>2. TablesOK'
  BY <1>1 DEF TablesOK, Tracked, coordVars
<1>3. \A d \in Calls : rid[d] # rid[c] => Same(d)
  BY <1>1 DEF Same, coordVars
<1>4. IdleOK(c)' /\ WaitingOK(c)' /\ EndOK(c)'
  BY <1>1 DEF CallOK, IdleOK, WaitingOK, EndOK, Waiting, Tracked, coordVars
<1>5. StreamOK(c)'
  <2>1. \A t \in Stages : Reported(c, t)' <=> Reported(c, t)
    BY <1>1 DEF Reported
  <2>2. pc'[c] = "sent" /\ (Revoked(c)' <=> Revoked(c))
    BY <1>1 DEF Revoked
  <2> QED BY <1>1, <2>1, <2>2 DEF CallOK, StreamOK, Waiting, coordVars
<1> QED BY <1>1, <1>2, <1>3, <1>4, <1>5, OneCall DEF CallOK

\* The task resumes: its request is still tracked and it goes on to its
\* wait, or it leaves with the KeyError.
LEMMA LifeResumes ==
  ASSUME TypeOK, LifeInv, NEW c \in Calls, SubmitResumes(c)
  PROVE  LifeInv' /\ Others(c)
<1> USE Types
<1>1. /\ CallOK(c) /\ rid[c] \in Ids /\ pc[c] = "sent" /\ TablesOK
      /\ UNCHANGED <<terminals, partials, kind, rid, fut, value, queue, completed, abortOk>>
  BY DEF LifeInv, SubmitResumes
<1>2. futureOf[rid[c]] = c /\ (fut[c] = "pending" <=> Tracked(rid[c])) /\ fut[c] # "none"
  BY <1>1 DEF CallOK, WaitingOK, Waiting
<1>3. CASE Tracked(rid[c])
  <2>1. /\ reqState' = [reqState EXCEPT ![rid[c]] = "RUNNING"]
        /\ expected' = [expected EXCEPT ![c] = terminals[rid[c]]]
        /\ pc' = [pc EXCEPT ![c] = IF kind[c] = "submit" THEN "awaiting" ELSE "draining"]
        /\ waitsOn' = IF kind[c] = "submit" THEN [waitsOn EXCEPT ![c] = c] ELSE waitsOn
        /\ UNCHANGED <<futureOf, queueOf, outcome>>
    BY <1>2, <1>3, NoCallAssumption DEF SubmitResumes, Proceed
  <2>2. TablesOK'
    BY <1>1, <1>3, <2>1 DEF TablesOK, Tracked
  <2>3. \A d \in Calls : rid[d] # rid[c] => Same(d)
    BY <1>1, <2>1 DEF Same
  <2>4. IdleOK(c)' /\ WaitingOK(c)' /\ EndOK(c)'
    BY <1>1, <1>2, <1>3, <2>1 DEF CallOK, IdleOK, WaitingOK, EndOK, Waiting, Tracked
  <2>5. StreamOK(c)'
    <3>1. \A t \in Stages : Reported(c, t)' <=> Reported(c, t)
      BY <1>1 DEF Reported
    <3>2. fut'[c] = "pending" /\ ~Revoked(c) /\ ~Revoked(c)'
      BY <1>1, <1>2, <1>3 DEF Revoked
    <3>3. expected'[c] = terminals'[rid'[c]]
      BY <1>1, <2>1
    <3> QED BY <1>1, <3>1, <3>2, <3>3 DEF CallOK, StreamOK, Waiting
  <2> QED BY <1>1, <2>2, <2>3, <2>4, <2>5, OneCall DEF CallOK
<1>4. CASE ~Tracked(rid[c])
  <2>1. /\ reqState' = reqState /\ Return(c, "error") /\ UNCHANGED <<waitsOn, expected>>
        /\ IF kind[c] = "stream" THEN PopOnExit(c) ELSE UNCHANGED <<futureOf, queueOf>>
    BY <1>4 DEF SubmitResumes
  <2>2. pc[c] \in Waiting /\ pc[c] # "awaiting"
    BY <1>1 DEF Waiting
  <2> QED BY <1>1, <2>1, <2>2, LifeLeaves DEF Return
<1> QED BY <1>3, <1>4

\* submit() returns on its own future.
LEMMA LifeAwait ==
  ASSUME TypeOK, LifeInv, NEW c \in Calls, AwaitFuture(c)
  PROVE  LifeInv' /\ Others(c)
<1>1. /\ pc[c] = "awaiting" /\ PopOnExit(c) /\ completed' = [completed EXCEPT ![c] = value[waitsOn[c]]]
      /\ UNCHANGED <<reqState, terminals, partials, kind, rid, fut, value, waitsOn, queue,
                     expected, abortOk>>
  BY DEF AwaitFuture
<1>2. waitsOn[c] = c
  BY <1>1 DEF LifeInv, CallOK, WaitingOK
<1>3. PICK how \in {"ok", "error", "cancelled"} :
        (how = "ok" <=> fut[c] = "result") /\ Return(c, how)
  BY <1>2 DEF AwaitFuture
<1>4. pc[c] \in Waiting /\ \E v : completed' = [completed EXCEPT ![c] = v]
  BY <1>1 DEF Waiting
<1> QED BY <1>1, <1>3, <1>4, LifeLeaves DEF Return

\* The caller is cancelled, with the future it waits on.
LEMMA LifeCancel ==
  ASSUME TypeOK, LifeInv, NEW c \in Calls, CancelCall(c)
  PROVE  LifeInv' /\ Others(c)
<1>1. /\ pc[c] \in Waiting /\ Return(c, "cancelled")
      /\ UNCHANGED <<reqState, terminals, partials, kind, rid, value, waitsOn, queue,
                     expected, completed, abortOk>>
      /\ IF kind[c] = "stream" \/ pc[c] = "awaiting" THEN PopOnExit(c)
         ELSE UNCHANGED <<futureOf, queueOf>>
  BY DEF CancelCall
<1>2. pc[c] = "awaiting" => waitsOn[c] = c
  BY <1>1 DEF LifeInv, CallOK, WaitingOK
<1>3. fut' = fut \/ (fut[c] = "pending" /\ fut' = [fut EXCEPT ![c] = "cancelled"])
  BY <1>2 DEF CancelCall
<1> QED BY <1>1, <1>3, LifeLeaves DEF Return
\* stream() takes a message: its end agrees with its future.
LEMMA LifeDrain ==
  ASSUME TypeOK, LifeInv, PartialsBelongToRequest, NEW c \in Calls, DrainQueue(c)
  PROVE  /\ LifeInv' /\ Others(c)
         /\ Return(c, "ok") => fut[c] = "result" /\ completed'[c] = value[c]
         /\ Return(c, "error") => Revoked(c)
<1> USE Types
<1>1. /\ CallOK(c) /\ rid[c] \in Ids /\ pc[c] = "draining" /\ TablesOK /\ kind[c] = "stream"
      /\ pc[c] \in Waiting /\ queue[c] # <<>> /\ queue[c] \in Seq(QueueMsg)
      /\ queue' = [queue EXCEPT ![c] = Tail(@)]
      /\ UNCHANGED <<reqState, terminals, partials, kind, rid, fut, value, waitsOn, expected, abortOk>>
  BY DEF LifeInv, DrainQueue, CallOK, WaitingOK, Waiting
<1>2. PICK msg \in QueueMsg : /\ msg = Head(queue[c]) /\ msg = queue[c][1]
                              /\ Len(queue[c]) \in Nat /\ Len(queue[c]) > 0
  BY <1>1
<1>3. \A i \in 1..Len(Tail(queue[c])) : i + 1 \in 1..Len(queue[c]) /\ Tail(queue[c])[i] = queue[c][i + 1]
  BY <1>1
<1>4. /\ StreamOK(c) /\ fut[c] # "none"
      /\ fut[c] = "pending" <=> Tracked(rid[c])
      /\ queue'[c] = Tail(queue[c])
  BY <1>1 DEF CallOK, WaitingOK
<1>5. msg.t = "fail" => Revoked(c)
  BY <1>1, <1>2, <1>4 DEF StreamOK
<1>6. msg.t = "ok" => msg.from \in Stages /\ Reported(c, msg.from)
  <2>1. msg.t = "ok" => msg.from \in Stages
    BY <1>2 DEF QueueMsg
  <2>2. 1 \in 1..Len(queue[c])
    BY <1>2
  <2> QED BY <1>2, <2>1, <2>2 DEF Reported
<1>7. \/ msg.t = "chunk" /\ UNCHANGED <<pc, outcome, completed, futureOf, queueOf>>
      \/ msg.t = "fail" /\ Return(c, "error") /\ PopOnExit(c) /\ completed' = completed
      \/ /\ msg.t = "ok" /\ completed' = [completed EXCEPT ![c] = @ \cup {msg.from}]
         /\ IF StreamEnds(c, completed'[c])
            THEN Return(c, "ok") /\ PopOnExit(c)
            ELSE UNCHANGED <<pc, outcome, futureOf, queueOf>>
  BY <1>2 DEF DrainQueue
<1>8. ASSUME msg.t = "ok", StreamEnds(c, completed[c] \cup {msg.from})
      PROVE  fut[c] = "result" /\ completed[c] \cup {msg.from} = value[c]
  <2>1. \A t \in completed[c] \cup {msg.from} : t \in Stages /\ Reported(c, t)
    BY <1>6, <1>8 DEF Reported
  <2>2. fut[c] # "pending"
    <3> SUFFICES ASSUME fut[c] = "pending" PROVE FALSE
      OBVIOUS
    <3>1. completed[c] \cup {msg.from} \subseteq partials[rid[c]] /\ expected[c] = terminals[rid[c]]
      BY <1>1, <1>4, <2>1 DEF StreamOK
    <3>2. partials[rid[c]] # {} /\ partials[rid[c]] \subseteq expected[c] /\ partials[rid[c]] # expected[c]
      BY <1>1, <3>1 DEF PartialsBelongToRequest
    <3>3. expected[c] \subseteq completed[c] \cup {msg.from}
      BY <1>8, <3>2 DEF StreamEnds
    <3> QED BY <3>1, <3>2, <3>3
  <2>3. ~Revoked(c)
    <3> SUFFICES ASSUME Revoked(c) PROVE FALSE
      OBVIOUS
    <3>1. CASE expected[c] = {}
      BY <1>1, <1>4, <1>6, <1>8, <3>1 DEF StreamOK
    <3>2. CASE expected[c] # {}
      <4>1. PICK t \in expected[c] : ~Reported(c, t)
        BY <1>1, <1>4, <3>2 DEF StreamOK
      <4>2. t \in completed[c] \cup {msg.from}
        BY <1>8, <3>2 DEF StreamEnds
      <4> QED BY <2>1, <4>1, <4>2
    <3> QED BY <3>1, <3>2
  <2>4. fut[c] = "result"
    BY <1>4, <2>2, <2>3 DEF Revoked
  <2>5. completed[c] \cup {msg.from} \subseteq value[c]
    BY <1>1, <1>4, <2>1, <2>4 DEF StreamOK
  <2>6. CASE expected[c] = {}
    <3>1. PICK t \in Stages : value[c] = {t}
      BY <1>1, <1>4, <2>4, <2>6 DEF StreamOK
    <3> QED BY <2>4, <2>5, <3>1
  <2>7. CASE expected[c] # {}
    <3>1. value[c] = expected[c] /\ expected[c] \subseteq completed[c] \cup {msg.from}
      BY <1>1, <1>4, <1>8, <2>4, <2>7 DEF StreamOK, StreamEnds
    <3> QED BY <2>4, <2>5, <3>1
  <2> QED BY <2>6, <2>7
<1>9. CASE UNCHANGED <<pc, outcome, futureOf, queueOf>>
  <2>0. msg.t # "fail"
    BY <1>1, <1>7, <1>9 DEF Return
  <2>1. TablesOK'
    BY <1>1, <1>9 DEF TablesOK, Tracked
  <2>2. completed' = completed \/ (msg.t = "ok" /\ completed' = [completed EXCEPT ![c] = @ \cup {msg.from}])
    BY <1>7, <2>0
  <2>3. \A d \in Calls : rid[d] # rid[c] => Same(d)
    BY <1>1, <1>9, <2>2 DEF Same
  <2>4. IdleOK(c)' /\ WaitingOK(c)' /\ EndOK(c)'
    BY <1>1, <1>9 DEF CallOK, IdleOK, WaitingOK, EndOK, Tracked, Waiting
  <2>5. ASSUME NEW t \in Stages, Reported(c, t)' PROVE Reported(c, t)
    <3>1. CASE t \in completed'[c]
      BY <1>1, <1>6, <2>2, <3>1 DEF Reported
    <3>2. CASE \E i \in 1..Len(queue'[c]) : queue'[c][i].t = "ok" /\ queue'[c][i].from = t
      BY <1>3, <1>4, <3>2 DEF Reported
    <3> QED BY <2>5, <3>1, <3>2 DEF Reported
  <2>6. Revoked(c)' <=> Revoked(c)
    BY <1>1 DEF Revoked
  <2>7. \A i \in 1..Len(queue'[c]) : queue'[c][i].t = "fail" => Revoked(c)
    BY <1>1, <1>3, <1>4 DEF StreamOK
  <2>8. expected[c] \subseteq Stages
    OBVIOUS
  <2>9. StreamOK(c)'
    BY <1>1, <1>4, <1>9, <2>5, <2>6, <2>7, <2>8 DEF StreamOK
  <2>10. LifeInv' /\ Others(c)
    BY <1>1, <2>1, <2>3, <2>4, <2>9, OneCall DEF CallOK
  <2>11. pc'[c] = "draining"
    BY <1>1, <1>9
  <2> QED BY <1>1, <2>10, <2>11 DEF Return
<1>10. CASE /\ msg.t = "fail" /\ Return(c, "error") /\ PopOnExit(c) /\ completed' = completed
  <2>1. \E q : queue' = [queue EXCEPT ![c] = q]
    BY <1>1
  <2>2. LifeInv' /\ Others(c)
    BY <1>1, <1>10, <2>1, LifeLeaves DEF Return
  <2> QED BY <1>1, <1>5, <1>10, <2>2 DEF Return
<1>11. CASE /\ msg.t = "ok" /\ completed' = [completed EXCEPT ![c] = @ \cup {msg.from}]
            /\ StreamEnds(c, completed'[c]) /\ Return(c, "ok") /\ PopOnExit(c)
  <2>1. completed'[c] = completed[c] \cup {msg.from}
    BY <1>11
  <2>2. fut[c] = "result" /\ completed'[c] = value[c]
    BY <1>8, <1>11, <2>1
  <2>3. (\E q : queue' = [queue EXCEPT ![c] = q]) /\ \E v : completed' = [completed EXCEPT ![c] = v]
    BY <1>1, <1>11
  <2>4. LifeInv' /\ Others(c)
    BY <1>1, <1>11, <2>2, <2>3, LifeLeaves DEF Return
  <2> QED BY <1>1, <1>11, <2>2, <2>4 DEF Return
<1> QED BY <1>7, <1>9, <1>10, <1>11
-----------------------------------------------------------------------------
(* The steps of the completion loop and of abort().                        *)

\* What a queue holds after a put.
LEMMA PutEffect ==
  ASSUME TypeOK, TablesOK, NEW id \in Ids, NEW msg \in QueueMsg, Put(id, msg), NEW d \in Calls
  PROVE  /\ rid[d] # id => queue'[d] = queue[d]
         /\ queueOf[id] = d => queue'[d] = Append(queue[d], msg)
         /\ queueOf[id] # d => queue'[d] = queue[d]
<1> USE Types
<1>1. queueOf[id] \in Calls \cup {NoCall} /\ (queueOf[id] # NoCall => rid[queueOf[id]] = id)
  BY DEF TablesOK
<1>2. CASE queueOf[id] = NoCall
  BY <1>2, NoCallAssumption DEF Put
<1>3. CASE queueOf[id] # NoCall
  BY <1>1, <1>3 DEF Put
<1> QED BY <1>2, <1>3

\* What a consumer finds in its queue after a put.
LEMMA Appended ==
  ASSUME TypeOK, NEW d \in Calls, NEW msg \in QueueMsg, completed'[d] = completed[d],
         queue'[d] = Append(queue[d], msg)
  PROVE  /\ \A i \in 1..Len(queue'[d]) :
              (i \in 1..Len(queue[d]) /\ queue'[d][i] = queue[d][i]) \/ queue'[d][i] = msg
         /\ \A t \in Stages : Reported(d, t)' => Reported(d, t) \/ (msg.t = "ok" /\ msg.from = t)
<1>1. queue[d] \in Seq(QueueMsg)
  BY Types
<1>2. \A i \in 1..Len(Append(queue[d], msg)) :
        (i \in 1..Len(queue[d]) /\ Append(queue[d], msg)[i] = queue[d][i]) \/ Append(queue[d], msg)[i] = msg
  BY <1>1
<1> QED BY <1>2 DEF Reported

\* A chunk tells the consumer of no end.
LEMMA LifeChunk ==
  ASSUME TypeOK, LifeInv, NEW t \in Stages, HandleStream(t)
  PROVE  LifeInv'
<1> USE Types
<1>1. PICK id \in Ids : Put(id, [t |-> "chunk", from |-> t])
  BY ReceiveType DEF HandleStream
<1>2. PICK msg \in QueueMsg : msg = [t |-> "chunk", from |-> t]
  BY MsgType
<1>3. /\ Put(id, msg) /\ msg.t = "chunk" /\ TablesOK
      /\ UNCHANGED <<reqState, terminals, futureOf, queueOf, partials, pc, kind, rid, fut, value,
                     waitsOn, expected, completed, outcome, abortOk>>
  BY <1>1, <1>2 DEF HandleStream, LifeInv
<1>4. ASSUME NEW d \in Calls PROVE CallOK(d)'
  <2>1. CallOK(d)
    BY DEF LifeInv
  <2>2. CASE queueOf[id] # d
    <3>1. queue'[d] = queue[d]
      BY <1>3, <2>2, PutEffect
    <3> QED BY <1>3, <2>1, <3>1, SameCall DEF Same
  <2>3. CASE queueOf[id] = d
    <3>1. queue'[d] = Append(queue[d], msg) /\ rid[d] = id
      BY <1>3, <2>3, PutEffect, NoCallAssumption DEF TablesOK
    <3>2. /\ \A i \in 1..Len(queue'[d]) :
               (i \in 1..Len(queue[d]) /\ queue'[d][i] = queue[d][i]) \/ queue'[d][i] = msg
          /\ \A x \in Stages : Reported(d, x)' => Reported(d, x)
      BY <1>3, <3>1, Appended
    <3>3. IdleOK(d)' /\ WaitingOK(d)' /\ EndOK(d)'
      BY <1>3, <2>1, <2>3, <3>1, NoCallAssumption DEF CallOK, IdleOK, WaitingOK, EndOK, Tracked
    <3>4. (Revoked(d)' <=> Revoked(d)) /\ expected[d] \subseteq Stages
      BY <1>3 DEF Revoked
    <3>5. StreamOK(d)'
      BY <1>3, <2>1, <3>2, <3>4 DEF CallOK, StreamOK
    <3> QED BY <3>3, <3>5 DEF CallOK
  <2> QED BY <2>2, <2>3
<1>5. TablesOK'
  BY <1>3 DEF TablesOK, Tracked
<1> QED BY <1>3, <1>4, <1>5 DEF LifeInv

\* The request of a call is forgotten and its future, if it is registered and
\* unsettled, is rejected: its consumer is told.
LEMMA RevokedCall ==
  ASSUME TypeOK, PartialsBelongToRequest, NEW d \in Calls, CallOK(d),
         NEW x \in {"error", "cancelled"}, NEW msg \in QueueMsg, msg.t = "fail",
         Tracked(rid[d]), ~Tracked(rid[d])',
         fut'[d] = IF futureOf[rid[d]] = d /\ fut[d] = "pending" THEN x ELSE fut[d],
         queue'[d] = IF queueOf[rid[d]] = d THEN Append(queue[d], msg) ELSE queue[d],
         UNCHANGED <<futureOf, queueOf, pc, kind, rid, value, waitsOn, expected, completed, outcome>>
  PROVE  CallOK(d)'
<1> USE Types
<1>1. rid[d] \in Ids /\ pc[d] # "idle" /\ fut[d] # "result" /\ fut'[d] # "result"
  BY DEF CallOK, IdleOK, EndOK
<1>2. IdleOK(d)'
  BY <1>1 DEF IdleOK
<1>3. WaitingOK(d)'
  BY <1>1 DEF CallOK, WaitingOK
<1>4. EndOK(d)'
  BY <1>1 DEF CallOK, EndOK
<1>5. StreamOK(d)'
  <2> SUFFICES ASSUME kind[d] = "stream", pc[d] \in Waiting PROVE StreamOK(d)'
    BY DEF StreamOK
  <2>1. /\ futureOf[rid[d]] = d /\ queueOf[rid[d]] = d /\ fut[d] = "pending" /\ StreamOK(d)
        /\ fut'[d] = x /\ queue'[d] = Append(queue[d], msg)
    BY DEF CallOK, WaitingOK, EndOK
  <2>2. Revoked(d)' /\ fut'[d] # "pending" /\ fut'[d] # "result"
    BY <2>1 DEF Revoked
  <2>3. \A t \in Stages : Reported(d, t)' => Reported(d, t)
    BY <2>1, Appended
  <2>4. \A t \in Stages : Reported(d, t)' => t \in partials[rid[d]]
    BY <2>1, <2>3 DEF StreamOK
  <2>5. pc[d] = "draining" => expected[d] = terminals[rid[d]]
    BY <2>1 DEF StreamOK
  <2>6. /\ partials[rid[d]] # {} => /\ partials[rid[d]] \subseteq terminals[rid[d]]
                                    /\ partials[rid[d]] # terminals[rid[d]]
        /\ terminals[rid[d]] \subseteq Stages
    BY <1>1 DEF PartialsBelongToRequest
  <2>7. pc[d] = "draining" /\ expected[d] = {} => \A t \in Stages : ~Reported(d, t)'
    BY <2>4, <2>5, <2>6
  <2>8. ASSUME pc[d] = "draining", expected[d] # {} PROVE \E t \in expected[d] : ~Reported(d, t)'
    <3>1. PICK t \in expected[d] : t \notin partials[rid[d]]
      BY <2>5, <2>6, <2>8
    <3> QED BY <2>4, <2>5, <2>6, <2>8, <3>1
  <2> QED BY <2>2, <2>7, <2>8 DEF StreamOK
<1> QED BY <1>2, <1>3, <1>4, <1>5 DEF CallOK

\* abort(), and the failure of a stage.
LEMMA LifeRevokes ==
  ASSUME TypeOK, LifeInv, PartialsBelongToRequest, NEW id \in Ids, Tracked(id),
         RejectCompletionFuture(id), Untrack(id), NEW msg \in QueueMsg, msg.t = "fail", Put(id, msg),
         UNCHANGED <<futureOf, queueOf, pc, kind, rid, value, waitsOn, expected, completed, outcome>>,
         abortOk' = abortOk \/ abortOk' = abortOk \cup {id}
  PROVE  LifeInv' /\ \A d \in Calls : rid[d] # id => Same(d)
<1> USE Types
<1>1. /\ TablesOK /\ futureOf[id] \in Calls \cup {NoCall} /\ rid \in [Calls -> Ids]
      /\ futureOf[id] # NoCall => rid[futureOf[id]] = id
  BY DEF LifeInv, TablesOK
<1>2. PICK x \in {"error", "cancelled"} :
        fut' = IF HasPendingFuture(id) THEN [fut EXCEPT ![futureOf[id]] = x] ELSE fut
  BY DEF RejectCompletionFuture
<1>3. ASSUME NEW d \in Calls, rid[d] = id PROVE CallOK(d)'
  <2>1. fut'[d] = IF futureOf[rid[d]] = d /\ fut[d] = "pending" THEN x ELSE fut[d]
    BY <1>1, <1>2, <1>3, NoCallAssumption DEF HasPendingFuture
  <2>2. queue'[d] = IF queueOf[rid[d]] = d THEN Append(queue[d], msg) ELSE queue[d]
    BY <1>1, <1>3, PutEffect
  <2>3. CallOK(d) /\ Tracked(rid[d]) /\ ~Tracked(rid[d])'
    BY <1>3 DEF LifeInv, Untrack, Tracked
  <2> QED BY <1>3, <2>1, <2>2, <2>3, RevokedCall
<1>4. ASSUME NEW d \in Calls, rid[d] # id PROVE Same(d)
  <2>1. queue'[d] = queue[d]
    BY <1>1, <1>4, PutEffect
  <2>2. fut'[d] = fut[d]
    BY <1>1, <1>2, <1>4 DEF HasPendingFuture
  <2> QED BY <1>1, <1>4, <2>1, <2>2 DEF Same, Untrack
<1>5. TablesOK'
  BY <1>1 DEF TablesOK, Untrack, Tracked
<1> QED BY <1>3, <1>4, <1>5, OneId
\* what a stage's socket holds comes from that stage
SourcesOK == \A t \in Stages : \A i \in 1..Len(chan[t]) : chan[t][i].from = t

\* Every message on a stage's socket is its own.
LEMMA SourcesStep ==
  ASSUME TypeOK, SourcesOK, [Next]_vars
  PROVE  SourcesOK'
<1>0. \A t \in Stages : chan[t] \in Seq(StageMsg)
  BY DEF TypeOK, StageTypeOK
<1>1. \/ chan' = chan
      \/ \E t \in Stages : chan[t] # <<>> /\ chan' = [chan EXCEPT ![t] = Tail(@)]
      \/ \E t \in Stages, id \in Ids, k \in {"chunk", "ok", "fail"} :
           chan' = [chan EXCEPT ![t] = Append(@, [t |-> k, from |-> t, id |-> id])]
  BY DEF Next, vars, stageVars, CallStep, LoopStep, StageStep, AlreadyStreaming, RejectCall,
         SubmitRequest, SubmitSuspends, SubmitFails, SendFlushed, SubmitResumes, AwaitFuture,
         DrainQueue, CancelCall, Abort, Receive, HandleStream, HandleFailure, HandleSuccess,
         IgnoreCompletion, FailPendingRequests, PipelineAccepts, StageStreams, StageFinishes,
         StageAborts
<1>2. CASE chan' = chan
  BY <1>2 DEF SourcesOK
<1>3. ASSUME NEW t \in Stages, chan[t] # <<>>, chan' = [chan EXCEPT ![t] = Tail(@)]
      PROVE  SourcesOK'
  <2>1. \A i \in 1..Len(Tail(chan[t])) : i + 1 \in 1..Len(chan[t]) /\ Tail(chan[t])[i] = chan[t][i + 1]
    BY <1>0, <1>3
  <2>2. /\ chan'[t] = Tail(chan[t])
        /\ \A x \in Stages : x # t => chan'[x] = chan[x]
    BY <1>3 DEF TypeOK, StageTypeOK
  <2>3. \A i \in 1..Len(chan'[t]) : chan'[t][i].from = t
    BY <2>1, <2>2 DEF SourcesOK
  <2>4. \A x \in Stages : x # t => \A i \in 1..Len(chan'[x]) : chan'[x][i].from = x
    BY <2>2 DEF SourcesOK
  <2> QED BY <2>3, <2>4 DEF SourcesOK
<1>4. ASSUME NEW t \in Stages, NEW id \in Ids, NEW k \in {"chunk", "ok", "fail"},
             chan' = [chan EXCEPT ![t] = Append(@, [t |-> k, from |-> t, id |-> id])]
      PROVE  SourcesOK'
  <2>1. PICK m \in StageMsg : m = [t |-> k, from |-> t, id |-> id]
    BY DEF StageMsg
  <2>2. \A i \in 1..Len(Append(chan[t], m)) :
          (i \in 1..Len(chan[t]) /\ Append(chan[t], m)[i] = chan[t][i]) \/ Append(chan[t], m)[i] = m
    BY <1>0
  <2>3. /\ chan'[t] = Append(chan[t], m) /\ m.from = t
        /\ \A x \in Stages : x # t => chan'[x] = chan[x]
    BY <1>4, <2>1 DEF TypeOK, StageTypeOK
  <2>4. \A i \in 1..Len(chan'[t]) : chan'[t][i].from = t
    BY <2>2, <2>3 DEF SourcesOK
  <2>5. \A x \in Stages : x # t => \A i \in 1..Len(chan'[x]) : chan'[x][i].from = x
    BY <2>3 DEF SourcesOK
  <2> QED BY <2>4, <2>5 DEF SourcesOK
<1> QED BY <1>1, <1>2, <1>3, <1>4

\* A report that counts: what has been collected with it is the whole
\* resolution, the only report of a pipeline without terminals, or still
\* misses a terminal.
LEMMA Counted ==
  ASSUME TypeOK, PartialsBelongToRequest, NEW id \in Ids, NEW t \in Stages, Tracked(id),
         terminals[id] = {} \/ t \in terminals[id]
  PROVE  IF Cardinality(terminals[id]) <= 1 \/ AllReported(partials[id] \cup {t}, terminals[id])
         THEN \/ partials[id] \cup {t} = terminals[id] /\ terminals[id] # {}
              \/ terminals[id] = {} /\ partials[id] \cup {t} = {t}
         ELSE partials[id] \cup {t} \subseteq terminals[id] /\ partials[id] \cup {t} # terminals[id]
<1>1. /\ terminals[id] \subseteq Stages
      /\ partials[id] # {} => partials[id] \subseteq terminals[id] /\ partials[id] # terminals[id]
  BY Types DEF PartialsBelongToRequest
<1>2. CASE Cardinality(terminals[id]) <= 1
  <2>1. IsFiniteSet(terminals[id])
    BY <1>1, ResolutionsAssumption, FS_Subset
  <2>2. Cardinality(terminals[id]) = 0 \/ Cardinality(terminals[id]) = 1
    BY <1>2, <2>1, FS_CardinalityType
  <2>3. terminals[id] = {} \/ \E x : terminals[id] = {x}
    BY <2>1, <2>2, FS_EmptySet, FS_Singleton
  <2> QED BY <1>1, <1>2, <2>3
<1>3. CASE ~(Cardinality(terminals[id]) <= 1)
  BY <1>1, <1>3 DEF AllReported
<1> QED BY <1>2, <1>3

\* the success of stage t, which makes up have for the request id
Resolves(id, have) == Cardinality(terminals[id]) <= 1 \/ AllReported(have, terminals[id])

Success(t, id, msg, have) ==
  /\ Put(id, msg) /\ msg.t = "ok" /\ msg.from = t /\ Tracked(id) /\ have = partials[id] \cup {t}
  /\ UNCHANGED <<futureOf, queueOf, pc, kind, rid, waitsOn, expected, completed, outcome, abortOk>>
  /\ IF Resolves(id, have)
     THEN /\ ResolveCompletionFuture(id, have) /\ Untrack(id)
          /\ (have = terminals[id] /\ terminals[id] # {}) \/ (terminals[id] = {} /\ have = {t})
     ELSE /\ partials' = [partials EXCEPT ![id] = have]
          /\ UNCHANGED <<reqState, terminals, fut, value>>
          /\ have \subseteq terminals[id] /\ have # terminals[id]

\* What HandleSuccess does, and what it has collected when it resolves.
LEMMA SuccessEffect ==
  ASSUME TypeOK, SourcesOK, PartialsBelongToRequest, NEW t \in Stages, HandleSuccess(t)
  PROVE  \E id \in Ids, msg \in QueueMsg, have \in SUBSET Stages : Success(t, id, msg, have)
<1> USE Types
<1>1. PICK id \in Ids : id = Head(chan[t]).id
  BY ReceiveType DEF HandleSuccess
<1>2. Head(chan[t]).t = "ok" /\ Head(chan[t]).from = t
  <2>1. chan[t] \in Seq(StageMsg) /\ chan[t] # <<>> /\ Head(chan[t]).t = "ok"
    BY DEF HandleSuccess, Receive, TypeOK, StageTypeOK
  <2>2. Head(chan[t]) = chan[t][1] /\ 1 \in 1..Len(chan[t])
    BY <2>1
  <2> QED BY <2>1, <2>2 DEF SourcesOK
<1>3. PICK msg \in QueueMsg : msg = [t |-> "ok", from |-> t]
  BY MsgType
<1>4. PICK have \in SUBSET Stages : have = partials[id] \cup {t}
  OBVIOUS
<1>5. Tracked(id) /\ (terminals[id] = {} \/ t \in terminals[id])
  BY <1>1, <1>2 DEF HandleSuccess, Ignored
<1>6. IF Resolves(id, have)
      THEN (have = terminals[id] /\ terminals[id] # {}) \/ (terminals[id] = {} /\ have = {t})
      ELSE have \subseteq terminals[id] /\ have # terminals[id]
  BY <1>4, <1>5, Counted DEF Resolves
<1>7. /\ Put(id, msg)
      /\ UNCHANGED <<futureOf, queueOf, pc, kind, rid, waitsOn, expected, completed, outcome, abortOk>>
      /\ IF Resolves(id, have)
         THEN ResolveCompletionFuture(id, have) /\ Untrack(id)
         ELSE /\ partials' = [partials EXCEPT ![id] = have]
              /\ UNCHANGED <<reqState, terminals, fut, value>>
  BY <1>1, <1>3, <1>4 DEF HandleSuccess, Resolves
<1>8. Success(t, id, msg, have)
  BY <1>3, <1>4, <1>5, <1>6, <1>7 DEF Success
<1> QED BY <1>8

\* A success concerns the call with its id.
LEMMA SuccessSame ==
  ASSUME TypeOK, TablesOK, NEW t \in Stages, NEW id \in Ids, NEW msg \in QueueMsg,
         NEW have \in SUBSET Stages, Success(t, id, msg, have), NEW d \in Calls, rid[d] # id
  PROVE  Same(d)
<1> USE Types
<1>1. /\ futureOf[id] \in Calls \cup {NoCall} /\ rid \in [Calls -> Ids]
      /\ futureOf[id] # NoCall => rid[futureOf[id]] = id
  BY DEF TablesOK
<1>2. queue'[d] = queue[d]
  <2>1. Put(id, msg)
    BY DEF Success
  <2> QED BY <2>1, PutEffect
<1>3. fut'[d] = fut[d] /\ value'[d] = value[d]
  BY <1>1 DEF Success, Resolves, ResolveCompletionFuture, HasPendingFuture
<1>4. /\ reqState'[rid[d]] = reqState[rid[d]] /\ terminals'[rid[d]] = terminals[rid[d]]
      /\ partials'[rid[d]] = partials[rid[d]]
  BY <1>1 DEF Success, Resolves, Untrack
<1> QED BY <1>2, <1>3, <1>4 DEF Same, Success

\* A terminal reports success: the consumer is told of no more than has been
\* collected.
LEMMA LifeSuccess ==
  ASSUME TypeOK, LifeInv, SourcesOK, PartialsBelongToRequest, NEW t \in Stages, HandleSuccess(t)
  PROVE  LifeInv'
<1> USE Types
<1>1. PICK id \in Ids, msg \in QueueMsg, have \in SUBSET Stages :
        Success(t, id, msg, have)
  BY SuccessEffect
<1>2. /\ TablesOK /\ futureOf[id] \in Calls \cup {NoCall} /\ rid \in [Calls -> Ids]
      /\ futureOf[id] # NoCall => rid[futureOf[id]] = id
  BY DEF LifeInv, TablesOK
<1>3. \A d \in Calls : rid[d] # id => Same(d)
  BY <1>1, SuccessSame DEF LifeInv
<1>4. TablesOK'
  BY <1>1, <1>2 DEF TablesOK, Success, Resolves, Untrack, Tracked
<1>5. ASSUME NEW d \in Calls, rid[d] = id PROVE CallOK(d)'
  <2>1. CallOK(d) /\ pc[d] # "idle" /\ fut[d] # "result" /\ id \notin abortOk
    BY <1>1, <1>5 DEF LifeInv, CallOK, IdleOK, EndOK, Success
  <2>2. queue'[d] = IF queueOf[id] = d THEN Append(queue[d], msg) ELSE queue[d]
    <3>1. Put(id, msg)
      BY <1>1 DEF Success
    <3> QED BY <1>2, <3>1, PutEffect
  <2>3. ASSUME kind[d] = "stream", pc[d] \in Waiting
        PROVE  /\ futureOf[id] = d /\ fut[d] = "pending" /\ StreamOK(d)
               /\ \A i \in 1..Len(queue'[d]) : queue'[d][i].t # "fail"
               /\ \A x \in Stages : Reported(d, x)' => x \in have
               /\ pc[d] = "draining" => expected[d] = terminals[id]
    <3>1. futureOf[id] = d /\ queueOf[id] = d /\ fut[d] = "pending" /\ StreamOK(d)
      BY <1>1, <1>5, <2>1, <2>3 DEF CallOK, WaitingOK, EndOK, Success
    <3>2. /\ \A i \in 1..Len(queue'[d]) :
               (i \in 1..Len(queue[d]) /\ queue'[d][i] = queue[d][i]) \/ queue'[d][i] = msg
          /\ \A x \in Stages : Reported(d, x)' => Reported(d, x) \/ x = t
      <4>1. queue'[d] = Append(queue[d], msg) /\ completed'[d] = completed[d] /\ msg.from = t
        BY <1>1, <2>2, <3>1 DEF Success
      <4> QED BY <4>1, Appended
    <3>3. \A i \in 1..Len(queue'[d]) : queue'[d][i].t # "fail"
      BY <1>1, <2>3, <3>1, <3>2 DEF StreamOK, Revoked, Success
    <3>4. \A x \in Stages : Reported(d, x) => x \in partials[id]
      BY <1>5, <2>3, <3>1 DEF StreamOK
    <3> QED BY <1>1, <1>5, <2>3, <3>1, <3>2, <3>3, <3>4 DEF StreamOK, Success
  <2>4. CASE ~Resolves(id, have)
    <3>1. /\ partials' = [partials EXCEPT ![id] = have]
          /\ UNCHANGED <<reqState, terminals, fut, value>>
      BY <1>1, <2>4 DEF Success
    <3>2. IdleOK(d)' /\ WaitingOK(d)' /\ EndOK(d)'
      BY <1>1, <2>1, <3>1 DEF CallOK, IdleOK, WaitingOK, EndOK, Success, Tracked
    <3>3. StreamOK(d)'
      <4>1. kind[d] = "stream" /\ pc[d] \in Waiting => fut'[d] = "pending" /\ ~Revoked(d)'
        BY <2>3, <3>1 DEF Revoked
      <4> QED BY <1>1, <1>5, <2>3, <3>1, <4>1 DEF StreamOK, Success
    <3> QED BY <3>2, <3>3 DEF CallOK
  <2>5. CASE Resolves(id, have)
    <3>1. ResolveCompletionFuture(id, have) /\ ~Tracked(id)' /\ Tracked(id)
      BY <1>1, <2>5 DEF Success, Untrack, Tracked
    <3>2. /\ futureOf[id] = d /\ fut[d] = "pending" => fut'[d] = "result" /\ value'[d] = have
          /\ ~(futureOf[id] = d /\ fut[d] = "pending") => fut'[d] = fut[d]
      BY <1>2, <3>1, NoCallAssumption DEF ResolveCompletionFuture, HasPendingFuture
    <3>3. IdleOK(d)'
      BY <1>1, <2>1 DEF IdleOK, Success
    <3>4. WaitingOK(d)'
      BY <1>1, <1>5, <2>1, <3>1, <3>2 DEF CallOK, WaitingOK, Success
    <3>5. EndOK(d)'
      BY <1>1, <1>5, <2>1, <3>1, <3>2 DEF CallOK, EndOK, Success
    <3>6. StreamOK(d)'
      <4> SUFFICES ASSUME kind[d] = "stream", pc[d] \in Waiting PROVE StreamOK(d)'
        BY <1>1 DEF StreamOK, Success
      <4>1. fut'[d] = "result" /\ value'[d] = have /\ ~Revoked(d)'
        BY <2>3, <3>2 DEF Revoked
      <4>2. (have = terminals[id] /\ terminals[id] # {}) \/ (terminals[id] = {} /\ have = {t})
        BY <1>1, <2>5 DEF Success
      <4>3. pc[d] = "draining" =>
              \/ value'[d] = expected'[d] /\ expected'[d] # {}
              \/ expected'[d] = {} /\ \E x \in Stages : value'[d] = {x}
        BY <1>1, <2>3, <4>1, <4>2 DEF Success
      <4> QED BY <1>1, <2>3, <4>1, <4>3 DEF StreamOK, Success
    <3> QED BY <3>3, <3>4, <3>5, <3>6 DEF CallOK
  <2> QED BY <2>4, <2>5
<1> QED BY <1>1, <1>3, <1>4, <1>5, OneId DEF Success

\* The pipeline has died: every tracked request is revoked.
LEMMA LifeFatal ==
  ASSUME TypeOK, LifeInv, PartialsBelongToRequest, FailPendingRequests
  PROVE  LifeInv'
<1> USE Types
<1>1. /\ TablesOK /\ \A id \in Ids : ~Tracked(id)'
      /\ UNCHANGED <<futureOf, queueOf, pc, kind, rid, value, waitsOn, expected, completed, outcome, abortOk>>
  BY DEF FailPendingRequests, LifeInv, Tracked
<1>2. ASSUME NEW d \in Calls PROVE CallOK(d)'
  <2>1. CallOK(d) /\ rid[d] \in Ids
    BY DEF LifeInv
  <2>2. PICK x \in {"error", "cancelled"}, msg \in QueueMsg :
          /\ msg = FailMsg("coordinator")
          /\ fut'[d] = IF Tracked(rid[d]) /\ futureOf[rid[d]] = d /\ fut[d] = "pending" THEN x ELSE fut[d]
          /\ queue'[d] = IF Tracked(rid[d]) /\ queueOf[rid[d]] = d THEN Append(queue[d], msg) ELSE queue[d]
    BY MsgType DEF FailPendingRequests
  <2>3. CASE Tracked(rid[d])
    <3>1. msg.t = "fail"
      BY <2>2 DEF FailMsg
    <3> QED BY <1>1, <2>1, <2>2, <2>3, <3>1, RevokedCall
  <2>4. CASE ~Tracked(rid[d])
    <3>1. fut'[d] = fut[d] /\ queue'[d] = queue[d]
      BY <2>2, <2>4
    <3>2. IdleOK(d)' /\ WaitingOK(d)' /\ EndOK(d)'
      BY <1>1, <2>1, <2>4, <3>1 DEF CallOK, IdleOK, WaitingOK, EndOK
    <3>3. \A t \in Stages : Reported(d, t)' <=> Reported(d, t)
      BY <1>1, <3>1 DEF Reported
    <3>4. (Revoked(d)' <=> Revoked(d)) /\ expected[d] \subseteq Stages
      BY <3>1 DEF Revoked
    <3>5. pc[d] \in Waiting => fut[d] # "pending"
      BY <2>1, <2>4 DEF CallOK, WaitingOK
    <3>6. StreamOK(d)'
      BY <1>1, <2>1, <3>1, <3>3, <3>4, <3>5 DEF CallOK, StreamOK
    <3> QED BY <3>2, <3>6 DEF CallOK
  <2> QED BY <2>3, <2>4
<1>3. TablesOK'
  BY <1>1 DEF TablesOK
<1> QED BY <1>1, <1>2, <1>3 DEF LifeInv

\* Steps of the stages, completions that are ignored, and stuttering.
LEMMA LifeFrame ==
  ASSUME LifeInv, UNCHANGED <<reqState, terminals, futureOf, queueOf, partials, callVars, abortOk>>
  PROVE  LifeInv' /\ \A d \in Calls : Same(d)
<1>1. \A d \in Calls : Same(d)
  BY DEF Same, callVars
<1>2. TablesOK' /\ UNCHANGED rid
  BY DEF LifeInv, TablesOK, Tracked, callVars
<1> QED BY <1>1, <1>2, SameCall DEF LifeInv

\* A call whose id is its own never finds it streaming.
LEMMA NeverStreaming ==
  ASSUME LifeInv, NEW c \in Calls, AlreadyStreaming(c)
  PROVE  FALSE
BY DEF LifeInv, CallOK, IdleOK, AlreadyStreaming

\* Every step keeps the tables, the calls and their streams in agreement.
LEMMA LifeStep ==
  ASSUME TypeOK, PartialsBelongToRequest, SourcesOK, LifeInv, [Next]_vars
  PROVE  LifeInv'
<1>1. ASSUME NEW c \in Calls, CallStep(c) PROVE LifeInv'
  BY <1>1, NeverStreaming, LifeReject, LifeAdmit, LifeFails, LifeFlushed, LifeResumes, LifeAwait,
     LifeDrain, LifeCancel DEF CallStep
<1>2. ASSUME NEW id \in Ids, Abort(id) PROVE LifeInv'
  <2>1. FailMsg("coordinator") \in QueueMsg /\ FailMsg("coordinator").t = "fail"
    BY MsgType DEF FailMsg
  <2> QED BY <1>2, <2>1, LifeRevokes DEF Abort
<1>3. ASSUME NEW t \in Stages, HandleFailure(t) PROVE LifeInv'
  <2>1. FailMsg(t) \in QueueMsg /\ FailMsg(t).t = "fail"
    BY MsgType DEF FailMsg
  <2>2. Head(chan[t]).id \in Ids /\ Tracked(Head(chan[t]).id)
    BY <1>3, ReceiveType DEF HandleFailure, Ignored
  <2> QED BY <1>3, <2>1, <2>2, LifeRevokes DEF HandleFailure
<1>4. ASSUME NEW t \in Stages, LoopStep(t) PROVE LifeInv'
  BY <1>3, <1>4, LifeChunk, LifeSuccess, LifeFrame DEF LoopStep, IgnoreCompletion
<1>5. ASSUME NEW ts \in SUBSET Stages, PipelineAccepts(ts) PROVE LifeInv'
  BY <1>5, LifeFrame DEF PipelineAccepts, coordVars
<1>6. ASSUME NEW t \in Stages, NEW id \in Ids, StageStep(t, id) PROVE LifeInv'
  BY <1>6, LifeFrame DEF StageStep, StageStreams, StageFinishes, StageAborts, coordVars
<1>7. CASE UNCHANGED vars
  BY <1>7, LifeFrame DEF vars, coordVars
<1> QED BY <1>1, <1>2, <1>4, <1>5, <1>6, <1>7, LifeFatal DEF Next

LEMMA LifeInit ==
  ASSUME UniqueIds, Init
  PROVE  LifeInv /\ SourcesOK
<1>1. TablesOK
  BY DEF Init, TablesOK, Tracked
<1>2. ASSUME NEW c \in Calls PROVE CallOK(c)
  BY NoCallAssumption DEF Init, CallOK, IdleOK, WaitingOK, EndOK, StreamOK, Tracked, Waiting
<1>3. SourcesOK
  BY DEF Init, SourcesOK
<1>4. \A c, d \in Calls : rid[c] = rid[d] => c = d
  BY DEF Init
<1> QED BY <1>1, <1>2, <1>3, <1>4 DEF LifeInv

\* With unique ids every reachable state satisfies LifeInv.
LEMMA LifeInvariant ==
  ASSUME UniqueIds
  PROVE  Spec => [](TypeOK /\ PartialsBelongToRequest /\ SourcesOK /\ LifeInv)
<1>1. Init => LifeInv /\ SourcesOK
  BY LifeInit
<1>2. TypeOK /\ SourcesOK /\ [Next]_vars => SourcesOK'
  BY SourcesStep
<1>3. TypeOK /\ PartialsBelongToRequest /\ SourcesOK /\ LifeInv /\ [Next]_vars => LifeInv'
  BY LifeStep
<1> QED BY <1>1, <1>2, <1>3, TypeCorrect, PartialsSafe, PTL DEF Spec

\* abort() against late completions: once it has returned True its call never
\* succeeds.  A call succeeds only on a granted future, a granted request is
\* no longer tracked, and abort() returns True for tracked requests only.
THEOREM AbortsAreFinal ==
  ASSUME UniqueIds
  PROVE  Spec => []AbortIsFinal
<1>1. LifeInv => AbortIsFinal
  BY DEF LifeInv, CallOK, EndOK, AbortIsFinal
<1> QED BY <1>1, LifeInvariant, PTL

\* The finally blocks of submit() and stream(): whatever raises, is cancelled
\* or is aborted, no future or queue outlives its call, but for those of a
\* submit() that never reached its try block.
THEOREM NothingLeaks ==
  ASSUME UniqueIds
  PROVE  Spec => []EntriesAccountedFor
<1>1. TypeOK /\ LifeInv => EntriesAccountedFor
  <2> SUFFICES ASSUME TypeOK, LifeInv, NEW id \in Ids
               PROVE  /\ queueOf[id] # NoCall => pc[queueOf[id]] \in Waiting
                      /\ futureOf[id] # NoCall =>
                           \/ pc[futureOf[id]] \in Waiting
                           \/ kind[futureOf[id]] = "submit" /\ waitsOn[futureOf[id]] = NoCall
    BY DEF EntriesAccountedFor
  <2>1. /\ queueOf[id] # NoCall => queueOf[id] \in Calls /\ rid[queueOf[id]] = id
        /\ futureOf[id] # NoCall => futureOf[id] \in Calls /\ rid[futureOf[id]] = id
    BY Types DEF LifeInv, TablesOK
  <2> QED BY <2>1 DEF LifeInv, CallOK, EndOK
<1> QED BY <1>1, LifeInvariant, PTL
-----------------------------------------------------------------------------
(* Chunks.  With unique ids the chunks that a stage has sent for a request *)
(* are in its consumer's hands, in the stream's queue or on the stage's    *)
(* socket, and a stage's end of work comes last on both.                   *)

Count(s, x) == Cardinality({i \in 1..Len(s) : s[i] = x})

Chunk(t) == [t |-> "chunk", from |-> t]
Sent(t, id) == [t |-> "chunk", from |-> t, id |-> id]

\* in a queue: t has finished, and nothing of it comes after that
HasOk(q, t) == \E i \in 1..Len(q) : q[i].t = "ok" /\ q[i].from = t
OkLast(q, t) ==
  \A i, j \in 1..Len(q) : q[i].t = "ok" /\ q[i].from = t /\ i < j => q[j] # Chunk(t)

\* on a socket: the request has ended, and nothing of it comes after that
Mute(s, id) == \A i \in 1..Len(s) : s[i].id # id
Ended(s, id) == \E i \in 1..Len(s) : s[i].id = id /\ s[i].t # "chunk"
EndLast(s, id) ==
  \A i, j \in 1..Len(s) : s[i].id = id /\ s[i].t # "chunk" /\ i < j => s[j].id # id

InEntry(id) == \E i \in 1..Len(entry) : entry[i] = id
Unsent(c) == pc[c] \in {"idle", "sending"}
Over(c, t) == ~Unsent(c) /\ ~InEntry(rid[c]) /\ rid[c] \notin work[t]

\* no stage knows of a request that was not taken from the entry socket
FreshOK(c, t) ==
  /\ Unsent(c) \/ InEntry(rid[c]) =>
       emitted[t][rid[c]] = 0 /\ rid[c] \notin work[t] /\ Mute(chan[t], rid[c])
  /\ pc[c] = "idle" => yielded[c][t] = 0

\* a stage's end of work is the last it says of a request
LastOK(c, t) ==
  EndLast(chan[t], rid[c]) /\ (Ended(chan[t], rid[c]) => Over(c, t))

\* chunks are conserved
FlowOK(c, t) ==
  kind[c] = "stream" /\ pc[c] \in Waiting =>
    /\ emitted[t][rid[c]]
         = yielded[c][t] + Count(queue[c], Chunk(t)) + Count(chan[t], Sent(t, rid[c]))
    /\ OkLast(queue[c], t)
    /\ HasOk(queue[c], t) => Over(c, t) /\ Mute(chan[t], rid[c])

CompleteOK(c, t) ==
  kind[c] = "stream" /\ t \in completed[c] =>
    Over(c, t) /\ Mute(chan[t], rid[c]) /\ yielded[c][t] = emitted[t][rid[c]]

PairOK(c, t) == FreshOK(c, t) /\ LastOK(c, t) /\ FlowOK(c, t) /\ CompleteOK(c, t)

EntryOK ==
  /\ \A i, j \in 1..Len(entry) : entry[i] = entry[j] => i = j
  /\ \A c \in Calls : Unsent(c) => ~InEntry(rid[c])

ChunkInv == EntryOK /\ \A c \in Calls, t \in Stages : PairOK(c, t)

(* Counting in sequences.                                                  *)

LEMMA CountNat ==
  ASSUME NEW S, NEW s \in Seq(S), NEW x
  PROVE  /\ IsFiniteSet({i \in 1..Len(s) : s[i] = x}) /\ Count(s, x) \in Nat
         /\ (\A i \in 1..Len(s) : s[i] # x) => Count(s, x) = 0
<1>1. Len(s) \in Nat
  OBVIOUS
<1>2. IsFiniteSet(1..Len(s))
  BY <1>1, FS_Interval
<1>3. IsFiniteSet({i \in 1..Len(s) : s[i] = x})
  BY <1>2, FS_Subset
<1>4. (\A i \in 1..Len(s) : s[i] # x) => {i \in 1..Len(s) : s[i] = x} = {}
  OBVIOUS
<1> QED BY <1>3, <1>4, FS_CardinalityType, FS_EmptySet DEF Count

LEMMA CountAppend ==
  ASSUME NEW S, NEW s \in Seq(S), NEW x, NEW m \in S
  PROVE  Count(Append(s, m), x) = Count(s, x) + (IF m = x THEN 1 ELSE 0)
<1> DEFINE A == {i \in 1..Len(s) : s[i] = x}
           B == {i \in 1..Len(Append(s, m)) : Append(s, m)[i] = x}
<1>1. /\ Len(s) \in Nat /\ Len(Append(s, m)) = Len(s) + 1 /\ Append(s, m)[Len(s) + 1] = m
      /\ \A i \in 1..Len(s) : Append(s, m)[i] = s[i]
  OBVIOUS
<1>2. IsFiniteSet(A) /\ Cardinality(A) \in Nat /\ Count(s, x) = Cardinality(A)
      /\ Count(Append(s, m), x) = Cardinality(B)
  BY CountNat DEF Count
<1>3. CASE m = x
  <2>1. B = A \cup {Len(s) + 1} /\ Len(s) + 1 \notin A
    BY <1>1, <1>3
  <2> HIDE DEF A, B
  <2> QED BY <1>2, <1>3, <2>1, FS_AddElement
<1>4. CASE m # x
  <2>1. B = A
    BY <1>1, <1>4
  <2> HIDE DEF A, B
  <2> QED BY <1>2, <1>4, <2>1
<1> QED BY <1>3, <1>4

LEMMA CountTail ==
  ASSUME NEW S, NEW s \in Seq(S), NEW x, s # <<>>
  PROVE  Count(s, x) = Count(Tail(s), x) + (IF Head(s) = x THEN 1 ELSE 0)
<1> DEFINE A == {i \in 1..Len(Tail(s)) : Tail(s)[i] = x}
           B == {i \in 1..Len(s) : s[i] = x}
           C == B \ {1}
           f == [i \in A |-> i + 1]
<1>1. /\ Tail(s) \in Seq(S) /\ Len(s) \in Nat /\ Len(s) > 0 /\ Len(Tail(s)) = Len(s) - 1
      /\ Head(s) = s[1] /\ \A i \in 1..Len(Tail(s)) : Tail(s)[i] = s[i + 1]
  OBVIOUS
<1>2. /\ IsFiniteSet(A) /\ IsFiniteSet(B) /\ Cardinality(A) \in Nat /\ Cardinality(B) \in Nat
      /\ Count(Tail(s), x) = Cardinality(A) /\ Count(s, x) = Cardinality(B)
  BY <1>1, CountNat DEF Count
<1>3. \A i \in A : i \in Nat /\ i + 1 \in C
  BY <1>1
<1>4. \A j \in C : j - 1 \in A /\ j \in Nat
  BY <1>1
<1>5. 1 \in B <=> Head(s) = x
  BY <1>1
<1>6. C \subseteq B
  OBVIOUS
<1>7. Head(s) = x => B = C \cup {1} /\ 1 \notin C
  BY <1>5
<1>8. Head(s) # x => B = C
  BY <1>5
<1> HIDE DEF A, B, C
<1>9. f \in Bijection(A, C)
  <2>1. f \in [A -> C]
    BY <1>3
  <2>2. \A i, j \in A : f[i] = f[j] => i = j
    BY <1>3
  <2>3. \A j \in C : \E i \in A : f[i] = j
    <3> SUFFICES ASSUME NEW j \in C PROVE f[j - 1] = j /\ j - 1 \in A
      OBVIOUS
    <3> QED BY <1>4
  <2> QED BY <2>1, <2>2, <2>3 DEF Bijection, Injection, Surjection, IsInjective
<1>10. IsFiniteSet(C) /\ Cardinality(C) = Cardinality(A)
  <2>1. ExistsBijection(A, C)
    BY <1>9 DEF ExistsBijection
  <2> QED BY <1>2, <1>6, <2>1, FS_Subset, FS_Bijection
<1>11. CASE Head(s) = x
  BY <1>2, <1>7, <1>10, <1>11, FS_AddElement
<1>12. CASE Head(s) # x
  BY <1>2, <1>8, <1>10, <1>12
<1> QED BY <1>11, <1>12

(* Queues and sockets grow at the end and shrink at the front.             *)

LEMMA QueueAppend ==
  ASSUME NEW q \in Seq(QueueMsg), NEW m \in QueueMsg, NEW t
  PROVE  /\ Count(Append(q, m), Chunk(t)) = Count(q, Chunk(t)) + (IF m = Chunk(t) THEN 1 ELSE 0)
         /\ HasOk(Append(q, m), t) <=> HasOk(q, t) \/ (m.t = "ok" /\ m.from = t)
         /\ OkLast(q, t) /\ (m = Chunk(t) => ~HasOk(q, t)) => OkLast(Append(q, m), t)
<1> DEFINE p == Append(q, m)
<1>1. /\ Len(q) \in Nat /\ Len(p) = Len(q) + 1 /\ p[Len(q) + 1] = m
      /\ \A i \in 1..Len(q) : p[i] = q[i]
  OBVIOUS
<1>2. \A i \in 1..Len(p) : i \in 1..Len(q) \/ i = Len(q) + 1
  BY <1>1
<1> HIDE DEF p
<1>3. HasOk(p, t) <=> HasOk(q, t) \/ (m.t = "ok" /\ m.from = t)
  BY <1>1, <1>2 DEF HasOk
<1>4. ASSUME OkLast(q, t), m = Chunk(t) => ~HasOk(q, t)
      PROVE  OkLast(p, t)
  <2> SUFFICES ASSUME NEW i \in 1..Len(p), NEW j \in 1..Len(p), p[i].t = "ok", p[i].from = t, i < j
               PROVE  p[j] # Chunk(t)
    BY DEF OkLast
  <2>1. i \in 1..Len(q) /\ p[i] = q[i]
    BY <1>1
  <2>2. CASE j \in 1..Len(q)
    BY <1>1, <1>4, <2>1, <2>2 DEF OkLast
  <2>3. CASE j = Len(q) + 1
    BY <1>1, <1>4, <2>1, <2>3 DEF HasOk
  <2> QED BY <1>2, <2>2, <2>3
<1>5. Count(p, Chunk(t)) = Count(q, Chunk(t)) + (IF m = Chunk(t) THEN 1 ELSE 0)
  BY CountAppend DEF p
<1> QED BY <1>3, <1>4, <1>5 DEF p

LEMMA QueueTail ==
  ASSUME NEW q \in Seq(QueueMsg), q # <<>>, NEW t
  PROVE  /\ HasOk(Tail(q), t) => HasOk(q, t)
         /\ OkLast(q, t) => OkLast(Tail(q), t)
         /\ Head(q).t = "ok" /\ Head(q).from = t =>
              HasOk(q, t) /\ (OkLast(q, t) => Count(Tail(q), Chunk(t)) = 0)
<1> DEFINE p == Tail(q)
<1>1. /\ p \in Seq(QueueMsg) /\ Len(q) \in Nat /\ Len(q) > 0 /\ Len(p) = Len(q) - 1
      /\ Head(q) = q[1]
  OBVIOUS
<1>2. \A i \in 1..Len(p) : p[i] = q[i + 1] /\ i + 1 \in 1..Len(q) /\ 1 < i + 1
  OBVIOUS
<1>3. 1 \in 1..Len(q)
  BY <1>1
<1> HIDE DEF p
<1>4. HasOk(p, t) => HasOk(q, t)
  BY <1>2 DEF HasOk
<1>5. OkLast(q, t) => OkLast(p, t)
  <2> SUFFICES ASSUME OkLast(q, t), NEW i \in 1..Len(p), NEW j \in 1..Len(p),
                      p[i].t = "ok", p[i].from = t, i < j
               PROVE  p[j] # Chunk(t)
    BY DEF OkLast
  <2>1. i + 1 < j + 1
    BY <1>1
  <2> QED BY <1>2, <2>1 DEF OkLast
<1>6. Head(q).t = "ok" /\ Head(q).from = t => HasOk(q, t)
  BY <1>1, <1>3 DEF HasOk
<1>7. Head(q).t = "ok" /\ Head(q).from = t /\ OkLast(q, t) => \A i \in 1..Len(p) : p[i] # Chunk(t)
  BY <1>1, <1>2, <1>3 DEF OkLast
<1> QED BY <1>1, <1>4, <1>5, <1>6, <1>7, CountNat DEF p

LEMMA ChanAppend ==
  ASSUME NEW s \in Seq(StageMsg), NEW m \in StageMsg, NEW id
  PROVE  /\ Ended(Append(s, m), id) <=> Ended(s, id) \/ (m.id = id /\ m.t # "chunk")
         /\ Mute(Append(s, m), id) <=> Mute(s, id) /\ m.id # id
         /\ EndLast(s, id) /\ (m.id = id => ~Ended(s, id)) => EndLast(Append(s, m), id)
<1> DEFINE p == Append(s, m)
<1>1. /\ Len(s) \in Nat /\ Len(p) = Len(s) + 1 /\ p[Len(s) + 1] = m
      /\ \A i \in 1..Len(s) : p[i] = s[i] /\ i \in 1..Len(p)
      /\ Len(s) + 1 \in 1..Len(p)
  OBVIOUS
<1>2. \A i \in 1..Len(p) : i \in 1..Len(s) \/ i = Len(s) + 1
  BY <1>1
<1> HIDE DEF p
<1>3. Ended(p, id) <=> Ended(s, id) \/ (m.id = id /\ m.t # "chunk")
  BY <1>1, <1>2 DEF Ended
<1>4. Mute(p, id) <=> Mute(s, id) /\ m.id # id
  BY <1>1, <1>2 DEF Mute
<1>5. ASSUME EndLast(s, id), m.id = id => ~Ended(s, id)
      PROVE  EndLast(p, id)
  <2> SUFFICES ASSUME NEW i \in 1..Len(p), NEW j \in 1..Len(p), p[i].id = id, p[i].t # "chunk", i < j
               PROVE  p[j].id # id
    BY DEF EndLast
  <2>1. i \in 1..Len(s) /\ p[i] = s[i]
    BY <1>1
  <2>2. CASE j \in 1..Len(s)
    BY <1>1, <1>5, <2>1, <2>2 DEF EndLast
  <2>3. CASE j = Len(s) + 1
    BY <1>1, <1>5, <2>1, <2>3 DEF Ended
  <2> QED BY <1>2, <2>2, <2>3
<1> QED BY <1>3, <1>4, <1>5 DEF p

LEMMA ChanTail ==
  ASSUME NEW s \in Seq(StageMsg), s # <<>>, NEW id
  PROVE  /\ Ended(Tail(s), id) => Ended(s, id)
         /\ Mute(s, id) => Mute(Tail(s), id) /\ Head(s).id # id
         /\ EndLast(s, id) => EndLast(Tail(s), id)
         /\ Head(s).id = id /\ Head(s).t # "chunk" =>
              Ended(s, id) /\ (EndLast(s, id) => Mute(Tail(s), id))
<1> DEFINE p == Tail(s)
<1>1. /\ p \in Seq(StageMsg) /\ Len(s) \in Nat /\ Len(s) > 0 /\ Len(p) = Len(s) - 1
      /\ Head(s) = s[1]
  OBVIOUS
<1>2. \A i \in 1..Len(p) : p[i] = s[i + 1] /\ i + 1 \in 1..Len(s) /\ 1 < i + 1
  OBVIOUS
<1>3. 1 \in 1..Len(s)
  BY <1>1
<1> HIDE DEF p
<1>4. Ended(p, id) => Ended(s, id)
  BY <1>2 DEF Ended
<1>5. Mute(s, id) => Mute(p, id) /\ Head(s).id # id
  BY <1>1, <1>2, <1>3 DEF Mute
<1>6. EndLast(s, id) => EndLast(p, id)
  <2> SUFFICES ASSUME EndLast(s, id), NEW i \in 1..Len(p), NEW j \in 1..Len(p),
                      p[i].id = id, p[i].t # "chunk", i < j
               PROVE  p[j].id # id
    BY DEF EndLast
  <2>1. i + 1 < j + 1
    BY <1>1
  <2> QED BY <1>2, <2>1 DEF EndLast
<1>7. Head(s).id = id /\ Head(s).t # "chunk" => Ended(s, id) /\ (EndLast(s, id) => Mute(p, id))
  BY <1>1, <1>2, <1>3 DEF Ended, EndLast, Mute
<1> QED BY <1>4, <1>5, <1>6, <1>7 DEF p

LEMMA MuteFacts ==
  ASSUME NEW s \in Seq(StageMsg), NEW t, NEW id, Mute(s, id)
  PROVE  ~Ended(s, id) /\ EndLast(s, id) /\ Count(s, Sent(t, id)) = 0
<1>1. ~Ended(s, id) /\ EndLast(s, id)
  BY DEF Mute, Ended, EndLast
<1>2. \A i \in 1..Len(s) : s[i] # Sent(t, id)
  BY DEF Mute, Sent
<1> QED BY <1>1, <1>2, CountNat

LEMMA NoQueue ==
  ASSUME NEW q \in Seq(QueueMsg), Len(q) = 0, NEW t
  PROVE  Count(q, Chunk(t)) = 0 /\ OkLast(q, t) /\ ~HasOk(q, t)
<1>1. \A i \in 1..Len(q) : FALSE
  OBVIOUS
<1>2. Count(q, Chunk(t)) = 0
  BY <1>1, CountNat
<1> QED BY <1>1, <1>2 DEF OkLast, HasOk

(* What the steps do to one call and one stage.                            *)

\* The variables the argument looks into.
LEMMA ChunkTypes ==
  ASSUME TypeOK
  PROVE  /\ entry \in Seq(Ids) /\ work \in [Stages -> SUBSET Ids]
         /\ chan \in [Stages -> Seq(StageMsg)] /\ emitted \in [Stages -> [Ids -> Nat]]
         /\ yielded \in [Calls -> [Stages -> Nat]] /\ queue \in [Calls -> Seq(QueueMsg)]
         /\ rid \in [Calls -> Ids] /\ completed \in [Calls -> SUBSET Stages]
BY DEF TypeOK, CallTypeOK, StageTypeOK

\* a call goes on without sending
Moves(c) ==
  \/ pc'[c] = pc[c] \/ pc'[c] = "done"
  \/ pc[c] = "idle" /\ pc'[c] = "sending"
  \/ pc[c] = "sent" /\ pc'[c] \in {"awaiting", "draining"}

\* nothing of the request comes onto the socket or leaves it
SocketKept(t, id) ==
  /\ EndLast(chan[t], id) => EndLast(chan'[t], id)
  /\ Ended(chan'[t], id) => Ended(chan[t], id)
  /\ Mute(chan[t], id) => Mute(chan'[t], id)
  /\ Count(chan'[t], Sent(t, id)) = Count(chan[t], Sent(t, id))

LEMMA PairFrame ==
  ASSUME TypeOK, LifeInv, NEW c \in Calls, NEW t \in Stages, PairOK(c, t), Moves(c),
         SocketKept(t, rid[c]), rid'[c] = rid[c], kind'[c] = kind[c], queue'[c] = queue[c],
         completed'[c] = completed[c] \/ kind[c] = "submit", yielded'[c][t] = yielded[c][t],
         emitted'[t][rid[c]] = emitted[t][rid[c]], rid[c] \in work'[t] => rid[c] \in work[t],
         InEntry(rid[c])' <=> InEntry(rid[c])
  PROVE  PairOK(c, t)'
<1>1. /\ pc[c] = "idle" => queue[c] = <<>> /\ completed[c] = {}
      /\ queue[c] \in Seq(QueueMsg) /\ chan[t] \in Seq(StageMsg)
  BY ChunkTypes DEF LifeInv, CallOK, IdleOK
<1>2. Unsent(c)' => Unsent(c)
  BY DEF Moves, Unsent
<1>3. Over(c, t) => Over(c, t)'
  BY <1>2 DEF Over
<1>4. FreshOK(c, t)'
  BY <1>2 DEF PairOK, FreshOK, SocketKept, Moves, Unsent
<1>5. LastOK(c, t)'
  BY <1>3 DEF PairOK, LastOK, SocketKept
<1>6. FlowOK(c, t)'
  <2> SUFFICES ASSUME kind[c] = "stream", pc'[c] \in Waiting PROVE FlowOK(c, t)'
    BY DEF FlowOK
  <2>1. CASE pc[c] = "idle"
    <3>1. /\ emitted[t][rid[c]] = 0 /\ yielded[c][t] = 0 /\ Mute(chan[t], rid[c])
          /\ Len(queue[c]) = 0
      BY <1>1, <2>1 DEF PairOK, FreshOK, Unsent
    <3>2. Count(queue[c], Chunk(t)) = 0 /\ OkLast(queue[c], t) /\ ~HasOk(queue[c], t)
      BY <1>1, <3>1, NoQueue
    <3>3. Count(chan[t], Sent(t, rid[c])) = 0
      BY <1>1, <3>1, MuteFacts
    <3> QED BY <3>1, <3>2, <3>3 DEF FlowOK, SocketKept
  <2>2. CASE pc[c] \in Waiting
    BY <1>3, <2>2 DEF PairOK, FlowOK, SocketKept
  <2> QED BY <2>1, <2>2 DEF Moves, Waiting
<1>7. CompleteOK(c, t)'
  BY <1>3 DEF PairOK, CompleteOK, SocketKept
<1> QED BY <1>4, <1>5, <1>6, <1>7 DEF PairOK

LEMMA SameSocket ==
  ASSUME NEW t, NEW id, chan'[t] = chan[t]
  PROVE  SocketKept(t, id)
BY DEF SocketKept

\* Steps of a call that change neither its queue nor what it sends.
LEMMA ChunkMoves ==
  ASSUME TypeOK, LifeInv, ChunkInv, \A c \in Calls : Moves(c),
         \A c \in Calls : completed'[c] = completed[c] \/ kind[c] = "submit",
         UNCHANGED <<rid, kind, queue, yielded, entry, work, chan, emitted>>
  PROVE  ChunkInv'
<1>1. \A id : InEntry(id)' <=> InEntry(id)
  BY DEF InEntry
<1>2. \A c \in Calls, t \in Stages : PairOK(c, t)'
  BY <1>1, PairFrame, SameSocket DEF ChunkInv
<1>3. \A c \in Calls : Unsent(c)' => Unsent(c)
  BY DEF Moves, Unsent
<1>4. EntryOK'
  BY <1>1, <1>3 DEF ChunkInv, EntryOK
<1> QED BY <1>2, <1>4 DEF ChunkInv

\* A message goes out on the entry socket.
LEMMA ChunkSends ==
  ASSUME TypeOK, LifeInv, ChunkInv, NEW c \in Calls, Unsent(c), ~Unsent(c)',
         pc'[c] \in Waiting, \A d \in Calls : d # c => pc'[d] = pc[d],
         entry' = Append(entry, rid[c]),
         UNCHANGED <<rid, kind, queue, completed, yielded, work, chan, emitted>>
  PROVE  ChunkInv'
<1>1. entry \in Seq(Ids) /\ rid[c] \in Ids
  BY ChunkTypes
<1>2. /\ Len(entry) \in Nat /\ Len(entry') = Len(entry) + 1 /\ entry'[Len(entry) + 1] = rid[c]
      /\ \A i \in 1..Len(entry) : entry'[i] = entry[i]
  BY <1>1
<1>3. \A id : InEntry(id)' <=> InEntry(id) \/ id = rid[c]
  BY <1>2 DEF InEntry
<1>4. ~InEntry(rid[c])
  BY DEF ChunkInv, EntryOK
<1>5. EntryOK'
  <2>1. ASSUME NEW i \in 1..Len(entry'), NEW j \in 1..Len(entry'), entry'[i] = entry'[j]
        PROVE  i = j
    <3>1. CASE i \in 1..Len(entry) /\ j \in 1..Len(entry)
      BY <1>2, <2>1, <3>1 DEF ChunkInv, EntryOK
    <3>2. CASE i \in 1..Len(entry) /\ j = Len(entry) + 1
      BY <1>2, <1>4, <2>1, <3>2 DEF InEntry
    <3>3. CASE i = Len(entry) + 1 /\ j \in 1..Len(entry)
      BY <1>2, <1>4, <2>1, <3>3 DEF InEntry
    <3>4. CASE i = Len(entry) + 1 /\ j = Len(entry) + 1
      BY <3>4
    <3> QED BY <1>2, <3>1, <3>2, <3>3, <3>4
  <2>2. ASSUME NEW d \in Calls, Unsent(d)' PROVE ~InEntry(rid[d])'
    <3>1. d # c /\ Unsent(d)
      BY <2>2 DEF Unsent
    <3>2. rid[d] # rid[c]
      BY <3>1 DEF LifeInv
    <3> QED BY <1>3, <3>1, <3>2 DEF ChunkInv, EntryOK
  <2> QED BY <2>1, <2>2 DEF EntryOK
<1>6. ASSUME NEW d \in Calls, NEW t \in Stages PROVE PairOK(d, t)'
  <2>1. CASE d # c
    <3>1. rid[d] # rid[c] /\ Moves(d)
      BY <2>1 DEF LifeInv, Moves
    <3>2. InEntry(rid[d])' <=> InEntry(rid[d])
      BY <1>3, <3>1
    <3> QED BY <3>1, <3>2, PairFrame, SameSocket DEF ChunkInv
  <2>2. CASE d = c
    <3>1. /\ PairOK(c, t) /\ emitted[t][rid[c]] = 0 /\ rid[c] \notin work[t]
          /\ Mute(chan[t], rid[c]) /\ chan[t] \in Seq(StageMsg) /\ queue[c] \in Seq(QueueMsg)
      BY ChunkTypes DEF ChunkInv, PairOK, FreshOK
    <3>2. ~Over(c, t)
      BY DEF Over
    <3>3. FreshOK(c, t)'
      BY <3>1, <2>2 DEF FreshOK, Waiting
    <3>4. LastOK(c, t)'
      BY <3>1, MuteFacts DEF LastOK
    <3>5. FlowOK(c, t)'
      <4> SUFFICES ASSUME kind[c] = "stream" PROVE FlowOK(c, t)'
        BY DEF FlowOK
      <4>1. CASE pc[c] = "idle"
        <5>1. queue[c] = <<>> /\ yielded[c][t] = 0
          BY <3>1, <4>1 DEF LifeInv, CallOK, IdleOK, PairOK, FreshOK
        <5>2. Len(queue[c]) = 0
          BY <5>1
        <5>3. Count(queue[c], Chunk(t)) = 0 /\ OkLast(queue[c], t) /\ ~HasOk(queue[c], t)
          BY <3>1, <5>2, NoQueue
        <5>4. Count(chan[t], Sent(t, rid[c])) = 0
          BY <3>1, MuteFacts
        <5> QED BY <3>1, <5>1, <5>3, <5>4 DEF FlowOK
      <4>2. CASE pc[c] = "sending"
        <5>1. pc[c] \in Waiting
          BY <4>2 DEF Waiting
        <5> QED BY <3>1, <3>2, <5>1 DEF PairOK, FlowOK
      <4> QED BY <4>1, <4>2 DEF Unsent
    <3>6. CompleteOK(c, t)'
      BY <3>1, <3>2 DEF PairOK, CompleteOK
    <3> QED BY <2>2, <3>3, <3>4, <3>5, <3>6 DEF PairOK
  <2> QED BY <2>1, <2>2
<1> QED BY <1>5, <1>6 DEF ChunkInv

\* stream() takes a message from its queue.
LEMMA ChunkDrain ==
  ASSUME TypeOK, LifeInv, ChunkInv, NEW c \in Calls, DrainQueue(c)
  PROVE  ChunkInv'
<1> DEFINE q == queue[c]
           msg == Head(q)
<1>1. /\ pc[c] = "draining" /\ pc[c] \in Waiting /\ kind[c] = "stream"
      /\ q \in Seq(QueueMsg) /\ q # <<>> /\ msg \in QueueMsg /\ rid[c] \in Ids
      /\ queue' = [queue EXCEPT ![c] = Tail(q)]
      /\ UNCHANGED <<rid, kind, entry, work, chan, emitted>>
  BY ChunkTypes DEF DrainQueue, LifeInv, CallOK, WaitingOK, Waiting, stageVars
<1>2. \/ /\ msg.t = "chunk" /\ yielded' = [yielded EXCEPT ![c][msg.from] = @ + 1]
         /\ UNCHANGED <<pc, completed>>
      \/ /\ msg.t = "fail" /\ pc' = [pc EXCEPT ![c] = "done"] /\ UNCHANGED <<yielded, completed>>
      \/ /\ msg.t = "ok" /\ completed' = [completed EXCEPT ![c] = @ \cup {msg.from}]
         /\ pc' = pc \/ pc' = [pc EXCEPT ![c] = "done"]
         /\ yielded' = yielded
  BY DEF DrainQueue, Return
<1>3. \A id : InEntry(id)' <=> InEntry(id)
  BY <1>1 DEF InEntry
<1>4. /\ pc'[c] \in {"draining", "done"} /\ (\A d \in Calls : d # c => pc'[d] = pc[d])
  BY <1>1, <1>2, Types
<1>5. EntryOK'
  <2>1. \A d \in Calls : Unsent(d)' => Unsent(d)
    BY <1>4 DEF Unsent
  <2> QED BY <1>1, <1>3, <2>1 DEF ChunkInv, EntryOK
<1>6. ASSUME NEW d \in Calls, NEW t \in Stages, d # c PROVE PairOK(d, t)'
  <2>1. /\ queue'[d] = queue[d] /\ completed'[d] = completed[d] /\ yielded'[d][t] = yielded[d][t]
        /\ Moves(d)
    BY <1>1, <1>2, <1>4, <1>6, ChunkTypes DEF Moves
  <2> QED BY <1>1, <1>3, <2>1, PairFrame, SameSocket DEF ChunkInv
<1>7. ASSUME NEW t \in Stages PROVE PairOK(c, t)'
  <2>1. PairOK(c, t) /\ queue'[c] = Tail(q) /\ Tail(q) \in Seq(QueueMsg) /\ chan[t] \in Seq(StageMsg)
    BY <1>1, ChunkTypes DEF ChunkInv
  <2>2. ~Unsent(c) /\ ~Unsent(c)' /\ (Over(c, t)' <=> Over(c, t))
    BY <1>1, <1>3, <1>4 DEF Unsent, Over
  <2>3. Count(q, Chunk(t)) = Count(Tail(q), Chunk(t)) + (IF msg = Chunk(t) THEN 1 ELSE 0)
    BY <1>1, CountTail
  <2>4. /\ Count(q, Chunk(t)) \in Nat /\ Count(Tail(q), Chunk(t)) \in Nat
        /\ Count(chan[t], Sent(t, rid[c])) \in Nat /\ yielded[c][t] \in Nat
        /\ emitted[t][rid[c]] \in Nat
    BY <1>1, <2>1, CountNat, ChunkTypes
  <2>5. yielded'[c][t] = yielded[c][t] + (IF msg = Chunk(t) THEN 1 ELSE 0)
    <3>1. CASE msg.t = "chunk"
      <4>1. msg.from \in Stages /\ (msg = Chunk(t) <=> msg.from = t)
        BY <1>1, <3>1 DEF QueueMsg, Chunk
      <4>2. yielded' = [yielded EXCEPT ![c][msg.from] = yielded[c][msg.from] + 1]
        BY <1>2, <3>1
      <4> QED BY <2>4, <4>1, <4>2, ChunkTypes
    <3>2. CASE msg.t # "chunk"
      <4>1. msg # Chunk(t) /\ yielded' = yielded
        BY <1>2, <3>2 DEF Chunk
      <4> QED BY <2>4, <4>1
    <3> QED BY <3>1, <3>2
  <2>6. /\ emitted[t][rid[c]] = yielded[c][t] + Count(q, Chunk(t)) + Count(chan[t], Sent(t, rid[c]))
        /\ OkLast(q, t) /\ (HasOk(q, t) => Over(c, t) /\ Mute(chan[t], rid[c]))
    BY <1>1, <2>1 DEF PairOK, FlowOK
  <2>7. /\ HasOk(Tail(q), t) => HasOk(q, t)
        /\ OkLast(Tail(q), t)
        /\ msg.t = "ok" /\ msg.from = t => HasOk(q, t) /\ Count(Tail(q), Chunk(t)) = 0
    BY <1>1, <2>6, QueueTail
  <2>8. FreshOK(c, t)'
    BY <1>1, <1>3, <2>1, <2>2, <1>4 DEF PairOK, FreshOK
  <2>9. LastOK(c, t)'
    BY <1>1, <2>1, <2>2 DEF PairOK, LastOK
  <2>10. FlowOK(c, t)'
    <3>1. emitted[t][rid[c]]
            = yielded'[c][t] + Count(Tail(q), Chunk(t)) + Count(chan[t], Sent(t, rid[c]))
      BY <2>3, <2>4, <2>5, <2>6
    <3> HIDE DEF q, msg
    <3> QED BY <1>1, <2>1, <2>2, <2>6, <2>7, <3>1 DEF FlowOK
  <2>11. CompleteOK(c, t)'
    <3> SUFFICES ASSUME t \in completed'[c]
                 PROVE  Over(c, t) /\ Mute(chan[t], rid[c]) /\ yielded'[c][t] = emitted[t][rid[c]]
      BY <1>1, <2>2 DEF CompleteOK
    <3>1. CASE t \in completed[c]
      <4>1. Over(c, t) /\ Mute(chan[t], rid[c]) /\ yielded[c][t] = emitted[t][rid[c]]
        BY <1>1, <2>1, <3>1 DEF PairOK, CompleteOK
      <4>2. Count(q, Chunk(t)) = 0
        BY <2>4, <2>6, <4>1
      <4>3. msg # Chunk(t)
        BY <2>3, <2>4, <4>2
      <4> QED BY <2>4, <2>5, <4>1, <4>3
    <3>2. CASE t \notin completed[c]
      <4>1. msg.t = "ok" /\ msg.from = t
        BY <1>2, <3>2, ChunkTypes
      <4>2. Over(c, t) /\ Mute(chan[t], rid[c]) /\ Count(Tail(q), Chunk(t)) = 0
        BY <2>6, <2>7, <4>1
      <4>3. Count(chan[t], Sent(t, rid[c])) = 0
        BY <2>1, <4>2, MuteFacts
      <4>4. msg # Chunk(t)
        BY <4>1 DEF Chunk
      <4>5. Count(q, Chunk(t)) = 0
        BY <2>3, <4>2, <4>4
      <4> QED BY <2>4, <2>5, <2>6, <4>2, <4>3, <4>4, <4>5
    <3> QED BY <3>1, <3>2
  <2> QED BY <2>8, <2>9, <2>10, <2>11 DEF PairOK
<1> QED BY <1>5, <1>6, <1>7 DEF ChunkInv

\* abort() and the loss of the pipeline put failures into queues.
LEMMA ChunkFails ==
  ASSUME TypeOK, LifeInv, ChunkInv,
         \A c \in Calls : \/ queue'[c] = queue[c]
                          \/ \E m \in QueueMsg : m.t = "fail" /\ queue'[c] = Append(queue[c], m),
         UNCHANGED <<pc, rid, kind, completed, yielded, entry, work, chan, emitted>>
  PROVE  ChunkInv'
<1>1. \A id : InEntry(id)' <=> InEntry(id)
  BY DEF InEntry
<1>2. EntryOK'
  BY <1>1 DEF ChunkInv, EntryOK, Unsent
<1>3. ASSUME NEW c \in Calls, NEW t \in Stages PROVE PairOK(c, t)'
  <2>1. CASE queue'[c] = queue[c]
    <3>1. Moves(c)
      BY DEF Moves
    <3> QED BY <1>1, <2>1, <3>1, PairFrame, SameSocket DEF ChunkInv
  <2>2. ASSUME NEW m \in QueueMsg, m.t = "fail", queue'[c] = Append(queue[c], m)
        PROVE  PairOK(c, t)'
    <3>1. PairOK(c, t) /\ queue[c] \in Seq(QueueMsg) /\ m # Chunk(t)
      BY <2>2, ChunkTypes DEF ChunkInv, Chunk
    <3>2. /\ Count(queue'[c], Chunk(t)) = Count(queue[c], Chunk(t))
          /\ HasOk(queue'[c], t) <=> HasOk(queue[c], t)
          /\ OkLast(queue[c], t) => OkLast(queue'[c], t)
      <4>1. Count(queue[c], Chunk(t)) \in Nat
        BY <3>1, CountNat
      <4> QED BY <2>2, <3>1, <4>1, QueueAppend
    <3>3. (Unsent(c)' <=> Unsent(c)) /\ (Over(c, t)' <=> Over(c, t))
      BY <1>1 DEF Unsent, Over
    <3>4. FreshOK(c, t)' /\ LastOK(c, t)' /\ CompleteOK(c, t)'
      BY <1>1, <3>1, <3>3 DEF PairOK, FreshOK, LastOK, CompleteOK
    <3>5. FlowOK(c, t)'
      BY <3>1, <3>2, <3>3 DEF PairOK, FlowOK
    <3> QED BY <3>4, <3>5 DEF PairOK
  <2> QED BY <2>1, <2>2
<1> QED BY <1>2, <1>3 DEF ChunkInv

\* The completion loop takes a message m of stage t0 off its socket.  A chunk
\* goes into the queue of the stream with its id, if that stream is still
\* there; an end of work may go there.
Delivers(t0, m) ==
  /\ chan[t0] # <<>> /\ Head(chan[t0]) = m /\ chan' = [chan EXCEPT ![t0] = Tail(@)]
  /\ \A c \in Calls :
       \/ queue'[c] = queue[c]
          /\ (rid[c] = m.id /\ m.t = "chunk" => ~(kind[c] = "stream" /\ pc[c] \in Waiting))
       \/ queue'[c] = Append(queue[c], [t |-> m.t, from |-> t0]) /\ rid[c] = m.id
  /\ UNCHANGED <<pc, rid, kind, completed, yielded, entry, work, emitted>>

LEMMA ChunkDelivers ==
  ASSUME TypeOK, LifeInv, ChunkInv, NEW t0 \in Stages, NEW m \in StageMsg, m.from = t0,
         Delivers(t0, m)
  PROVE  ChunkInv'
<1>1. \A id : InEntry(id)' <=> InEntry(id)
  BY DEF InEntry, Delivers
<1>2. EntryOK'
  BY <1>1 DEF ChunkInv, EntryOK, Unsent, Delivers
<1>3. PICK n : n = [t |-> m.t, from |-> t0]
  OBVIOUS
<1>4. n \in QueueMsg /\ n.t = m.t /\ n.from = t0
  BY <1>3 DEF QueueMsg, StageMsg
<1>5. ASSUME NEW c \in Calls, NEW t \in Stages PROVE PairOK(c, t)'
  <2>1. /\ PairOK(c, t) /\ chan[t] \in Seq(StageMsg) /\ queue[c] \in Seq(QueueMsg)
        /\ (t # t0 => chan'[t] = chan[t]) /\ (t = t0 => chan'[t] = Tail(chan[t]) /\ chan[t] # <<>>)
        /\ UNCHANGED <<pc, rid, kind, completed, yielded, entry, work, emitted>>
        /\ yielded[c][t] \in Nat /\ emitted[t][rid[c]] \in Nat
    BY ChunkTypes DEF ChunkInv, Delivers
  <2>2. (Unsent(c)' <=> Unsent(c)) /\ (Over(c, t)' <=> Over(c, t)) /\ Moves(c)
    BY <1>1, <2>1 DEF Unsent, Over, Moves
  <2>3. t = t0 => /\ Ended(chan'[t], rid[c]) => Ended(chan[t], rid[c])
                  /\ Mute(chan[t], rid[c]) => Mute(chan'[t], rid[c]) /\ m.id # rid[c]
                  /\ EndLast(chan[t], rid[c]) => EndLast(chan'[t], rid[c])
                  /\ m.id = rid[c] /\ m.t # "chunk" =>
                       Ended(chan[t], rid[c]) /\ (EndLast(chan[t], rid[c]) => Mute(chan'[t], rid[c]))
    <3> SUFFICES ASSUME t = t0
                 PROVE  /\ Ended(Tail(chan[t]), rid[c]) => Ended(chan[t], rid[c])
                        /\ Mute(chan[t], rid[c]) => Mute(Tail(chan[t]), rid[c]) /\ Head(chan[t]).id # rid[c]
                        /\ EndLast(chan[t], rid[c]) => EndLast(Tail(chan[t]), rid[c])
                        /\ Head(chan[t]).id = rid[c] /\ Head(chan[t]).t # "chunk" =>
                             Ended(chan[t], rid[c]) /\ (EndLast(chan[t], rid[c]) => Mute(Tail(chan[t]), rid[c]))
      BY <2>1 DEF Delivers
    <3>1. chan[t] \in Seq(StageMsg) /\ chan[t] # <<>>
      BY <2>1
    <3> QED BY <3>1, ChanTail
  <2>4. t = t0 => Count(chan[t], Sent(t, rid[c]))
                    = Count(chan'[t], Sent(t, rid[c])) + (IF m = Sent(t, rid[c]) THEN 1 ELSE 0)
    BY <2>1, CountTail DEF Delivers
  <2>5. /\ Count(chan[t], Sent(t, rid[c])) \in Nat /\ Count(queue[c], Chunk(t)) \in Nat
        /\ Count(chan'[t], Sent(t, rid[c])) \in Nat
    <3>1. CASE t = t0
      <4>1. Tail(chan[t]) \in Seq(StageMsg)
        BY <2>1, <3>1
      <4> QED BY <2>1, <3>1, <4>1, CountNat
    <3>2. CASE t # t0
      BY <2>1, <3>2, CountNat
    <3> QED BY <3>1, <3>2
  <2>6. m = Sent(t, rid[c]) <=> t = t0 /\ m.t = "chunk" /\ m.id = rid[c]
    BY DEF Sent, StageMsg
  <2>7. FreshOK(c, t)'
    BY <1>1, <2>1, <2>2, <2>3 DEF PairOK, FreshOK
  <2>8. LastOK(c, t)'
    BY <2>1, <2>2, <2>3 DEF PairOK, LastOK
  <2>9. CompleteOK(c, t)'
    BY <2>1, <2>2, <2>3 DEF PairOK, CompleteOK
  <2>10. FlowOK(c, t)'
    <3> SUFFICES ASSUME kind[c] = "stream", pc[c] \in Waiting PROVE FlowOK(c, t)'
      BY <2>1 DEF FlowOK
    <3>1. /\ emitted[t][rid[c]]
               = yielded[c][t] + Count(queue[c], Chunk(t)) + Count(chan[t], Sent(t, rid[c]))
          /\ OkLast(queue[c], t) /\ (HasOk(queue[c], t) => Over(c, t) /\ Mute(chan[t], rid[c]))
          /\ EndLast(chan[t], rid[c]) /\ (Ended(chan[t], rid[c]) => Over(c, t))
      BY <2>1 DEF PairOK, FlowOK, LastOK
    <3>2. Mute(chan[t], rid[c]) => Mute(chan'[t], rid[c])
      BY <2>1, <2>3
    <3>3. CASE queue'[c] = queue[c] /\ (rid[c] = m.id => m.t # "chunk")
      <4>1. Count(chan'[t], Sent(t, rid[c])) = Count(chan[t], Sent(t, rid[c]))
        BY <2>1, <2>4, <2>5, <2>6, <3>3
      <4> QED BY <2>1, <2>2, <3>1, <3>2, <3>3, <4>1 DEF FlowOK
    <3>4. CASE queue'[c] = Append(queue[c], n) /\ rid[c] = m.id
      <4>1. n = Chunk(t) <=> m = Sent(t, rid[c])
        BY <1>3, <1>4, <2>6, <3>4 DEF Chunk
      <4>2. /\ Count(queue'[c], Chunk(t))
                 = Count(queue[c], Chunk(t)) + (IF m = Sent(t, rid[c]) THEN 1 ELSE 0)
            /\ HasOk(queue'[c], t) <=> HasOk(queue[c], t) \/ (m.t = "ok" /\ t0 = t)
            /\ OkLast(queue[c], t) /\ (m = Sent(t, rid[c]) => ~HasOk(queue[c], t))
                 => OkLast(queue'[c], t)
        BY <1>4, <2>1, <3>4, <4>1, QueueAppend
      <4>3. m = Sent(t, rid[c]) => ~HasOk(queue[c], t)
        BY <2>3, <2>6, <3>1
      <4>4. emitted[t][rid[c]]
              = yielded[c][t] + Count(queue'[c], Chunk(t)) + Count(chan'[t], Sent(t, rid[c]))
        <5>1. Count(chan[t], Sent(t, rid[c]))
                = Count(chan'[t], Sent(t, rid[c])) + (IF m = Sent(t, rid[c]) THEN 1 ELSE 0)
          <6>1. CASE t # t0
            <7>1. m # Sent(t, rid[c]) /\ chan'[t] = chan[t]
              BY <2>1, <2>6, <6>1
            <7> QED BY <2>5, <7>1
          <6> QED BY <2>4, <6>1
        <5>2. PICK k \in Nat : k = IF m = Sent(t, rid[c]) THEN 1 ELSE 0
          OBVIOUS
        <5>3. /\ Count(chan[t], Sent(t, rid[c])) = Count(chan'[t], Sent(t, rid[c])) + k
              /\ Count(queue'[c], Chunk(t)) = Count(queue[c], Chunk(t)) + k
          BY <4>2, <5>1, <5>2
        <5> QED BY <2>1, <2>5, <3>1, <5>3
      <4>5. HasOk(queue'[c], t) => Over(c, t) /\ Mute(chan'[t], rid[c])
        BY <2>3, <3>1, <3>2, <3>4, <4>2
      <4> QED BY <2>1, <2>2, <3>1, <4>2, <4>3, <4>4, <4>5 DEF FlowOK
    <3> QED BY <1>3, <3>3, <3>4 DEF Delivers
  <2> QED BY <2>7, <2>8, <2>9, <2>10 DEF PairOK
<1> QED BY <1>2, <1>5 DEF ChunkInv

\* The steps of the completion loop.
LEMMA ChunkLoop ==
  ASSUME TypeOK, SourcesOK, LifeInv, ChunkInv, NEW t \in Stages, LoopStep(t)
  PROVE  ChunkInv'
<1>1. PICK m : m = Head(chan[t])
  OBVIOUS
<1>2. /\ chan[t] # <<>> /\ chan' = [chan EXCEPT ![t] = Tail(@)]
      /\ UNCHANGED <<pc, rid, kind, completed, yielded, entry, work, emitted>>
  BY DEF LoopStep, HandleStream, HandleFailure, HandleSuccess, IgnoreCompletion, Receive, callVars
<1>3. m \in StageMsg /\ m.id \in Ids /\ m.from = t
  <2>1. chan[t] \in Seq(StageMsg)
    BY ChunkTypes
  <2>2. m = chan[t][1] /\ 1 \in 1..Len(chan[t]) /\ m \in StageMsg
    BY <1>1, <1>2, <2>1
  <2> QED BY <2>2 DEF SourcesOK, StageMsg
<1>4. \/ m.t # "chunk" /\ queue' = queue
      \/ Put(m.id, [t |-> m.t, from |-> t])
  BY <1>1 DEF LoopStep, HandleStream, HandleFailure, HandleSuccess, IgnoreCompletion, Receive,
              callVars, FailMsg
<1>5. ASSUME NEW c \in Calls
      PROVE  \/ queue'[c] = queue[c]
                /\ (rid[c] = m.id /\ m.t = "chunk" => ~(kind[c] = "stream" /\ pc[c] \in Waiting))
             \/ queue'[c] = Append(queue[c], [t |-> m.t, from |-> t]) /\ rid[c] = m.id
  <2>1. CASE m.t # "chunk" /\ queue' = queue
    BY <2>1
  <2>2. CASE Put(m.id, [t |-> m.t, from |-> t])
    <3>1. PICK n \in QueueMsg : n = [t |-> m.t, from |-> t]
      BY <1>3 DEF QueueMsg, StageMsg
    <3>2. /\ queueOf[m.id] = c => queue'[c] = Append(queue[c], n) /\ rid[c] = m.id
          /\ queueOf[m.id] # c => queue'[c] = queue[c]
      BY <1>3, <2>2, <3>1, PutEffect, NoCallAssumption DEF LifeInv, TablesOK
    <3>3. rid[c] = m.id /\ kind[c] = "stream" /\ pc[c] \in Waiting => queueOf[m.id] = c
      BY DEF LifeInv, CallOK, EndOK
    <3> QED BY <3>1, <3>2, <3>3
  <2> QED BY <1>4, <2>1, <2>2
<1>6. Delivers(t, m)
  BY <1>1, <1>2, <1>5 DEF Delivers
<1> QED BY <1>3, <1>6, ChunkDelivers

\* The pipeline takes a submission off the entry socket.
LEMMA ChunkPipeline ==
  ASSUME TypeOK, LifeInv, ChunkInv, NEW ts \in SUBSET Stages, PipelineAccepts(ts)
  PROVE  ChunkInv'
<1>1. PICK r : r = Head(entry)
  OBVIOUS
<1>2. /\ entry \in Seq(Ids) /\ entry # <<>> /\ entry' = Tail(entry)
      /\ UNCHANGED <<pc, rid, kind, queue, completed, yielded, chan, emitted>>
      /\ \A t \in Stages : work'[t] = work[t] \/ work'[t] = work[t] \cup {r}
  BY <1>1, ChunkTypes DEF PipelineAccepts, callVars
<1>3. /\ Len(entry) \in Nat /\ Len(entry) > 0 /\ Len(entry') = Len(entry) - 1 /\ entry[1] = r
      /\ \A i \in 1..Len(entry') : entry'[i] = entry[i + 1] /\ i + 1 \in 1..Len(entry) /\ i + 1 # 1
      /\ \A i \in 1..Len(entry) : i = 1 \/ (i - 1 \in 1..Len(entry') /\ entry'[i - 1] = entry[i])
      /\ 1 \in 1..Len(entry)
  BY <1>1, <1>2
<1>4. \A i, j \in 1..Len(entry) : entry[i] = entry[j] => i = j
  BY DEF ChunkInv, EntryOK
<1>5. ~InEntry(r)' /\ InEntry(r)
  BY <1>3, <1>4 DEF InEntry
<1>6. \A id : id # r => (InEntry(id)' <=> InEntry(id))
  BY <1>3 DEF InEntry
<1>7. EntryOK'
  <2>1. ASSUME NEW i \in 1..Len(entry'), NEW j \in 1..Len(entry'), entry'[i] = entry'[j]
        PROVE  i = j
    <3>1. i + 1 = j + 1
      BY <1>3, <1>4, <2>1
    <3> QED BY <1>3, <3>1
  <2>2. ASSUME NEW c \in Calls, Unsent(c)' PROVE ~InEntry(rid[c])'
    <3>1. Unsent(c) /\ ~InEntry(rid[c])
      BY <1>2, <2>2 DEF ChunkInv, EntryOK, Unsent
    <3> QED BY <1>2, <1>5, <1>6, <3>1
  <2> QED BY <2>1, <2>2 DEF EntryOK
<1>8. ASSUME NEW c \in Calls, NEW t \in Stages PROVE PairOK(c, t)'
  <2>1. PairOK(c, t) /\ Moves(c) /\ SocketKept(t, rid[c])
    BY <1>2, SameSocket DEF ChunkInv, Moves
  <2>2. CASE rid[c] # r
    <3>1. (InEntry(rid[c])' <=> InEntry(rid[c])) /\ (rid[c] \in work'[t] => rid[c] \in work[t])
      BY <1>2, <1>6, <2>2
    <3> QED BY <1>2, <2>1, <3>1, PairFrame
  <2>3. CASE rid[c] = r
    <3>1. ~Unsent(c) /\ ~Unsent(c)' /\ ~Over(c, t) /\ Mute(chan[t], rid[c]) /\ chan[t] \in Seq(StageMsg)
      BY <1>2, <1>5, <2>1, <2>3, ChunkTypes
      DEF ChunkInv, EntryOK, PairOK, FreshOK, Unsent, Over
    <3>2. FreshOK(c, t)'
      BY <1>2, <1>5, <2>3, <3>1 DEF FreshOK, Unsent
    <3>3. LastOK(c, t)'
      BY <1>2, <3>1, MuteFacts DEF LastOK
    <3>4. FlowOK(c, t)' /\ CompleteOK(c, t)'
      BY <1>2, <2>1, <3>1 DEF PairOK, FlowOK, CompleteOK
    <3> QED BY <3>2, <3>3, <3>4 DEF PairOK
  <2> QED BY <2>2, <2>3
<1> QED BY <1>7, <1>8 DEF ChunkInv

\* A stage speaks of a request it works on: it streams a chunk or ends.
LEMMA ChunkSpeaks ==
  ASSUME TypeOK, LifeInv, ChunkInv, NEW t0 \in Stages, NEW id \in Ids,
         NEW k \in {"chunk", "ok", "fail"}, id \in work[t0],
         chan' = [chan EXCEPT ![t0] = Append(@, [t |-> k, from |-> t0, id |-> id])],
         k = "chunk" => work' = work /\ emitted' = [emitted EXCEPT ![t0][id] = @ + 1],
         k # "chunk" => work' = [work EXCEPT ![t0] = @ \ {id}] /\ emitted' = emitted,
         UNCHANGED <<callVars, entry>>
  PROVE  ChunkInv'
<1>1. PICK m \in StageMsg : m = [t |-> k, from |-> t0, id |-> id]
  BY DEF StageMsg
<1>2. m.t = k /\ m.from = t0 /\ m.id = id /\ chan' = [chan EXCEPT ![t0] = Append(chan[t0], m)]
  BY <1>1
<1>3. UNCHANGED <<pc, rid, kind, queue, completed, yielded, entry>>
  BY DEF callVars
<1>4. \A i : InEntry(i)' <=> InEntry(i)
  BY <1>3 DEF InEntry
<1>5. EntryOK'
  BY <1>3, <1>4 DEF ChunkInv, EntryOK, Unsent
<1>6. ASSUME NEW c \in Calls, NEW t \in Stages PROVE PairOK(c, t)'
  <2>1. /\ PairOK(c, t) /\ Moves(c) /\ chan[t] \in Seq(StageMsg) /\ rid[c] \in Ids
        /\ rid[c] \in work'[t] => rid[c] \in work[t]
        /\ emitted[t][rid[c]] \in Nat
    <3>1. work'[t] \subseteq work[t]
      <4>1. CASE k = "chunk"
        BY <4>1
      <4>2. CASE k # "chunk"
        BY <4>2, ChunkTypes
      <4> QED BY <4>1, <4>2
    <3>2. rid[c] \in Ids /\ chan[t] \in Seq(StageMsg) /\ emitted[t][rid[c]] \in Nat
      BY ChunkTypes
    <3> QED BY <1>3, <3>1, <3>2 DEF ChunkInv, Moves
  <2>2. t # t0 \/ rid[c] # id => emitted'[t][rid[c]] = emitted[t][rid[c]]
    BY <2>1, ChunkTypes
  <2>3. CASE t # t0
    <3>1. SocketKept(t, rid[c])
      BY <1>2, <2>3, ChunkTypes, SameSocket
    <3> QED BY <1>3, <1>4, <2>1, <2>2, <2>3, <3>1, PairFrame
  <2>4. ASSUME t = t0
        PROVE  /\ chan'[t] = Append(chan[t], m)
               /\ Ended(chan'[t], rid[c]) <=> Ended(chan[t], rid[c]) \/ (id = rid[c] /\ k # "chunk")
               /\ Mute(chan'[t], rid[c]) <=> Mute(chan[t], rid[c]) /\ id # rid[c]
               /\ EndLast(chan[t], rid[c]) /\ (id = rid[c] => ~Ended(chan[t], rid[c]))
                    => EndLast(chan'[t], rid[c])
               /\ Count(chan[t], Sent(t, rid[c])) \in Nat
               /\ Count(chan'[t], Sent(t, rid[c]))
                    = Count(chan[t], Sent(t, rid[c])) + (IF m = Sent(t, rid[c]) THEN 1 ELSE 0)
    <3>1. chan'[t] = Append(chan[t], m)
      BY <1>2, <2>4, ChunkTypes
    <3>2. Count(chan[t], Sent(t, rid[c])) \in Nat
      BY <2>1, CountNat
    <3>3. Count(Append(chan[t], m), Sent(t, rid[c]))
            = Count(chan[t], Sent(t, rid[c])) + (IF m = Sent(t, rid[c]) THEN 1 ELSE 0)
      BY <2>1, CountAppend
    <3>4. /\ Ended(Append(chan[t], m), rid[c])
               <=> Ended(chan[t], rid[c]) \/ (m.id = rid[c] /\ m.t # "chunk")
          /\ Mute(Append(chan[t], m), rid[c]) <=> Mute(chan[t], rid[c]) /\ m.id # rid[c]
          /\ EndLast(chan[t], rid[c]) /\ (m.id = rid[c] => ~Ended(chan[t], rid[c]))
               => EndLast(Append(chan[t], m), rid[c])
      BY <2>1, ChanAppend
    <3> QED BY <1>2, <3>1, <3>2, <3>3, <3>4
  <2>5. CASE t = t0 /\ rid[c] # id
    <3>1. m # Sent(t, rid[c])
      BY <1>2, <2>5 DEF Sent
    <3>2. SocketKept(t, rid[c])
      BY <2>4, <2>5, <3>1 DEF SocketKept
    <3> QED BY <1>3, <1>4, <2>1, <2>2, <2>5, <3>2, PairFrame
  <2>6. CASE t = t0 /\ rid[c] = id
    <3>1. /\ ~Unsent(c) /\ ~InEntry(rid[c]) /\ ~Over(c, t) /\ ~Unsent(c)' /\ ~InEntry(rid[c])'
          /\ k # "chunk" => Over(c, t)'
      <4>1. ~Unsent(c) /\ ~InEntry(rid[c]) /\ ~Over(c, t)
        BY <2>1, <2>6 DEF PairOK, FreshOK, Over
      <4>2. k # "chunk" => rid[c] \notin work'[t]
        BY <2>6, ChunkTypes
      <4> QED BY <1>3, <1>4, <4>1, <4>2 DEF Unsent, Over
    <3>2. FreshOK(c, t)'
      BY <1>3, <1>4, <3>1 DEF FreshOK, Unsent
    <3>3. LastOK(c, t)'
      BY <1>3, <2>1, <2>4, <2>6, <3>1 DEF PairOK, LastOK
    <3>4. CompleteOK(c, t)'
      BY <1>3, <2>1, <3>1 DEF PairOK, CompleteOK
    <3>5. FlowOK(c, t)'
      <4> SUFFICES ASSUME kind[c] = "stream", pc[c] \in Waiting PROVE FlowOK(c, t)'
        BY <1>3 DEF FlowOK
      <4>1. /\ emitted[t][rid[c]]
                 = yielded[c][t] + Count(queue[c], Chunk(t)) + Count(chan[t], Sent(t, rid[c]))
            /\ OkLast(queue[c], t) /\ ~HasOk(queue[c], t)
        BY <2>1, <3>1 DEF PairOK, FlowOK
      <4>2. m = Sent(t, rid[c]) <=> k = "chunk"
        BY <1>1, <1>2, <2>6 DEF Sent
      <4>3. emitted'[t][rid[c]] = emitted[t][rid[c]] + (IF k = "chunk" THEN 1 ELSE 0)
        BY <2>1, <2>6, ChunkTypes
      <4>4. yielded[c][t] \in Nat /\ Count(queue[c], Chunk(t)) \in Nat
        <5>1. yielded[c][t] \in Nat /\ queue[c] \in Seq(QueueMsg)
          BY ChunkTypes
        <5> QED BY <5>1, CountNat
      <4>5. PICK n \in Nat : n = IF k = "chunk" THEN 1 ELSE 0
        OBVIOUS
      <4>6. /\ emitted'[t][rid[c]] = emitted[t][rid[c]] + n
            /\ Count(chan'[t], Sent(t, rid[c])) = Count(chan[t], Sent(t, rid[c])) + n
            /\ Count(chan[t], Sent(t, rid[c])) \in Nat
        BY <2>4, <2>6, <4>2, <4>3, <4>5
      <4>7. emitted'[t][rid[c]]
              = yielded[c][t] + Count(queue[c], Chunk(t)) + Count(chan'[t], Sent(t, rid[c]))
        BY <4>1, <4>4, <4>6
      <4> QED BY <1>3, <4>1, <4>7 DEF FlowOK
    <3> QED BY <3>2, <3>3, <3>4, <3>5 DEF PairOK
  <2> QED BY <2>3, <2>5, <2>6
<1> QED BY <1>5, <1>6 DEF ChunkInv

\* A stage drops aborted work without a word.
LEMMA ChunkDrops ==
  ASSUME TypeOK, LifeInv, ChunkInv, NEW t0 \in Stages, NEW id \in Ids, StageAborts(t0, id)
  PROVE  ChunkInv'
<1>1. /\ UNCHANGED <<pc, rid, kind, queue, completed, yielded, entry, chan, emitted>>
      /\ \A t \in Stages : work'[t] \subseteq work[t]
  BY ChunkTypes DEF StageAborts, callVars
<1>2. \A i : InEntry(i)' <=> InEntry(i)
  BY <1>1 DEF InEntry
<1>3. EntryOK'
  BY <1>1, <1>2 DEF ChunkInv, EntryOK, Unsent
<1>4. ASSUME NEW c \in Calls, NEW t \in Stages PROVE PairOK(c, t)'
  <2>1. PairOK(c, t) /\ Moves(c) /\ SocketKept(t, rid[c]) /\ (rid[c] \in work'[t] => rid[c] \in work[t])
    BY <1>1, SameSocket DEF ChunkInv, Moves
  <2> QED BY <1>1, <1>2, <2>1, PairFrame
<1> QED BY <1>3, <1>4 DEF ChunkInv

\* The steps of a call.
LEMMA ChunkCall ==
  ASSUME TypeOK, LifeInv, ChunkInv, NEW c \in Calls, CallStep(c)
  PROVE  ChunkInv'
<1> USE Types
<1>1. ASSUME NEW to, pc' = [pc EXCEPT ![c] = to], completed' = completed,
             \/ to = "done"
             \/ pc[c] = "idle" /\ to = "sending"
             \/ pc[c] = "sent" /\ to \in {"awaiting", "draining"},
             UNCHANGED <<rid, kind, queue, yielded, stageVars>>
      PROVE  ChunkInv'
  <2>1. \A d \in Calls : Moves(d)
    BY <1>1 DEF Moves
  <2> QED BY <1>1, <2>1, ChunkMoves DEF stageVars
<1>2. ASSUME NEW why, RejectCall(c, why) PROVE ChunkInv'
  BY <1>1, <1>2 DEF RejectCall, Return
<1>3. ASSUME NEW ts \in Resolutions, SubmitSuspends(c, ts) PROVE ChunkInv'
  BY <1>1, <1>3 DEF SubmitSuspends, Admit, Entering
<1>4. ASSUME NEW ts \in Resolutions, SubmitFails(c, ts) PROVE ChunkInv'
  BY <1>1, <1>4 DEF SubmitFails, Return
<1>5. ASSUME SubmitResumes(c) PROVE ChunkInv'
  BY <1>1, <1>5 DEF SubmitResumes, Return, Proceed
<1>6. ASSUME CancelCall(c) PROVE ChunkInv'
  BY <1>1, <1>6 DEF CancelCall, Return
<1>7. ASSUME NEW ts \in Resolutions, SubmitRequest(c, ts) PROVE ChunkInv'
  <2>1. PICK to \in {"awaiting", "draining"} : pc' = [pc EXCEPT ![c] = to]
    BY <1>7 DEF SubmitRequest, Proceed
  <2>2. Unsent(c) /\ ~Unsent(c)' /\ pc'[c] \in Waiting /\ \A d \in Calls : d # c => pc'[d] = pc[d]
    BY <1>7, <2>1 DEF SubmitRequest, Admit, Entering, Unsent, Waiting
  <2> QED BY <1>7, <2>2, ChunkSends DEF SubmitRequest
<1>8. ASSUME SendFlushed(c) PROVE ChunkInv'
  <2>1. Unsent(c) /\ ~Unsent(c)' /\ pc'[c] \in Waiting /\ \A d \in Calls : d # c => pc'[d] = pc[d]
    BY <1>8 DEF SendFlushed, Unsent, Waiting
  <2> QED BY <1>8, <2>1, ChunkSends DEF SendFlushed
<1>9. ASSUME AwaitFuture(c) PROVE ChunkInv'
  <2>1. /\ kind[c] = "submit" /\ pc' = [pc EXCEPT ![c] = "done"]
        /\ completed' = [completed EXCEPT ![c] = value[waitsOn[c]]]
        /\ UNCHANGED <<rid, kind, queue, yielded, stageVars>>
    BY <1>9 DEF AwaitFuture, Return, LifeInv, CallOK, WaitingOK
  <2>2. \A d \in Calls : Moves(d)
    BY <2>1 DEF Moves
  <2>3. \A d \in Calls : completed'[d] = completed[d] \/ kind[d] = "submit"
    BY <2>1
  <2> QED BY <2>1, <2>2, <2>3, ChunkMoves DEF stageVars
<1> QED BY <1>2, <1>3, <1>4, <1>5, <1>6, <1>7, <1>8, <1>9, NeverStreaming, ChunkDrain DEF CallStep

\* Every step conserves the chunks.
LEMMA ChunkStep ==
  ASSUME TypeOK, SourcesOK, LifeInv, ChunkInv, [Next]_vars
  PROVE  ChunkInv'
<1>1. ASSUME NEW id \in Ids, Abort(id) PROVE ChunkInv'
  <2>1. PICK m \in QueueMsg : m = FailMsg("coordinator")
    BY MsgType
  <2>2. m.t = "fail" /\ Put(id, m)
    BY <1>1, <2>1 DEF Abort, FailMsg
  <2>3. \A c \in Calls : queue'[c] = queue[c] \/ queue'[c] = Append(queue[c], m)
    BY <2>2, PutEffect DEF LifeInv
  <2> QED BY <1>1, <2>2, <2>3, ChunkFails DEF Abort
<1>2. ASSUME FailPendingRequests PROVE ChunkInv'
  <2>1. PICK m \in QueueMsg : m = FailMsg("coordinator")
    BY MsgType
  <2>2. m.t = "fail" /\ \A c \in Calls : queue'[c] = queue[c] \/ queue'[c] = Append(queue[c], m)
    BY <1>2, <2>1 DEF FailPendingRequests, FailMsg
  <2> QED BY <1>2, <2>2, ChunkFails DEF FailPendingRequests, stageVars
<1>3. ASSUME NEW t \in Stages, NEW id \in Ids, StageStep(t, id) PROVE ChunkInv'
  <2>1. CASE StageStreams(t, id)
    BY <2>1, ChunkSpeaks DEF StageStreams
  <2>2. ASSUME NEW how \in {"ok", "fail"}, StageFinishes(t, id, how) PROVE ChunkInv'
    BY <2>2, ChunkSpeaks DEF StageFinishes
  <2> QED BY <1>3, <2>1, <2>2, ChunkDrops DEF StageStep
<1>4. CASE UNCHANGED vars
  <2>1. \A c \in Calls : Moves(c) /\ completed'[c] = completed[c]
    BY <1>4 DEF vars, callVars, Moves
  <2> QED BY <1>4, <2>1, ChunkMoves DEF vars, callVars, stageVars
<1> QED BY <1>1, <1>2, <1>3, <1>4, ChunkCall, ChunkLoop, ChunkPipeline DEF Next

LEMMA ChunkInit ==
  ASSUME Init
  PROVE  ChunkInv
<1>1. Len(entry) = 0 /\ \A t \in Stages : chan[t] = <<>> /\ Len(chan[t]) = 0
  BY DEF Init
<1>2. EntryOK
  BY <1>1 DEF EntryOK, InEntry
<1>3. ASSUME NEW c \in Calls, NEW t \in Stages PROVE PairOK(c, t)
  <2>1. /\ pc[c] = "idle" /\ emitted[t][rid[c]] = 0 /\ yielded[c][t] = 0 /\ completed[c] = {}
        /\ rid[c] \notin work[t]
    BY DEF Init
  <2>2. Mute(chan[t], rid[c]) /\ EndLast(chan[t], rid[c]) /\ ~Ended(chan[t], rid[c])
    BY <1>1 DEF Mute, EndLast, Ended
  <2> QED BY <2>1, <2>2 DEF PairOK, FreshOK, LastOK, FlowOK, CompleteOK, Unsent, Waiting
<1> QED BY <1>2, <1>3 DEF ChunkInv

\* stream() against a suspended send, several terminals and late chunks: when
\* it ends well, its consumer has every chunk that the stages it waited for
\* sent.  A stage's end of work is behind its chunks on the socket and in the
\* queue, so a consumer that has seen it has seen them.
THEOREM NoChunkIsLost ==
  ASSUME UniqueIds
  PROVE  Spec => []NoChunkLost
<1>1. Init => ChunkInv
  BY ChunkInit
<1>2. TypeOK /\ SourcesOK /\ LifeInv /\ ChunkInv /\ [Next]_vars => ChunkInv'
  BY ChunkStep
<1>3. TypeOK /\ ChunkInv => NoChunkLost
  BY ChunkTypes DEF ChunkInv, PairOK, CompleteOK, NoChunkLost
<1> QED BY <1>1, <1>2, <1>3, LifeInvariant, PTL DEF Spec
-----------------------------------------------------------------------------
(* The refinement: what a step does to the mapped variables.               *)

DeliveredOf(c) == IF outcome[c] = "ok" THEN completed[c] ELSE {}

\* the step leaves the call's part of the abstract state alone
Unmoved(d) ==
  /\ PhaseOf(d)' = PhaseOf(d) /\ FateOf(d)' = FateOf(d) /\ ResultsOf(d)' = ResultsOf(d)
  /\ outcome'[d] = outcome[d] /\ DeliveredOf(d)' = DeliveredOf(d)

LEMMA SameUnmoved ==
  ASSUME NEW d, Same(d)
  PROVE  Unmoved(d)
BY DEF Same, Unmoved, PhaseOf, FateOf, ResultsOf, DeliveredOf

\* A step that moves one call changes the mapped functions there only.
LEMMA OneMoves ==
  ASSUME TypeOK, TypeOK', NEW c \in Calls, \A d \in Calls : d # c => Unmoved(d)
  PROVE  /\ Phase' = [Phase EXCEPT ![c] = PhaseOf(c)'] /\ Phase[c] = PhaseOf(c)
         /\ Fate' = [Fate EXCEPT ![c] = FateOf(c)'] /\ Fate[c] = FateOf(c)
         /\ Results' = [Results EXCEPT ![c] = ResultsOf(c)'] /\ Results[c] = ResultsOf(c)
         /\ outcome' = [outcome EXCEPT ![c] = outcome'[c]]
         /\ Delivered' = [Delivered EXCEPT ![c] = DeliveredOf(c)']
         /\ PhaseOf(c)' = PhaseOf(c) => Phase' = Phase
         /\ FateOf(c)' = FateOf(c) => Fate' = Fate
         /\ ResultsOf(c)' = ResultsOf(c) => Results' = Results
         /\ outcome'[c] = outcome[c] => outcome' = outcome
         /\ DeliveredOf(c)' = DeliveredOf(c) => Delivered' = Delivered
<1>1. Phase' = [Phase EXCEPT ![c] = PhaseOf(c)'] /\ Phase[c] = PhaseOf(c)
  BY DEF Unmoved, Phase
<1>2. Fate' = [Fate EXCEPT ![c] = FateOf(c)'] /\ Fate[c] = FateOf(c)
  BY DEF Unmoved, Fate
<1>3. Results' = [Results EXCEPT ![c] = ResultsOf(c)'] /\ Results[c] = ResultsOf(c)
  BY DEF Unmoved, Results
<1>4. /\ outcome' = [outcome EXCEPT ![c] = outcome'[c]]
      /\ outcome'[c] = outcome[c] => outcome' = outcome
  BY DEF Unmoved, TypeOK, CallTypeOK
<1>5. Delivered' = [Delivered EXCEPT ![c] = DeliveredOf(c)']
  BY DEF Unmoved, Delivered, DeliveredOf
<1>6. PhaseOf(c)' = PhaseOf(c) => Phase' = Phase
  BY DEF Unmoved, Phase
<1>7. FateOf(c)' = FateOf(c) => Fate' = Fate
  BY DEF Unmoved, Fate
<1>8. ResultsOf(c)' = ResultsOf(c) => Results' = Results
  BY DEF Unmoved, Results
<1>9. DeliveredOf(c)' = DeliveredOf(c) => Delivered' = Delivered
  BY DEF Unmoved, Delivered, DeliveredOf
<1> QED BY <1>1, <1>2, <1>3, <1>4, <1>5, <1>6, <1>7, <1>8, <1>9

\* A step that moves nobody.
LEMMA NobodyMoves ==
  ASSUME TypeOK, TypeOK', \A d \in Calls : Unmoved(d)
  PROVE  UNCHANGED Lifecycle!lifecycleVars
<1>1. Phase' = Phase
  BY DEF Unmoved, Phase
<1>2. Fate' = Fate
  BY DEF Unmoved, Fate
<1>3. Results' = Results
  BY DEF Unmoved, Results
<1>4. outcome' = outcome
  BY DEF Unmoved, TypeOK, CallTypeOK
<1>5. Delivered' = Delivered
  BY DEF Unmoved, Delivered, DeliveredOf
<1> QED BY <1>1, <1>2, <1>3, <1>4, <1>5 DEF Lifecycle!lifecycleVars
AbstractStep == Lifecycle!LifecycleNext \/ UNCHANGED Lifecycle!lifecycleVars

\* A call that is refused, or dies in _submit_request, was never open.
LEMMA MapRefused ==
  ASSUME TypeOK, TypeOK', LifeInv, PartialsBelongToRequest, NEW c \in Calls,
         (\E why : RejectCall(c, why)) \/ (\E ts \in Resolutions : SubmitFails(c, ts))
  PROVE  AbstractStep
<1>1. Others(c)
  BY LifeReject, LifeFails
<1>2. \A d \in Calls : d # c => Unmoved(d)
  BY <1>1, SameUnmoved DEF Others
<1>3. PICK how \in {"rejected", "error"} : Return(c, how)
  BY DEF RejectCall, SubmitFails
<1>4. /\ pc[c] = "idle" /\ fut[c] = "none" /\ outcome[c] = "none" /\ ~Tracked(rid[c]) /\ rid[c] \in Ids
      /\ pc'[c] = "done" /\ outcome'[c] = how
  BY <1>3, Types DEF RejectCall, SubmitFails, Admit, Entering, LifeInv, CallOK, IdleOK, WaitingOK, Return
<1>5. fut'[c] \in {"none", "pending"} /\ UNCHANGED <<partials, rid>>
  BY <1>4, Types DEF RejectCall, SubmitFails, Admit
<1>6. partials[rid[c]] = {}
  BY <1>4 DEF PartialsBelongToRequest
<1>7. /\ PhaseOf(c) = "new" /\ PhaseOf(c)' = "closed"
      /\ FateOf(c)' = FateOf(c) /\ ResultsOf(c)' = ResultsOf(c)
      /\ DeliveredOf(c)' = DeliveredOf(c)
  BY <1>4, <1>5, <1>6 DEF PhaseOf, FateOf, ResultsOf, DeliveredOf
<1>8. Lifecycle!Refuse(c, how)
  BY <1>2, <1>4, <1>7, OneMoves DEF Lifecycle!Refuse
<1> QED BY <1>8 DEF AbstractStep, Lifecycle!LifecycleNext

\* An admitted call opens its request, with nothing collected for it.
LEMMA MapAdmitted ==
  ASSUME TypeOK, TypeOK', LifeInv, PartialsBelongToRequest, NEW c \in Calls, NEW ts \in Resolutions,
         SubmitRequest(c, ts) \/ SubmitSuspends(c, ts)
  PROVE  AbstractStep
<1>1. Others(c)
  BY LifeAdmit
<1>2. \A d \in Calls : d # c => Unmoved(d)
  BY <1>1, SameUnmoved DEF Others
<1>3. /\ pc[c] = "idle" /\ fut[c] = "none" /\ outcome[c] = "none" /\ ~Tracked(rid[c]) /\ rid[c] \in Ids
      /\ pc'[c] \in {"sending", "awaiting", "draining"} /\ fut'[c] = "pending"
      /\ UNCHANGED <<partials, rid, outcome, completed>>
  BY Types DEF SubmitRequest, SubmitSuspends, Admit, Entering, Proceed, LifeInv, CallOK, IdleOK, WaitingOK
<1>4. partials[rid[c]] = {}
  BY <1>3 DEF PartialsBelongToRequest
<1>5. /\ PhaseOf(c) = "new" /\ PhaseOf(c)' = "open"
      /\ FateOf(c)' = FateOf(c) /\ ResultsOf(c)' = ResultsOf(c)
      /\ DeliveredOf(c)' = DeliveredOf(c)
  BY <1>3, <1>4 DEF PhaseOf, FateOf, ResultsOf, DeliveredOf
<1>6. Lifecycle!Open(c)
  BY <1>2, <1>3, <1>5, OneMoves DEF Lifecycle!Open
<1> QED BY <1>6 DEF AbstractStep, Lifecycle!LifecycleNext

\* The end of a suspended send moves nothing; the KeyError that may follow it
\* is raised only once the request has been decided.
LEMMA MapResumes ==
  ASSUME TypeOK, TypeOK', LifeInv, NEW c \in Calls, SendFlushed(c) \/ SubmitResumes(c)
  PROVE  AbstractStep
<1>1. Others(c)
  BY LifeFlushed, LifeResumes
<1>2. \A d \in Calls : d # c => Unmoved(d)
  BY <1>1, SameUnmoved DEF Others
<1>3. /\ pc[c] \in {"sending", "sent"} /\ fut[c] # "none" /\ outcome[c] = "none"
      /\ futureOf[rid[c]] = c /\ (fut[c] = "pending" <=> Tracked(rid[c]))
      /\ UNCHANGED <<partials, rid, fut, value, completed>>
  BY DEF SendFlushed, SubmitResumes, LifeInv, CallOK, WaitingOK, Waiting, coordVars
<1>4. CASE pc'[c] # "done"
  <2>1. /\ pc'[c] \in {"sent", "awaiting", "draining"} /\ UNCHANGED <<futureOf, outcome>>
    BY <1>3, <1>4, Types DEF SendFlushed, SubmitResumes, Proceed, Return, coordVars
  <2>2. Unmoved(c)
    BY <1>3, <2>1 DEF Unmoved, PhaseOf, FateOf, ResultsOf, DeliveredOf
  <2> QED BY <1>2, <2>2, NobodyMoves DEF AbstractStep
<1>5. CASE pc'[c] = "done"
  <2>1. outcome'[c] = "error" /\ ~Tracked(rid[c])
    BY <1>3, <1>5, Types, NoCallAssumption DEF SendFlushed, SubmitResumes, Proceed, Return
  <2>2. /\ PhaseOf(c) = "open" /\ PhaseOf(c)' = "closed"
        /\ FateOf(c)' = FateOf(c) /\ FateOf(c) # "undecided" /\ ResultsOf(c)' = ResultsOf(c)
        /\ DeliveredOf(c)' = DeliveredOf(c)
    BY <1>3, <1>5, <2>1, Types DEF PhaseOf, FateOf, ResultsOf, DeliveredOf
  <2>3. Lifecycle!AnswerError(c)
    BY <1>2, <2>1, <2>2, OneMoves DEF Lifecycle!AnswerError, Lifecycle!Close
  <2> QED BY <2>3 DEF AbstractStep, Lifecycle!LifecycleNext
<1> QED BY <1>4, <1>5

\* submit() answers as its future says.
LEMMA MapAwait ==
  ASSUME TypeOK, TypeOK', LifeInv, NEW c \in Calls, AwaitFuture(c)
  PROVE  AbstractStep
<1>1. Others(c)
  BY LifeAwait
<1>2. \A d \in Calls : d # c => Unmoved(d)
  BY <1>1, SameUnmoved DEF Others
<1>3. /\ pc[c] = "awaiting" /\ waitsOn[c] = c /\ fut[c] \notin {"none", "pending"} /\ outcome[c] = "none"
      /\ completed'[c] = value[c] /\ UNCHANGED <<partials, rid, fut, value>>
  BY Types DEF AwaitFuture, LifeInv, CallOK, WaitingOK, Waiting
<1>4. PICK how \in {"ok", "error", "cancelled"} :
        /\ how = "ok" <=> fut[c] = "result"
        /\ pc'[c] = "done" /\ outcome'[c] = how
  BY <1>3, Types DEF AwaitFuture, Return
<1>5. /\ PhaseOf(c) = "open" /\ PhaseOf(c)' = "closed" /\ FateOf(c) # "undecided"
      /\ FateOf(c)' = FateOf(c) /\ ResultsOf(c)' = ResultsOf(c)
  BY <1>3, <1>4, Types DEF PhaseOf, FateOf, ResultsOf
<1>6. CASE how = "ok"
  <2>1. FateOf(c) = "granted" /\ DeliveredOf(c)' = ResultsOf(c)
    BY <1>3, <1>4, <1>6 DEF FateOf, ResultsOf, DeliveredOf
  <2>2. Lifecycle!AnswerOk(c)
    BY <1>2, <1>4, <1>5, <1>6, <2>1, OneMoves DEF Lifecycle!AnswerOk, Lifecycle!Close
  <2> QED BY <2>2 DEF AbstractStep, Lifecycle!LifecycleNext
<1>7. CASE how # "ok"
  <2>1. DeliveredOf(c)' = DeliveredOf(c)
    BY <1>3, <1>4, <1>7 DEF DeliveredOf
  <2>2. Lifecycle!AnswerError(c) \/ Lifecycle!GiveUp(c)
    BY <1>2, <1>4, <1>5, <1>7, <2>1, OneMoves
       DEF Lifecycle!AnswerError, Lifecycle!GiveUp, Lifecycle!Close
  <2> QED BY <2>2 DEF AbstractStep, Lifecycle!LifecycleNext
<1> QED BY <1>6, <1>7

\* stream() answers as the future it never looks at says.
LEMMA MapDrain ==
  ASSUME TypeOK, TypeOK', LifeInv, PartialsBelongToRequest, NEW c \in Calls, DrainQueue(c)
  PROVE  AbstractStep
<1>1. /\ Others(c)
      /\ Return(c, "ok") => fut[c] = "result" /\ completed'[c] = value[c]
      /\ Return(c, "error") => Revoked(c)
  BY LifeDrain
<1>2. \A d \in Calls : d # c => Unmoved(d)
  BY <1>1, SameUnmoved DEF Others
<1>3. /\ pc[c] = "draining" /\ outcome[c] = "none" /\ UNCHANGED <<partials, rid, fut, value>>
      /\ \/ UNCHANGED <<pc, outcome, futureOf>>
         \/ Return(c, "error") /\ completed' = completed
         \/ Return(c, "ok")
  BY DEF DrainQueue, LifeInv, CallOK, WaitingOK
<1>4. CASE UNCHANGED <<pc, outcome, futureOf>>
  <2>1. Unmoved(c)
    BY <1>3, <1>4 DEF Unmoved, PhaseOf, FateOf, ResultsOf, DeliveredOf
  <2> QED BY <1>2, <2>1, NobodyMoves DEF AbstractStep
<1>5. CASE Return(c, "error") /\ completed' = completed
  <2>1. Revoked(c) /\ pc'[c] = "done" /\ outcome'[c] = "error"
    BY <1>1, <1>5, Types DEF Return
  <2>2. /\ PhaseOf(c) = "open" /\ PhaseOf(c)' = "closed" /\ FateOf(c) # "undecided"
        /\ FateOf(c)' = FateOf(c) /\ ResultsOf(c)' = ResultsOf(c) /\ DeliveredOf(c)' = DeliveredOf(c)
    BY <1>3, <2>1 DEF PhaseOf, FateOf, ResultsOf, DeliveredOf, Revoked
  <2>3. Lifecycle!AnswerError(c)
    BY <1>2, <2>1, <2>2, OneMoves DEF Lifecycle!AnswerError, Lifecycle!Close
  <2> QED BY <2>3 DEF AbstractStep, Lifecycle!LifecycleNext
<1>6. CASE Return(c, "ok")
  <2>1. fut[c] = "result" /\ completed'[c] = value[c] /\ pc'[c] = "done" /\ outcome'[c] = "ok"
    BY <1>1, <1>6, Types DEF Return
  <2>2. /\ PhaseOf(c) = "open" /\ PhaseOf(c)' = "closed" /\ FateOf(c) = "granted"
        /\ FateOf(c)' = FateOf(c) /\ ResultsOf(c)' = ResultsOf(c) /\ DeliveredOf(c)' = ResultsOf(c)
    BY <1>3, <2>1 DEF PhaseOf, FateOf, ResultsOf, DeliveredOf
  <2>3. Lifecycle!AnswerOk(c)
    BY <1>2, <2>1, <2>2, OneMoves DEF Lifecycle!AnswerOk, Lifecycle!Close
  <2> QED BY <2>3 DEF AbstractStep, Lifecycle!LifecycleNext
<1> QED BY <1>3, <1>4, <1>5, <1>6

\* A caller that is cancelled gives up.
LEMMA MapCancel ==
  ASSUME TypeOK, TypeOK', LifeInv, NEW c \in Calls, CancelCall(c)
  PROVE  AbstractStep
<1>1. Others(c)
  BY LifeCancel
<1>2. \A d \in Calls : d # c => Unmoved(d)
  BY <1>1, SameUnmoved DEF Others
<1>3. /\ pc[c] \in Waiting /\ outcome[c] = "none" /\ futureOf[rid[c]] = c /\ rid[c] \in Ids
      /\ pc'[c] = "done" /\ outcome'[c] = "cancelled"
      /\ UNCHANGED <<partials, rid, value, completed>>
  BY Types DEF CancelCall, Return, LifeInv, CallOK, WaitingOK, Waiting
<1>4. /\ fut' = fut \/ (fut[c] = "pending" /\ fut'[c] = "cancelled")
      /\ fut'[c] = fut[c] \/ (fut[c] = "pending" /\ fut'[c] = "cancelled")
      /\ futureOf' = futureOf \/ futureOf'[rid[c]] = NoCall
      /\ fut' # fut => futureOf'[rid[c]] = NoCall
  <2>1. pc[c] = "awaiting" => waitsOn[c] = c
    BY DEF LifeInv, CallOK, WaitingOK
  <2> QED BY <1>3, <2>1, Types DEF CancelCall, PopOnExit, Pop
<1>5. PhaseOf(c) = "open" /\ PhaseOf(c)' = "closed" /\ DeliveredOf(c)' = DeliveredOf(c)
  BY <1>3 DEF PhaseOf, DeliveredOf, Waiting
<1>6. \/ FateOf(c)' = FateOf(c) /\ ResultsOf(c)' = ResultsOf(c)
      \/ /\ FateOf(c) = "undecided" /\ FateOf(c)' \in {"undecided", "revoked"}
         /\ ResultsOf(c)' = {}
  <2>1. CASE fut'[c] = "cancelled" /\ fut[c] = "pending"
    BY <2>1 DEF FateOf, ResultsOf
  <2>2. CASE fut'[c] = fut[c]
    BY <1>3, <1>4, <2>2, NoCallAssumption DEF FateOf, ResultsOf
  <2> QED BY <1>4, <2>1, <2>2
<1>7. Lifecycle!GiveUp(c)
  BY <1>2, <1>3, <1>5, <1>6, OneMoves DEF Lifecycle!GiveUp, Lifecycle!Close
<1> QED BY <1>7 DEF AbstractStep, Lifecycle!LifecycleNext
\* the call's request is decided against it
Falls(d) ==
  /\ PhaseOf(d) # "new" /\ FateOf(d) = "undecided" /\ FateOf(d)' = "revoked" /\ ResultsOf(d)' = {}
  /\ PhaseOf(d)' = PhaseOf(d) /\ outcome'[d] = outcome[d] /\ DeliveredOf(d)' = DeliveredOf(d)

LEMMA SomeFall ==
  ASSUME TypeOK, TypeOK', \A d \in Calls : Unmoved(d) \/ Falls(d)
  PROVE  AbstractStep
<1>1. PICK cs \in SUBSET Calls : cs = {d \in Calls : Falls(d)}
  OBVIOUS
<1>2. \A d \in Calls : IF d \in cs THEN Falls(d) ELSE Unmoved(d)
  BY <1>1
<1>3. \A d \in cs : Phase[d] # "new" /\ Fate[d] = "undecided"
  BY <1>1 DEF Falls, Phase, Fate
<1>4. Fate' = [c \in Calls |-> IF c \in cs THEN "revoked" ELSE Fate[c]]
  BY <1>2 DEF Fate, Falls, Unmoved
<1>5. Results' = [c \in Calls |-> IF c \in cs THEN {} ELSE Results[c]]
  BY <1>2 DEF Results, Falls, Unmoved
<1>6. Phase' = Phase
  BY <1>2 DEF Phase, Falls, Unmoved
<1>7. outcome' = outcome
  BY <1>2 DEF Falls, Unmoved, TypeOK, CallTypeOK
<1>8. Delivered' = Delivered
  BY <1>2 DEF Delivered, DeliveredOf, Falls, Unmoved
<1>9. Lifecycle!Revoke(cs)
  BY <1>3, <1>4, <1>5, <1>6, <1>7, <1>8 DEF Lifecycle!Revoke, Lifecycle!Live
<1> QED BY <1>9 DEF AbstractStep, Lifecycle!LifecycleNext

\* Rejecting a registered, unsettled future revokes its request; any other
\* call's future and results stay as they are.
LEMMA RejectedFalls ==
  ASSUME TypeOK, LifeInv, NEW d \in Calls, NEW x \in {"error", "cancelled"},
         fut'[d] = IF futureOf[rid[d]] = d /\ fut[d] = "pending" THEN x ELSE fut[d],
         UNCHANGED <<futureOf, pc, rid, value, completed, outcome>>
  PROVE  Unmoved(d) \/ Falls(d)
<1>1. pc[d] = "idle" => fut[d] = "none"
  BY DEF LifeInv, CallOK, IdleOK
<1>2. CASE futureOf[rid[d]] = d /\ fut[d] = "pending"
  <2>1. fut'[d] \in {"error", "cancelled"} /\ pc[d] # "idle"
    BY <1>1, <1>2
  <2>2. Falls(d)
    BY <1>2, <2>1, Types DEF Falls, PhaseOf, FateOf, ResultsOf, DeliveredOf
  <2> QED BY <2>2
<1>3. CASE ~(futureOf[rid[d]] = d /\ fut[d] = "pending")
  <2>1. Unmoved(d)
    BY <1>3 DEF Unmoved, PhaseOf, FateOf, ResultsOf, DeliveredOf
  <2> QED BY <2>1
<1> QED BY <1>2, <1>3

\* abort(), and the failure of a stage, revoke at most one request.
LEMMA MapRevokes ==
  ASSUME TypeOK, TypeOK', LifeInv, PartialsBelongToRequest, NEW id \in Ids, Tracked(id),
         RejectCompletionFuture(id), Untrack(id), NEW msg \in QueueMsg, msg.t = "fail", Put(id, msg),
         UNCHANGED <<futureOf, queueOf, pc, kind, rid, value, waitsOn, expected, completed, outcome>>,
         abortOk' = abortOk \/ abortOk' = abortOk \cup {id}
  PROVE  AbstractStep
<1>1. \A d \in Calls : rid[d] # id => Unmoved(d)
  BY LifeRevokes, SameUnmoved
<1>2. PICK x \in {"error", "cancelled"} :
        fut' = IF HasPendingFuture(id) THEN [fut EXCEPT ![futureOf[id]] = x] ELSE fut
  BY DEF RejectCompletionFuture
<1>3. ASSUME NEW d \in Calls, rid[d] = id PROVE Unmoved(d) \/ Falls(d)
  <2>1. fut'[d] = IF futureOf[rid[d]] = d /\ fut[d] = "pending" THEN x ELSE fut[d]
    BY <1>2, <1>3, Types, NoCallAssumption DEF HasPendingFuture
  <2> QED BY <2>1, RejectedFalls
<1> QED BY <1>1, <1>3, SomeFall

\* The loss of the pipeline revokes every request that is not decided.
LEMMA MapFatal ==
  ASSUME TypeOK, TypeOK', LifeInv, PartialsBelongToRequest, FailPendingRequests
  PROVE  AbstractStep
<1>1. /\ UNCHANGED <<futureOf, pc, rid, value, completed, outcome>>
      /\ \A id \in Ids : partials'[id] = {}
  BY DEF FailPendingRequests
<1>2. ASSUME NEW d \in Calls PROVE Unmoved(d) \/ Falls(d)
  <2>1. PICK x \in {"error", "cancelled"} :
          fut'[d] = IF Tracked(rid[d]) /\ futureOf[rid[d]] = d /\ fut[d] = "pending" THEN x ELSE fut[d]
    BY DEF FailPendingRequests
  <2>2. CASE Tracked(rid[d])
    BY <1>1, <2>1, <2>2, RejectedFalls
  <2>3. CASE ~Tracked(rid[d])
    <3>1. fut'[d] = fut[d] /\ partials'[rid[d]] = partials[rid[d]]
      BY <1>1, <2>1, <2>3, Types DEF PartialsBelongToRequest
    <3>2. Unmoved(d)
      BY <1>1, <3>1 DEF Unmoved, PhaseOf, FateOf, ResultsOf, DeliveredOf
    <3> QED BY <3>2
  <2> QED BY <2>2, <2>3
<1> QED BY <1>2, SomeFall

\* A terminal's success is collected, or grants the request.
LEMMA MapSuccess ==
  ASSUME TypeOK, TypeOK', LifeInv, SourcesOK, PartialsBelongToRequest, NEW t \in Stages, HandleSuccess(t)
  PROVE  AbstractStep
<1>1. PICK id \in Ids, msg \in QueueMsg, have \in SUBSET Stages : Success(t, id, msg, have)
  BY SuccessEffect
<1>2. \A d \in Calls : rid[d] # id => Unmoved(d)
  BY <1>1, SuccessSame, SameUnmoved DEF LifeInv
<1>3. /\ futureOf[id] \in Calls \cup {NoCall} /\ (futureOf[id] # NoCall => rid[futureOf[id]] = id)
      /\ terminals[id] \in Resolutions
      /\ UNCHANGED <<futureOf, pc, rid, completed, outcome>> /\ have = partials[id] \cup {t}
  BY <1>1, Types DEF LifeInv, TablesOK, Success
<1>4. CASE ~HasPendingFuture(id)
  <2>1. ASSUME NEW d \in Calls, rid[d] = id PROVE Unmoved(d)
    <3>1. fut'[d] = fut[d] /\ value'[d] = value[d]
      BY <1>1, <1>4 DEF Success, ResolveCompletionFuture
    <3>2. ~(fut[d] = "pending" /\ futureOf[rid[d]] = d)
      BY <1>4, <2>1, NoCallAssumption DEF HasPendingFuture
    <3> QED BY <1>3, <3>1, <3>2 DEF Unmoved, PhaseOf, FateOf, ResultsOf, DeliveredOf
  <2> QED BY <1>2, <2>1, NobodyMoves DEF AbstractStep
<1>5. CASE HasPendingFuture(id)
  <2>1. PICK c \in Calls : c = futureOf[id] /\ rid[c] = id /\ fut[c] = "pending"
    BY <1>3, <1>5 DEF HasPendingFuture
  <2>2. \A d \in Calls : d # c => Unmoved(d)
    BY <1>2, <2>1 DEF LifeInv
  <2>3. pc[c] # "idle"
    BY <2>1 DEF LifeInv, CallOK, IdleOK
  <2>4. /\ PhaseOf(c) # "new" /\ PhaseOf(c)' = PhaseOf(c) /\ FateOf(c) = "undecided"
        /\ ResultsOf(c) = partials[id] /\ outcome'[c] = outcome[c] /\ DeliveredOf(c)' = DeliveredOf(c)
    BY <1>3, <2>1, <2>3 DEF PhaseOf, FateOf, ResultsOf, DeliveredOf
  <2>5. CASE Resolves(id, have)
    <3>1. fut'[c] = "result" /\ value'[c] = have
      BY <1>1, <1>5, <2>1, <2>5, Types DEF Success, ResolveCompletionFuture
    <3>2. FateOf(c)' = "granted" /\ ResultsOf(c)' = have
      BY <3>1 DEF FateOf, ResultsOf
    <3>3. have \in Resolutions \/ ({} \in Resolutions /\ have = {t})
      BY <1>1, <1>3, <2>5 DEF Success
    <3>4. Lifecycle!Whole(ResultsOf(c) \cup {t})
      BY <1>3, <2>4, <3>3 DEF Lifecycle!Whole
    <3>5. Lifecycle!Grant(c, t)
      BY <1>3, <2>2, <2>4, <3>2, <3>4, OneMoves DEF Lifecycle!Grant, Lifecycle!Live
    <3> QED BY <3>5 DEF AbstractStep, Lifecycle!LifecycleNext
  <2>6. CASE ~Resolves(id, have)
    <3>1. /\ fut' = fut /\ value' = value /\ partials'[id] = have
          /\ have \subseteq terminals[id] /\ have # terminals[id]
      BY <1>1, <2>6, Types DEF Success
    <3>2. FateOf(c)' = FateOf(c) /\ ResultsOf(c)' = have
      BY <1>3, <2>1, <3>1 DEF FateOf, ResultsOf
    <3>3. \E r \in Resolutions : ResultsOf(c) \cup {t} \subseteq r /\ r # ResultsOf(c) \cup {t}
      BY <1>3, <2>4, <3>1
    <3>4. Lifecycle!Collect(c, t)
      BY <1>3, <2>2, <2>4, <3>2, <3>3, OneMoves DEF Lifecycle!Collect, Lifecycle!Live
    <3> QED BY <3>4 DEF AbstractStep, Lifecycle!LifecycleNext
  <2> QED BY <2>5, <2>6
<1> QED BY <1>4, <1>5

\* Chunks, ignored completions, the stages' own steps and stuttering.
LEMMA MapFrame ==
  ASSUME TypeOK, TypeOK',
         UNCHANGED <<partials, futureOf, pc, rid, fut, value, completed, outcome>>
  PROVE  AbstractStep
<1>1. \A d \in Calls : Unmoved(d)
  BY DEF Unmoved, PhaseOf, FateOf, ResultsOf, DeliveredOf
<1> QED BY <1>1, NobodyMoves DEF AbstractStep

\* Every step of the coordinator is a step of the lifecycle or leaves it
\* alone.
LEMMA MapStep ==
  ASSUME TypeOK, TypeOK', PartialsBelongToRequest, SourcesOK, LifeInv, [Next]_vars
  PROVE  AbstractStep
<1>1. ASSUME NEW c \in Calls, CallStep(c) PROVE AbstractStep
  BY <1>1, NeverStreaming, MapRefused, MapAdmitted, MapResumes, MapAwait, MapDrain, MapCancel
     DEF CallStep
<1>2. ASSUME NEW id \in Ids, Abort(id) PROVE AbstractStep
  <2>1. FailMsg("coordinator") \in QueueMsg /\ FailMsg("coordinator").t = "fail"
    BY MsgType DEF FailMsg
  <2> QED BY <1>2, <2>1, MapRevokes DEF Abort
<1>3. ASSUME NEW t \in Stages, HandleFailure(t) PROVE AbstractStep
  <2>1. FailMsg(t) \in QueueMsg /\ FailMsg(t).t = "fail"
    BY MsgType DEF FailMsg
  <2>2. Head(chan[t]).id \in Ids /\ Tracked(Head(chan[t]).id)
    BY <1>3, ReceiveType DEF HandleFailure, Ignored
  <2> QED BY <1>3, <2>1, <2>2, MapRevokes DEF HandleFailure
<1>4. ASSUME NEW t \in Stages, HandleStream(t) \/ IgnoreCompletion(t) PROVE AbstractStep
  BY <1>4, MapFrame DEF HandleStream, IgnoreCompletion, callVars
<1>5. ASSUME NEW ts \in SUBSET Stages, PipelineAccepts(ts) PROVE AbstractStep
  BY <1>5, MapFrame DEF PipelineAccepts, coordVars, callVars
<1>6. ASSUME NEW t \in Stages, NEW id \in Ids, StageStep(t, id) PROVE AbstractStep
  BY <1>6, MapFrame DEF StageStep, StageStreams, StageFinishes, StageAborts, coordVars, callVars
<1>7. CASE UNCHANGED vars
  BY <1>7, MapFrame DEF vars, coordVars, callVars
<1> QED BY <1>1, <1>2, <1>3, <1>4, <1>5, <1>6, <1>7, MapSuccess, MapFatal DEF Next, LoopStep

\* The coordinator implements the lifecycle it promises its callers: a fate
\* is decided once, results are delivered whole and only for a granted
\* request, nobody gets an error while its request is undecided, and submit()
\* and stream(), which wait in different ways, agree on all of it.
THEOREM CoordinatorImplements ==
  ASSUME UniqueIds
  PROVE  Spec => ImplementsLifecycle
<1>1. Init => Lifecycle!LifecycleInit
  BY DEF Init, Lifecycle!LifecycleInit, Phase, Fate, Results, Delivered, PhaseOf, FateOf, ResultsOf
<1>2. /\ TypeOK /\ PartialsBelongToRequest /\ SourcesOK /\ LifeInv
      /\ TypeOK' /\ [Next]_vars
      => [Lifecycle!LifecycleNext]_(Lifecycle!lifecycleVars)
  BY MapStep DEF AbstractStep
<1> QED
  BY <1>1, <1>2, LifeInvariant, PTL DEF Spec, ImplementsLifecycle, Lifecycle!LifecycleSpec
=============================================================================
