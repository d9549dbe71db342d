----------------------------- MODULE AdminProofs -----------------------------
(***************************************************************************)
(* Admin: what a success says, and the order in which ranks apply          *)
(* operations, for any number of operations, stages and followers, and any *)
(* number of failures and timeouts.                                        *)
(***************************************************************************)
EXTENDS Admin, SequenceTheorems, TLAPS

\* rank r has applied operation o; every rank of stage s has
Did(r, o) == o \in Range(applied[r])
StageDid(s, o) == \A r \in {s} \cup Followers[s] : Did(r, o)

\* a rank between operations has no reply, and a success is of the operation
\* it is in
RankOK(r) ==
  /\ busy[r] = NoOp => reply[r] = "none"
  /\ reply[r] = "ok" => Did(r, busy[r])

\* answers on their way and taken, whatever operation they belong to
FollowerOK(f) ==
  /\ \A i \in 1..Len(answers[f]) : answers[f][i].ok => Did(f, answers[f][i].op)
  /\ got[f].ok => Did(f, got[f].op)

EventsOK == \A i \in 1..Len(events) : events[i].ok => StageDid(events[i].stage, events[i].op)

OpOK(o) ==
  /\ \A x \in results[o] : x.ok => StageDid(x.stage, o)
  /\ pc[o] = "idle" => answer[o] = "none"
  /\ answer[o] = "ok" => \A s \in targets[o] : StageDid(s, o)

AdminInv ==
  /\ TypeOK
  /\ \A r \in Ranks : RankOK(r)
  /\ \A f \in AllFollowers : FollowerOK(f)
  /\ EventsOK
  /\ \A o \in Ops : OpOK(o)
-----------------------------------------------------------------------------
\* A step that applies nothing keeps what was applied; one that applies an
\* operation adds to it.
LEMMA DidGrows ==
  ASSUME TypeOK, NEW r \in Ranks, NEW o \in Ops,
         applied' = [applied EXCEPT ![r] = Append(@, o)]
  PROVE  /\ applied' \in [Ranks -> Seq(Ops)]
         /\ Did(r, o)'
         /\ \A q \in Ranks, p \in Ops : Did(q, p) => Did(q, p)'
<1>1. applied[r] \in Seq(Ops)
  BY DEF TypeOK
<1>2. /\ Append(applied[r], o) \in Seq(Ops)
      /\ Len(Append(applied[r], o)) = Len(applied[r]) + 1
      /\ \A i \in 1..Len(applied[r]) : Append(applied[r], o)[i] = applied[r][i]
      /\ Append(applied[r], o)[Len(applied[r]) + 1] = o
  BY <1>1, AppendProperties
<1>3. applied'[r] = Append(applied[r], o) /\ \A q \in Ranks : q # r => applied'[q] = applied[q]
  BY DEF TypeOK
<1>4. Len(applied[r]) \in Nat /\ DOMAIN applied[r] = 1..Len(applied[r])
      /\ DOMAIN Append(applied[r], o) = 1..(Len(applied[r]) + 1)
  BY <1>1, <1>2, LenProperties
<1>5. Did(r, o)'
  BY <1>2, <1>3, <1>4 DEF Did, Range
<1>6. \A p \in Ops : Did(r, p) => Did(r, p)'
  BY <1>2, <1>3, <1>4 DEF Did, Range
<1> QED BY <1>1, <1>2, <1>3, <1>5, <1>6 DEF Did, TypeOK

\* The first element of a queue and what is left of it.
LEMMA QueueHead ==
  ASSUME NEW S, NEW q \in Seq(S), q # <<>>
  PROVE  /\ Head(q) \in S /\ Head(q) = q[1] /\ 1 \in 1..Len(q)
         /\ Tail(q) \in Seq(S)
         /\ \A i \in 1..Len(Tail(q)) : i + 1 \in 1..Len(q) /\ Tail(q)[i] = q[i + 1]
<1>1. Len(q) \in Nat /\ Len(q) # 0
  BY LenProperties, EmptySeq
<1>2. Tail(q) \in Seq(S) /\ Len(Tail(q)) = Len(q) - 1
      /\ \A i \in 1..Len(Tail(q)) : Tail(q)[i] = q[i + 1]
  BY HeadTailProperties
<1>3. Head(q) = q[1] /\ q[1] \in S
  BY <1>1, HeadTailProperties
<1> QED BY <1>1, <1>2, <1>3

\* A queue with one more element.
LEMMA QueueAppend ==
  ASSUME NEW S, NEW q \in Seq(S), NEW e \in S
  PROVE  /\ Append(q, e) \in Seq(S) /\ Len(Append(q, e)) = Len(q) + 1 /\ Len(q) \in Nat
         /\ \A i \in 1..Len(Append(q, e)) :
              \/ i \in 1..Len(q) /\ Append(q, e)[i] = q[i]
              \/ i = Len(q) + 1 /\ Append(q, e)[i] = e
<1>1. Len(q) \in Nat
  BY LenProperties
<1>2. /\ Append(q, e) \in Seq(S) /\ Len(Append(q, e)) = Len(q) + 1
      /\ \A i \in 1..Len(q) : Append(q, e)[i] = q[i]
      /\ Append(q, e)[Len(q) + 1] = e
  BY AppendProperties
<1> QED BY <1>1, <1>2
-----------------------------------------------------------------------------
(* Steps of the coordinator: no rank's state changes but the inboxes.      *)

\* the ranks' part of the invariant
RanksOK ==
  /\ \A r \in Ranks : RankOK(r)
  /\ \A f \in AllFollowers : FollowerOK(f)

\* What the ranks did and said is left alone.
LEMMA RanksFrame ==
  ASSUME AdminInv, UNCHANGED <<busy, reply, answers, got, applied>>
  PROVE  RanksOK' /\ \A r, o : Did(r, o)' <=> Did(r, o)
BY DEF AdminInv, RanksOK, RankOK, FollowerOK, Did

\* admin() up to its wait: nothing is reported yet.
LEMMA StepCall ==
  ASSUME AdminInv, NEW o \in Ops, NEW ts \in SUBSET Stages,
         CallAdmin(o, ts) \/ Lock(o) \/ Send(o)
  PROVE  AdminInv'
<1>1. /\ UNCHANGED <<results, answer, events, busy, queued, reply, answers, got, faults, applied>>
      /\ pc[o] \in {"idle", "locking", "sending"}
      /\ \E v \in {"locking", "sending", "waiting"} : pc' = [pc EXCEPT ![o] = v]
      /\ \/ targets' = targets
         \/ pc[o] = "idle" /\ targets' = [targets EXCEPT ![o] = ts]
  BY DEF CallAdmin, Lock, Send
<1>2. TypeOK'
  <2>1. targets' \in [Ops -> SUBSET Stages]
    BY <1>1 DEF AdminInv, TypeOK
  <2>2. unsent' \in [Ops -> SUBSET Stages] /\ lock' \in Ops \cup {NoOp}
    <3>1. \/ unsent' = unsent
          \/ unsent' = [unsent EXCEPT ![o] = targets[o]]
          \/ \E x : unsent' = [unsent EXCEPT ![o] = @ \ {x}]
      BY DEF CallAdmin, Lock, Send
    <3>2. lock' = lock \/ lock' = o
      BY DEF CallAdmin, Lock, Send
    <3> QED BY <3>1, <3>2 DEF AdminInv, TypeOK
  <2>3. issued' \in Seq(Ops)
    <3>1. issued' = issued \/ issued' = Append(issued, o)
      BY DEF CallAdmin, Lock, Send
    <3>2. issued \in Seq(Ops)
      BY DEF AdminInv, TypeOK
    <3> QED BY <3>1, <3>2, QueueAppend
  <2>4. inbox' \in [Ranks -> Seq(Ops)]
    <3>1. CASE inbox' = inbox
      BY <3>1 DEF AdminInv, TypeOK
    <3>2. CASE \E s : inbox' = [inbox EXCEPT ![s] = Append(@, o)]
      <4> PICK s : inbox' = [inbox EXCEPT ![s] = Append(@, o)]
        BY <3>2
      <4>1. inbox \in [Ranks -> Seq(Ops)]
        BY DEF AdminInv, TypeOK
      <4>2. s \in Ranks => Append(inbox[s], o) \in Seq(Ops)
        BY <4>1, QueueAppend
      <4> QED BY <4>1, <4>2
    <3> QED BY <3>1, <3>2 DEF CallAdmin, Lock, Send
  <2> QED BY <1>1, <2>1, <2>2, <2>3, <2>4 DEF AdminInv, TypeOK
<1>3. RanksOK' /\ \A r, p : Did(r, p)' <=> Did(r, p)
  BY <1>1, RanksFrame
<1>4. EventsOK'
  BY <1>1, <1>3 DEF AdminInv, EventsOK, StageDid
<1>5. ASSUME NEW p \in Ops PROVE OpOK(p)'
  BY <1>1, <1>3 DEF AdminInv, TypeOK, OpOK, StageDid
<1> QED BY <1>2, <1>3, <1>4, <1>5 DEF AdminInv, RanksOK

\* A call that fails reports no success.
LEMMA StepRaise ==
  ASSUME AdminInv, NEW o \in Ops, Raise(o) \/ CancelLocking(o)
  PROVE  AdminInv'
<1>1. /\ UNCHANGED <<targets, unsent, results, issued, events, inbox, busy, queued, reply,
                     answers, got, faults, applied>>
      /\ pc' = [pc EXCEPT ![o] = "done"] /\ answer' = [answer EXCEPT ![o] = "raised"]
      /\ lock' \in {lock, NoOp}
  BY DEF Raise, CancelLocking, Leave
<1>2. TypeOK'
  BY <1>1 DEF AdminInv, TypeOK
<1>3. RanksOK' /\ \A r, p : Did(r, p)' <=> Did(r, p)
  BY <1>1, RanksFrame
<1>4. EventsOK'
  BY <1>1, <1>3 DEF AdminInv, EventsOK, StageDid
<1>5. ASSUME NEW p \in Ops PROVE OpOK(p)'
  BY <1>1, <1>3 DEF AdminInv, TypeOK, OpOK, StageDid
<1> QED BY <1>2, <1>3, <1>4, <1>5 DEF AdminInv, RanksOK

\* A success is aggregated from the results of all targets.
LEMMA StepComplete ==
  ASSUME AdminInv, NEW o \in Ops, Complete(o)
  PROVE  AdminInv'
<1> DEFINE a == IF \A x \in results[o] : x.ok THEN "ok" ELSE "failed"
<1>1. /\ UNCHANGED <<targets, unsent, results, issued, events, inbox, busy, queued, reply,
                     answers, got, faults, applied>>
      /\ pc' = [pc EXCEPT ![o] = "done"] /\ answer' = [answer EXCEPT ![o] = a]
      /\ lock' = NoOp
      /\ targets[o] \subseteq {x.stage : x \in results[o]}
  BY DEF Complete, Leave
<1>2. TypeOK'
  BY <1>1 DEF AdminInv, TypeOK
<1>3. RanksOK' /\ \A r, p : Did(r, p)' <=> Did(r, p)
  BY <1>1, RanksFrame
<1>4. EventsOK'
  BY <1>1, <1>3 DEF AdminInv, EventsOK, StageDid
<1>5. ASSUME NEW p \in Ops PROVE OpOK(p)'
  <2>1. OpOK(p)
    BY DEF AdminInv
  <2>2. CASE p = o
    <3>1. a = "ok" => \A s \in targets[o] : StageDid(s, o)
      BY <1>1, <2>1, <2>2 DEF OpOK
    <3> QED BY <1>1, <1>3, <2>1, <2>2, <3>1 DEF AdminInv, TypeOK, OpOK, StageDid
  <2>3. CASE p # o
    BY <1>1, <1>3, <2>1, <2>3 DEF AdminInv, TypeOK, OpOK, StageDid
  <2> QED BY <2>2, <2>3
<1> QED BY <1>2, <1>3, <1>4, <1>5 DEF AdminInv, RanksOK

\* A result is credited to the operation it carries, if that one is pending.
LEMMA StepResult ==
  ASSUME AdminInv, HandleAdminResult
  PROVE  AdminInv'
<1> DEFINE e == Head(events)
<1>1. /\ events # <<>> /\ events' = Tail(events)
      /\ UNCHANGED <<pc, targets, lock, unsent, answer, issued, inbox, busy, queued, reply,
                     answers, got, faults, applied>>
      /\ \/ results' = results
         \/ results' = [results EXCEPT ![e.op] = @ \cup {[stage |-> e.stage, ok |-> e.ok]}]
  BY DEF HandleAdminResult, Credit
<1> DEFINE E == [op : Ops, stage : Stages, ok : BOOLEAN]
<1>2. /\ e \in E /\ e = events[1] /\ 1 \in 1..Len(events) /\ Tail(events) \in Seq(E)
      /\ \A i \in 1..Len(Tail(events)) :
           i + 1 \in 1..Len(events) /\ Tail(events)[i] = events[i + 1]
  <2>1. events \in Seq(E)
    BY DEF AdminInv, TypeOK
  <2> HIDE DEF E
  <2> QED BY <1>1, <2>1, QueueHead
<1>3. e.ok => StageDid(e.stage, e.op)
  BY <1>2 DEF AdminInv, EventsOK
<1>4. results' \in [Ops -> SUBSET [stage : Stages, ok : BOOLEAN]]
  <2> DEFINE x == [stage |-> e.stage, ok |-> e.ok]
             X == [stage : Stages, ok : BOOLEAN]
  <2>1. x \in X /\ e.op \in Ops
    BY <1>2
  <2>2. results \in [Ops -> SUBSET X]
    BY DEF AdminInv, TypeOK
  <2>3. results' = results \/ results' = [results EXCEPT ![e.op] = @ \cup {x}]
    BY <1>1
  <2> HIDE DEF x, X, e
  <2>4. results' \in [Ops -> SUBSET X]
    BY <2>1, <2>2, <2>3
  <2> QED BY <2>4 DEF X
<1>5. TypeOK'
  BY <1>1, <1>2, <1>4 DEF AdminInv, TypeOK
<1>6. RanksOK' /\ \A r, p : Did(r, p)' <=> Did(r, p)
  BY <1>1, RanksFrame
<1>7. EventsOK'
  <2> SUFFICES ASSUME NEW i \in 1..Len(Tail(events)), Tail(events)[i].ok
               PROVE  StageDid(Tail(events)[i].stage, Tail(events)[i].op)
    BY <1>1, <1>6 DEF EventsOK, StageDid
  <2> QED BY <1>2 DEF AdminInv, EventsOK
<1>8. ASSUME NEW p \in Ops PROVE OpOK(p)'
  <2>1. OpOK(p)
    BY DEF AdminInv
  <2>2. ASSUME NEW x \in results'[p], x.ok PROVE StageDid(x.stage, p)
    <3>1. CASE x \in results[p]
      BY <2>1, <2>2, <3>1 DEF OpOK
    <3>2. CASE x \notin results[p]
      <4>1. p = e.op /\ x = [stage |-> e.stage, ok |-> e.ok]
        BY <1>1, <1>2, <3>2 DEF AdminInv, TypeOK
      <4> QED BY <1>3, <2>2, <4>1
    <3> QED BY <3>1, <3>2
  <2> QED BY <1>1, <1>6, <2>1, <2>2 DEF OpOK, StageDid
<1> QED BY <1>5, <1>6, <1>7, <1>8 DEF AdminInv, RanksOK
-----------------------------------------------------------------------------
(* Steps of the ranks: the coordinator's state does not change.            *)

\* The table of the coordinator and the events stay true when nothing that
\* was applied is lost.
LEMMA CoordFrame ==
  ASSUME AdminInv, UNCHANGED coordVars,
         \A r \in Ranks, o \in Ops : Did(r, o) => Did(r, o)'
  PROVE  /\ \A o \in Ops : OpOK(o)'
         /\ events' = events => EventsOK'
<1>1. \A s \in Stages, o \in Ops : StageDid(s, o) => StageDid(s, o)'
  BY DEF StageDid, Ranks, AllFollowers
<1>2. ASSUME NEW o \in Ops PROVE OpOK(o)'
  <2>1. OpOK(o) /\ results[o] \subseteq [stage : Stages, ok : BOOLEAN] /\ targets[o] \subseteq Stages
    BY DEF AdminInv, TypeOK
  <2> QED BY <1>1, <2>1 DEF OpOK, coordVars
<1>3. ASSUME events' = events PROVE EventsOK'
  <2> SUFFICES ASSUME NEW i \in 1..Len(events), events[i].ok
               PROVE  StageDid(events[i].stage, events[i].op)'
    BY <1>3 DEF EventsOK, StageDid
  <2>1. events \in Seq([op : Ops, stage : Stages, ok : BOOLEAN])
    BY DEF AdminInv, TypeOK
  <2>2. events[i] \in [op : Ops, stage : Stages, ok : BOOLEAN]
    BY <2>1, ElementOfSeq
  <2> QED BY <1>1, <1>3, <2>2 DEF AdminInv, EventsOK
<1> QED BY <1>2, <1>3

\* A leader's inbox and those of its followers after a message was taken.
LEMMA FannedType ==
  ASSUME AdminInv, NEW r \in Ranks, inbox[r] # <<>>
  PROVE  Head(inbox[r]) \in Ops /\ Fanned(r, Head(inbox[r])) \in [Ranks -> Seq(Ops)]
<1>1. inbox \in [Ranks -> Seq(Ops)]
  BY DEF AdminInv, TypeOK
<1>2. Head(inbox[r]) \in Ops /\ Tail(inbox[r]) \in Seq(Ops)
  BY <1>1, QueueHead
<1>3. \A q \in Ranks : Append(inbox[q], Head(inbox[r])) \in Seq(Ops)
  BY <1>1, <1>2, QueueAppend
<1> QED BY <1>1, <1>2, <1>3 DEF Fanned

\* _on_admin takes the next message: the rank was idle and has no reply.
LEMMA StepTake ==
  ASSUME AdminInv, NEW r \in Ranks, TakeOp(r)
  PROVE  AdminInv'
<1> DEFINE o == Head(inbox[r])
<1>1. /\ busy[r] = NoOp /\ inbox[r] # <<>>
      /\ busy' = [busy EXCEPT ![r] = o]
      /\ queued' = [queued EXCEPT ![r] = Append(@, o)]
      /\ inbox' = Fanned(r, o)
      /\ UNCHANGED <<coordVars, events, reply, answers, got, faults, applied>>
  BY DEF TakeOp
<1>2. o \in Ops /\ inbox' \in [Ranks -> Seq(Ops)]
  BY <1>1, FannedType
<1> HIDE DEF o
<1>3. queued' \in [Ranks -> Seq(Ops)]
  <2>1. queued \in [Ranks -> Seq(Ops)]
    BY DEF AdminInv, TypeOK
  <2>2. Append(queued[r], o) \in Seq(Ops)
    BY <1>2, <2>1, QueueAppend
  <2> QED BY <1>1, <2>1, <2>2
<1>4. TypeOK'
  BY <1>1, <1>2, <1>3 DEF AdminInv, TypeOK, coordVars
<1>5. \A q, p : Did(q, p)' <=> Did(q, p)
  BY <1>1 DEF Did
<1>6. (\A p \in Ops : OpOK(p)') /\ EventsOK'
  BY <1>1, <1>5, CoordFrame
<1>7. \A q \in Ranks : RankOK(q)'
  BY <1>1, <1>2, <1>5, NoOpAssumption DEF AdminInv, TypeOK, RankOK
<1>8. \A f \in AllFollowers : FollowerOK(f)'
  BY <1>1, <1>5 DEF AdminInv, FollowerOK
<1> QED BY <1>4, <1>6, <1>7, <1>8 DEF AdminInv

\* The scheduler thread runs the operation: a reply of success is of the
\* operation the rank is in, which it has applied.
LEMMA StepRun ==
  ASSUME AdminInv, NEW r \in Ranks, NEW ok \in BOOLEAN, RunAdmin(r, ok)
  PROVE  AdminInv'
<1>1. queued \in [Ranks -> Seq(Ops)] /\ queued[r] # <<>>
  BY DEF AdminInv, TypeOK, RunAdmin
<1>2. Head(queued[r]) \in Ops /\ Tail(queued[r]) \in Seq(Ops)
  BY <1>1, QueueHead
<1>3. PICK o \in Ops : o = Head(queued[r])
  BY <1>2
<1>4. /\ queued[r] # <<>> /\ (ok \/ faults < MaxFaults)
      /\ faults' = IF ok THEN faults ELSE faults + 1
      /\ queued' = [queued EXCEPT ![r] = Tail(@)]
      /\ applied' = IF ok THEN [applied EXCEPT ![r] = Append(@, o)] ELSE applied
      /\ reply' = IF busy[r] = o /\ reply[r] = "none"
                  THEN [reply EXCEPT ![r] = IF ok THEN "ok" ELSE "fail"] ELSE reply
      /\ UNCHANGED <<coordVars, events, inbox, busy, answers, got>>
  BY <1>3 DEF RunAdmin
<1>5. /\ applied' \in [Ranks -> Seq(Ops)]
      /\ ok => Did(r, o)'
      /\ \A q \in Ranks, p \in Ops : Did(q, p) => Did(q, p)'
  <2>1. CASE ok
    BY <1>4, <1>3, <2>1, DidGrows DEF AdminInv
  <2>2. CASE ~ok
    BY <1>4, <2>2 DEF AdminInv, TypeOK, Did
  <2> QED BY <2>1, <2>2
<1>6. TypeOK'
  <2>1. queued' \in [Ranks -> Seq(Ops)]
    BY <1>1, <1>4, <1>2
  <2>2. faults' \in 0..MaxFaults
    BY <1>4, TargetsAssumption DEF AdminInv, TypeOK
  <2>3. reply' \in [Ranks -> {"none", "ok", "fail"}]
    BY <1>4 DEF AdminInv, TypeOK
  <2> QED BY <1>4, <1>5, <2>1, <2>2, <2>3 DEF AdminInv, TypeOK, coordVars
<1>7. (\A p \in Ops : OpOK(p)') /\ EventsOK'
  BY <1>4, <1>5, CoordFrame
<1>8. ASSUME NEW q \in Ranks PROVE RankOK(q)'
  <2>1. RankOK(q) /\ busy[q] \in Ops \cup {NoOp}
    BY DEF AdminInv, TypeOK
  <2>2. CASE reply'[q] = reply[q]
    <3>1. reply[q] = "ok" => busy[q] \in Ops
      BY <2>1 DEF RankOK
    <3> QED BY <1>4, <1>5, <2>1, <2>2, <3>1 DEF RankOK
  <2>3. CASE reply'[q] # reply[q]
    <3>1. q = r /\ busy[r] = o /\ reply'[q] = IF ok THEN "ok" ELSE "fail"
      BY <1>4, <2>3 DEF AdminInv, TypeOK
    <3> QED BY <1>4, <1>3, <1>5, <3>1, NoOpAssumption DEF RankOK
  <2> QED BY <2>2, <2>3
<1>9. ASSUME NEW f \in AllFollowers PROVE FollowerOK(f)'
  <2>1. f \in Ranks /\ FollowerOK(f) /\ answers[f] \in Seq(Answers) /\ got[f] \in Answers \cup {Nothing}
    BY DEF Ranks, AdminInv, TypeOK
  <2>2. ASSUME NEW i \in 1..Len(answers[f]), answers[f][i].ok PROVE Did(f, answers[f][i].op)'
    <3>1. answers[f][i] \in Answers
      BY <2>1, ElementOfSeq
    <3> QED BY <1>4, <1>5, <2>1, <2>2, <3>1 DEF FollowerOK, Answers
  <2>3. ASSUME got[f].ok PROVE Did(f, got[f].op)'
    BY <1>4, <1>5, <2>1, <2>3 DEF FollowerOK, Answers, Nothing
  <2> QED BY <1>4, <2>2, <2>3 DEF FollowerOK
<1> QED BY <1>6, <1>7, <1>8, <1>9 DEF AdminInv

\* The handler gives up: that is a failure.
LEMMA StepTimeout ==
  ASSUME AdminInv, NEW r \in Ranks, HandlerTimesOut(r)
  PROVE  AdminInv'
<1>1. /\ busy[r] # NoOp /\ faults < MaxFaults /\ faults' = faults + 1
      /\ reply' = [reply EXCEPT ![r] = "fail"]
      /\ UNCHANGED <<coordVars, events, inbox, busy, queued, answers, got, applied>>
  BY DEF HandlerTimesOut
<1>2. TypeOK'
  BY <1>1, TargetsAssumption DEF AdminInv, TypeOK, coordVars
<1>3. \A q, p : Did(q, p)' <=> Did(q, p)
  BY <1>1 DEF Did
<1>4. (\A p \in Ops : OpOK(p)') /\ EventsOK'
  BY <1>1, <1>3, CoordFrame
<1>5. \A q \in Ranks : RankOK(q)'
  BY <1>1, <1>3 DEF AdminInv, TypeOK, RankOK
<1>6. \A f \in AllFollowers : FollowerOK(f)'
  BY <1>1, <1>3 DEF AdminInv, FollowerOK
<1> QED BY <1>2, <1>4, <1>5, <1>6 DEF AdminInv

\* A rank that goes idle keeps what the others are in.
LEMMA IdleRank ==
  ASSUME AdminInv, NEW r \in Ranks, Idle(r), UNCHANGED applied
  PROVE  /\ busy' \in [Ranks -> Ops \cup {NoOp}] /\ reply' \in [Ranks -> {"none", "ok", "fail"}]
         /\ \A q \in Ranks : RankOK(q)'
         /\ \A q, p : Did(q, p)' <=> Did(q, p)
BY DEF AdminInv, TypeOK, Idle, RankOK, Did

\* A follower's answer carries its operation.
LEMMA StepFollower ==
  ASSUME AdminInv, NEW f \in AllFollowers, FollowerAnswers(f)
  PROVE  AdminInv'
<1>0. f \in Ranks /\ busy[f] \in Ops
  BY DEF Ranks, FollowerAnswers, AdminInv, TypeOK, RankOK
<1>1. PICK a \in Answers : a = [op |-> busy[f], ok |-> reply[f] = "ok"]
  <2>1. (reply[f] = "ok") \in BOOLEAN
    OBVIOUS
  <2>2. [op |-> busy[f], ok |-> reply[f] = "ok"] \in [op : Ops, ok : BOOLEAN]
    BY <1>0, <2>1, Zenon
  <2> QED BY <2>2 DEF Answers
<1>2. /\ answers' = [answers EXCEPT ![f] = Append(@, a)]
      /\ Idle(f)
      /\ UNCHANGED <<coordVars, events, inbox, queued, got, faults, applied>>
  BY <1>1 DEF FollowerAnswers
<1>3. /\ busy' \in [Ranks -> Ops \cup {NoOp}] /\ reply' \in [Ranks -> {"none", "ok", "fail"}]
      /\ \A q \in Ranks : RankOK(q)'
      /\ \A q, p : Did(q, p)' <=> Did(q, p)
  BY <1>0, <1>2, IdleRank
<1>4. a.ok => Did(f, a.op)
  BY <1>0, <1>1 DEF AdminInv, RankOK
<1>5. answers[f] \in Seq(Answers)
  BY DEF AdminInv, TypeOK
<1>6. /\ Append(answers[f], a) \in Seq(Answers)
      /\ \A i \in 1..Len(Append(answers[f], a)) :
           \/ i \in 1..Len(answers[f]) /\ Append(answers[f], a)[i] = answers[f][i]
           \/ Append(answers[f], a)[i] = a
  BY <1>5, QueueAppend
<1>7. answers' \in [AllFollowers -> Seq(Answers)] /\ answers'[f] = Append(answers[f], a)
  BY <1>2, <1>6 DEF AdminInv, TypeOK
<1>8. TypeOK'
  BY <1>2, <1>3, <1>7 DEF AdminInv, TypeOK, coordVars
<1>9. (\A p \in Ops : OpOK(p)') /\ EventsOK'
  BY <1>2, <1>3, CoordFrame
<1>10. ASSUME NEW g \in AllFollowers PROVE FollowerOK(g)'
  <2>1. FollowerOK(g)
    BY DEF AdminInv
  <2>2. CASE g # f
    BY <1>2, <1>3, <2>1, <2>2 DEF FollowerOK, AdminInv, TypeOK
  <2>3. CASE g = f
    <3>1. ASSUME NEW i \in 1..Len(answers'[f]), answers'[f][i].ok
          PROVE  Did(f, answers'[f][i].op)
      BY <1>4, <1>6, <1>7, <2>1, <2>3, <3>1 DEF FollowerOK
    <3> QED BY <1>2, <1>3, <2>1, <2>3, <3>1 DEF FollowerOK
  <2> QED BY <2>2, <2>3
<1> QED BY <1>3, <1>8, <1>9, <1>10 DEF AdminInv

\* The leader takes an answer from a follower's queue, of whatever operation.
LEMMA StepCollect ==
  ASSUME AdminInv, NEW s \in Stages, NEW f \in Followers[s], Collect(s, f)
  PROVE  AdminInv'
<1>0. f \in AllFollowers
  BY DEF AllFollowers
<1>1. /\ answers[f] # <<>>
      /\ got' = [got EXCEPT ![f] = Head(answers[f])]
      /\ answers' = [answers EXCEPT ![f] = Tail(@)]
      /\ UNCHANGED <<coordVars, events, inbox, busy, queued, reply, faults, applied>>
  BY DEF Collect
<1>2. answers[f] \in Seq(Answers)
  BY <1>0 DEF AdminInv, TypeOK
<1>3. /\ Head(answers[f]) \in Answers /\ Head(answers[f]) = answers[f][1]
      /\ 1 \in 1..Len(answers[f]) /\ Tail(answers[f]) \in Seq(Answers)
      /\ \A i \in 1..Len(Tail(answers[f])) :
           i + 1 \in 1..Len(answers[f]) /\ Tail(answers[f])[i] = answers[f][i + 1]
  BY <1>1, <1>2, QueueHead
<1>4. /\ answers' \in [AllFollowers -> Seq(Answers)] /\ answers'[f] = Tail(answers[f])
      /\ got' \in [AllFollowers -> Answers \cup {Nothing}] /\ got'[f] = Head(answers[f])
  BY <1>0, <1>1, <1>3 DEF AdminInv, TypeOK
<1>5. TypeOK'
  BY <1>1, <1>4 DEF AdminInv, TypeOK, coordVars
<1>6. \A q, p : Did(q, p)' <=> Did(q, p)
  BY <1>1 DEF Did
<1>7. (\A p \in Ops : OpOK(p)') /\ EventsOK'
  BY <1>1, <1>6, CoordFrame
<1>8. \A q \in Ranks : RankOK(q)'
  BY <1>1, <1>6 DEF AdminInv, RankOK
<1>9. ASSUME NEW g \in AllFollowers PROVE FollowerOK(g)'
  <2>1. FollowerOK(g)
    BY DEF AdminInv
  <2>2. CASE g # f
    BY <1>1, <1>6, <2>1, <2>2 DEF FollowerOK, AdminInv, TypeOK
  <2>3. CASE g = f
    <3>1. ASSUME NEW i \in 1..Len(answers'[f]), answers'[f][i].ok
          PROVE  Did(f, answers'[f][i].op)
      BY <1>3, <1>4, <2>1, <2>3, <3>1 DEF FollowerOK
    <3>2. got'[f].ok => Did(f, got'[f].op)
      BY <1>3, <1>4, <2>1, <2>3 DEF FollowerOK
    <3> QED BY <1>6, <2>3, <3>1, <3>2 DEF FollowerOK
  <2> QED BY <2>2, <2>3
<1> QED BY <1>5, <1>7, <1>8, <1>9 DEF AdminInv

\* The leader reports success only when it and every follower applied the
\* operation it is in: an answer of another operation is a failure.
LEMMA StepLeader ==
  ASSUME AdminInv, NEW s \in Stages, LeaderAnswers(s)
  PROVE  AdminInv'
<1> DEFINE E == [op : Ops, stage : Stages, ok : BOOLEAN]
<1>0. s \in Ranks /\ busy[s] \in Ops
  BY DEF Ranks, LeaderAnswers, AdminInv, TypeOK, RankOK
<1>1. PICK e \in E : e = [op |-> busy[s], stage |-> s, ok |-> RanksAgree(s)]
  <2>1. RanksAgree(s) \in BOOLEAN
    BY DEF RanksAgree
  <2>2. [op |-> busy[s], stage |-> s, ok |-> RanksAgree(s)] \in E
    BY <1>0, <2>1, Zenon
  <2> QED BY <2>2
<1> HIDE DEF E
<1>2. /\ events' = Append(events, e)
      /\ got' = [f \in AllFollowers |-> IF f \in Followers[s] THEN Nothing ELSE got[f]]
      /\ Idle(s)
      /\ UNCHANGED <<coordVars, inbox, queued, answers, faults, applied>>
  BY <1>1 DEF LeaderAnswers
<1>3. /\ busy' \in [Ranks -> Ops \cup {NoOp}] /\ reply' \in [Ranks -> {"none", "ok", "fail"}]
      /\ \A q \in Ranks : RankOK(q)'
      /\ \A q, p : Did(q, p)' <=> Did(q, p)
  BY <1>0, <1>2, IdleRank
<1>4. e.ok => StageDid(e.stage, e.op)
  <2>1. \A f \in Followers[s] : FollowerOK(f)
    BY DEF AdminInv, AllFollowers
  <2>2. RanksAgree(s) => StageDid(s, busy[s])
    BY <1>0, <2>1 DEF RanksAgree, StageDid, AdminInv, RankOK, FollowerOK
  <2> QED BY <1>1, <2>2
<1>5. events \in Seq(E)
  BY DEF AdminInv, TypeOK, E
<1>6. /\ Append(events, e) \in Seq(E)
      /\ \A i \in 1..Len(Append(events, e)) :
           \/ i \in 1..Len(events) /\ Append(events, e)[i] = events[i]
           \/ Append(events, e)[i] = e
  BY <1>5, QueueAppend
<1>7. got' \in [AllFollowers -> Answers \cup {Nothing}]
  BY <1>2 DEF AdminInv, TypeOK
<1>8. TypeOK'
  BY <1>2, <1>3, <1>6, <1>7 DEF AdminInv, TypeOK, coordVars, E
<1>9. \A p \in Ops : OpOK(p)'
  BY <1>2, <1>3, CoordFrame
<1>10. EventsOK'
  <2> SUFFICES ASSUME NEW i \in 1..Len(events'), events'[i].ok
               PROVE  StageDid(events'[i].stage, events'[i].op)
    BY <1>3 DEF EventsOK, StageDid
  <2> QED BY <1>2, <1>4, <1>6 DEF AdminInv, EventsOK
<1>11. \A f \in AllFollowers : FollowerOK(f)'
  BY <1>2, <1>3 DEF AdminInv, FollowerOK, Nothing
<1> QED BY <1>3, <1>8, <1>9, <1>10, <1>11 DEF AdminInv

\* Every step of the coordinator and of the ranks keeps the invariant.
LEMMA AdminStep == AdminInv /\ [Next]_vars => AdminInv'
<1> SUFFICES ASSUME AdminInv, [Next]_vars PROVE AdminInv'
  OBVIOUS
<1>1. CASE UNCHANGED vars
  BY <1>1 DEF vars, coordVars, AdminInv, TypeOK, RankOK, FollowerOK, EventsOK, OpOK, StageDid, Did
<1>2. ASSUME NEW o \in Ops, NEW ts \in TargetSets, CallAdmin(o, ts)
      PROVE  AdminInv'
  BY <1>2, StepCall, TargetsAssumption
<1>3. CASE Coordinate
  <2> PICK o \in Ops : Lock(o) \/ Send(o) \/ Complete(o)
    BY <1>3 DEF Coordinate
  <2>1. CASE Complete(o)
    BY <2>1, StepComplete
  <2>2. CASE Lock(o) \/ Send(o)
    <3>1. {} \in SUBSET Stages
      OBVIOUS
    <3> QED BY <2>2, <3>1, StepCall
  <2> QED BY <2>1, <2>2
<1>4. CASE RankStep
  BY <1>4, StepTake, StepRun DEF RankStep
<1>5. CASE StageStep
  BY <1>5, StepLeader, StepCollect, StepFollower DEF StageStep
<1>6. ASSUME NEW o \in Ops, Raise(o) \/ CancelLocking(o)
      PROVE  AdminInv'
  BY <1>6, StepRaise
<1>7. ASSUME NEW r \in Ranks, HandlerTimesOut(r)
      PROVE  AdminInv'
  BY <1>7, StepTimeout
<1> QED BY <1>1, <1>2, <1>3, <1>4, <1>5, <1>6, <1>7, StepResult DEF Next

\* The system starts with no operation under way.
LEMMA AdminInit == Init => AdminInv
<1> SUFFICES ASSUME Init PROVE AdminInv
  OBVIOUS
<1>1. TypeOK
  <2>1. /\ <<>> \in Seq(Ops) /\ <<>> \in Seq(Answers)
        /\ <<>> \in Seq([op : Ops, stage : Stages, ok : BOOLEAN])
    BY EmptySeq
  <2> QED BY <2>1, TargetsAssumption DEF Init, TypeOK
<1>2. \A r \in Ranks : RankOK(r)
  BY DEF Init, RankOK
<1>3. \A f \in AllFollowers : FollowerOK(f)
  BY EmptySeq DEF Init, FollowerOK, Nothing
<1>4. EventsOK /\ \A o \in Ops : OpOK(o)
  BY EmptySeq DEF Init, EventsOK, OpOK
<1> QED BY <1>1, <1>2, <1>3, <1>4 DEF AdminInv

\* In every behaviour answers, results and reports of success are true.
LEMMA AdminInvariant == Spec => []AdminInv
BY AdminInit, AdminStep, PTL DEF Spec

\* admin(), _handle_admin_result, collect_admin_results: an operation reported
\* as successful was applied by every rank of every target stage.
THEOREM SuccessIsTrue == Spec => []SuccessMeansApplied
<1>1. AdminInv => SuccessMeansApplied
  BY DEF AdminInv, OpOK, StageDid, Did, SuccessMeansApplied
<1> QED BY <1>1, AdminInvariant, PTL
-----------------------------------------------------------------------------
(* The order in which ranks apply operations.  An operation moves from the *)
(* inbox of a stage to its followers' inboxes and to the queue of each     *)
(* rank's scheduler; every stop on the way holds operations in the order   *)
(* of iss, the operations issued, and later ones than the stop after it.   *)

In(o, q) == \E i \in 1..Len(q) : q[i] = o
Before(iss, a, b) == \E k, l \in 1..Len(iss) : k < l /\ iss[k] = a /\ iss[l] = b
Ordered(iss, q) == \A i, j \in 1..Len(q) : i < j => Before(iss, q[i], q[j])
AllBefore(iss, p, q) == \A i \in 1..Len(p), j \in 1..Len(q) : Before(iss, p[i], q[j])

\* An operation moves from the front of one queue to the end of the next.
LEMMA MoveHead ==
  ASSUME NEW iss, NEW p \in Seq(Ops), NEW q \in Seq(Ops), q # <<>>,
         Ordered(iss, p), Ordered(iss, q), AllBefore(iss, p, q)
  PROVE  /\ Ordered(iss, Append(p, Head(q))) /\ Ordered(iss, Tail(q))
         /\ AllBefore(iss, Append(p, Head(q)), Tail(q))
<1> DEFINE o == Head(q)
           t == Tail(q)
           a == Append(p, o)
<1>1. /\ o \in Ops /\ o = q[1] /\ 1 \in 1..Len(q) /\ t \in Seq(Ops)
      /\ \A i \in 1..Len(t) : i + 1 \in 1..Len(q) /\ t[i] = q[i + 1]
  BY QueueHead
<1>2. /\ Len(a) = Len(p) + 1 /\ Len(p) \in Nat /\ Len(q) \in Nat
      /\ \A i \in 1..Len(a) : \/ i \in 1..Len(p) /\ a[i] = p[i]
                              \/ i = Len(p) + 1 /\ a[i] = o
  BY <1>1, QueueAppend, LenProperties
<1> HIDE DEF o, t, a
<1>3. Ordered(iss, a)
  <2> SUFFICES ASSUME NEW i \in 1..Len(a), NEW j \in 1..Len(a), i < j
               PROVE  Before(iss, a[i], a[j])
    BY DEF Ordered
  <2>1. i \in 1..Len(p) /\ a[i] = p[i]
    BY <1>2
  <2>2. CASE j \in 1..Len(p)
    BY <1>2, <2>1, <2>2 DEF Ordered
  <2>3. CASE j = Len(p) + 1
    BY <1>1, <1>2, <2>1, <2>3 DEF AllBefore
  <2> QED BY <1>2, <2>2, <2>3
<1>4. Ordered(iss, t)
  <2> SUFFICES ASSUME NEW i \in 1..Len(t), NEW j \in 1..Len(t), i < j
               PROVE  Before(iss, t[i], t[j])
    BY DEF Ordered
  <2> QED BY <1>1 DEF Ordered
<1>5. AllBefore(iss, a, t)
  <2> SUFFICES ASSUME NEW i \in 1..Len(a), NEW j \in 1..Len(t)
               PROVE  Before(iss, a[i], t[j])
    BY DEF AllBefore
  <2>1. t[j] = q[j + 1] /\ j + 1 \in 1..Len(q) /\ 1 < j + 1
    BY <1>1
  <2>2. CASE i \in 1..Len(p) /\ a[i] = p[i]
    BY <2>1, <2>2 DEF AllBefore
  <2>3. CASE a[i] = o
    BY <1>1, <2>1, <2>3 DEF Ordered
  <2> QED BY <1>2, <2>2, <2>3
<1> QED BY <1>3, <1>4, <1>5 DEF o, t, a

\* What came before a queue comes before the rest of it, and the rest comes
\* before what came after it.
LEMMA BeforeTail ==
  ASSUME NEW iss, NEW p \in Seq(Ops), NEW q \in Seq(Ops), q # <<>>
  PROVE  /\ AllBefore(iss, p, q) => AllBefore(iss, p, Tail(q))
         /\ AllBefore(iss, q, p) => AllBefore(iss, Tail(q), p)
<1>1. \A i \in 1..Len(Tail(q)) : i + 1 \in 1..Len(q) /\ Tail(q)[i] = q[i + 1]
  BY QueueHead
<1> QED BY <1>1 DEF AllBefore

\* A queue grows by an operation later than all that came before it.
LEMMA BeforeAppend ==
  ASSUME NEW iss, NEW p \in Seq(Ops), NEW q \in Seq(Ops), NEW o \in Ops,
         AllBefore(iss, p, q), \A i \in 1..Len(p) : Before(iss, p[i], o)
  PROVE  AllBefore(iss, p, Append(q, o))
<1>1. \A i \in 1..Len(Append(q, o)) : \/ i \in 1..Len(q) /\ Append(q, o)[i] = q[i]
                                      \/ Append(q, o)[i] = o
  BY QueueAppend
<1> QED BY <1>1 DEF AllBefore

\* A queue grows by an operation earlier than all that came after it.
LEMMA AppendBefore ==
  ASSUME NEW iss, NEW p \in Seq(Ops), NEW q \in Seq(Ops), NEW o \in Ops,
         AllBefore(iss, p, q), \A i \in 1..Len(q) : Before(iss, o, q[i])
  PROVE  AllBefore(iss, Append(p, o), q)
<1>1. \A i \in 1..Len(Append(p, o)) : \/ i \in 1..Len(p) /\ Append(p, o)[i] = p[i]
                                      \/ Append(p, o)[i] = o
  BY QueueAppend
<1> QED BY <1>1 DEF AllBefore

\* A queue in order stays in order when a later operation is added.
LEMMA OrderedAppend ==
  ASSUME NEW iss, NEW p \in Seq(Ops), NEW o \in Ops,
         Ordered(iss, p), \A i \in 1..Len(p) : Before(iss, p[i], o)
  PROVE  Ordered(iss, Append(p, o))
<1>1. /\ Len(p) \in Nat /\ Len(Append(p, o)) = Len(p) + 1
      /\ \A i \in 1..Len(Append(p, o)) : \/ i \in 1..Len(p) /\ Append(p, o)[i] = p[i]
                                         \/ i = Len(p) + 1 /\ Append(p, o)[i] = o
  BY QueueAppend
<1> SUFFICES ASSUME NEW i \in 1..Len(Append(p, o)), NEW j \in 1..Len(Append(p, o)), i < j
             PROVE  Before(iss, Append(p, o)[i], Append(p, o)[j])
  BY DEF Ordered
<1>2. i \in 1..Len(p) /\ Append(p, o)[i] = p[i]
  BY <1>1
<1> QED BY <1>1, <1>2 DEF Ordered

\* Issuing one more operation changes no order.
LEMMA BeforeGrows ==
  ASSUME NEW iss \in Seq(Ops), NEW o \in Ops, NEW a, NEW b, Before(iss, a, b)
  PROVE  Before(Append(iss, o), a, b)
<1>1. PICK k \in 1..Len(iss), l \in 1..Len(iss) : k < l /\ iss[k] = a /\ iss[l] = b
  BY DEF Before
<1>2. /\ Len(iss) \in Nat /\ Len(Append(iss, o)) = Len(iss) + 1
      /\ \A i \in 1..Len(iss) : Append(iss, o)[i] = iss[i]
  BY AppendProperties, LenProperties
<1> QED BY <1>1, <1>2 DEF Before

\* What has been issued came before the operation issued last, unless it is
\* that one.
LEMMA BeforeLast ==
  ASSUME NEW iss \in Seq(Ops), NEW o, NEW a, In(a, iss), iss[Len(iss)] = o, a # o
  PROVE  Before(iss, a, o)
<1>1. PICK k \in 1..Len(iss) : iss[k] = a
  BY DEF In
<1>2. Len(iss) \in Nat
  BY LenProperties
<1>3. k < Len(iss) /\ Len(iss) \in 1..Len(iss)
  BY <1>1, <1>2
<1> QED BY <1>1, <1>3 DEF Before

\* Membership of the queues that the steps build.
LEMMA InQueues ==
  ASSUME NEW q \in Seq(Ops)
  PROVE  /\ \A o \in Ops : \A p : In(p, Append(q, o)) <=> In(p, q) \/ p = o
         /\ q # <<>> => \A p : In(p, q) <=> In(p, Tail(q)) \/ p = Head(q)
<1>1. ASSUME NEW o \in Ops, NEW p PROVE In(p, Append(q, o)) <=> In(p, q) \/ p = o
  <2>1. /\ Len(q) \in Nat /\ Len(Append(q, o)) = Len(q) + 1
        /\ \A i \in 1..Len(q) : Append(q, o)[i] = q[i]
        /\ Append(q, o)[Len(q) + 1] = o
    BY AppendProperties, LenProperties
  <2>2. \A i \in 1..Len(Append(q, o)) : i \in 1..Len(q) \/ i = Len(q) + 1
    BY <2>1
  <2>3. In(p, q) => In(p, Append(q, o))
    BY <2>1 DEF In
  <2>4. p = o => In(p, Append(q, o))
    BY <2>1 DEF In
  <2>5. In(p, Append(q, o)) => In(p, q) \/ p = o
    BY <2>1, <2>2 DEF In
  <2> QED BY <2>3, <2>4, <2>5
<1>2. ASSUME q # <<>>, NEW p PROVE In(p, q) <=> In(p, Tail(q)) \/ p = Head(q)
  <2>1. /\ Head(q) = q[1] /\ 1 \in 1..Len(q) /\ Len(q) \in Nat
        /\ Len(Tail(q)) = Len(q) - 1
        /\ \A i \in 1..Len(Tail(q)) : Tail(q)[i] = q[i + 1]
    BY <1>2, QueueHead, HeadTailProperties, LenProperties
  <2>2. \A i \in 1..Len(q) : i = 1 \/ (i - 1 \in 1..Len(Tail(q)) /\ Tail(q)[i - 1] = q[i])
    BY <2>1
  <2> QED BY <2>1, <2>2 DEF In
<1> QED BY <1>1, <1>2
-----------------------------------------------------------------------------
\* the queues of a rank, and those of a follower and its leader's inbox
RankOrder(r) ==
  /\ Ordered(issued, applied[r]) /\ Ordered(issued, queued[r]) /\ Ordered(issued, inbox[r])
  /\ AllBefore(issued, applied[r], queued[r])
  /\ AllBefore(issued, applied[r], inbox[r])
  /\ AllBefore(issued, queued[r], inbox[r])

StageOrder(s, f) ==
  /\ AllBefore(issued, applied[f], inbox[s])
  /\ AllBefore(issued, queued[f], inbox[s])
  /\ AllBefore(issued, inbox[f], inbox[s])

\* the operation has reached the rank
Has(r, o) == In(o, applied[r]) \/ In(o, queued[r]) \/ In(o, inbox[r])

\* the operation holds the lock from its issue to its end, and has not
\* reached the stages it has still to be sent to
IssueOK(o) ==
  /\ pc[o] \in {"sending", "waiting"} => lock = o
  /\ lock = o => Len(issued) > 0 /\ issued[Len(issued)] = o
  /\ pc[o] \in {"idle", "locking"} => ~In(o, issued)
  /\ pc[o] = "locking" => targets[o] # {}
  /\ pc[o] = "sending" =>
       unsent[o] # {} /\ \A s \in unsent[o] : \A r \in {s} \cup Followers[s] : ~Has(r, o)

OrderInv ==
  /\ \A r \in Ranks : RankOrder(r)
  /\ \A s \in Stages : \A f \in Followers[s] : StageOrder(s, f)
  /\ \A r \in Ranks, o \in Ops : Has(r, o) => In(o, issued)
  /\ \A o \in Ops : IssueOK(o)

orderVars == <<issued, inbox, queued, applied>>

\* Steps that move no operation keep every order.
LEMMA OrderFrame ==
  ASSUME OrderInv, UNCHANGED orderVars
  PROVE  /\ \A r \in Ranks : RankOrder(r)'
         /\ \A s \in Stages : \A f \in Followers[s] : StageOrder(s, f)'
         /\ \A r \in Ranks, o \in Ops : Has(r, o)' => In(o, issued)'
         /\ \A r, o : Has(r, o)' <=> Has(r, o)
BY DEF OrderInv, orderVars, RankOrder, StageOrder, Has

\* A call of admin() names the stages it is for.
LEMMA OrderCall ==
  ASSUME TypeOK, OrderInv, NEW o \in Ops, NEW ts \in TargetSets, CallAdmin(o, ts)
  PROVE  OrderInv'
<1>1. UNCHANGED orderVars /\ UNCHANGED <<unsent, lock>>
  BY DEF CallAdmin, orderVars
<1>2. /\ pc[o] = "idle" /\ pc' = [pc EXCEPT ![o] = "locking"]
      /\ targets' = [targets EXCEPT ![o] = ts]
  BY DEF CallAdmin
<1>3. \A r, p : Has(r, p)' <=> Has(r, p)
  BY <1>1, OrderFrame
<1>4. ts # {}
  <2>1. ts \in (SUBSET Stages) \ {{}}
    BY TargetsAssumption
  <2> QED BY <2>1
<1>5. ASSUME NEW p \in Ops PROVE IssueOK(p)'
  <2>1. IssueOK(p)
    BY DEF OrderInv
  <2> QED BY <1>1, <1>2, <1>3, <1>4, <2>1 DEF IssueOK, orderVars, TypeOK
<1> QED BY <1>1, <1>5, OrderFrame DEF OrderInv

\* A call ends, which gives up the lock if it had it.
LEMMA OrderEnd ==
  ASSUME TypeOK, OrderInv, NEW o \in Ops, Raise(o) \/ CancelLocking(o) \/ Complete(o)
  PROVE  OrderInv'
<1>1. UNCHANGED orderVars /\ UNCHANGED <<unsent, targets>>
  BY DEF Raise, CancelLocking, Complete, Leave, orderVars
<1>2. /\ pc' = [pc EXCEPT ![o] = "done"]
      /\ \/ pc[o] = "locking" /\ lock' = lock
         \/ pc[o] \in {"sending", "waiting"} /\ lock' = NoOp
  BY DEF Raise, CancelLocking, Complete, Leave
<1>3. \A r, p : Has(r, p)' <=> Has(r, p)
  BY <1>1, OrderFrame
<1>4. ASSUME NEW p \in Ops PROVE IssueOK(p)'
  <2>1. IssueOK(p) /\ IssueOK(o)
    BY DEF OrderInv
  <2>2. pc'[p] = IF p = o THEN "done" ELSE pc[p]
    BY <1>2 DEF TypeOK
  <2>3. p # o /\ pc[p] \in {"sending", "waiting"} => lock' = p
    BY <1>2, <2>1 DEF IssueOK
  <2>4. lock' = p => lock = p
    BY <1>2, NoOpAssumption
  <2> QED BY <1>1, <1>3, <2>1, <2>2, <2>3, <2>4 DEF IssueOK, orderVars
<1> QED BY <1>1, <1>4, OrderFrame DEF OrderInv

\* The lock: an operation is issued that no rank has seen.
LEMMA OrderLock ==
  ASSUME TypeOK, OrderInv, NEW o \in Ops, Lock(o)
  PROVE  OrderInv'
<1>1. /\ pc[o] = "locking" /\ lock = NoOp /\ lock' = o
      /\ pc' = [pc EXCEPT ![o] = "sending"]
      /\ unsent' = [unsent EXCEPT ![o] = targets[o]]
      /\ issued' = Append(issued, o)
      /\ UNCHANGED <<targets, inbox, queued, applied>>
  BY DEF Lock
<1>2. issued \in Seq(Ops) /\ Len(issued) \in Nat
  BY LenProperties DEF TypeOK
<1>3. /\ Len(issued') = Len(issued) + 1 /\ issued'[Len(issued')] = o
      /\ \A p : In(p, issued') <=> In(p, issued) \/ p = o
  BY <1>1, <1>2, AppendProperties, InQueues
<1>4. \A a, b : Before(issued, a, b) => Before(issued', a, b)
  BY <1>1, <1>2, BeforeGrows
<1>5. \A r \in Ranks : RankOrder(r)'
  BY <1>1, <1>4 DEF OrderInv, RankOrder, Ordered, AllBefore
<1>6. \A s \in Stages : \A f \in Followers[s] : StageOrder(s, f)'
  BY <1>1, <1>4 DEF OrderInv, StageOrder, AllBefore
<1>7. \A r, p : Has(r, p)' <=> Has(r, p)
  BY <1>1 DEF Has
<1>8. \A r \in Ranks, p \in Ops : Has(r, p)' => In(p, issued)'
  BY <1>3, <1>7 DEF OrderInv
<1>9. ASSUME NEW p \in Ops PROVE IssueOK(p)'
  <2>1. IssueOK(p) /\ IssueOK(o)
    BY DEF OrderInv
  <2>2. CASE p = o
    <3>0. ~In(o, issued) /\ targets[o] \subseteq Stages
      BY <1>1, <2>1 DEF IssueOK, TypeOK
    <3>1. ASSUME NEW s \in targets[o], NEW r \in {s} \cup Followers[s] PROVE ~Has(r, o)
      <4>1. r \in Ranks
        BY <3>0 DEF Ranks, AllFollowers
      <4> QED BY <3>0, <4>1 DEF OrderInv
    <3> QED BY <1>1, <1>2, <1>3, <1>7, <2>1, <2>2, <3>1 DEF IssueOK, TypeOK
  <2>3. CASE p # o
    BY <1>1, <1>3, <1>7, <2>1, <2>3, NoOpAssumption DEF IssueOK, TypeOK
  <2> QED BY <2>2, <2>3
<1> QED BY <1>5, <1>6, <1>8, <1>9 DEF OrderInv

\* send_admin: the operation issued last reaches a stage that has not seen it.
LEMMA OrderSend ==
  ASSUME TypeOK, OrderInv, NEW o \in Ops, Send(o)
  PROVE  OrderInv'
<1>0. pc[o] = "sending" /\ unsent[o] # {} /\ unsent[o] \subseteq Stages /\ IssueOK(o)
  BY DEF Send, OrderInv, IssueOK, TypeOK
<1>1. PICK s \in unsent[o] : s = CHOOSE x \in unsent[o] : TRUE
  BY <1>0
<1>2. /\ unsent' = [unsent EXCEPT ![o] = @ \ {s}]
      /\ pc' = [pc EXCEPT ![o] = IF unsent[o] = {s} THEN "waiting" ELSE "sending"]
      /\ inbox' = [inbox EXCEPT ![s] = Append(@, o)]
      /\ UNCHANGED <<targets, lock, issued, queued, applied>>
  BY <1>1 DEF Send
<1>3. /\ s \in Stages /\ s \in Ranks /\ issued \in Seq(Ops)
      /\ \A r \in Ranks : applied[r] \in Seq(Ops) /\ queued[r] \in Seq(Ops) /\ inbox[r] \in Seq(Ops)
  BY <1>0 DEF Ranks, TypeOK
<1>4. /\ inbox'[s] = Append(inbox[s], o)
      /\ \A r \in Ranks : r # s => inbox'[r] = inbox[r]
  BY <1>2, <1>3 DEF TypeOK
<1>5. ASSUME NEW r \in {s} \cup Followers[s], NEW q \in Seq(Ops), \A a : In(a, q) => Has(r, a)
      PROVE  \A i \in 1..Len(q) : Before(issued, q[i], o)
  <2> SUFFICES ASSUME NEW i \in 1..Len(q) PROVE Before(issued, q[i], o)
    OBVIOUS
  <2>1. q[i] \in Ops /\ Has(r, q[i]) /\ r \in Ranks
    BY <1>3, <1>5, ElementOfSeq DEF In, Ranks, AllFollowers
  <2>2. In(q[i], issued)
    BY <2>1 DEF OrderInv
  <2>3. q[i] # o
    BY <1>0, <2>1 DEF IssueOK
  <2>4. issued[Len(issued)] = o
    BY <1>0 DEF IssueOK
  <2> QED BY <1>3, <2>2, <2>3, <2>4, BeforeLast
<1>6. ASSUME NEW r \in {s} \cup Followers[s]
      PROVE  /\ \A i \in 1..Len(applied[r]) : Before(issued, applied[r][i], o)
             /\ \A i \in 1..Len(queued[r]) : Before(issued, queued[r][i], o)
             /\ \A i \in 1..Len(inbox[r]) : Before(issued, inbox[r][i], o)
  <2>1. r \in Ranks
    BY <1>3 DEF Ranks, AllFollowers
  <2>2. \A i \in 1..Len(applied[r]) : Before(issued, applied[r][i], o)
    BY <1>3, <1>5, <2>1 DEF Has
  <2>3. \A i \in 1..Len(queued[r]) : Before(issued, queued[r][i], o)
    BY <1>3, <1>5, <2>1 DEF Has
  <2>4. \A i \in 1..Len(inbox[r]) : Before(issued, inbox[r][i], o)
    BY <1>3, <1>5, <2>1 DEF Has
  <2> QED BY <2>2, <2>3, <2>4
<1>7. ASSUME NEW r \in Ranks PROVE RankOrder(r)'
  <2>1. RankOrder(r)
    BY DEF OrderInv
  <2>2. CASE r # s
    BY <1>2, <1>4, <2>1, <2>2 DEF RankOrder
  <2>3. CASE r = s
    <3>1. Ordered(issued, Append(inbox[s], o))
      BY <1>3, <1>6, <2>1, <2>3, OrderedAppend DEF RankOrder
    <3>2. AllBefore(issued, applied[s], Append(inbox[s], o))
      BY <1>3, <1>6, <2>1, <2>3, BeforeAppend DEF RankOrder
    <3>3. AllBefore(issued, queued[s], Append(inbox[s], o))
      BY <1>3, <1>6, <2>1, <2>3, BeforeAppend DEF RankOrder
    <3> QED BY <1>2, <1>4, <2>1, <2>3, <3>1, <3>2, <3>3 DEF RankOrder
  <2> QED BY <2>2, <2>3
<1>8. ASSUME NEW t \in Stages, NEW f \in Followers[t] PROVE StageOrder(t, f)'
  <2>1. StageOrder(t, f) /\ f \in Ranks /\ t \in Ranks /\ f # s
    BY <1>3, FollowersAssumption DEF OrderInv, Ranks, AllFollowers
  <2>2. CASE t # s
    BY <1>2, <1>4, <2>1, <2>2 DEF StageOrder
  <2>3. CASE t = s
    <3>1. AllBefore(issued, applied[f], Append(inbox[s], o))
      BY <1>3, <1>6, <2>1, <2>3, BeforeAppend DEF StageOrder
    <3>2. AllBefore(issued, queued[f], Append(inbox[s], o))
      BY <1>3, <1>6, <2>1, <2>3, BeforeAppend DEF StageOrder
    <3>3. AllBefore(issued, inbox[f], Append(inbox[s], o))
      BY <1>3, <1>6, <2>1, <2>3, BeforeAppend DEF StageOrder
    <3> QED BY <1>2, <1>4, <2>1, <2>3, <3>1, <3>2, <3>3 DEF StageOrder
  <2> QED BY <2>2, <2>3
<1>9. \A r \in Ranks : \A p : Has(r, p)' => Has(r, p) \/ (r = s /\ p = o)
  <2>1. \A p : In(p, Append(inbox[s], o)) <=> In(p, inbox[s]) \/ p = o
    BY <1>3, InQueues
  <2> QED BY <1>2, <1>4, <2>1 DEF Has
<1>10. \A r \in Ranks, p \in Ops : Has(r, p)' => In(p, issued)'
  <2>1. In(o, issued)
    <3>1. Len(issued) \in Nat
      BY <1>3, LenProperties
    <3> QED BY <1>0, <3>1 DEF IssueOK, In
  <2> QED BY <1>2, <1>9, <2>1 DEF OrderInv
<1>11. ASSUME NEW p \in Ops PROVE IssueOK(p)'
  <2>1. IssueOK(p)
    BY DEF OrderInv
  <2>2. CASE p = o
    <3>1. ASSUME NEW t \in unsent[o] \ {s}, NEW r \in {t} \cup Followers[t] PROVE ~Has(r, o)'
      <4>1. r \in Ranks /\ r # s
        BY <1>0, <1>3, FollowersAssumption DEF Ranks, AllFollowers
      <4> QED BY <1>0, <1>9, <4>1 DEF IssueOK
    <3> QED BY <1>0, <1>2, <2>1, <2>2, <3>1 DEF IssueOK, TypeOK
  <2>3. CASE p # o
    <3>1. pc[p] # "sending" /\ pc[p] # "waiting"
      BY <1>0, <2>1, <2>3 DEF IssueOK
    <3> QED BY <1>2, <2>1, <2>3, <3>1 DEF IssueOK, TypeOK
  <2> QED BY <2>2, <2>3
<1> QED BY <1>7, <1>8, <1>10, <1>11 DEF OrderInv
\* _on_admin takes an operation: it moves to the rank's queue and, from a
\* leader, to the inbox of each follower.
LEMMA OrderTake ==
  ASSUME TypeOK, OrderInv, NEW r \in Ranks, TakeOp(r)
  PROVE  OrderInv'
<1>1. /\ \A q \in Ranks : applied[q] \in Seq(Ops) /\ queued[q] \in Seq(Ops) /\ inbox[q] \in Seq(Ops)
      /\ issued \in Seq(Ops) /\ inbox[r] # <<>>
  BY DEF TypeOK, TakeOp
<1>2. PICK o \in Ops : o = Head(inbox[r]) /\ o = inbox[r][1] /\ 1 \in 1..Len(inbox[r])
  BY <1>1, QueueHead
<1>3. /\ queued' = [queued EXCEPT ![r] = Append(@, o)]
      /\ inbox' = Fanned(r, o)
      /\ UNCHANGED <<pc, targets, lock, unsent, issued, applied>>
  BY <1>2 DEF TakeOp, coordVars
<1> DEFINE Passed(q) == r \in Stages /\ q \in Followers[r]
<1>4. /\ queued'[r] = Append(queued[r], o) /\ \A q \in Ranks : q # r => queued'[q] = queued[q]
      /\ inbox'[r] = Tail(inbox[r])
      /\ \A q \in Ranks : q # r /\ Passed(q) => inbox'[q] = Append(inbox[q], o)
      /\ \A q \in Ranks : q # r /\ ~Passed(q) => inbox'[q] = inbox[q]
  BY <1>3 DEF TypeOK, Fanned
<1>5. /\ \A q : Passed(q) => q # r /\ q \notin Stages
      /\ \A t \in Stages : \A f \in Followers[t] : f \notin Stages /\ (Passed(f) => t = r)
  BY FollowersAssumption
<1>6. /\ Tail(inbox[r]) \in Seq(Ops) /\ Append(queued[r], o) \in Seq(Ops)
      /\ \A i \in 1..Len(Tail(inbox[r])) : Before(issued, o, Tail(inbox[r])[i])
  <2>1. /\ Tail(inbox[r]) \in Seq(Ops)
        /\ \A i \in 1..Len(Tail(inbox[r])) :
             i + 1 \in 1..Len(inbox[r]) /\ Tail(inbox[r])[i] = inbox[r][i + 1]
    BY <1>1, QueueHead
  <2>2. Ordered(issued, inbox[r])
    BY DEF OrderInv, RankOrder
  <2>3. Append(queued[r], o) \in Seq(Ops)
    BY <1>1, QueueAppend
  <2>4. ASSUME NEW i \in 1..Len(Tail(inbox[r])) PROVE Before(issued, o, Tail(inbox[r])[i])
    <3>1. i + 1 \in 1..Len(inbox[r]) /\ 1 < i + 1 /\ Tail(inbox[r])[i] = inbox[r][i + 1]
      BY <2>1
    <3>2. Before(issued, inbox[r][1], inbox[r][i + 1])
      BY <1>2, <2>2, <3>1 DEF Ordered
    <3> QED BY <1>2, <3>1, <3>2
  <2> QED BY <2>1, <2>3, <2>4
<1>7. ASSUME NEW q \in Ranks PROVE RankOrder(q)'
  <2>1. RankOrder(q)
    BY DEF OrderInv
  <2>2. CASE q = r
    <3>1. /\ Ordered(issued, Append(queued[r], o)) /\ Ordered(issued, Tail(inbox[r]))
          /\ AllBefore(issued, Append(queued[r], o), Tail(inbox[r]))
      BY <1>1, <1>2, <2>1, <2>2, MoveHead DEF RankOrder
    <3>2. AllBefore(issued, applied[r], Tail(inbox[r]))
      BY <1>1, <2>1, <2>2, BeforeTail DEF RankOrder
    <3>3. \A i \in 1..Len(applied[r]) : Before(issued, applied[r][i], o)
      BY <1>2, <2>1, <2>2 DEF RankOrder, AllBefore
    <3>4. AllBefore(issued, applied[r], Append(queued[r], o))
      BY <1>1, <2>1, <2>2, <3>3, BeforeAppend DEF RankOrder
    <3> QED BY <1>3, <1>4, <2>1, <2>2, <3>1, <3>2, <3>4 DEF RankOrder
  <2>3. CASE q # r /\ ~Passed(q)
    BY <1>3, <1>4, <2>1, <2>3 DEF RankOrder
  <2>4. CASE q # r /\ Passed(q)
    <3>1. StageOrder(r, q)
      BY <2>4 DEF OrderInv
    <3>2. /\ \A i \in 1..Len(applied[q]) : Before(issued, applied[q][i], o)
          /\ \A i \in 1..Len(queued[q]) : Before(issued, queued[q][i], o)
          /\ \A i \in 1..Len(inbox[q]) : Before(issued, inbox[q][i], o)
      BY <1>2, <3>1 DEF StageOrder, AllBefore
    <3>3. Ordered(issued, Append(inbox[q], o))
      BY <1>1, <2>1, <3>2, OrderedAppend DEF RankOrder
    <3>4. AllBefore(issued, applied[q], Append(inbox[q], o))
      BY <1>1, <2>1, <3>2, BeforeAppend DEF RankOrder
    <3>5. AllBefore(issued, queued[q], Append(inbox[q], o))
      BY <1>1, <2>1, <3>2, BeforeAppend DEF RankOrder
    <3> QED BY <1>3, <1>4, <2>1, <2>4, <3>3, <3>4, <3>5 DEF RankOrder
  <2> QED BY <2>2, <2>3, <2>4
<1>8. ASSUME NEW t \in Stages, NEW f \in Followers[t] PROVE StageOrder(t, f)'
  <2>1. StageOrder(t, f) /\ f \in Ranks /\ t \in Ranks /\ f # t /\ ~Passed(t)
    BY <1>5 DEF OrderInv, Ranks, AllFollowers
  <2>2. CASE t = r
    <3>1. /\ AllBefore(issued, applied[f], Tail(inbox[r])) /\ AllBefore(issued, queued[f], Tail(inbox[r]))
          /\ AllBefore(issued, inbox[f], Tail(inbox[r]))
      BY <1>1, <2>1, <2>2, BeforeTail DEF StageOrder
    <3>2. AllBefore(issued, Append(inbox[f], o), Tail(inbox[r]))
      BY <1>1, <1>6, <2>1, <3>1, AppendBefore
    <3> QED BY <1>3, <1>4, <2>1, <2>2, <3>1, <3>2 DEF StageOrder
  <2>3. CASE f = r
    <3>1. \A i \in 1..Len(inbox[t]) : Before(issued, o, inbox[t][i])
      BY <1>2, <2>1, <2>3 DEF StageOrder, AllBefore
    <3>2. AllBefore(issued, Append(queued[r], o), inbox[t])
      BY <1>1, <2>1, <2>3, <3>1, AppendBefore DEF StageOrder
    <3>3. AllBefore(issued, Tail(inbox[r]), inbox[t])
      BY <1>1, <2>1, <2>3, BeforeTail DEF StageOrder
    <3> QED BY <1>3, <1>4, <2>1, <2>3, <3>2, <3>3 DEF StageOrder
  <2>4. CASE t # r /\ f # r
    <3>1. ~Passed(f)
      BY <1>5, <2>4
    <3> QED BY <1>3, <1>4, <2>1, <2>4, <3>1 DEF StageOrder
  <2> QED BY <2>2, <2>3, <2>4
<1>9. Has(r, o) /\ \A q \in Ranks : \A p : Has(q, p)' => Has(q, p) \/ (Passed(q) /\ p = o)
  <2>1. /\ \A p : In(p, inbox[r]) <=> In(p, Tail(inbox[r])) \/ p = o
        /\ \A p : In(p, Append(queued[r], o)) <=> In(p, queued[r]) \/ p = o
        /\ \A q \in Ranks : \A p : In(p, Append(inbox[q], o)) <=> In(p, inbox[q]) \/ p = o
    BY <1>1, <1>2, InQueues
  <2>2. \A p : Has(r, p)' => Has(r, p)
    BY <1>3, <1>4, <2>1 DEF Has
  <2>3. \A q \in Ranks : q # r => \A p : Has(q, p)' => Has(q, p) \/ (Passed(q) /\ p = o)
    BY <1>3, <1>4, <2>1 DEF Has
  <2>4. Has(r, o)
    BY <2>1 DEF Has
  <2> QED BY <2>2, <2>3, <2>4
<1>10. \A q \in Ranks, p \in Ops : Has(q, p)' => In(p, issued)'
  BY <1>3, <1>9 DEF OrderInv
<1>11. ASSUME NEW p \in Ops PROVE IssueOK(p)'
  <2>1. IssueOK(p) /\ unsent[p] \subseteq Stages
    BY DEF OrderInv, TypeOK
  <2>2. ASSUME pc[p] = "sending", NEW t \in unsent[p], NEW q \in {t} \cup Followers[t]
        PROVE  ~Has(q, p)'
    <3>1. q \in Ranks /\ t \in Stages /\ ~Has(q, p) /\ ~Has(t, p)
      BY <2>1, <2>2 DEF Ranks, AllFollowers, IssueOK
    <3>2. Passed(q) => t = r
      BY <1>5, <3>1
    <3> QED BY <1>9, <3>1, <3>2
  <2> QED BY <1>3, <2>1, <2>2 DEF IssueOK
<1> QED BY <1>7, <1>8, <1>10, <1>11 DEF OrderInv

\* The scheduler thread runs the operation at the head of its queue; one that
\* fails leaves the queues.
LEMMA OrderRun ==
  ASSUME TypeOK, OrderInv, NEW r \in Ranks, NEW ok \in BOOLEAN, RunAdmin(r, ok)
  PROVE  OrderInv'
<1>1. /\ \A q \in Ranks : applied[q] \in Seq(Ops) /\ queued[q] \in Seq(Ops) /\ inbox[q] \in Seq(Ops)
      /\ queued[r] # <<>>
  BY DEF TypeOK, RunAdmin
<1>2. PICK o \in Ops : o = Head(queued[r]) /\ o = queued[r][1] /\ 1 \in 1..Len(queued[r])
  BY <1>1, QueueHead
<1>3. /\ queued' = [queued EXCEPT ![r] = Tail(@)]
      /\ applied' = IF ok THEN [applied EXCEPT ![r] = Append(@, o)] ELSE applied
      /\ UNCHANGED <<pc, targets, lock, unsent, issued, inbox>>
  BY <1>2 DEF RunAdmin, coordVars
<1>4. /\ queued'[r] = Tail(queued[r])
      /\ applied'[r] = IF ok THEN Append(applied[r], o) ELSE applied[r]
      /\ \A q \in Ranks : q # r => queued'[q] = queued[q] /\ applied'[q] = applied[q]
  BY <1>3 DEF TypeOK
<1>5. ASSUME NEW q \in Ranks, AllBefore(issued, queued[r], inbox[q]),
             AllBefore(issued, applied[r], inbox[q])
      PROVE  /\ AllBefore(issued, Tail(queued[r]), inbox[q])
             /\ AllBefore(issued, Append(applied[r], o), inbox[q])
  <2>1. \A i \in 1..Len(inbox[q]) : Before(issued, o, inbox[q][i])
    BY <1>2, <1>5 DEF AllBefore
  <2>2. AllBefore(issued, Append(applied[r], o), inbox[q])
    BY <1>1, <1>5, <2>1, AppendBefore
  <2>3. AllBefore(issued, Tail(queued[r]), inbox[q])
    BY <1>1, <1>5, BeforeTail
  <2> QED BY <2>2, <2>3
<1>6. ASSUME NEW q \in Ranks PROVE RankOrder(q)'
  <2>1. RankOrder(q)
    BY DEF OrderInv
  <2>2. CASE q = r
    <3>1. /\ Ordered(issued, Append(applied[r], o)) /\ Ordered(issued, Tail(queued[r]))
          /\ AllBefore(issued, Append(applied[r], o), Tail(queued[r]))
      BY <1>1, <1>2, <2>1, <2>2, MoveHead DEF RankOrder
    <3>2. AllBefore(issued, applied[r], Tail(queued[r]))
      BY <1>1, <2>1, <2>2, BeforeTail DEF RankOrder
    <3>3. /\ AllBefore(issued, Tail(queued[r]), inbox[r])
          /\ AllBefore(issued, Append(applied[r], o), inbox[r])
      BY <1>5, <2>1, <2>2 DEF RankOrder
    <3> QED BY <1>3, <1>4, <2>1, <2>2, <3>1, <3>2, <3>3 DEF RankOrder
  <2>3. CASE q # r
    BY <1>3, <1>4, <2>1, <2>3 DEF RankOrder
  <2> QED BY <2>2, <2>3
<1>7. ASSUME NEW t \in Stages, NEW f \in Followers[t] PROVE StageOrder(t, f)'
  <2>1. StageOrder(t, f) /\ f \in Ranks /\ t \in Ranks
    BY DEF OrderInv, Ranks, AllFollowers
  <2>2. CASE f = r
    <3>1. /\ AllBefore(issued, Tail(queued[r]), inbox[t])
          /\ AllBefore(issued, Append(applied[r], o), inbox[t])
      BY <1>5, <2>1, <2>2 DEF StageOrder
    <3> QED BY <1>3, <1>4, <2>1, <2>2, <3>1 DEF StageOrder
  <2>3. CASE f # r
    BY <1>3, <1>4, <2>1, <2>3 DEF StageOrder
  <2> QED BY <2>2, <2>3
<1>8. \A q \in Ranks : \A p : Has(q, p)' => Has(q, p)
  <2>1. /\ \A p : In(p, queued[r]) <=> In(p, Tail(queued[r])) \/ p = o
        /\ \A p : In(p, Append(applied[r], o)) <=> In(p, applied[r]) \/ p = o
    BY <1>1, <1>2, InQueues
  <2>2. \A p : Has(r, p)' => Has(r, p)
    BY <1>3, <1>4, <2>1 DEF Has
  <2>3. \A q \in Ranks : q # r => \A p : Has(q, p)' => Has(q, p)
    BY <1>3, <1>4 DEF Has
  <2> QED BY <2>2, <2>3
<1>9. \A q \in Ranks, p \in Ops : Has(q, p)' => In(p, issued)'
  BY <1>3, <1>8 DEF OrderInv
<1>10. ASSUME NEW p \in Ops PROVE IssueOK(p)'
  <2>1. IssueOK(p) /\ unsent[p] \subseteq Stages
    BY DEF OrderInv, TypeOK
  <2>2. ASSUME pc[p] = "sending", NEW t \in unsent[p], NEW q \in {t} \cup Followers[t]
        PROVE  ~Has(q, p)'
    <3>1. q \in Ranks /\ ~Has(q, p)
      BY <2>1, <2>2 DEF Ranks, AllFollowers, IssueOK
    <3> QED BY <1>8, <3>1
  <2> QED BY <1>3, <2>1, <2>2 DEF IssueOK
<1> QED BY <1>6, <1>7, <1>9, <1>10 DEF OrderInv

\* Steps that only answer or collect answers, and stuttering.
LEMMA OrderQuiet ==
  ASSUME OrderInv, UNCHANGED <<pc, targets, lock, unsent, issued, inbox, queued, applied>>
  PROVE  OrderInv'
<1>1. UNCHANGED orderVars
  BY DEF orderVars
<1>2. \A o \in Ops : IssueOK(o)'
  BY <1>1, OrderFrame DEF OrderInv, IssueOK
<1> QED BY <1>1, <1>2, OrderFrame DEF OrderInv

\* Every step keeps the queues in the order of issue.
LEMMA OrderStep ==
  ASSUME TypeOK, OrderInv, [Next]_vars
  PROVE  OrderInv'
<1>1. CASE \E o \in Ops, ts \in TargetSets : CallAdmin(o, ts)
  BY <1>1, OrderCall
<1>2. CASE \E o \in Ops : Raise(o) \/ CancelLocking(o) \/ Complete(o)
  BY <1>2, OrderEnd
<1>3. CASE \E o \in Ops : Lock(o) \/ Send(o)
  BY <1>3, OrderLock, OrderSend
<1>4. CASE RankStep
  BY <1>4, OrderTake, OrderRun DEF RankStep
<1>5. CASE HandleAdminResult
  BY <1>5, OrderQuiet DEF HandleAdminResult
<1>6. CASE StageStep
  <2>1. UNCHANGED <<pc, targets, lock, unsent, issued, inbox, queued, applied>>
    BY <1>6 DEF StageStep, LeaderAnswers, Collect, FollowerAnswers, coordVars
  <2> QED BY <2>1, OrderQuiet
<1>7. CASE \E r \in Ranks : HandlerTimesOut(r)
  <2>1. UNCHANGED <<pc, targets, lock, unsent, issued, inbox, queued, applied>>
    BY <1>7 DEF HandlerTimesOut, coordVars
  <2> QED BY <2>1, OrderQuiet
<1>8. CASE UNCHANGED vars
  BY <1>8, OrderQuiet DEF vars, coordVars
<1> QED BY <1>1, <1>2, <1>3, <1>4, <1>5, <1>6, <1>7, <1>8 DEF Next, Coordinate

\* Initially every queue is empty.
LEMMA OrderInit == Init => OrderInv
<1> SUFFICES ASSUME Init PROVE OrderInv
  OBVIOUS
<1>1. Len(<<>>) = 0
  BY EmptySeq
<1>2. /\ issued = <<>> /\ lock = NoOp /\ \A o \in Ops : pc[o] = "idle"
      /\ \A r \in Ranks : inbox[r] = <<>> /\ queued[r] = <<>> /\ applied[r] = <<>>
  BY DEF Init
<1>3. \A r \in Ranks : RankOrder(r)
  BY <1>1, <1>2 DEF RankOrder, Ordered, AllBefore
<1>4. \A s \in Stages : \A f \in Followers[s] : StageOrder(s, f)
  BY <1>1, <1>2 DEF StageOrder, AllBefore, Ranks, AllFollowers
<1>5. \A r \in Ranks, o \in Ops : Has(r, o) => In(o, issued)
  BY <1>1, <1>2 DEF Has, In
<1>6. \A o \in Ops : IssueOK(o)
  BY <1>1, <1>2, NoOpAssumption DEF IssueOK, In
<1> QED BY <1>3, <1>4, <1>5, <1>6 DEF OrderInv

\* _on_admin, the followers' queues and _process_admin_requests: every rank
\* applies operations in the order in which admin() issued them, whatever was
\* given up at any level and ran late.
THEOREM OperationsInOrder == Spec => []AppliedInOrder
<1>1. AdminInv => TypeOK
  BY DEF AdminInv
<1>2. OrderInv => AppliedInOrder
  BY DEF OrderInv, RankOrder, Ordered, Before, AppliedInOrder
<1>3. TypeOK /\ OrderInv /\ [Next]_vars => OrderInv'
  BY OrderStep
<1> QED BY <1>1, <1>2, <1>3, OrderInit, AdminInvariant, PTL DEF Spec
=============================================================================
