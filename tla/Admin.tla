-------------------------------- MODULE Admin --------------------------------
(***************************************************************************)
(* Administrative operations (pause, continue, weight updates): the        *)
(* coordinator's admin() and its table of pending operations, the stages'  *)
(* _on_admin, the tensor-parallel leader's fan-out to its followers and    *)
(* the collection of their answers, and the schedulers' admin queue.       *)
(*                                                                         *)
(* Every wait has a timeout of its own, so an operation that one level has *)
(* given up is still under way at the levels below it.  A stage is its     *)
(* leader rank.  What an operation does is left open: a rank applies it or *)
(* fails.  Stages whose scheduler has no admin() answer at once and change *)
(* nothing; they are left out.                                             *)
(***************************************************************************)
EXTENDS Naturals, Sequences, FiniteSets, SequencesExt

CONSTANTS
  Ops,         \* calls of admin(), each with an op_id of its own
  NoOp,
  Stages,
  Followers,   \* Followers[s]: the follower ranks of stage s
  TargetSets,  \* the stages arguments of the calls
  MaxFaults    \* bound of the instance on handlers that fail or time out

ASSUME NoOpAssumption == NoOp \notin Ops
ASSUME TargetsAssumption == TargetSets \subseteq (SUBSET Stages) \ {{}} /\ MaxFaults \in Nat
ASSUME FollowersAssumption ==
  /\ DOMAIN Followers = Stages
  /\ \A s, t \in Stages : /\ Followers[s] \cap Stages = {}
                          /\ s # t => Followers[s] \cap Followers[t] = {}

AllFollowers == UNION {Followers[s] : s \in Stages}
Ranks == Stages \cup AllFollowers

VARIABLES
  pc,        \* admin(): "idle", "locking", "sending", "waiting", "done"
  targets,   \* target_stages
  lock,      \* owner of _admin_lock
  unsent,    \* targets the message has not been sent to
  results,   \* pending.results: [stage, ok] records
  answer,    \* what the caller got: "none", "ok", "failed", "raised"
  events,    \* admin results on their way to the coordinator
  inbox,     \* control messages of a stage, _follower_work_queues
  busy,      \* per rank: the operation that _on_admin is in
  queued,    \* per rank: OmniScheduler._admin_queue
  reply,     \* per rank: what handler() returned, "none" before
  answers,   \* _follower_admin_result_queues
  got,       \* per follower: the answer the leader's get() returned
  faults,    \* handlers that have failed or timed out
  issued,    \* history: order in which operations got the lock
  applied    \* history: per rank, the operations it applied

coordVars == <<pc, targets, lock, unsent, results, answer, issued>>
vars == <<coordVars, events, inbox, busy, queued, reply, answers, got, faults, applied>>

Answers == [op : Ops, ok : BOOLEAN]
Nothing == [op |-> NoOp, ok |-> FALSE]

TypeOK ==
  /\ pc \in [Ops -> {"idle", "locking", "sending", "waiting", "done"}]
  /\ targets \in [Ops -> SUBSET Stages] /\ unsent \in [Ops -> SUBSET Stages]
  /\ lock \in Ops \cup {NoOp}
  /\ results \in [Ops -> SUBSET [stage : Stages, ok : BOOLEAN]]
  /\ answer \in [Ops -> {"none", "ok", "failed", "raised"}]
  /\ events \in Seq([op : Ops, stage : Stages, ok : BOOLEAN])
  /\ inbox \in [Ranks -> Seq(Ops)] /\ queued \in [Ranks -> Seq(Ops)]
  /\ busy \in [Ranks -> Ops \cup {NoOp}]
  /\ reply \in [Ranks -> {"none", "ok", "fail"}]
  /\ answers \in [AllFollowers -> Seq(Answers)]
  /\ got \in [AllFollowers -> Answers \cup {Nothing}]
  /\ faults \in 0..MaxFaults /\ issued \in Seq(Ops) /\ applied \in [Ranks -> Seq(Ops)]

Init ==
  /\ pc = [o \in Ops |-> "idle"] /\ answer = [o \in Ops |-> "none"]
  /\ targets = [o \in Ops |-> {}] /\ unsent = [o \in Ops |-> {}]
  /\ results = [o \in Ops |-> {}] /\ lock = NoOp
  /\ events = <<>> /\ issued = <<>>
  /\ inbox = [r \in Ranks |-> <<>>] /\ queued = [r \in Ranks |-> <<>>]
  /\ busy = [r \in Ranks |-> NoOp] /\ reply = [r \in Ranks |-> "none"]
  /\ answers = [f \in AllFollowers |-> <<>>] /\ got = [f \in AllFollowers |-> Nothing]
  /\ faults = 0 /\ applied = [r \in Ranks |-> <<>>]
-----------------------------------------------------------------------------
(* The coordinator.                                                        *)

\* admin() up to its lock
CallAdmin(o, ts) ==
  /\ pc[o] = "idle"
  /\ pc' = [pc EXCEPT ![o] = "locking"]
  /\ targets' = [targets EXCEPT ![o] = ts]
  /\ UNCHANGED <<lock, unsent, results, answer, issued, events, inbox, busy, queued,
                 reply, answers, got, faults, applied>>

\* the lock, and the operation enters _admin_ops
Lock(o) ==
  /\ pc[o] = "locking" /\ lock = NoOp
  /\ pc' = [pc EXCEPT ![o] = "sending"] /\ lock' = o
  /\ unsent' = [unsent EXCEPT ![o] = targets[o]]
  /\ issued' = Append(issued, o)
  /\ UNCHANGED <<targets, results, answer, events, inbox, busy, queued, reply, answers,
                 got, faults, applied>>

\* send_admin to the next target
Send(o) ==
  LET s == CHOOSE x \in unsent[o] : TRUE IN
  /\ pc[o] = "sending"
  /\ unsent' = [unsent EXCEPT ![o] = @ \ {s}]
  /\ pc' = [pc EXCEPT ![o] = IF unsent[o] = {s} THEN "waiting" ELSE "sending"]
  /\ inbox' = [inbox EXCEPT ![s] = Append(@, o)]
  /\ UNCHANGED <<targets, lock, results, answer, issued, events, busy, queued, reply,
                 answers, got, faults, applied>>

\* the finally block and the lock's exit
Leave(o, a) ==
  /\ pc' = [pc EXCEPT ![o] = "done"] /\ answer' = [answer EXCEPT ![o] = a]
  /\ lock' = NoOp
  /\ UNCHANGED <<targets, unsent, results, issued>>

\* a send fails, the wait times out, or the caller is cancelled
Raise(o) ==
  /\ pc[o] \in {"sending", "waiting"} /\ Leave(o, "raised")
  /\ UNCHANGED <<events, inbox, busy, queued, reply, answers, got, faults, applied>>

\* cancelled while it waits for the lock
CancelLocking(o) ==
  /\ pc[o] = "locking" /\ pc' = [pc EXCEPT ![o] = "done"]
  /\ answer' = [answer EXCEPT ![o] = "raised"]
  /\ UNCHANGED <<targets, lock, unsent, results, issued, events, inbox, busy, queued,
                 reply, answers, got, faults, applied>>

\* pending.results with the result; only a pending operation takes one
Credit(e) ==
  IF e.op = lock THEN [results EXCEPT ![e.op] = @ \cup {[stage |-> e.stage, ok |-> e.ok]}]
  ELSE results

\* _handle_admin_result
HandleAdminResult ==
  /\ events # <<>> /\ events' = Tail(events)
  /\ results' = (IF lock = NoOp THEN results ELSE Credit(Head(events)))
  /\ UNCHANGED <<pc, targets, lock, unsent, answer, issued, inbox, busy, queued, reply,
                 answers, got, faults, applied>>

\* the future is set once every target has answered; _aggregate_admin_results
Complete(o) ==
  /\ pc[o] = "waiting" /\ targets[o] \subseteq {x.stage : x \in results[o]}
  /\ Leave(o, IF \A x \in results[o] : x.ok THEN "ok" ELSE "failed")
  /\ UNCHANGED <<events, inbox, busy, queued, reply, answers, got, faults, applied>>
-----------------------------------------------------------------------------
(* The ranks.                                                              *)

\* inboxes after Stage.run took a message; a leader passes it on first
Fanned(s, o) ==
  [r \in Ranks |-> IF r = s THEN Tail(inbox[r])
                   ELSE IF s \in Stages /\ r \in Followers[s] THEN Append(inbox[r], o)
                   ELSE inbox[r]]

\* mutant: _on_admin runs as a task of its own, so two may reach the queue in
\* either order
TakeAtOnce(r) ==
  /\ inbox[r] # <<>>
  /\ busy' = [busy EXCEPT ![r] = Head(inbox[r])]
  /\ reply' = [reply EXCEPT ![r] = "none"]
  /\ \/ queued' = [queued EXCEPT ![r] = <<Head(inbox[r])>> \o @]
     \/ queued' = [queued EXCEPT ![r] = Append(@, Head(inbox[r]))]
  /\ inbox' = Fanned(r, Head(inbox[r]))
  /\ UNCHANGED <<coordVars, events, answers, got, faults, applied>>

\* _on_admin up to handler(), which enqueues for the scheduler thread
TakeOp(r) ==
  /\ busy[r] = NoOp /\ inbox[r] # <<>>
  /\ busy' = [busy EXCEPT ![r] = Head(inbox[r])]
  /\ queued' = [queued EXCEPT ![r] = Append(@, Head(inbox[r]))]
  /\ inbox' = Fanned(r, Head(inbox[r]))
  /\ UNCHANGED <<coordVars, events, reply, answers, got, faults, applied>>

\* _process_admin_requests; a response nobody waits for any more is dropped
RunAdmin(r, ok) ==
  LET o == Head(queued[r]) IN
  /\ queued[r] # <<>>
  /\ ok \/ faults < MaxFaults
  /\ faults' = IF ok THEN faults ELSE faults + 1
  /\ queued' = [queued EXCEPT ![r] = Tail(@)]
  /\ applied' = IF ok THEN [applied EXCEPT ![r] = Append(@, o)] ELSE applied
  /\ reply' = IF busy[r] = o /\ reply[r] = "none"
              THEN [reply EXCEPT ![r] = IF ok THEN "ok" ELSE "fail"] ELSE reply
  /\ UNCHANGED <<coordVars, events, inbox, busy, answers, got>>

\* _enqueue_admin gives up; the operation stays queued
HandlerTimesOut(r) ==
  /\ busy[r] # NoOp /\ reply[r] = "none" /\ faults < MaxFaults /\ faults' = faults + 1
  /\ reply' = [reply EXCEPT ![r] = "fail"]
  /\ UNCHANGED <<coordVars, events, inbox, busy, queued, answers, got, applied>>

Idle(r) ==
  busy' = [busy EXCEPT ![r] = NoOp] /\ reply' = [reply EXCEPT ![r] = "none"]

FollowerAnswers(f) ==
  /\ f \in AllFollowers /\ reply[f] # "none"
  /\ answers' = [answers EXCEPT ![f] = Append(@, [op |-> busy[f], ok |-> reply[f] = "ok"])]
  /\ Idle(f)
  /\ UNCHANGED <<coordVars, events, inbox, queued, got, faults, applied>>

\* a get() of collect_admin_results returns
Collect(s, f) ==
  /\ f \in Followers[s] /\ reply[s] # "none"
  /\ got[f] = Nothing /\ answers[f] # <<>>
  /\ got' = [got EXCEPT ![f] = Head(answers[f])]
  /\ answers' = [answers EXCEPT ![f] = Tail(@)]
  /\ UNCHANGED <<coordVars, events, inbox, busy, queued, reply, faults, applied>>

\* mutant: the op_id of a follower's answer is not compared
RanksAgreeUnchecked(s) == reply[s] = "ok" /\ \A f \in Followers[s] : got[f].ok

\* every rank succeeded, and the followers answered this operation
RanksAgree(s) ==
  reply[s] = "ok" /\ \A f \in Followers[s] : got[f].ok /\ got[f].op = busy[s]

\* the leader's answer: every follower has answered, or the collection timed
\* out, which is a failure and loses the answers already taken
LeaderAnswers(s) ==
  /\ reply[s] # "none"
  /\ events' = Append(events, [op |-> busy[s], stage |-> s, ok |-> RanksAgree(s)])
  /\ got' = [f \in AllFollowers |-> IF f \in Followers[s] THEN Nothing ELSE got[f]]
  /\ Idle(s)
  /\ UNCHANGED <<coordVars, inbox, queued, answers, faults, applied>>
-----------------------------------------------------------------------------
Coordinate == \E o \in Ops : Lock(o) \/ Send(o) \/ Complete(o)

RankStep ==
  \E r \in Ranks : TakeOp(r) \/ \E ok \in BOOLEAN : RunAdmin(r, ok)

StageStep ==
  \/ \E s \in Stages : LeaderAnswers(s) \/ \E f \in Followers[s] : Collect(s, f)
  \/ \E f \in AllFollowers : FollowerAnswers(f)

Next ==
  \/ \E o \in Ops, ts \in TargetSets : CallAdmin(o, ts)
  \/ Coordinate \/ HandleAdminResult \/ RankStep \/ StageStep
  \/ \E o \in Ops : Raise(o) \/ CancelLocking(o)
  \/ \E r \in Ranks : HandlerTimesOut(r)

Spec == Init /\ [][Next]_vars
-----------------------------------------------------------------------------
(* Properties.                                                             *)

\* An operation reported as successful was applied by every rank of every
\* target stage, whatever answers of operations given up earlier were still
\* on their way.
SuccessMeansApplied ==
  \A o \in Ops :
    answer[o] = "ok" =>
      \A s \in targets[o] : \A r \in {s} \cup Followers[s] : o \in Range(applied[r])

\* All ranks apply operations in the order in which they were issued, also
\* those that were given up and run late: a late weight update never
\* overwrites a newer one.
AppliedInOrder ==
  \A r \in Ranks : \A i, j \in 1..Len(applied[r]) :
    i < j => \E k, l \in 1..Len(issued) :
               k < l /\ issued[k] = applied[r][i] /\ issued[l] = applied[r][j]
=============================================================================
