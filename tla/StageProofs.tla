----------------------------- MODULE StageProofs -----------------------------
(***************************************************************************)
(* Stage, for any number of requests, upstream stages and chunks: an       *)
(* aborted request stays out of the stage's tables, nothing is taken from  *)
(* the outbox for a request whose failure has been reported, every         *)
(* transfer through a relay is acknowledged, a fan-in is dispatched once,  *)
(* and streams reach the scheduler in order.                               *)
(***************************************************************************)
EXTENDS Stage, SequenceTheorems, FiniteSetTheorems, TLAPS

\* The two facts about the tables that the steps preserve together.
QuietInv == StateTypeOK /\ AbortQuiesces

\* what is being reported is still being reported, other than of r
ReportsStayBut(r) ==
  /\ Alive' => Alive
  /\ \A a \in Requests \ {r} : Reporting(a) => Reporting(a)'

ReportsStay == (Alive' => Alive) /\ \A a \in Requests : Reporting(a) => Reporting(a)'

\* Clearing a request keeps the tables quiet, aborted or not (_on_abort,
\* _route_result, the end of _send_failure).
LEMMA QuietClear ==
  ASSUME QuietInv, NEW r \in Requests, Clear(r), ReportsStayBut(r),
         aborted' \subseteq aborted \cup {r}, purged' = purged, reporting' \subseteq reporting
  PROVE  QuietInv'
<1>1. StateTypeOK'
  BY DEF QuietInv, StateTypeOK, Clear
<1>2. ASSUME Alive', NEW a \in aborted'
      PROVE  Reporting(a)' \/ (a \notin active' \cup open' /\ pending'[a] = {})
  <2>1. CASE a = r
    BY <2>1 DEF QuietInv, StateTypeOK, Clear
  <2>2. CASE a # r
    BY <1>2, <2>2 DEF QuietInv, StateTypeOK, AbortQuiesces, Clear, ReportsStayBut
  <2> QED BY <2>1, <2>2
<1> QED BY <1>1, <1>2 DEF QuietInv, AbortQuiesces

\* A request that is failed here is being reported (_send_failure).
LEMMA QuietFail ==
  ASSUME QuietInv, NEW r \in Requests, SendFailure(r), Reporting(r)', ReportsStay,
         reporting' \in SUBSET (Requests \X Upstream)
  PROVE  QuietInv'
BY DEF QuietInv, StateTypeOK, AbortQuiesces, SendFailure, RecordAborted, ReportsStay

\* Steps that leave the tables alone.
LEMMA QuietFrame ==
  ASSUME QuietInv, UNCHANGED <<aborted, active, open, pending, purged>>, ReportsStay,
         reporting' \subseteq reporting
  PROVE  QuietInv'
BY DEF QuietInv, StateTypeOK, AbortQuiesces, ReportsStay

\* While the reports of handlers, of the drain and of the crash handler stay.
LEMMA SameReports ==
  ASSUME reporting \subseteq reporting', routing \subseteq routing', failing \subseteq failing',
         Alive' => Alive
  PROVE  ReportsStay
BY DEF ReportsStay, Reporting

\* A payload is taken (_receive_payload_from_stage).
LEMMA QuietPayload ==
  ASSUME QuietInv, NEW r \in Requests, NEW s \in Upstream, TakePayload(r, s), Alive,
         UNCHANGED <<routing, failing>>
  PROVE  QuietInv'
<1>0. UNCHANGED reporting /\ ReportsStay
  <2>1. UNCHANGED reporting
    BY DEF TakePayload, AcceptPayload, Dropped, stateVars
  <2> QED BY <2>1, SameReports
<1>1. CASE r \in aborted
  BY <1>0, <1>1, QuietFrame DEF TakePayload, Dropped, stateVars
<1>2. CASE r \notin aborted
  <2>1. AcceptPayload(r, s)
    BY <1>2 DEF TakePayload
  <2>2. /\ aborted' = aborted /\ purged' = purged
        /\ active' = active \cup {r} /\ open' = open \cup {r}
    BY <2>1 DEF AcceptPayload, MarkActive
  <2>3. \E x \in SUBSET Upstream : pending' = [pending EXCEPT ![r] = x]
    <3>1. pending[r] \cup {s} \in SUBSET Upstream
      BY DEF QuietInv, StateTypeOK
    <3>2. \/ pending' = [pending EXCEPT ![r] = {}]
          \/ pending' = [pending EXCEPT ![r] = pending[r] \cup {s}]
      BY <2>1 DEF AcceptPayload
    <3> QED BY <3>1, <3>2
  <2> QED BY <1>0, <1>2, <2>2, <2>3 DEF QuietInv, StateTypeOK, AbortQuiesces, ReportsStay
<1> QED BY <1>1, <1>2

\* A handler fails the request (_queue_stream_error and its like).
LEMMA QuietHandler ==
  ASSUME QuietInv, NEW r \in Requests, NEW s \in Upstream, HandlerFails(r, s), Alive,
         UNCHANGED <<routing, failing>>
  PROVE  QuietInv'
<1>1. SendFailure(r) /\ reporting' = reporting \cup {<<r, s>>}
  BY DEF HandlerFails
<1>2. Reporting(r)'
  BY <1>1 DEF Reporting
<1>3. ReportsStay
  BY <1>1, SameReports
<1>4. reporting' \in SUBSET (Requests \X Upstream)
  BY <1>1 DEF QuietInv, StateTypeOK
<1> QED BY <1>1, <1>2, <1>3, <1>4, QuietFail

\* A message is dropped.
LEMMA QuietDropped ==
  ASSUME QuietInv, Dropped, Alive, UNCHANGED <<routing, failing>>
  PROVE  QuietInv'
BY SameReports, QuietFrame DEF Dropped, stateVars

\* A chunk or a signal is taken (_route_stream_item_or_fail,
\* _receive_stream_signal).
LEMMA QuietItem ==
  ASSUME QuietInv, NEW r \in Requests, NEW s \in Upstream, NEW item,
         TakeItem(r, s, item), Alive, UNCHANGED <<routing, failing>>
  PROVE  QuietInv'
<1>1. CASE r \in aborted
  BY <1>1, QuietDropped DEF TakeItem
<1>2. CASE r \notin aborted /\ (r \in open \/ PrePayload)
  <2>1. ReportsStay
    BY <1>2, SameReports DEF TakeItem
  <2> QED BY <1>2, <2>1
          DEF TakeItem, MarkActive, QuietInv, StateTypeOK, AbortQuiesces, ReportsStay
<1>3. CASE r \notin aborted /\ ~(r \in open \/ PrePayload)
  BY <1>3, QuietHandler DEF TakeItem, FailStream
<1> QED BY <1>1, <1>2, <1>3

\* Data could not be read: the request is failed, or was aborted already
\* (_on_data_ready, _queue_stream_error).
LEMMA QuietFailure ==
  ASSUME QuietInv, NEW r \in Requests, NEW s \in Upstream, NEW k, TakeFailure(r, s, k), Alive,
         UNCHANGED <<routing, failing>>
  PROVE  QuietInv'
<1>1. CASE k = "payload"
  BY <1>1, QuietHandler DEF TakeFailure
<1>2. CASE k # "payload" /\ r \in aborted
  BY <1>2, QuietDropped DEF TakeFailure
<1>3. CASE k # "payload" /\ r \notin aborted
  BY <1>3, QuietHandler DEF TakeFailure, FailStream
<1> QED BY <1>1, <1>2, <1>3

\* The steps of the receive tasks and of local calls.
LEMMA QuietReceive ==
  ASSUME QuietInv, NEW r \in Requests, NEW s \in Upstream,
         Receiving(r, s) \/ TaskStep(r, s) \/ Reported(r, s)
  PROVE  QuietInv'
<1>1. ASSUME NEW k \in Kinds, NEW via \in {"relay", "direct"}, Arrive(r, s, k, via)
      PROVE  QuietInv'
  BY <1>1, QuietFrame, SameReports
     DEF Arrive, stateVars, outVars, crashVars, LoopRuns, Alive
<1>2. ASSUME NEW k \in Kinds, ArriveLocal(r, s, k)
      PROVE  QuietInv'
  BY <1>2, QuietPayload, QuietItem DEF ArriveLocal, crashVars, LoopRuns, Alive
<1>3. ASSUME TaskStep(r, s)
      PROVE  QuietInv'
  <2> PICK i \in 1..Len(lane[r][s]) :
        \/ \E ok \in BOOLEAN : StartTask(r, s, i, ok) \/ ReadEnds(r, s, i, ok)
        \/ FinishTask(r, s, i) \/ Unwind(r, s, i)
    BY <1>3 DEF TaskStep
  <2>1. ASSUME NEW ok \in BOOLEAN, StartTask(r, s, i, ok)
        PROVE  QuietInv'
    <3>1. aborted' = aborted /\ purged' = purged /\ pending' = pending /\ reporting' = reporting
      BY <2>1 DEF StartTask
    <3>2. \/ active' = active /\ open' = open
          \/ /\ r \notin aborted
             /\ active' = active \cup {r}
             /\ open' \in {open, open \cup {r}}
      BY <2>1 DEF StartTask, MarkActive
    <3>3. ReportsStay
      BY <2>1, <3>1, SameReports DEF StartTask, outVars, crashVars, LoopRuns, Alive
    <3> QED BY <3>1, <3>2, <3>3 DEF QuietInv, StateTypeOK, AbortQuiesces, ReportsStay
  <2>2. ASSUME NEW ok \in BOOLEAN, ReadEnds(r, s, i, ok)
        PROVE  QuietInv'
    BY <2>2, QuietFrame, SameReports DEF ReadEnds, stateVars, outVars, crashVars, Alive
  <2>3. CASE FinishTask(r, s, i)
    <3>1. Alive /\ UNCHANGED <<routing, failing>>
      BY <2>3 DEF FinishTask, crashVars, LoopRuns, Alive
    <3> QED BY <2>3, <3>1, QuietDropped, QuietFailure, QuietPayload, QuietItem DEF FinishTask
  <2>4. CASE Unwind(r, s, i)
    BY <2>4, QuietFrame, SameReports DEF Unwind, stateVars, outVars, crashVars, Alive
  <2> QED BY <2>1, <2>2, <2>3, <2>4
<1>4. CASE Reported(r, s)
  <2>1. Clear(r) /\ aborted' = aborted /\ purged' = purged /\ reporting' = reporting \ {<<r, s>>}
        /\ UNCHANGED <<life, routing, failing>>
    BY <1>4 DEF Reported, outVars, crashVars
  <2>2. ReportsStayBut(r)
    BY <2>1 DEF ReportsStayBut, Reporting, Alive
  <2> QED BY <2>1, <2>2, QuietClear
<1> QED BY <1>1, <1>2, <1>3, <1>4 DEF Receiving

\* The steps of the drain; it sends one thing at a time.
RoutesOne == \A x, y \in routing : x = y

LEMMA QuietRoute ==
  ASSUME QuietInv, RoutesOne, NEW r \in Requests, RouteStep(r)
  PROVE  QuietInv'
<1>1. CASE ReportSuccess(r)
  <2>1. UNCHANGED <<life, aborted, active, open, pending, purged, reporting, failing>>
        /\ routing' = {[r |-> r, at |-> "ok"]} /\ [r |-> r, at |-> "result"] \in routing
    BY <1>1 DEF ReportSuccess, stateVars, crashVars
  <2>2. \A a \in Requests : [r |-> a, at |-> "fail"] \notin routing
    <3>1. \A a \in Requests : [r |-> a, at |-> "fail"] # [r |-> r, at |-> "result"]
      <4>1. \A a \in Requests : [r |-> a, at |-> "fail"].at # [r |-> r, at |-> "result"].at
        OBVIOUS
      <4> QED BY <4>1
    <3> QED BY <2>1, <3>1 DEF RoutesOne
  <2>3. ReportsStay
    BY <2>1, <2>2 DEF ReportsStay, Reporting, Alive
  <2> QED BY <2>1, <2>3, QuietFrame
<1>2. ASSUME NEW at \in {"result", "ok", "fail"}, [r |-> r, at |-> at] \in routing,
             routing' = {}, UNCHANGED <<reporting, failing>>, Alive' => Alive
      PROVE  ReportsStayBut(r)
  <2>1. \A a \in Requests \ {r} : [r |-> a, at |-> "fail"] \notin routing
    <3>1. \A a \in Requests \ {r} : [r |-> a, at |-> "fail"] # [r |-> r, at |-> at]
      <4>1. \A a \in Requests \ {r} : [r |-> a, at |-> "fail"].r # [r |-> r, at |-> at].r
        OBVIOUS
      <4> QED BY <4>1
    <3> QED BY <1>2, <3>1 DEF RoutesOne
  <2> QED BY <1>2, <2>1 DEF ReportsStayBut, Reporting
<1>3. CASE ReportSent(r)
  <2>1. \E at \in {"ok", "fail"} : [r |-> r, at |-> at] \in routing
    BY <1>3 DEF ReportSent
  <2>2. /\ routing' = {} /\ Clear(r)
        /\ UNCHANGED <<life, aborted, purged, reporting, failing>>
    BY <1>3 DEF ReportSent, crashVars
  <2>3. ReportsStayBut(r)
    BY <1>2, <2>1, <2>2 DEF Alive
  <2> QED BY <2>2, <2>3, QuietClear
<1>4. ASSUME NEW ok \in BOOLEAN, RouteEnds(r, ok)
      PROVE  QuietInv'
  <2>1. /\ routing' = {} /\ UNCHANGED <<aborted, purged, reporting, failing>>
        /\ [r |-> r, at |-> "result"] \in routing /\ Alive
        /\ ok => Clear(r)
        /\ ~ok => UNCHANGED <<active, open, pending>>
    BY <1>4 DEF RouteEnds, crashVars, LoopRuns, Alive
  <2>2. ReportsStayBut(r)
    BY <1>2, <2>1
  <2>3. CASE ok
    BY <2>1, <2>2, <2>3, QuietClear
  <2>4. CASE ~ok
    <3>1. [r |-> r, at |-> "fail"] \notin routing
      <4>1. [r |-> r, at |-> "fail"].at # [r |-> r, at |-> "result"].at
        OBVIOUS
      <4> QED BY <2>1, <4>1 DEF RoutesOne
    <3>2. Reporting(r) => Reporting(r)'
      BY <2>1, <3>1 DEF Reporting
    <3>3. ReportsStay
      BY <2>2, <3>2 DEF ReportsStay, ReportsStayBut
    <3> QED BY <2>1, <2>4, <3>3, QuietFrame
  <2> QED BY <2>3, <2>4
<1> QED BY <1>1, <1>3, <1>4 DEF RouteStep

LEMMA QuietDrain ==
  ASSUME QuietInv, DrainOutbox
  PROVE  QuietInv'
<1> DEFINE out == Head(outbox)
<1>1. UNCHANGED <<life, failing>> /\ routing = {}
  BY DEF DrainOutbox, crashVars
<1>2. UNCHANGED reporting
  BY DEF DrainOutbox, stateVars
<1>3. ReportsStay
  BY <1>1, <1>2, SameReports DEF Alive
<1>4. CASE UNCHANGED stateVars
  BY <1>3, <1>4, QuietFrame DEF stateVars
<1>5. CASE /\ StillWanted(out.r) /\ SendFailure(out.r)
           /\ routing' = {[r |-> out.r, at |-> "fail"]}
  <2>1. PICK r \in Requests : SendFailure(r) /\ routing' = {[r |-> r, at |-> "fail"]}
    BY <1>5 DEF StillWanted, QuietInv, StateTypeOK
  <2>2. Reporting(r)'
    BY <2>1 DEF Reporting
  <2>3. reporting' \in SUBSET (Requests \X Upstream)
    BY <1>2 DEF QuietInv, StateTypeOK
  <2> QED BY <1>3, <2>1, <2>2, <2>3, QuietFail
<1> QED BY <1>4, <1>5 DEF DrainOutbox

\* The steps of the crash handler, which reports one request at a time.
FailsOne == \A x, y \in failing : x = y

LEMMA QuietCrash ==
  ASSUME QuietInv, FailsOne, CrashStep
  PROVE  QuietInv'
<1>1. CASE CrashListed
  BY <1>1, QuietFrame, SameReports DEF CrashListed, stateVars, outVars, Alive
<1>2. CASE CrashHandlerEnds
  BY <1>2, QuietFrame, SameReports
     DEF CrashHandlerEnds, CrashHandled, stateVars, outVars, Alive
<1>3. ASSUME NEW r \in Requests, CrashFails(r)
      PROVE  QuietInv'
  <2>1. /\ SendFailure(r) /\ failing = {} /\ failing' = {r}
        /\ UNCHANGED <<life, routing, reporting>>
    BY <1>3 DEF CrashFails
  <2>2. Reporting(r)'
    BY <2>1 DEF Reporting
  <2>3. ReportsStay
    BY <2>1, SameReports DEF Alive
  <2>4. reporting' \in SUBSET (Requests \X Upstream)
    BY <2>1 DEF QuietInv, StateTypeOK
  <2> QED BY <2>1, <2>2, <2>3, <2>4, QuietFail
<1>4. ASSUME NEW r \in Requests, CrashReported(r)
      PROVE  QuietInv'
  <2>1. /\ r \in failing /\ failing' = {} /\ Clear(r)
        /\ UNCHANGED <<life, routing, aborted, purged, reporting>>
    BY <1>4 DEF CrashReported, outVars
  <2>2. ReportsStayBut(r)
    BY <2>1 DEF ReportsStayBut, Reporting, Alive, FailsOne
  <2> QED BY <2>1, <2>2, QuietClear
<1> QED BY <1>1, <1>2, <1>3, <1>4 DEF CrashStep

\* The drain and the crash handler have one report in progress at most.
OneReport == RoutesOne /\ FailsOne

LEMMA OneReportStep == OneReport /\ [Next]_vars => OneReport'
<1> SUFFICES ASSUME OneReport, [Next]_vars PROVE OneReport'
  OBVIOUS
<1>1. CASE UNCHANGED <<routing, failing>>
  BY <1>1 DEF OneReport, RoutesOne, FailsOne
<1>2. CASE UNCHANGED vars
  BY <1>1, <1>2 DEF vars, outVars, crashVars
<1>3. ASSUME NEW r \in Requests, NEW s \in Upstream,
             Receiving(r, s) \/ TaskStep(r, s) \/ Reported(r, s)
      PROVE  OneReport'
  BY <1>1, <1>3 DEF Receiving, Arrive, ArriveLocal, TaskStep, StartTask, ReadEnds, FinishTask,
                    Unwind, Reported, outVars, crashVars
<1>4. ASSUME NEW r \in Requests, WorkStep(r)
      PROVE  OneReport'
  BY <1>1, <1>4 DEF WorkStep, OnAbort, PurgeAborted, SchedulerAnswers, outVars, crashVars
<1>5. ASSUME NEW r \in Requests, RouteStep(r)
      PROVE  OneReport'
  BY <1>5 DEF RouteStep, ReportSuccess, ReportSent, RouteEnds, crashVars, OneReport, RoutesOne,
              FailsOne
<1>6. CASE DrainOutbox
  BY <1>6 DEF DrainOutbox, crashVars, OneReport, RoutesOne, FailsOne
<1>7. CASE CrashStep
  BY <1>7 DEF CrashStep, CrashListed, CrashFails, CrashReported, CrashHandlerEnds, outVars,
              OneReport, RoutesOne, FailsOne
<1>8. CASE Shutdown \/ SchedulerCrashes \/ StopBegins \/ StopEnds
  BY <1>1, <1>8 DEF Shutdown, SchedulerCrashes, StopBegins, StopEnds, outVars, crashVars
<1> QED BY <1>2, <1>3, <1>4, <1>5, <1>6, <1>7, <1>8 DEF Next

\* Every step of the stage, of its upstream stages and of its scheduler keeps
\* the tables quiet.
LEMMA QuietStep == QuietInv /\ OneReport /\ [Next]_vars => QuietInv'
<1> SUFFICES ASSUME QuietInv, OneReport, [Next]_vars PROVE QuietInv'
  OBVIOUS
<1>1. CASE UNCHANGED vars
  BY <1>1, QuietFrame, SameReports DEF vars, stateVars, outVars, crashVars, Alive
<1>2. ASSUME NEW r \in Requests, WorkStep(r)
      PROVE  QuietInv'
  <2>1. CASE OnAbort(r)
    <3>1. /\ RecordAborted(r) /\ Clear(r)
          /\ UNCHANGED <<life, reporting, routing, failing>>
      BY <2>1 DEF OnAbort, outVars, crashVars
    <3>2. ReportsStayBut(r)
      BY <3>1 DEF ReportsStayBut, Reporting, Alive
    <3> QED BY <3>1, <3>2, QuietClear DEF RecordAborted
  <2>2. CASE PurgeAborted(r)
    <3>1. ReportsStay
      BY <2>2, SameReports DEF PurgeAborted, outVars, crashVars, Alive
    <3> QED BY <2>2, <3>1 DEF PurgeAborted, QuietInv, StateTypeOK, AbortQuiesces, ReportsStay
  <2>3. ASSUME NEW k \in {"result", "error"}, SchedulerAnswers(r, k)
        PROVE  QuietInv'
    BY <2>3, QuietFrame, SameReports DEF SchedulerAnswers, stateVars, crashVars, Alive
  <2> QED BY <1>2, <2>1, <2>2, <2>3 DEF WorkStep
<1>3. CASE Shutdown \/ SchedulerCrashes
  BY <1>3, QuietFrame, SameReports
     DEF Shutdown, SchedulerCrashes, stateVars, outVars, crashVars, LoopRuns, Alive
<1>4. CASE StopBegins \/ StopEnds
  <2>1. ~Alive' /\ UNCHANGED <<aborted, active, open, pending, purged>>
        /\ reporting' \subseteq reporting
    BY <1>4 DEF StopBegins, StopEnds, Alive, stateVars
  <2> QED BY <2>1 DEF QuietInv, StateTypeOK, AbortQuiesces
<1> QED BY <1>1, <1>2, <1>3, <1>4, QuietReceive, QuietRoute, QuietDrain, QuietCrash
        DEF Next, OneReport

\* Whatever reads are under way when a request is aborted, here or by the
\* coordinator, nothing of it is left in the stage's tables and nothing comes
\* back while it is marked, except that the report of a failure found here is
\* sent before the request is cleared.
THEOREM AbortedStayOut == Spec => []AbortQuiesces
<1>1. Init => QuietInv /\ OneReport
  BY DEF Init, QuietInv, StateTypeOK, AbortQuiesces, OneReport, RoutesOne, FailsOne
<1>2. QuietInv /\ OneReport /\ [Next]_vars => (QuietInv /\ OneReport)'
  BY QuietStep, OneReportStep
<1> QED BY <1>1, <1>2, PTL DEF Spec, QuietInv
-----------------------------------------------------------------------------
(* What the coordinator is told.                                           *)

\* a failure that was reported left a mark, which only the cap removes
FailMarked(r) ==
  r \notin purged /\ (\E i \in 1..Len(told[r]) : told[r][i] = "fail") => r \in aborted

ToldType == told \in [Requests -> Seq({"ok", "fail"})]

ToldInv == ToldType /\ \A r \in Requests : FailMarked(r)

\* marks stay, or are forgotten for good
MarksStay == aborted \subseteq aborted' \cup purged' /\ purged \subseteq purged'

\* what a step may tell the coordinator of a request
Says(r) ==
  \/ told'[r] = told[r]
  \/ told'[r] = Append(told[r], "fail") /\ r \in aborted'
  \/ told'[r] = Append(told[r], "ok")

SaysOK == MarksStay /\ ToldType' /\ \A r \in Requests : Says(r)

LEMMA SaysNothing ==
  ASSUME ToldType, UNCHANGED told, MarksStay
  PROVE  SaysOK
BY DEF SaysOK, ToldType, Says

LEMMA SaysFail ==
  ASSUME ToldType, NEW r \in Requests, SendFailure(r)
  PROVE  SaysOK
BY DEF SaysOK, ToldType, Says, MarksStay, SendFailure, RecordAborted, Tell

LEMMA SaysPayload ==
  ASSUME ToldType, NEW r \in Requests, NEW s, TakePayload(r, s)
  PROVE  SaysOK
<1>1. UNCHANGED <<aborted, purged, told>>
  BY DEF TakePayload, AcceptPayload, Dropped, stateVars
<1> QED BY <1>1, SaysNothing DEF MarksStay

LEMMA SaysItem ==
  ASSUME ToldType, NEW r \in Requests, NEW s, NEW item, TakeItem(r, s, item)
  PROVE  SaysOK
<1>1. UNCHANGED <<aborted, purged, told>> \/ SendFailure(r)
  BY DEF TakeItem, FailStream, HandlerFails, Dropped, stateVars
<1> QED BY <1>1, SaysNothing, SaysFail DEF MarksStay

LEMMA SaysFailure ==
  ASSUME ToldType, NEW r \in Requests, NEW s, NEW k, TakeFailure(r, s, k)
  PROVE  SaysOK
<1>1. UNCHANGED <<aborted, purged, told>> \/ SendFailure(r)
  BY DEF TakeFailure, FailStream, HandlerFails, Dropped, stateVars
<1> QED BY <1>1, SaysNothing, SaysFail DEF MarksStay

\* Every step reports at most one thing of a request, a failure only with the
\* mark of it.
LEMMA SaysStep ==
  ASSUME QuietInv, ToldType, [Next]_vars
  PROVE  SaysOK
<1>1. CASE UNCHANGED vars
  BY <1>1, SaysNothing DEF vars, stateVars, outVars, MarksStay
<1>2. ASSUME NEW r \in Requests, NEW s \in Upstream, Receiving(r, s)
      PROVE  SaysOK
  <2>1. ASSUME NEW k \in Kinds, NEW via \in {"relay", "direct"}, Arrive(r, s, k, via)
        PROVE  SaysOK
    BY <2>1, SaysNothing DEF Arrive, stateVars, outVars, MarksStay
  <2>2. ASSUME NEW k \in Kinds, ArriveLocal(r, s, k)
        PROVE  SaysOK
    BY <2>2, SaysPayload, SaysItem DEF ArriveLocal
  <2> QED BY <1>2, <2>1, <2>2 DEF Receiving
<1>3. ASSUME NEW r \in Requests, NEW s \in Upstream, TaskStep(r, s) \/ Reported(r, s)
      PROVE  SaysOK
  <2>1. CASE Reported(r, s)
    BY <2>1, SaysNothing DEF Reported, outVars, MarksStay
  <2>2. ASSUME NEW i \in 1..Len(lane[r][s]), FinishTask(r, s, i)
        PROVE  SaysOK
    <3>1. CASE Dropped
      BY <3>1, SaysNothing DEF Dropped, stateVars, MarksStay
    <3> QED BY <2>2, <3>1, SaysFailure, SaysPayload, SaysItem DEF FinishTask
  <2>3. ASSUME NEW i \in 1..Len(lane[r][s]),
               \/ \E ok \in BOOLEAN : StartTask(r, s, i, ok) \/ ReadEnds(r, s, i, ok)
               \/ Unwind(r, s, i)
        PROVE  SaysOK
    BY <2>3, SaysNothing DEF StartTask, ReadEnds, Unwind, stateVars, outVars, MarksStay
  <2> QED BY <1>3, <2>1, <2>2, <2>3 DEF TaskStep
<1>4. ASSUME NEW r \in Requests, WorkStep(r)
      PROVE  SaysOK
  <2>1. UNCHANGED told /\ MarksStay
    BY <1>4 DEF WorkStep, OnAbort, PurgeAborted, SchedulerAnswers, RecordAborted,
                Clear, stateVars, outVars, MarksStay
  <2> QED BY <2>1, SaysNothing
<1>5. ASSUME NEW r \in Requests, RouteStep(r)
      PROVE  SaysOK
  <2>1. UNCHANGED <<aborted, purged>> /\ (told' = told \/ Tell(r, "ok"))
    BY <1>5 DEF RouteStep, ReportSuccess, ReportSent, RouteEnds, stateVars, outVars
  <2>2. CASE told' = told
    BY <2>1, <2>2, SaysNothing DEF MarksStay
  <2>3. CASE Tell(r, "ok")
    BY <2>1, <2>3 DEF Tell, SaysOK, Says, ToldType, MarksStay
  <2> QED BY <2>1, <2>2, <2>3
<1>6. CASE DrainOutbox
  <2>1. CASE UNCHANGED <<stateVars, told>>
    BY <2>1, SaysNothing DEF stateVars, MarksStay
  <2>2. CASE StillWanted(Head(outbox).r) /\ SendFailure(Head(outbox).r)
    BY <2>2, SaysFail DEF StillWanted, QuietInv, StateTypeOK
  <2> QED BY <1>6, <2>1, <2>2 DEF DrainOutbox
<1>7. CASE Shutdown \/ SchedulerCrashes \/ StopBegins \/ StopEnds
  BY <1>7, SaysNothing
     DEF Shutdown, SchedulerCrashes, StopBegins, StopEnds, stateVars, outVars, MarksStay
<1>8. CASE CrashStep
  <2>1. CASE CrashListed \/ CrashHandlerEnds \/ \E r \in Requests : CrashReported(r)
    BY <2>1, SaysNothing DEF CrashListed, CrashHandlerEnds, CrashReported, stateVars, outVars,
                             MarksStay
  <2>2. CASE \E r \in Requests : CrashFails(r)
    BY <2>2, SaysFail DEF CrashFails
  <2> QED BY <1>8, <2>1, <2>2 DEF CrashStep
<1> QED BY <1>1, <1>2, <1>3, <1>4, <1>5, <1>6, <1>7, <1>8 DEF Next

LEMMA ToldStep ==
  ASSUME QuietInv, ToldInv, [Next]_vars
  PROVE  ToldInv'
<1>1. SaysOK
  BY SaysStep DEF ToldInv
<1>2. ASSUME NEW r \in Requests
      PROVE  FailMarked(r)'
  <2> SUFFICES ASSUME r \notin purged'
               PROVE  FailMarked(r)'
    BY DEF FailMarked
  <2>1. r \notin purged /\ FailMarked(r) /\ (r \in aborted => r \in aborted')
    BY <1>1 DEF SaysOK, MarksStay, ToldInv
  <2>2. told[r] \in Seq({"ok", "fail"})
    BY DEF ToldInv, ToldType
  <2>3. CASE told'[r] = told[r]
    BY <2>1, <2>3 DEF FailMarked
  <2>4. CASE told'[r] = Append(told[r], "fail") /\ r \in aborted'
    BY <2>4 DEF FailMarked
  <2>5. CASE told'[r] = Append(told[r], "ok")
    BY <2>1, <2>2, <2>5 DEF FailMarked
  <2> QED BY <1>1, <2>3, <2>4, <2>5 DEF SaysOK, Says
<1> QED BY <1>1, <1>2 DEF SaysOK, ToldInv

\* Only the drain takes something new to send, and only for a request that is
\* active.
LEMMA TakenActive ==
  ASSUME OneReport, [Next]_vars, NEW out \in routing' \ routing, out.at # "ok"
  PROVE  DrainOutbox /\ out.r = Head(outbox).r /\ StillWanted(out.r)
<1>1. CASE routing' \subseteq routing
  BY <1>1
<1>2. CASE UNCHANGED vars
  BY <1>1, <1>2 DEF vars, outVars
<1>3. ASSUME NEW r \in Requests, NEW s \in Upstream,
             Receiving(r, s) \/ TaskStep(r, s) \/ Reported(r, s)
      PROVE  routing' = routing
  BY <1>3 DEF Receiving, Arrive, ArriveLocal, TaskStep, StartTask, ReadEnds, FinishTask,
              Unwind, Reported, outVars
<1>4. ASSUME NEW r \in Requests, WorkStep(r)
      PROVE  routing' = routing
  BY <1>4 DEF WorkStep, OnAbort, PurgeAborted, SchedulerAnswers, outVars
<1>5. ASSUME NEW r \in Requests, RouteStep(r)
      PROVE  FALSE
  BY <1>5 DEF RouteStep, ReportSuccess, ReportSent, RouteEnds
<1>6. CASE Shutdown \/ SchedulerCrashes \/ StopBegins \/ StopEnds \/ CrashStep
  BY <1>1, <1>6 DEF Shutdown, SchedulerCrashes, StopBegins, StopEnds, CrashStep, CrashListed,
                    CrashFails, CrashReported, CrashHandlerEnds, outVars
<1>7. CASE DrainOutbox
  BY <1>7 DEF DrainOutbox
<1> QED BY <1>1, <1>2, <1>3, <1>4, <1>5, <1>6, <1>7 DEF Next

\* When the report of a request's failure has been sent, nothing that the
\* scheduler still puts out for it is taken up: the failure leaves a mark and
\* takes the request out of _active_requests, and nothing brings it back.
\* What the drain took before that may still be reported behind the failure.
THEOREM FailureIsLast == Spec => NoResultAfterFailure
<1> DEFINE Now == QuietInv /\ OneReport /\ ToldInv
           Quiet == \A out \in routing' \ routing :
                      /\ out.at # "ok" /\ out.r \notin purged'
                      /\ \E i \in 1..Len(told[out.r]) : told[out.r][i] = "fail"
                      => Reporting(out.r)
<1>1. Init => Now
  BY DEF Init, QuietInv, StateTypeOK, AbortQuiesces, OneReport, RoutesOne, FailsOne, ToldInv,
         ToldType, FailMarked
<1>2. Now /\ [Next]_vars => Now'
  BY QuietStep, OneReportStep, ToldStep
<1>3. Now /\ [Next]_vars => [Quiet]_vars
  <2> SUFFICES ASSUME Now, [Next]_vars, NEW out \in routing' \ routing, out.at # "ok",
                      out.r \notin purged',
                      \E i \in 1..Len(told[out.r]) : told[out.r][i] = "fail"
               PROVE  Reporting(out.r)
    OBVIOUS
  <2>1. DrainOutbox /\ out.r \in active
    BY TakenActive DEF StillWanted
  <2>2. out.r \in Requests /\ Alive /\ purged' = purged
    BY <2>1 DEF DrainOutbox, LoopRuns, Alive, QuietInv, StateTypeOK, SendFailure, RecordAborted,
                stateVars
  <2>3. out.r \in aborted
    BY <2>2 DEF ToldInv, FailMarked
  <2> QED BY <2>1, <2>2, <2>3 DEF QuietInv, AbortQuiesces
<1> QED BY <1>1, <1>2, <1>3, PTL DEF Spec, NoResultAfterFailure
-----------------------------------------------------------------------------
(* The receive lanes.                                                      *)

Unread == {"new", "reading", "discarding"}

\* what the state of a receive task says
TaskOK(r, t) ==
  /\ t.k = "done" => t.via = "direct"
  /\ t.st \in {"reading", "discarding"} => t.via = "relay"
  /\ t.st \in {"discarding", "settled"} => r \in aborted \cup purged

\* a payload is the last message of its lane, and the only one of a stage in
\* the same process
LaneOK(r, s) ==
  \A i \in 1..Len(lane[r][s]) :
    /\ TaskOK(r, lane[r][s][i])
    /\ s \in Local => lane[r][s][i].k = "payload"
    /\ lane[r][s][i].k = "payload" => sent[r][s].payload /\ i = Len(lane[r][s])

LaneTypeOK ==
  /\ lane \in [Requests -> [Upstream -> Seq(Task)]]
  /\ sent \in [Requests -> [Upstream -> [chunks : Nat, done : BOOLEAN, payload : BOOLEAN]]]
  /\ owed \in [Requests -> [Upstream -> Int]]
  /\ inbox \in [Requests -> [Upstream -> Seq(Item)]]

\* the tasks of a lane whose data has not been acknowledged
Unacked(l) == {i \in 1..Len(l) : l[i].via = "relay" /\ l[i].st \in Unread}

AckedOK(r, s) == LoopRuns => owed[r][s] = Cardinality(Unacked(lane[r][s]))

\* the payload of the stage has been sent and is no longer on its way
Used(r, s) ==
  sent[r][s].payload /\ \A i \in 1..Len(lane[r][s]) : lane[r][s][i].k # "payload"

\* payloads wait, or were merged, once each
FanInOK(r) ==
  /\ \A s \in pending[r] : Used(r, s)
  /\ \/ dispatched[r] = <<>>
     \/ dispatched[r] = <<expected[r]>> /\ \A s \in expected[r] : Used(r, s)

FanInv ==
  /\ expected \in [Requests -> SUBSET Upstream]
  /\ dispatched \in [Requests -> Seq(SUBSET Upstream)]
  /\ \A r \in Requests : FanInOK(r)

\* what the scheduler has been given of a stream is a prefix of it
PrefixOK(r, s) ==
  \A i \in 1..Len(inbox[r][s]) :
    IF inbox[r][s][i].k = "chunk"
    THEN inbox[r][s][i].n = i - 1
    ELSE i = Len(inbox[r][s]) /\ i - 1 = sent[r][s].chunks /\ sent[r][s].done

\* and the lane holds the rest of it: the items by number, then the payload
RestOK(r, s) ==
  LET have == Len(inbox[r][s])
      now == sent[r][s]
  IN /\ \A i \in 1..Len(lane[r][s]) :
          lane[r][s][i].k \in {"chunk", "done"} =>
            /\ lane[r][s][i].n = have + i - 1
            /\ lane[r][s][i].k = "done" => now.done /\ lane[r][s][i].n = now.chunks
            /\ lane[r][s][i].k = "chunk" => lane[r][s][i].n < now.chunks
     /\ ~now.payload /\ now.done => Len(lane[r][s]) + have = now.chunks + 1
     /\ ~now.payload /\ ~now.done => Len(lane[r][s]) + have = now.chunks

StreamOK(r, s) ==
  r \notin purged => /\ PrefixOK(r, s)
                     /\ LoopRuns /\ r \notin aborted => RestOK(r, s)

LaneInv ==
  /\ LaneTypeOK
  /\ \A r \in Requests, s \in Upstream : LaneOK(r, s) /\ AckedOK(r, s) /\ StreamOK(r, s)

\* Sequences of receive tasks: what their operations do to the tasks whose
\* data has not been acknowledged.

LEMMA UnackedFinite ==
  ASSUME NEW l \in Seq(Task)
  PROVE  IsFiniteSet(Unacked(l)) /\ Cardinality(Unacked(l)) \in Nat
<1>1. IsFiniteSet(1..Len(l))
  BY FS_Interval
<1>2. Unacked(l) \subseteq 1..Len(l)
  BY DEF Unacked
<1> QED BY <1>1, <1>2, FS_Subset, FS_CardinalityType

LEMMA UnackedAppend ==
  ASSUME NEW l \in Seq(Task), NEW t \in Task, t.st = "new"
  PROVE  Cardinality(Unacked(Append(l, t)))
           = Cardinality(Unacked(l)) + (IF t.via = "relay" THEN 1 ELSE 0)
<1>1. CASE t.via = "relay"
  <2>1. Unacked(Append(l, t)) = Unacked(l) \cup {Len(l) + 1}
    BY <1>1 DEF Unacked, Unread
  <2>2. Len(l) + 1 \notin Unacked(l)
    BY DEF Unacked
  <2> QED BY <1>1, <2>1, <2>2, UnackedFinite, FS_AddElement
<1>2. CASE t.via # "relay"
  <2>1. Unacked(Append(l, t)) = Unacked(l)
    BY <1>2 DEF Unacked, Unread
  <2> QED BY <1>2, <2>1, UnackedFinite
<1> QED BY <1>1, <1>2

LEMMA UnackedSet ==
  ASSUME NEW l \in Seq(Task), NEW i \in 1..Len(l), NEW st,
         l[i].via # "relay" \/ (l[i].st \in Unread /\ st \in Unread)
  PROVE  Unacked([l EXCEPT ![i].st = st]) = Unacked(l)
<1> DEFINE m == [l EXCEPT ![i].st = st]
<1>1. Len(m) = Len(l) /\ l[i] \in Task
  OBVIOUS
<1>2. \A j \in 1..Len(l) : m[j].via = l[j].via /\ (j # i => m[j] = l[j])
  BY DEF Task
<1>3. m[i].st = st
  BY DEF Task
<1> QED BY <1>1, <1>2, <1>3 DEF Unacked

LEMMA UnackedRead ==
  ASSUME NEW l \in Seq(Task), NEW i \in Unacked(l), NEW st, st \notin Unread
  PROVE  Cardinality(Unacked([l EXCEPT ![i].st = st])) = Cardinality(Unacked(l)) - 1
<1> DEFINE m == [l EXCEPT ![i].st = st]
<1>0. i \in 1..Len(l)
  BY DEF Unacked
<1>1. Len(m) = Len(l) /\ l[i] \in Task
  BY <1>0
<1>2. \A j \in 1..Len(l) : m[j].via = l[j].via /\ (j # i => m[j] = l[j])
  BY <1>0 DEF Task
<1>3. m[i].st = st
  BY <1>0 DEF Task
<1>4. Unacked(m) = Unacked(l) \ {i}
  BY <1>0, <1>1, <1>2, <1>3 DEF Unacked
<1> QED BY <1>4, UnackedFinite, FS_RemoveElement

LEMMA UnackedTail ==
  ASSUME NEW l \in Seq(Task), l # <<>>, 1 \notin Unacked(l)
  PROVE  Cardinality(Unacked(Tail(l))) = Cardinality(Unacked(l))
<1> DEFINE A == Unacked(Tail(l))
           B == Unacked(l)
           f == [i \in A |-> i + 1]
<1>1. Tail(l) \in Seq(Task) /\ Len(Tail(l)) = Len(l) - 1
      /\ \A i \in 1..Len(Tail(l)) : Tail(l)[i] = l[i + 1]
  OBVIOUS
<1>2. \A i \in A : i \in 1..Len(Tail(l)) /\ i + 1 \in B
  BY <1>1 DEF Unacked
<1>3. \A j \in B : j - 1 \in A /\ j \in Nat
  BY <1>1 DEF Unacked
<1> HIDE DEF A, B
<1>4. f \in Bijection(A, B)
  <2>1. f \in [A -> B]
    BY <1>2
  <2>2. \A i, j \in A : f[i] = f[j] => i = j
    BY <1>2
  <2>3. \A j \in B : \E i \in A : f[i] = j
    <3> SUFFICES ASSUME NEW j \in B PROVE f[j - 1] = j /\ j - 1 \in A
      OBVIOUS
    <3> QED BY <1>3
  <2> QED BY <2>1, <2>2, <2>3 DEF Bijection, Injection, Surjection, IsInjective
<1>5. ExistsBijection(A, B)
  BY <1>4 DEF ExistsBijection
<1> QED BY <1>1, <1>5, UnackedFinite, FS_Bijection DEF A, B

\* taking the first task off a lane
LEMMA PopIsTail ==
  ASSUME NEW l \in Seq(Task), l # <<>>
  PROVE  SubSeq(l, 1, 1 - 1) \o SubSeq(l, 1 + 1, Len(l)) = Tail(l)
<1>1. SubSeq(l, 1, 1 - 1) = <<>>
  BY SubSeqProperties
<1>2. SubSeq(l, 1 + 1, Len(l)) = Tail(l)
  BY HeadTailProperties
<1>3. Tail(l) \in Seq(Task)
  OBVIOUS
<1> QED BY <1>1, <1>2, <1>3

\* The effect of a step on one lane.

LaneSame(r, s) ==
  /\ lane'[r][s] = lane[r][s] /\ sent'[r][s] = sent[r][s]
  /\ owed'[r][s] = owed[r][s] /\ inbox'[r][s] = inbox[r][s]

\* a step at lane r, s leaves the other lanes alone
Elsewhere(r, s) ==
  \A a \in Requests, b \in Upstream : <<a, b>> # <<r, s>> => LaneSame(a, b)

LoopEnds == LoopRuns' => LoopRuns

LaneGood(r, s) == LaneOK(r, s) /\ AckedOK(r, s) /\ StreamOK(r, s)

\* Lanes that a step leaves alone stay as they should be, whatever else the
\* step marks or stops.
LEMMA SameGood ==
  ASSUME LaneInv, MarksStay, LoopEnds, NEW r \in Requests, NEW s \in Upstream, LaneSame(r, s)
  PROVE  LaneGood(r, s)'
<1>1. LaneGood(r, s)
  BY DEF LaneInv, LaneGood
<1>2. LaneOK(r, s)'
  BY <1>1 DEF LaneGood, LaneOK, TaskOK, LaneSame, MarksStay
<1>3. AckedOK(r, s)'
  BY <1>1 DEF LaneGood, AckedOK, LaneSame, LoopEnds
<1>4. StreamOK(r, s)'
  BY <1>1 DEF LaneGood, StreamOK, PrefixOK, RestOK, LaneSame, LoopEnds, MarksStay
<1> QED BY <1>2, <1>3, <1>4 DEF LaneGood

LEMMA OneLane ==
  ASSUME LaneInv, MarksStay, LoopEnds, NEW r \in Requests, NEW s \in Upstream,
         Elsewhere(r, s), LaneTypeOK', LaneGood(r, s)'
  PROVE  LaneInv'
<1>1. ASSUME NEW a \in Requests, NEW b \in Upstream
      PROVE  LaneGood(a, b)'
  <2>1. CASE <<a, b>> # <<r, s>>
    BY <2>1, SameGood DEF Elsewhere
  <2> QED BY <2>1
<1> QED BY <1>1 DEF LaneInv, LaneGood

LEMMA LaneFrame ==
  ASSUME LaneInv, MarksStay, LoopEnds, UNCHANGED <<laneVars, inbox>>
  PROVE  LaneInv'
<1>1. LaneTypeOK'
  BY DEF LaneInv, LaneTypeOK, laneVars
<1>2. ASSUME NEW r \in Requests, NEW s \in Upstream
      PROVE  LaneGood(r, s)'
  BY SameGood DEF LaneSame, laneVars
<1> QED BY <1>1, <1>2 DEF LaneInv, LaneGood

\* what an upstream stage may still send, and what is noted
SendsFacts(r, s, k) ==
  /\ ~sent[r][s].payload
  /\ k \in {"chunk", "done"} => ~sent[r][s].done
  /\ sent'[r][s].chunks = sent[r][s].chunks + (IF k = "chunk" THEN 1 ELSE 0)
  /\ sent'[r][s].done <=> sent[r][s].done \/ k = "done"
  /\ sent'[r][s].payload <=> k = "payload"

LEMMA SendsNotes ==
  ASSUME LaneTypeOK, NEW r \in Requests, NEW s \in Upstream, NEW k \in Kinds, Sends(r, s, k)
  PROVE  /\ sent' \in [Requests -> [Upstream -> [chunks : Nat, done : BOOLEAN, payload : BOOLEAN]]]
         /\ SendsFacts(r, s, k)
         /\ \A a \in Requests, b \in Upstream : <<a, b>> # <<r, s>> => sent'[a][b] = sent[a][b]
<1> DEFINE now == sent[r][s]
           new == IF k = "chunk" THEN [now EXCEPT !.chunks = @ + 1]
                  ELSE IF k = "done" THEN [now EXCEPT !.done = TRUE]
                                     ELSE [now EXCEPT !.payload = TRUE]
<1>1. now \in [chunks : Nat, done : BOOLEAN, payload : BOOLEAN]
  BY DEF LaneTypeOK
<1>2. /\ ~now.payload /\ (k \in {"chunk", "done"} => ~now.done)
      /\ sent' = [sent EXCEPT ![r][s] = new]
  BY DEF Sends
<1>3. /\ new \in [chunks : Nat, done : BOOLEAN, payload : BOOLEAN]
      /\ new.chunks = now.chunks + (IF k = "chunk" THEN 1 ELSE 0)
      /\ new.done <=> now.done \/ k = "done"
      /\ new.payload <=> k = "payload"
  <2>1. CASE k = "chunk"
    BY <1>1, <1>2, <2>1
  <2>2. CASE k = "done"
    <3>1. new = [now EXCEPT !.done = TRUE]
      BY <2>2
    <3>2. /\ new \in [chunks : Nat, done : BOOLEAN, payload : BOOLEAN]
          /\ new.chunks = now.chunks /\ new.done = TRUE /\ new.payload = now.payload
      BY <1>1, <3>1
    <3> QED BY <1>1, <1>2, <2>2, <3>2
  <2>3. CASE k = "payload"
    <3>1. new = [now EXCEPT !.payload = TRUE]
      BY <2>3
    <3>2. /\ new \in [chunks : Nat, done : BOOLEAN, payload : BOOLEAN]
          /\ new.chunks = now.chunks /\ new.payload = TRUE /\ new.done = now.done
      BY <1>1, <3>1
    <3> QED BY <1>1, <1>2, <2>3, <3>2
  <2> QED BY <2>1, <2>2, <2>3 DEF Kinds
<1> HIDE DEF new
<1>4. sent'[r][s] = new
  BY <1>2 DEF LaneTypeOK
<1> QED BY <1>2, <1>3, <1>4 DEF SendsFacts, LaneTypeOK

\* A message arrives at the end of its lane (_schedule_receive_task).
LEMMA LaneArrive ==
  ASSUME LaneInv, NEW r \in Requests, NEW s \in Upstream, NEW k \in Kinds,
         NEW via \in {"relay", "direct"}, Arrive(r, s, k, via)
  PROVE  LaneInv'
<1> DEFINE l == lane[r][s]
           t == [k |-> k, n |-> sent[r][s].chunks, via |-> via, st |-> "new"]
<1>1. /\ LoopRuns /\ (s \in Local => k = "payload") /\ (k = "done" => via = "direct")
      /\ lane' = [lane EXCEPT ![r][s] = Append(@, t)]
      /\ owed' = [owed EXCEPT ![r][s] = IF via = "relay" THEN @ + 1 ELSE @]
      /\ UNCHANGED <<inbox, aborted, purged>>
  BY DEF Arrive, workVars, stateVars
<1>2. MarksStay /\ LoopEnds
  BY <1>1 DEF MarksStay, LoopEnds
<1>3. SendsFacts(r, s, k) /\ sent' \in [Requests -> [Upstream -> [chunks : Nat, done : BOOLEAN, payload : BOOLEAN]]]
      /\ \A a \in Requests, b \in Upstream : <<a, b>> # <<r, s>> => sent'[a][b] = sent[a][b]
  BY SendsNotes DEF Arrive, LaneInv
<1>4. l \in Seq(Task) /\ t \in Task /\ sent[r][s].chunks \in Nat
      /\ sent[r][s].done \in BOOLEAN /\ inbox[r][s] \in Seq(Item) /\ owed[r][s] \in Int
  BY DEF LaneInv, LaneTypeOK, Task, Kinds
<1>5. Append(l, t) \in Seq(Task)
  BY <1>4
<1> HIDE DEF t
<1>6. /\ lane'[r][s] = Append(l, t)
      /\ owed'[r][s] = owed[r][s] + (IF via = "relay" THEN 1 ELSE 0)
      /\ inbox'[r][s] = inbox[r][s]
  BY <1>1, <1>4 DEF LaneInv, LaneTypeOK
<1>7. LaneTypeOK'
  <2>1. lane' \in [Requests -> [Upstream -> Seq(Task)]]
    BY <1>1, <1>5 DEF LaneInv, LaneTypeOK
  <2>2. owed' \in [Requests -> [Upstream -> Int]]
    BY <1>1, <1>4 DEF LaneInv, LaneTypeOK
  <2> QED BY <1>1, <1>3, <2>1, <2>2 DEF LaneInv, LaneTypeOK
<1>8. Elsewhere(r, s)
  BY <1>1, <1>3 DEF Elsewhere, LaneSame, LaneInv, LaneTypeOK
<1>9. LaneGood(r, s)
  BY DEF LaneInv, LaneGood
<1>10. /\ Len(Append(l, t)) = Len(l) + 1
       /\ Append(l, t)[Len(l) + 1] = t
       /\ \A i \in 1..Len(l) : Append(l, t)[i] = l[i]
       /\ Len(l) \in Nat
  BY <1>4
<1>11. t.k = k /\ t.n = sent[r][s].chunks /\ t.via = via /\ t.st = "new"
  BY DEF t
<1>12. LaneOK(r, s)'
  <2> SUFFICES ASSUME NEW i \in 1..(Len(l) + 1)
               PROVE  /\ TaskOK(r, Append(l, t)[i])
                      /\ s \in Local => Append(l, t)[i].k = "payload"
                      /\ Append(l, t)[i].k = "payload" => sent'[r][s].payload /\ i = Len(l) + 1
    BY <1>1, <1>6, <1>10 DEF LaneOK, TaskOK
  <2>1. CASE i = Len(l) + 1
    BY <1>1, <1>3, <1>10, <1>11, <2>1 DEF TaskOK, SendsFacts
  <2>2. CASE i \in 1..Len(l)
    BY <1>1, <1>3, <1>9, <1>10, <2>2 DEF LaneGood, LaneOK, TaskOK, SendsFacts
  <2> QED BY <1>10, <2>1, <2>2
<1>13. AckedOK(r, s)'
  BY <1>1, <1>4, <1>6, <1>9, <1>11, UnackedAppend DEF LaneGood, AckedOK
<1>14. StreamOK(r, s)'
  <2> SUFFICES ASSUME r \notin purged PROVE PrefixOK(r, s)' /\ (r \notin aborted => RestOK(r, s)')
    BY <1>1 DEF StreamOK
  <2>1. PrefixOK(r, s)'
    BY <1>3, <1>4, <1>6, <1>9 DEF LaneGood, StreamOK, PrefixOK, SendsFacts, Item, Kinds
  <2>2. ASSUME r \notin aborted PROVE RestOK(r, s)'
    <3> DEFINE have == Len(inbox[r][s])
    <3>1. RestOK(r, s) /\ have \in Nat
      BY <1>1, <1>4, <1>9, <2>2 DEF LaneGood, StreamOK
    <3>2. /\ sent[r][s].done => Len(l) + have = sent[r][s].chunks + 1
          /\ ~sent[r][s].done => Len(l) + have = sent[r][s].chunks
      BY <1>3, <3>1 DEF RestOK, SendsFacts
    <3>3. ASSUME NEW i \in 1..(Len(l) + 1), Append(l, t)[i].k \in {"chunk", "done"}
          PROVE  /\ Append(l, t)[i].n = have + i - 1
                 /\ Append(l, t)[i].k = "done" =>
                      sent'[r][s].done /\ Append(l, t)[i].n = sent'[r][s].chunks
                 /\ Append(l, t)[i].k = "chunk" => Append(l, t)[i].n < sent'[r][s].chunks
      <4>1. CASE i = Len(l) + 1
        <5>1. k \in {"chunk", "done"} /\ Append(l, t)[i].k = k
              /\ Append(l, t)[i].n = sent[r][s].chunks
          BY <1>10, <1>11, <3>3, <4>1
        <5>2. ~sent[r][s].done
          BY <1>3, <5>1 DEF SendsFacts
        <5>3. sent[r][s].chunks = have + i - 1
          <6>1. Len(l) + have = sent[r][s].chunks
            BY <3>2, <5>2
          <6>2. Len(l) \in Nat /\ have \in Nat /\ sent[r][s].chunks \in Nat /\ i = Len(l) + 1
            BY <1>4, <1>10, <3>1, <4>1
          <6> HIDE DEF have, l
          <6> QED BY <6>1, <6>2
        <5>4. sent[r][s].chunks \in Nat /\ (k = "chunk" => sent'[r][s].chunks = sent[r][s].chunks + 1)
              /\ (k = "done" => sent'[r][s].done /\ sent'[r][s].chunks = sent[r][s].chunks)
          BY <1>3, <1>4 DEF SendsFacts
        <5> HIDE DEF have, l
        <5> QED BY <5>1, <5>3, <5>4
      <4>2. CASE i \in 1..Len(l)
        <5>1. l[i].n \in Nat
          <6>1. l[i] \in Task
            BY <1>4, <4>2
          <6> QED BY <6>1 DEF Task
        <5>2. Append(l, t)[i] = l[i]
          BY <1>10, <4>2
        <5>3. /\ l[i].n = have + i - 1 /\ (l[i].k = "chunk" => l[i].n < sent[r][s].chunks)
              /\ l[i].k = "done" => sent[r][s].done /\ l[i].n = sent[r][s].chunks
          BY <3>1, <3>3, <4>2, <5>2 DEF RestOK
        <5>4. /\ sent[r][s].chunks \in Nat /\ sent'[r][s].chunks \in Nat
              /\ sent'[r][s].chunks >= sent[r][s].chunks
              /\ sent[r][s].done => sent'[r][s].done /\ sent'[r][s].chunks = sent[r][s].chunks
          BY <1>3, <1>4 DEF SendsFacts
        <5> HIDE DEF have, l
        <5> QED BY <5>1, <5>2, <5>3, <5>4
      <4> QED BY <1>10, <4>1, <4>2
    <3>4. ~sent'[r][s].payload =>
            /\ sent'[r][s].done => Len(l) + 1 + have = sent'[r][s].chunks + 1
            /\ ~sent'[r][s].done => Len(l) + 1 + have = sent'[r][s].chunks
      <4>1. CASE k = "payload"
        BY <1>3, <4>1 DEF SendsFacts
      <4>2. CASE k \in {"chunk", "done"}
        <5>1. /\ Len(l) + have = sent[r][s].chunks
              /\ k = "chunk" => ~sent'[r][s].done /\ sent'[r][s].chunks = sent[r][s].chunks + 1
              /\ k = "done" => sent'[r][s].done /\ sent'[r][s].chunks = sent[r][s].chunks
          <6>1. ~sent[r][s].done
            BY <1>3, <4>2 DEF SendsFacts
          <6>2. Len(l) + have = sent[r][s].chunks
            BY <3>2, <6>1
          <6>3. k = "chunk" => ~sent'[r][s].done /\ sent'[r][s].chunks = sent[r][s].chunks + 1
            BY <1>3, <6>1 DEF SendsFacts
          <6>4. k = "done" => sent'[r][s].done /\ sent'[r][s].chunks = sent[r][s].chunks
            BY <1>3, <1>4 DEF SendsFacts
          <6> QED BY <6>2, <6>3, <6>4
        <5>2. Len(l) \in Nat /\ have \in Nat /\ sent[r][s].chunks \in Nat
          BY <1>4, <1>10, <3>1
        <5> HIDE DEF have, l
        <5> QED BY <4>2, <5>1, <5>2
      <4> QED BY <4>1, <4>2 DEF Kinds
    <3> QED BY <1>6, <1>10, <3>3, <3>4 DEF RestOK
  <2> QED BY <2>1, <2>2
<1> QED BY <1>2, <1>7, <1>8, <1>12, <1>13, <1>14, OneLane DEF LaneGood

\* the scheduler is given the next item of a stream, or the request is failed
GivesItem(r, s, item) ==
  \/ inbox' = inbox /\ r \in aborted'
  \/ r \notin aborted /\ inbox' = [inbox EXCEPT ![r][s] = Append(@, item)]

LEMMA ItemEffect ==
  ASSUME NEW r \in Requests, NEW s \in Upstream, NEW item, TakeItem(r, s, item)
  PROVE  MarksStay /\ life' = life /\ GivesItem(r, s, item)
BY DEF TakeItem, Dropped, FailStream, HandlerFails, SendFailure, RecordAborted, stateVars, workVars,
       MarksStay, GivesItem

LEMMA PayloadEffect ==
  ASSUME NEW r \in Requests, NEW s \in Upstream, TakePayload(r, s)
  PROVE  /\ UNCHANGED <<aborted, purged, inbox>>
         /\ life' \in {life, "closing"}
BY DEF TakePayload, AcceptPayload, Dropped, stateVars, workVars

LEMMA FailureEffect ==
  ASSUME NEW r \in Requests, NEW s, NEW k, TakeFailure(r, s, k)
  PROVE  MarksStay /\ life' = life /\ inbox' = inbox /\ r \in aborted'
BY DEF TakeFailure, Dropped, FailStream, HandlerFails, SendFailure, RecordAborted, stateVars,
       workVars,
       MarksStay

\* The next item of a stream goes behind what the scheduler has.
LEMMA PrefixAppend ==
  ASSUME NEW r \in Requests, NEW s \in Upstream, NEW item \in Item, inbox[r][s] \in Seq(Item),
         PrefixOK(r, s), inbox'[r][s] = Append(inbox[r][s], item),
         \A i \in 1..Len(inbox[r][s]) : inbox[r][s][i].k = "chunk",
         item.n = Len(inbox[r][s]),
         item.k = "done" => sent'[r][s].done /\ item.n = sent'[r][s].chunks
  PROVE  PrefixOK(r, s)'
<1> DEFINE q == inbox[r][s]
<1>1. /\ Len(inbox'[r][s]) = Len(q) + 1 /\ Len(q) \in Nat
      /\ inbox'[r][s][Len(q) + 1] = item
      /\ \A i \in 1..Len(q) : inbox'[r][s][i] = q[i]
  OBVIOUS
<1> SUFFICES ASSUME NEW i \in 1..(Len(q) + 1)
             PROVE  IF inbox'[r][s][i].k = "chunk"
                    THEN inbox'[r][s][i].n = i - 1
                    ELSE i = Len(q) + 1 /\ i - 1 = sent'[r][s].chunks /\ sent'[r][s].done
  BY <1>1 DEF PrefixOK
<1>2. CASE i \in 1..Len(q)
  BY <1>1, <1>2 DEF PrefixOK
<1>3. CASE i = Len(q) + 1
  BY <1>1, <1>3 DEF Item
<1> QED BY <1>1, <1>2, <1>3

\* Sending more does not change what a prefix is.
LEMMA PrefixKept ==
  ASSUME LaneTypeOK, NEW r \in Requests, NEW s \in Upstream, NEW k \in Kinds,
         SendsFacts(r, s, k), inbox'[r][s] = inbox[r][s], PrefixOK(r, s)
  PROVE  PrefixOK(r, s)'
<1>1. sent[r][s].chunks \in Nat /\ inbox[r][s] \in Seq(Item)
  BY DEF LaneTypeOK
<1> QED BY <1>1 DEF PrefixOK, SendsFacts, Item, Kinds

\* A message comes from a stage in the same process (receive_local_payload,
\* receive_local_stream_chunk).
LEMMA LaneLocal ==
  ASSUME LaneInv, NEW r \in Requests, NEW s \in Upstream, NEW k \in Kinds, ArriveLocal(r, s, k)
  PROVE  LaneInv'
<1> DEFINE item == [k |-> k, n |-> sent[r][s].chunks]
<1>1. LoopRuns /\ s \in Local /\ lane' = lane /\ owed' = owed
  BY DEF ArriveLocal
<1>2. SendsFacts(r, s, k) /\ sent' \in [Requests -> [Upstream -> [chunks : Nat, done : BOOLEAN, payload : BOOLEAN]]]
      /\ \A a \in Requests, b \in Upstream : <<a, b>> # <<r, s>> => sent'[a][b] = sent[a][b]
  BY SendsNotes DEF ArriveLocal, LaneInv
<1>3. /\ lane[r][s] \in Seq(Task) /\ sent[r][s].chunks \in Nat
      /\ inbox[r][s] \in Seq(Item)
  BY DEF LaneInv, LaneTypeOK
<1>4. LaneGood(r, s)
  BY DEF LaneInv, LaneGood
<1>5. Len(lane[r][s]) = 0
  <2>1. \A i \in 1..Len(lane[r][s]) : FALSE
    BY <1>1, <1>2, <1>4 DEF LaneGood, LaneOK, SendsFacts
  <2> QED BY <1>3, <2>1
<1>6. LaneOK(r, s)'
  BY <1>1, <1>5 DEF LaneOK
<1>7. LoopEnds
  BY <1>1 DEF LoopEnds
<1>8. AckedOK(r, s)'
  BY <1>1, <1>4 DEF LaneGood, AckedOK
<1>9. CASE inbox' = inbox /\ MarksStay /\ (k = "payload" \/ r \in aborted')
  <2>1. LaneTypeOK' /\ Elsewhere(r, s)
    BY <1>1, <1>2, <1>9 DEF LaneInv, LaneTypeOK, Elsewhere, LaneSame
  <2>2. r \notin purged' => PrefixOK(r, s)'
    BY <1>2, <1>4, <1>9, PrefixKept DEF LaneInv, LaneGood, StreamOK, MarksStay
  <2>3. k = "payload" => RestOK(r, s)'
    BY <1>1, <1>2, <1>5 DEF RestOK, SendsFacts
  <2>4. StreamOK(r, s)'
    BY <1>9, <2>2, <2>3 DEF StreamOK
  <2> QED BY <1>6, <1>7, <1>8, <1>9, <2>1, <2>4, OneLane DEF LaneGood
<1>10. CASE /\ k # "payload" /\ MarksStay /\ r \notin aborted
            /\ inbox' = [inbox EXCEPT ![r][s] = Append(@, item)]
  <2>1. item \in Item
    BY <1>3, <1>10 DEF Item, Kinds
  <2>2. inbox' \in [Requests -> [Upstream -> Seq(Item)]] /\ inbox'[r][s] = Append(inbox[r][s], item)
    BY <1>10, <2>1 DEF LaneInv, LaneTypeOK
  <2>3. LaneTypeOK' /\ Elsewhere(r, s)
    BY <1>1, <1>2, <1>10, <2>2 DEF LaneInv, LaneTypeOK, Elsewhere, LaneSame
  <2>4. ASSUME r \notin purged'
        PROVE  PrefixOK(r, s)' /\ RestOK(r, s)'
    <3>1. r \notin purged /\ PrefixOK(r, s) /\ RestOK(r, s)
      BY <1>1, <1>4, <1>10, <2>4 DEF LaneGood, StreamOK, MarksStay
    <3>2. ~sent[r][s].done /\ Len(inbox[r][s]) \in Nat /\ sent[r][s].chunks = Len(inbox[r][s])
      BY <1>2, <1>3, <1>5, <1>10, <3>1 DEF SendsFacts, RestOK, Kinds
    <3>3. \A i \in 1..Len(inbox[r][s]) : inbox[r][s][i].k = "chunk"
      BY <3>1, <3>2 DEF PrefixOK
    <3>4. item.k = k /\ item.n = sent[r][s].chunks
      OBVIOUS
    <3>5. item.k = "done" => sent'[r][s].done /\ item.n = sent'[r][s].chunks
      BY <1>2, <1>3, <3>4 DEF SendsFacts
    <3>6. PrefixOK(r, s)'
      BY <1>3, <2>1, <2>2, <3>1, <3>2, <3>3, <3>4, <3>5, PrefixAppend
    <3>7. Len(inbox'[r][s]) = sent[r][s].chunks + 1
      BY <1>3, <2>1, <2>2, <3>2
    <3>8. /\ k = "chunk" => ~sent'[r][s].done /\ sent'[r][s].chunks = sent[r][s].chunks + 1
          /\ k = "done" => sent'[r][s].done /\ sent'[r][s].chunks = sent[r][s].chunks
      <4>1. k = "chunk" => ~sent'[r][s].done /\ sent'[r][s].chunks = sent[r][s].chunks + 1
        BY <1>2, <3>2 DEF SendsFacts
      <4>2. k = "done" => sent'[r][s].done /\ sent'[r][s].chunks = sent[r][s].chunks
        BY <1>2, <1>3 DEF SendsFacts
      <4> QED BY <4>1, <4>2
    <3>9. Len(lane'[r][s]) = 0 /\ k \in {"chunk", "done"}
      BY <1>1, <1>5, <1>10 DEF Kinds
    <3>10. RestOK(r, s)'
      BY <1>3, <3>7, <3>8, <3>9 DEF RestOK
    <3> QED BY <3>6, <3>10
  <2>5. StreamOK(r, s)'
    BY <2>4 DEF StreamOK
  <2> QED BY <1>6, <1>7, <1>8, <1>10, <2>3, <2>5, OneLane DEF LaneGood
<1>11. CASE k = "payload"
  BY <1>9, <1>11, PayloadEffect DEF ArriveLocal, MarksStay
<1>12. CASE k # "payload"
  BY <1>9, <1>10, <1>12, ItemEffect DEF ArriveLocal, GivesItem
<1> QED BY <1>11, <1>12

\* A task changes its state; what it has to do with its data and with the
\* stream stays the same.
LEMMA LaneSet ==
  ASSUME LaneInv, NEW r \in Requests, NEW s \in Upstream, NEW i \in 1..Len(lane[r][s]), NEW st,
         SetTask(r, s, i, st), [lane[r][s][i] EXCEPT !.st = st] \in Task,
         MarksStay, LoopEnds, UNCHANGED <<sent, inbox>>, owed' \in [Requests -> [Upstream -> Int]],
         \A a \in Requests, b \in Upstream : <<a, b>> # <<r, s>> => owed'[a][b] = owed[a][b],
         st \in {"reading", "discarding"} => lane[r][s][i].via = "relay",
         st \in {"discarding", "settled"} => r \in aborted' \cup purged',
         LoopRuns' => owed'[r][s] = Cardinality(Unacked([lane[r][s] EXCEPT ![i].st = st]))
  PROVE  LaneInv'
<1> DEFINE l == lane[r][s]
           m == [l EXCEPT ![i].st = st]
<1>1. l \in Seq(Task) /\ l[i] \in Task
  BY DEF LaneInv, LaneTypeOK
<1>2. m \in Seq(Task) /\ Len(m) = Len(l)
  BY <1>1
<1>3. \A j \in 1..Len(l) : m[j].k = l[j].k /\ m[j].n = l[j].n /\ m[j].via = l[j].via /\ (j # i => m[j] = l[j])
  BY <1>1 DEF Task
<1>4. m[i].st = st
  BY <1>1 DEF Task
<1>5. lane' = [lane EXCEPT ![r][s] = m]
  BY DEF SetTask, LaneInv, LaneTypeOK
<1> HIDE DEF m
<1>6. lane' \in [Requests -> [Upstream -> Seq(Task)]] /\ lane'[r][s] = m
  BY <1>2, <1>5 DEF LaneInv, LaneTypeOK
<1>7. LaneTypeOK' /\ Elsewhere(r, s)
  BY <1>5, <1>6 DEF LaneInv, LaneTypeOK, Elsewhere, LaneSame
<1>8. LaneGood(r, s)
  BY DEF LaneInv, LaneGood
<1>9. LaneOK(r, s)'
  <2> SUFFICES ASSUME NEW j \in 1..Len(l)
               PROVE  /\ m[j].k = "done" => m[j].via = "direct"
                      /\ m[j].st \in {"reading", "discarding"} => m[j].via = "relay"
                      /\ m[j].st \in {"discarding", "settled"} => r \in aborted' \cup purged'
                      /\ s \in Local => m[j].k = "payload"
                      /\ m[j].k = "payload" => sent[r][s].payload /\ j = Len(l)
    BY <1>2, <1>6 DEF LaneOK, TaskOK
  <2>1. TaskOK(r, l[j]) /\ (s \in Local => l[j].k = "payload")
        /\ (l[j].k = "payload" => sent[r][s].payload /\ j = Len(l))
    BY <1>8 DEF LaneGood, LaneOK
  <2>2. CASE j = i
    BY <1>3, <1>4, <2>1, <2>2 DEF TaskOK
  <2>3. CASE j # i
    BY <1>3, <2>1, <2>3 DEF TaskOK, MarksStay
  <2> QED BY <2>2, <2>3
<1>10. AckedOK(r, s)'
  BY <1>6 DEF AckedOK, m
<1>11. StreamOK(r, s)'
  <2>1. PrefixOK(r, s) => PrefixOK(r, s)'
    BY DEF PrefixOK
  <2>2. ASSUME RestOK(r, s) PROVE RestOK(r, s)'
    <3>1. /\ Len(lane'[r][s]) = Len(l) /\ sent'[r][s] = sent[r][s] /\ inbox'[r][s] = inbox[r][s]
          /\ \A j \in 1..Len(l) : lane'[r][s][j].k = l[j].k /\ lane'[r][s][j].n = l[j].n
      BY <1>2, <1>3, <1>6
    <3> QED BY <2>2, <3>1 DEF RestOK
  <2> QED BY <1>8, <2>1, <2>2 DEF LaneGood, StreamOK, MarksStay, LoopEnds
<1> QED BY <1>7, <1>9, <1>10, <1>11, OneLane DEF LaneGood

\* A handler begins (_on_data_ready, _on_stream_chunk, _on_stream_signal).
LEMMA LaneStart ==
  ASSUME LaneInv, NEW r \in Requests, NEW s \in Upstream, NEW i \in 1..Len(lane[r][s]),
         NEW ok \in BOOLEAN, StartTask(r, s, i, ok)
  PROVE  LaneInv'
<1> DEFINE t == lane[r][s][i]
<1>1. lane[r][s] \in Seq(Task) /\ t \in Task /\ LaneGood(r, s)
  BY DEF LaneInv, LaneTypeOK, LaneGood
<1>2. /\ LoopRuns /\ t.st = "new" /\ UNCHANGED <<sent, owed, aborted, purged, inbox>>
  BY DEF StartTask, workVars
<1>3. MarksStay /\ LoopEnds /\ owed' \in [Requests -> [Upstream -> Int]]
  BY <1>2 DEF MarksStay, LoopEnds, LaneInv, LaneTypeOK
<1>4. PICK st \in {"reading", "discarding", "read", "failed", "settled"} :
        /\ SetTask(r, s, i, st)
        /\ st \in {"reading", "discarding"} => t.via = "relay"
        /\ st \in {"read", "failed", "settled"} => t.via # "relay"
        /\ st \in {"discarding", "settled"} => r \in aborted
  <2>1. CASE t.k = "done"
    BY <1>1, <2>1 DEF StartTask, LaneGood, LaneOK, TaskOK
  <2>2. CASE t.k # "done" /\ t.via = "relay"
    BY <2>2 DEF StartTask
  <2>3. CASE t.k # "done" /\ t.via = "direct"
    BY <2>3 DEF StartTask
  <2> QED BY <1>1, <2>1, <2>2, <2>3 DEF Task
<1>5. [t EXCEPT !.st = st] \in Task
  BY <1>1 DEF Task
<1>6. Unacked([lane[r][s] EXCEPT ![i].st = st]) = Unacked(lane[r][s])
  <2>1. t.via # "relay" \/ (t.st \in Unread /\ st \in Unread)
    BY <1>2, <1>4 DEF Unread
  <2> QED BY <1>1, <2>1, UnackedSet
<1>7. owed'[r][s] = Cardinality(Unacked([lane[r][s] EXCEPT ![i].st = st]))
  BY <1>1, <1>2, <1>6 DEF LaneGood, AckedOK
<1> QED BY <1>2, <1>3, <1>4, <1>5, <1>7, LaneSet

\* A read ends and is acknowledged.
LEMMA LaneRead ==
  ASSUME LaneInv, NEW r \in Requests, NEW s \in Upstream, NEW i \in 1..Len(lane[r][s]),
         NEW ok \in BOOLEAN, ReadEnds(r, s, i, ok)
  PROVE  LaneInv'
<1> DEFINE t == lane[r][s][i]
<1>1. lane[r][s] \in Seq(Task) /\ t \in Task /\ LaneGood(r, s) /\ owed[r][s] \in Int
  BY DEF LaneInv, LaneTypeOK, LaneGood
<1>2. /\ LoopRuns /\ t.st \in {"reading", "discarding"}
      /\ UNCHANGED <<life, sent, aborted, purged, inbox>>
      /\ owed' = [owed EXCEPT ![r][s] = @ - 1]
  BY DEF ReadEnds, workVars, stateVars
<1>3. MarksStay /\ LoopEnds /\ owed' \in [Requests -> [Upstream -> Int]]
      /\ owed'[r][s] = owed[r][s] - 1
      /\ \A a \in Requests, b \in Upstream : <<a, b>> # <<r, s>> => owed'[a][b] = owed[a][b]
  BY <1>1, <1>2 DEF MarksStay, LoopEnds, LaneInv, LaneTypeOK
<1>4. t.via = "relay" /\ (t.st = "discarding" => r \in aborted \cup purged)
  BY <1>1, <1>2 DEF LaneGood, LaneOK, TaskOK
<1>5. PICK st \in {"read", "failed", "settled"} :
        SetTask(r, s, i, st) /\ (st = "settled" => r \in aborted \cup purged)
  BY <1>4 DEF ReadEnds
<1>6. [t EXCEPT !.st = st] \in Task
  BY <1>1 DEF Task
<1>7. i \in Unacked(lane[r][s]) /\ st \notin Unread
  BY <1>2, <1>4, <1>5 DEF Unacked, Unread
<1>8. owed'[r][s] = Cardinality(Unacked([lane[r][s] EXCEPT ![i].st = st]))
  BY <1>1, <1>2, <1>3, <1>7, UnackedRead DEF LaneGood, AckedOK
<1>9. st \notin {"reading", "discarding"} /\ (st \in {"discarding", "settled"} => r \in aborted' \cup purged')
  BY <1>2, <1>5
<1>10. SetTask(r, s, i, st) /\ UNCHANGED <<sent, inbox>>
  BY <1>2, <1>5
<1> QED BY <1>3, <1>6, <1>8, <1>9, <1>10, LaneSet

\* A cancelled task leaves its finally block.
LEMMA LaneUnwind ==
  ASSUME LaneInv, NEW r \in Requests, NEW s \in Upstream, NEW i \in 1..Len(lane[r][s]),
         Unwind(r, s, i)
  PROVE  LaneInv'
<1>1. lane[r][s][i] \in Task
  BY DEF LaneInv, LaneTypeOK
<1>2. [lane[r][s][i] EXCEPT !.st = "over"] \in Task
  BY <1>1 DEF Task
<1>3. ~LoopRuns /\ SetTask(r, s, i, "over") /\ UNCHANGED <<life, sent, owed, aborted, purged, inbox>>
  BY DEF Unwind, LoopRuns, workVars, stateVars
<1>4. MarksStay /\ LoopEnds /\ ~LoopRuns' /\ owed' \in [Requests -> [Upstream -> Int]]
  BY <1>3 DEF MarksStay, LoopEnds, LoopRuns, LaneInv, LaneTypeOK
<1> QED BY <1>2, <1>3, <1>4, LaneSet

\* The first task of a lane acts and is taken off (_run_receive_task).
LEMMA LaneFinish ==
  ASSUME LaneInv, NEW r \in Requests, NEW s \in Upstream, NEW i \in 1..Len(lane[r][s]),
         FinishTask(r, s, i)
  PROVE  LaneInv'
<1> DEFINE l == lane[r][s]
           t == l[1]
           item == [k |-> t.k, n |-> t.n]
<1>1. /\ LoopRuns /\ i = 1 /\ UNCHANGED <<sent, owed>>
      /\ lane' = [lane EXCEPT ![r][s] = SubSeq(l, 1, i - 1) \o SubSeq(l, i + 1, Len(l))]
  BY DEF FinishTask, MyTurn
<1>2. l \in Seq(Task) /\ l # <<>> /\ t \in Task /\ Len(l) \in Nat /\ Len(l) > 0
      /\ inbox[r][s] \in Seq(Item) /\ LaneGood(r, s)
  BY DEF LaneInv, LaneTypeOK, LaneGood
<1>3. lane' = [lane EXCEPT ![r][s] = Tail(l)]
  BY <1>1, <1>2, PopIsTail
<1>4. /\ Tail(l) \in Seq(Task) /\ Len(Tail(l)) = Len(l) - 1
      /\ \A j \in 1..(Len(l) - 1) : Tail(l)[j] = l[j + 1]
  BY <1>2
<1>5. lane' \in [Requests -> [Upstream -> Seq(Task)]] /\ lane'[r][s] = Tail(l)
  BY <1>3, <1>4 DEF LaneInv, LaneTypeOK
<1>6. t.st \in AtPredecessor
  BY <1>1 DEF FinishTask, AtPredecessor
<1>7. LoopEnds
  BY <1>1 DEF LoopEnds
<1>8. AckedOK(r, s)'
  <2>1. 1 \notin Unacked(l)
    BY <1>6 DEF Unacked, Unread, AtPredecessor
  <2> QED BY <1>1, <1>2, <1>5, <2>1, UnackedTail DEF LaneGood, AckedOK
<1>9. ASSUME MarksStay PROVE LaneOK(r, s)'
  <2> SUFFICES ASSUME NEW j \in 1..(Len(l) - 1)
               PROVE  /\ l[j + 1].k = "done" => l[j + 1].via = "direct"
                      /\ l[j + 1].st \in {"reading", "discarding"} => l[j + 1].via = "relay"
                      /\ l[j + 1].st \in {"discarding", "settled"} => r \in aborted' \cup purged'
                      /\ s \in Local => l[j + 1].k = "payload"
                      /\ l[j + 1].k = "payload" => sent[r][s].payload /\ j = Len(l) - 1
    BY <1>1, <1>4, <1>5 DEF LaneOK, TaskOK
  <2>1. j + 1 \in 1..Len(l) /\ j \in Nat
    BY <1>2
  <2>2. TaskOK(r, l[j + 1]) /\ (s \in Local => l[j + 1].k = "payload")
        /\ (l[j + 1].k = "payload" => sent[r][s].payload /\ j + 1 = Len(l))
    BY <1>2, <2>1 DEF LaneGood, LaneOK
  <2> HIDE DEF l
  <2> QED BY <1>2, <1>9, <2>1, <2>2 DEF TaskOK, MarksStay
<1>10. CASE inbox' = inbox /\ MarksStay /\ (t.k = "payload" \/ r \in aborted' \cup purged')
  <2>1. LaneTypeOK' /\ Elsewhere(r, s)
    BY <1>1, <1>3, <1>5, <1>10 DEF LaneInv, LaneTypeOK, Elsewhere, LaneSame
  <2>2. r \notin purged' => PrefixOK(r, s)'
    BY <1>1, <1>2, <1>10 DEF LaneGood, StreamOK, PrefixOK, MarksStay
  <2>3. t.k = "payload" => RestOK(r, s)'
    <3> SUFFICES ASSUME t.k = "payload" PROVE RestOK(r, s)'
      OBVIOUS
    <3>1. sent[r][s].payload /\ Len(l) = 1
      <4>1. 1 \in 1..Len(l)
        BY <1>2
      <4> QED BY <1>2, <4>1 DEF LaneGood, LaneOK
    <3>2. Len(lane'[r][s]) = 0
      BY <1>4, <1>5, <3>1
    <3> QED BY <1>1, <3>1, <3>2 DEF RestOK
  <2>4. StreamOK(r, s)'
    BY <1>10, <2>2, <2>3 DEF StreamOK
  <2> QED BY <1>7, <1>8, <1>9, <1>10, <2>1, <2>4, OneLane DEF LaneGood
<1>11. CASE /\ t.k # "payload" /\ MarksStay /\ r \notin aborted
            /\ inbox' = [inbox EXCEPT ![r][s] = Append(@, item)]
  <2>1. item \in Item /\ item.k = t.k /\ item.n = t.n /\ t.k \in {"chunk", "done"}
    BY <1>2, <1>11 DEF Item, Task, Kinds
  <2> HIDE DEF item
  <2>2. inbox' \in [Requests -> [Upstream -> Seq(Item)]] /\ inbox'[r][s] = Append(inbox[r][s], item)
    BY <1>11, <2>1 DEF LaneInv, LaneTypeOK
  <2>3. LaneTypeOK' /\ Elsewhere(r, s)
    <3>1. LaneTypeOK'
      BY <1>1, <1>5, <2>2 DEF LaneInv, LaneTypeOK
    <3>2. ASSUME NEW a \in Requests, NEW b \in Upstream, <<a, b>> # <<r, s>>
          PROVE  lane'[a][b] = lane[a][b] /\ inbox'[a][b] = inbox[a][b]
      BY <1>3, <1>11, <3>2 DEF LaneInv, LaneTypeOK
    <3> QED BY <1>1, <3>1, <3>2 DEF Elsewhere, LaneSame
  <2>4. ASSUME r \notin purged'
        PROVE  PrefixOK(r, s)' /\ RestOK(r, s)'
    <3> DEFINE have == Len(inbox[r][s])
    <3>1. r \notin purged /\ PrefixOK(r, s) /\ RestOK(r, s)
      BY <1>1, <1>2, <1>11, <2>4 DEF LaneGood, StreamOK, MarksStay
    <3>2. have \in Nat /\ sent[r][s].chunks \in Nat
      BY <1>2 DEF LaneInv, LaneTypeOK
    <3>3. /\ t.n = have
          /\ t.k = "done" => sent[r][s].done /\ t.n = sent[r][s].chunks
          /\ t.k = "chunk" => t.n < sent[r][s].chunks
      <4>1. 1 \in 1..Len(l) /\ have + 1 - 1 = have
        BY <1>2, <3>2
      <4> QED BY <2>1, <3>1, <4>1 DEF RestOK
    <3>4. \A j \in 1..have : inbox[r][s][j].k = "chunk"
      <4>1. have <= sent[r][s].chunks
        BY <2>1, <3>2, <3>3
      <4> QED BY <3>1, <3>2, <4>1 DEF PrefixOK
    <3>5. PrefixOK(r, s)'
      BY <1>1, <1>2, <2>1, <2>2, <3>1, <3>3, <3>4, PrefixAppend
    <3>6. Len(inbox'[r][s]) = have + 1
      BY <1>2, <2>1, <2>2
    <3>7. ASSUME NEW j \in 1..(Len(l) - 1), l[j + 1].k \in {"chunk", "done"}
          PROVE  /\ l[j + 1].n = (have + 1) + j - 1
                 /\ l[j + 1].k = "done" => sent[r][s].done /\ l[j + 1].n = sent[r][s].chunks
                 /\ l[j + 1].k = "chunk" => l[j + 1].n < sent[r][s].chunks
      <4>1. j + 1 \in 1..Len(l) /\ have + (j + 1) - 1 = (have + 1) + j - 1
        BY <1>2, <3>2
      <4> QED BY <3>1, <3>7, <4>1 DEF RestOK
    <3>8. /\ ~sent[r][s].payload /\ sent[r][s].done => (Len(l) - 1) + (have + 1) = sent[r][s].chunks + 1
          /\ ~sent[r][s].payload /\ ~sent[r][s].done => (Len(l) - 1) + (have + 1) = sent[r][s].chunks
      <4>1. \A x, y \in Nat : (x - 1) + (y + 1) = x + y
        OBVIOUS
      <4>2. (Len(l) - 1) + (have + 1) = Len(l) + have
        BY <1>2, <3>2, <4>1
      <4> QED BY <3>1, <4>2 DEF RestOK
    <3>9. RestOK(r, s)'
      <4>1. /\ sent'[r][s] = sent[r][s] /\ Len(lane'[r][s]) = Len(l) - 1
            /\ \A j \in 1..(Len(l) - 1) : lane'[r][s][j] = l[j + 1]
        BY <1>1, <1>4, <1>5
      <4> HIDE DEF l, have
      <4>2. \A j \in 1..Len(lane'[r][s]) :
              lane'[r][s][j].k \in {"chunk", "done"} =>
                /\ lane'[r][s][j].n = Len(inbox'[r][s]) + j - 1
                /\ lane'[r][s][j].k = "done" => sent'[r][s].done /\ lane'[r][s][j].n = sent'[r][s].chunks
                /\ lane'[r][s][j].k = "chunk" => lane'[r][s][j].n < sent'[r][s].chunks
        BY <3>6, <3>7, <4>1
      <4> QED BY <3>6, <3>8, <4>1, <4>2 DEF RestOK
    <3> QED BY <3>5, <3>9
  <2>5. StreamOK(r, s)'
    BY <2>4 DEF StreamOK
  <2> QED BY <1>7, <1>8, <1>9, <1>11, <2>3, <2>5, OneLane DEF LaneGood
<1>12. CASE t.st = "settled" /\ Dropped
  <2>1. r \in aborted \cup purged
    BY <1>2, <1>12 DEF LaneGood, LaneOK, TaskOK
  <2>2. UNCHANGED <<inbox, aborted, purged>>
    BY <1>12 DEF Dropped, stateVars, workVars
  <2> QED BY <1>10, <2>1, <2>2 DEF MarksStay
<1>13. CASE TakeFailure(r, s, t.k)
  BY <1>10, <1>13, FailureEffect
<1>14. CASE t.k = "payload" /\ TakePayload(r, s)
  BY <1>10, <1>14, PayloadEffect DEF MarksStay
<1>15. CASE t.k # "payload" /\ TakeItem(r, s, item)
  BY <1>10, <1>11, <1>15, ItemEffect DEF GivesItem
<1> QED BY <1>1, <1>12, <1>13, <1>14, <1>15 DEF FinishTask

\* what cancelling leaves of a task
Stopped(t) == {[t EXCEPT !.st = "unwinding"], [t EXCEPT !.st = "dead"]}

\* what cancelling does to the tasks of a lane
LEMMA CancelAll ==
  ASSUME NEW l \in Seq(Task), NEW m, m = [i \in 1..Len(l) |-> m[i]],
         \A i \in 1..Len(l) : m[i] \in Stopped(l[i])
  PROVE  /\ m \in Seq(Task) /\ Len(m) = Len(l)
         /\ \A i \in 1..Len(l) : m[i].st \in {"unwinding", "dead"}
                                  /\ m[i].k = l[i].k /\ m[i].via = l[i].via
<1>1. ASSUME NEW i \in 1..Len(l)
      PROVE  m[i] \in Task /\ m[i].st \in {"unwinding", "dead"}
             /\ m[i].k = l[i].k /\ m[i].via = l[i].via
  <2>1. l[i] \in Task
    OBVIOUS
  <2>2. m[i] = [l[i] EXCEPT !.st = "unwinding"] \/ m[i] = [l[i] EXCEPT !.st = "dead"]
    BY DEF Stopped
  <2> QED BY <2>1, <2>2 DEF Task
<1>2. Len(l) \in Nat
  OBVIOUS
<1> QED BY <1>1, <1>2

LEMMA StopCancels ==
  ASSUME StopBegins, LaneInv, NEW r \in Requests, NEW s \in Upstream
  PROVE  /\ lane'[r][s] \in Seq(Task) /\ Len(lane'[r][s]) = Len(lane[r][s])
         /\ \A i \in 1..Len(lane[r][s]) :
              /\ lane'[r][s][i].st \in {"unwinding", "dead"}
              /\ lane'[r][s][i].k = lane[r][s][i].k /\ lane'[r][s][i].via = lane[r][s][i].via
<1> DEFINE l == lane[r][s]
           m == lane'[r][s]
<1>1. l \in Seq(Task)
  BY DEF LaneInv, LaneTypeOK
<1>2. m = [i \in 1..Len(l) |-> Cancelled(l[i], MyTurn(r, s, i))]
  BY DEF StopBegins
<1>3. ASSUME NEW i \in 1..Len(l)
      PROVE  m[i] \in Stopped(l[i])
  <2>1. m[i] = Cancelled(l[i], MyTurn(r, s, i))
    BY <1>2, Zenon
  <2> QED BY <2>1 DEF Cancelled, MyTurn, Stopped
<1>4. m = [i \in 1..Len(l) |-> m[i]]
  BY <1>2, Zenon
<1> HIDE DEF l, m
<1>5. /\ m \in Seq(Task) /\ Len(m) = Len(l)
      /\ \A i \in 1..Len(l) : m[i].st \in {"unwinding", "dead"}
                               /\ m[i].k = l[i].k /\ m[i].via = l[i].via
  BY <1>1, <1>3, <1>4, CancelAll
<1> QED BY <1>5 DEF l, m

\* stop() cancels the tasks, and gather() returns.
LEMMA LaneStop ==
  ASSUME LaneInv, StopBegins \/ StopEnds
  PROVE  LaneInv'
<1>1. UNCHANGED <<sent, owed, inbox, aborted, purged>> /\ ~LoopRuns'
  BY DEF StopBegins, StopEnds, LoopRuns, stateVars, workVars
<1>2. ASSUME NEW r \in Requests, NEW s \in Upstream
      PROVE  AckedOK(r, s)' /\ StreamOK(r, s)'
  BY <1>1 DEF AckedOK, StreamOK, PrefixOK, LaneInv
<1>3. CASE StopBegins
  <2>1. lane' \in [Requests -> [Upstream -> Seq(Task)]]
    <3>1. \A r \in Requests, s \in Upstream : lane'[r][s] \in Seq(Task)
      BY <1>3, StopCancels
    <3>2. lane' = [r \in Requests |-> [s \in Upstream |-> lane'[r][s]]]
      BY <1>3, Zenon DEF StopBegins
    <3> QED BY <3>1, <3>2
  <2>2. ASSUME NEW r \in Requests, NEW s \in Upstream
        PROVE  LaneOK(r, s)'
    <3>1. lane[r][s] \in Seq(Task) /\ LaneOK(r, s)
      BY DEF LaneInv, LaneTypeOK
    <3> QED BY <1>1, <1>3, <3>1, StopCancels DEF LaneOK, TaskOK
  <2> QED BY <1>1, <1>2, <2>1, <2>2 DEF LaneInv, LaneTypeOK
<1>4. CASE StopEnds
  <2>1. lane' = [r \in Requests |-> [s \in Upstream |-> <<>>]]
    BY <1>4 DEF StopEnds, PerLane
  <2>2. \A r \in Requests, s \in Upstream : LaneOK(r, s)'
    BY <2>1 DEF LaneOK
  <2>3. lane' \in [Requests -> [Upstream -> Seq(Task)]]
    BY <2>1
  <2> QED BY <1>1, <1>2, <2>2, <2>3 DEF LaneInv, LaneTypeOK
<1> QED BY <1>3, <1>4

\* Every step keeps the lanes as they should be.
LEMMA LaneStep ==
  ASSUME LaneInv, MarksStay, [Next]_vars
  PROVE  LaneInv'
<1>1. CASE UNCHANGED <<life, laneVars, inbox>>
  BY <1>1, LaneFrame DEF LoopEnds, LoopRuns
<1>2. CASE UNCHANGED vars
  BY <1>1, <1>2 DEF vars, workVars
<1>3. ASSUME NEW r \in Requests, NEW s \in Upstream,
             Receiving(r, s) \/ TaskStep(r, s) \/ Reported(r, s)
      PROVE  LaneInv'
  <2>1. CASE Reported(r, s)
    BY <1>1, <2>1 DEF Reported, workVars
  <2> QED BY <1>3, <2>1, LaneArrive, LaneLocal, LaneStart, LaneRead, LaneFinish, LaneUnwind
          DEF Receiving, TaskStep
<1>4. ASSUME NEW r \in Requests, WorkStep(r)
      PROVE  LaneInv'
  BY <1>1, <1>4 DEF WorkStep, OnAbort, PurgeAborted, SchedulerAnswers, workVars
<1>5. ASSUME NEW r \in Requests, RouteStep(r)
      PROVE  LaneInv'
  <2>1. UNCHANGED <<laneVars, inbox>> /\ LoopEnds
    BY <1>5 DEF RouteStep, ReportSuccess, ReportSent, RouteEnds, workVars, LoopEnds, LoopRuns
  <2> QED BY <2>1, LaneFrame
<1>6. CASE DrainOutbox
  BY <1>1, <1>6 DEF DrainOutbox, workVars
<1>7. CASE Shutdown \/ SchedulerCrashes \/ CrashStep
  <2>1. UNCHANGED <<laneVars, inbox>> /\ LoopEnds
    BY <1>7 DEF Shutdown, SchedulerCrashes, CrashStep, CrashListed, CrashFails, CrashReported,
                CrashHandlerEnds, workVars, LoopEnds, LoopRuns
  <2> QED BY <2>1, LaneFrame
<1> QED BY <1>2, <1>3, <1>4, <1>5, <1>6, <1>7, LaneStop DEF Next
-----------------------------------------------------------------------------
(* The fan-in.                                                             *)

\* A stage in the same process has nothing in its lane before its payload.
LEMMA LocalLaneEmpty ==
  ASSUME LaneInv, NEW r \in Requests, NEW s \in Upstream, s \in Local, ~sent[r][s].payload
  PROVE  \A i \in 1..Len(lane[r][s]) : FALSE
BY DEF LaneInv, LaneOK

UsedStays == \A r \in Requests, s \in Upstream : Used(r, s) => Used(r, s)'

\* A payload that has been used is not sent again.
LEMMA UsedOnce ==
  ASSUME LaneInv, [Next]_vars
  PROVE  UsedStays
<1>1. CASE UNCHANGED laneVars
  BY <1>1 DEF laneVars, UsedStays, Used
<1>2. ASSUME NEW r \in Requests, NEW s \in Upstream, NEW k \in Kinds, Sends(r, s, k),
             \A a \in Requests, b \in Upstream : <<a, b>> # <<r, s>> => lane'[a][b] = lane[a][b]
      PROVE  UsedStays
  <2>1. ~sent[r][s].payload
    BY <1>2 DEF Sends
  <2>2. \A a \in Requests, b \in Upstream : <<a, b>> # <<r, s>> => sent'[a][b] = sent[a][b]
    BY <1>2, SendsNotes DEF LaneInv
  <2> QED BY <1>2, <2>1, <2>2 DEF UsedStays, Used
<1>3. ASSUME NEW r \in Requests, NEW s \in Upstream, NEW i \in 1..Len(lane[r][s]), NEW st,
             SetTask(r, s, i, st), UNCHANGED sent
      PROVE  UsedStays
  <2> DEFINE m == [lane[r][s] EXCEPT ![i].st = st]
  <2>1. lane[r][s] \in Seq(Task) /\ lane[r][s][i] \in Task
    BY DEF LaneInv, LaneTypeOK
  <2>2. Len(m) = Len(lane[r][s]) /\ \A j \in 1..Len(m) : m[j].k = lane[r][s][j].k
    BY <2>1 DEF Task
  <2>3. lane' = [lane EXCEPT ![r][s] = m]
    BY <1>3 DEF SetTask, LaneInv, LaneTypeOK
  <2> HIDE DEF m
  <2>4. \A a \in Requests, b \in Upstream : <<a, b>> # <<r, s>> => lane'[a][b] = lane[a][b]
    BY <2>3 DEF LaneInv, LaneTypeOK
  <2>5. lane'[r][s] = m
    BY <2>3 DEF LaneInv, LaneTypeOK
  <2>6. Used(r, s) => Used(r, s)'
    BY <1>3, <2>2, <2>5 DEF Used
  <2>7. \A a \in Requests, b \in Upstream : <<a, b>> # <<r, s>> => (Used(a, b) => Used(a, b)')
    BY <1>3, <2>4 DEF Used
  <2> QED BY <2>6, <2>7 DEF UsedStays
<1>4. ASSUME NEW r \in Requests, NEW s \in Upstream, Receiving(r, s)
      PROVE  UsedStays
  <2>1. ASSUME NEW k \in Kinds, NEW via \in {"relay", "direct"}, Arrive(r, s, k, via)
        PROVE  UsedStays
    <3>1. \A a \in Requests, b \in Upstream : <<a, b>> # <<r, s>> => lane'[a][b] = lane[a][b]
      BY <2>1 DEF Arrive, LaneInv, LaneTypeOK
    <3> QED BY <1>2, <2>1, <3>1 DEF Arrive
  <2>2. ASSUME NEW k \in Kinds, ArriveLocal(r, s, k)
        PROVE  UsedStays
    BY <1>2, <2>2 DEF ArriveLocal
  <2> QED BY <1>4, <2>1, <2>2 DEF Receiving
<1>5. ASSUME NEW r \in Requests, NEW s \in Upstream, TaskStep(r, s)
      PROVE  UsedStays
  <2> PICK i \in 1..Len(lane[r][s]) :
        \/ \E ok \in BOOLEAN : StartTask(r, s, i, ok) \/ ReadEnds(r, s, i, ok)
        \/ FinishTask(r, s, i) \/ Unwind(r, s, i)
    BY <1>5 DEF TaskStep
  <2>1. CASE FinishTask(r, s, i)
    <3>1. lane[r][s] \in Seq(Task) /\ lane[r][s] # <<>> /\ i = 1 /\ UNCHANGED sent
      BY <2>1 DEF LaneInv, LaneTypeOK, FinishTask, MyTurn
    <3>2. lane' = [lane EXCEPT ![r][s] = Tail(lane[r][s])]
      BY <2>1, <3>1, PopIsTail DEF FinishTask
    <3>3. lane'[r][s] = Tail(lane[r][s])
          /\ \A a \in Requests, b \in Upstream : <<a, b>> # <<r, s>> => lane'[a][b] = lane[a][b]
      BY <3>2 DEF LaneInv, LaneTypeOK
    <3>4. \A j \in 1..Len(Tail(lane[r][s])) :
            j + 1 \in 1..Len(lane[r][s]) /\ Tail(lane[r][s])[j] = lane[r][s][j + 1]
      BY <3>1
    <3>5. Used(r, s) => Used(r, s)'
      BY <3>1, <3>3, <3>4 DEF Used
    <3>6. \A a \in Requests, b \in Upstream : <<a, b>> # <<r, s>> => (Used(a, b) => Used(a, b)')
      BY <3>1, <3>3 DEF Used
    <3> QED BY <3>5, <3>6 DEF UsedStays
  <2>2. ASSUME NEW ok \in BOOLEAN, StartTask(r, s, i, ok)
        PROVE  UsedStays
    BY <1>3, <2>2 DEF StartTask
  <2>3. ASSUME NEW ok \in BOOLEAN, ReadEnds(r, s, i, ok)
        PROVE  UsedStays
    BY <1>3, <2>3 DEF ReadEnds
  <2>4. CASE Unwind(r, s, i)
    BY <1>3, <2>4 DEF Unwind
  <2> QED BY <2>1, <2>2, <2>3, <2>4
<1>6. CASE StopBegins
  <2>1. UNCHANGED sent
    BY <1>6 DEF StopBegins
  <2> QED BY <1>6, <2>1, StopCancels DEF UsedStays, Used
<1>7. CASE StopEnds
  BY <1>7 DEF StopEnds, PerLane, UsedStays, Used
<1>8. CASE \/ UNCHANGED vars \/ Shutdown \/ SchedulerCrashes \/ CrashStep
           \/ \E r \in Requests : WorkStep(r) \/ RouteStep(r)
           \/ \E r \in Requests, s \in Upstream : Reported(r, s)
           \/ DrainOutbox
  <2>1. UNCHANGED laneVars
    BY <1>8 DEF vars, WorkStep, OnAbort, PurgeAborted, SchedulerAnswers, RouteStep,
                ReportSuccess, ReportSent, RouteEnds, Reported, DrainOutbox, Shutdown,
                SchedulerCrashes, CrashStep, CrashListed, CrashFails, CrashReported,
                CrashHandlerEnds
  <2> QED BY <1>1, <2>1
<1> QED BY <1>4, <1>5, <1>6, <1>7, <1>8 DEF Next

\* Steps that merge nothing.
LEMMA FanFrame ==
  ASSUME FanInv, UsedStays, UNCHANGED <<expected, dispatched>>, QuietInv,
         \A r \in Requests : pending'[r] \subseteq pending[r]
  PROVE  FanInv'
<1> SUFFICES ASSUME NEW r \in Requests PROVE FanInOK(r)'
  BY DEF FanInv
<1>1. FanInOK(r) /\ expected[r] \subseteq Upstream /\ pending[r] \subseteq Upstream
  BY DEF FanInv, QuietInv, StateTypeOK
<1> QED BY <1>1 DEF FanInOK, UsedStays

\* A payload that was not used yet is taken (AggregatedInput.receive).
LEMMA FanPayload ==
  ASSUME FanInv, UsedStays, UNCHANGED expected, QuietInv,
         NEW r \in Requests, NEW s \in Upstream, TakePayload(r, s), ~Used(r, s), Used(r, s)'
  PROVE  FanInv'
<1> DEFINE have == pending[r] \cup {s}
<1>1. CASE r \in aborted
  BY <1>1, FanFrame DEF TakePayload, Dropped, stateVars, workVars
<1>2. CASE r \notin aborted
  <2>1. AcceptPayload(r, s)
    BY <1>2 DEF TakePayload
  <2>2. have \subseteq Upstream /\ have \in SUBSET Upstream
    BY DEF QuietInv, StateTypeOK
  <2>3. \A a \in Requests : a # r => pending'[a] = pending[a] /\ dispatched'[a] = dispatched[a]
    BY <2>1 DEF AcceptPayload, QuietInv, StateTypeOK, FanInv
  <2>4. \/ pending'[r] \subseteq have /\ dispatched' = dispatched
        \/ /\ FanInComplete(r, have) /\ pending'[r] = {}
           /\ dispatched' = [dispatched EXCEPT ![r] = Append(@, have)]
    BY <2>1 DEF AcceptPayload, QuietInv, StateTypeOK
  <2>5. FanInOK(r) /\ expected[r] \subseteq Upstream
    BY DEF FanInv
  <2>6. \A b \in have : Used(r, b)'
    BY <2>2, <2>5 DEF FanInOK, UsedStays
  <2>7. ASSUME NEW a \in Requests, a # r
        PROVE  FanInOK(a)'
    <3>1. FanInOK(a) /\ expected[a] \subseteq Upstream /\ pending[a] \subseteq Upstream
      BY DEF FanInv, QuietInv, StateTypeOK
    <3> QED BY <2>3, <2>7, <3>1 DEF FanInOK, UsedStays
  <2>8. CASE pending'[r] \subseteq have /\ dispatched' = dispatched
    <3>1. FanInOK(r)'
      BY <2>5, <2>6, <2>8 DEF FanInOK, UsedStays
    <3> QED BY <2>7, <2>8, <3>1 DEF FanInv
  <2>9. CASE /\ FanInComplete(r, have) /\ pending'[r] = {}
             /\ dispatched' = [dispatched EXCEPT ![r] = Append(@, have)]
    <3>1. have = expected[r]
      BY <2>9 DEF FanInComplete
    <3>2. dispatched[r] = <<>>
      BY <2>5, <3>1 DEF FanInOK
    <3> HIDE DEF have
    <3>3. dispatched'[r] = Append(dispatched[r], have)
      BY <2>9 DEF FanInv
    <3>4. Append(dispatched[r], have) = <<expected[r]>>
      BY <2>2, <3>1, <3>2
    <3>5. FanInOK(r)'
      BY <2>6, <2>9, <3>1, <3>3, <3>4 DEF FanInOK
    <3>6. dispatched' \in [Requests -> Seq(SUBSET Upstream)]
      <4>1. Append(dispatched[r], have) \in Seq(SUBSET Upstream)
        BY <2>2 DEF FanInv
      <4> QED BY <2>9, <4>1 DEF FanInv
    <3> QED BY <2>7, <3>5, <3>6 DEF FanInv
  <2> QED BY <2>4, <2>8, <2>9
<1> QED BY <1>1, <1>2

\* Steps that clear requests (_clear_request_state) or leave the fan-in alone.
PendingShrinks == \A r \in Requests : pending'[r] \subseteq pending[r]

LEMMA ClearShrinks ==
  ASSUME QuietInv, NEW r \in Requests, Clear(r)
  PROVE  PendingShrinks
BY DEF PendingShrinks, Clear, QuietInv, StateTypeOK

LEMMA ItemMergesNothing ==
  ASSUME QuietInv, NEW r \in Requests, NEW s, NEW item, TakeItem(r, s, item)
  PROVE  PendingShrinks /\ UNCHANGED dispatched
<1>1. UNCHANGED <<pending, dispatched>>
  BY DEF TakeItem, Dropped, FailStream, HandlerFails, SendFailure, stateVars, workVars
<1> QED BY <1>1 DEF PendingShrinks

LEMMA FailureMergesNothing ==
  ASSUME QuietInv, NEW r \in Requests, NEW s, NEW k, TakeFailure(r, s, k)
  PROVE  PendingShrinks /\ UNCHANGED dispatched
<1>1. UNCHANGED <<pending, dispatched>>
  BY DEF TakeFailure, Dropped, FailStream, HandlerFails, SendFailure, stateVars, workVars
<1> QED BY <1>1 DEF PendingShrinks

LEMMA FanStep ==
  ASSUME QuietInv, LaneInv, FanInv, [Next]_vars
  PROVE  FanInv'
<1>0. UsedStays
  BY UsedOnce
<1>1. UNCHANGED expected
  <2>1. ASSUME NEW r \in Requests, NEW s \in Upstream,
               Receiving(r, s) \/ TaskStep(r, s) \/ Reported(r, s)
        PROVE  UNCHANGED expected
    BY <2>1 DEF Receiving, Arrive, ArriveLocal, TaskStep, StartTask, ReadEnds, FinishTask, Unwind,
                Reported
  <2>2. ASSUME NEW r \in Requests, WorkStep(r) \/ RouteStep(r)
        PROVE  UNCHANGED expected
    BY <2>2 DEF WorkStep, OnAbort, PurgeAborted, SchedulerAnswers, RouteStep, ReportSuccess,
                ReportSent, RouteEnds
  <2>3. CASE \/ UNCHANGED vars \/ DrainOutbox \/ Shutdown \/ SchedulerCrashes \/ CrashStep
             \/ StopBegins \/ StopEnds
    BY <2>3 DEF vars, DrainOutbox, Shutdown, SchedulerCrashes, CrashStep, CrashListed, CrashFails,
                CrashReported, CrashHandlerEnds, StopBegins, StopEnds
  <2> QED BY <2>1, <2>2, <2>3 DEF Next
<1>2. CASE PendingShrinks /\ UNCHANGED dispatched
  BY <1>0, <1>1, <1>2, FanFrame DEF PendingShrinks
<1>3. CASE UNCHANGED <<pending, dispatched>>
  BY <1>2, <1>3 DEF PendingShrinks
<1>4. ASSUME NEW r \in Requests, NEW s \in Upstream, Receiving(r, s)
      PROVE  FanInv'
  <2>1. ASSUME NEW k \in Kinds, NEW via \in {"relay", "direct"}, Arrive(r, s, k, via)
        PROVE  FanInv'
    BY <1>3, <2>1 DEF Arrive, stateVars, workVars
  <2>2. ASSUME NEW k \in Kinds, ArriveLocal(r, s, k)
        PROVE  FanInv'
    <3>1. CASE k # "payload"
      BY <1>2, <2>2, <3>1, ItemMergesNothing DEF ArriveLocal
    <3>2. CASE k = "payload"
      <4>1. SendsFacts(r, s, k) /\ s \in Local /\ lane' = lane /\ TakePayload(r, s)
        BY <2>2, <3>2, SendsNotes DEF ArriveLocal, LaneInv
      <4>2. ~Used(r, s) /\ Used(r, s)'
        BY <3>2, <4>1, LocalLaneEmpty DEF Used, SendsFacts
      <4> QED BY <1>0, <1>1, <4>1, <4>2, FanPayload
    <3> QED BY <3>1, <3>2
  <2> QED BY <1>4, <2>1, <2>2 DEF Receiving
<1>5. ASSUME NEW r \in Requests, NEW s \in Upstream, TaskStep(r, s)
      PROVE  FanInv'
  <2> PICK i \in 1..Len(lane[r][s]) :
        \/ \E ok \in BOOLEAN : StartTask(r, s, i, ok) \/ ReadEnds(r, s, i, ok)
        \/ FinishTask(r, s, i) \/ Unwind(r, s, i)
    BY <1>5 DEF TaskStep
  <2>1. CASE FinishTask(r, s, i)
    <3> DEFINE l == lane[r][s]
    <3>1. l \in Seq(Task) /\ l # <<>> /\ i = 1 /\ UNCHANGED sent /\ Len(l) \in Nat /\ 1 \in 1..Len(l)
      BY <2>1 DEF LaneInv, LaneTypeOK, FinishTask, MyTurn
    <3>2. CASE Dropped
      BY <1>3, <3>2 DEF Dropped, stateVars, workVars
    <3>3. CASE l[1].k = "payload" /\ TakePayload(r, s)
      <4>1. sent[r][s].payload /\ Len(l) = 1
        BY <3>1, <3>3 DEF LaneInv, LaneOK
      <4>2. lane' = [lane EXCEPT ![r][s] = Tail(l)]
        BY <2>1, <3>1, PopIsTail DEF FinishTask
      <4>3. lane'[r][s] = Tail(l) /\ Len(Tail(l)) = 0
        BY <3>1, <4>1, <4>2 DEF LaneInv, LaneTypeOK
      <4>4. ~Used(r, s) /\ Used(r, s)'
        BY <3>1, <3>3, <4>1, <4>3 DEF Used
      <4> QED BY <1>0, <1>1, <3>3, <4>4, FanPayload
    <3> QED BY <1>2, <2>1, <3>1, <3>2, <3>3, FailureMergesNothing, ItemMergesNothing DEF FinishTask
  <2>2. CASE ~FinishTask(r, s, i)
    BY <1>3, <2>2 DEF StartTask, ReadEnds, Unwind, stateVars, workVars
  <2> QED BY <2>1, <2>2
<1>6. ASSUME NEW r \in Requests, UNCHANGED dispatched, UNCHANGED pending \/ Clear(r)
      PROVE  FanInv'
  BY <1>2, <1>3, <1>6, ClearShrinks
<1>7. ASSUME NEW r \in Requests, WorkStep(r) \/ RouteStep(r)
      PROVE  FanInv'
  BY <1>6, <1>7 DEF WorkStep, OnAbort, PurgeAborted, SchedulerAnswers, RouteStep, ReportSuccess,
                    ReportSent, RouteEnds, stateVars, workVars
<1>8. ASSUME NEW r \in Requests, NEW s \in Upstream, Reported(r, s)
      PROVE  FanInv'
  BY <1>6, <1>8 DEF Reported, workVars
<1>9. CASE CrashStep
  <2>1. CASE CrashListed \/ CrashHandlerEnds
    BY <1>3, <2>1 DEF CrashListed, CrashHandlerEnds, stateVars, workVars
  <2>2. ASSUME NEW r \in Requests, CrashFails(r) \/ CrashReported(r)
        PROVE  FanInv'
    BY <1>6, <2>2 DEF CrashFails, CrashReported, SendFailure, workVars
  <2> QED BY <1>9, <2>1, <2>2 DEF CrashStep
<1>10. CASE UNCHANGED vars \/ DrainOutbox \/ Shutdown \/ SchedulerCrashes \/ StopBegins \/ StopEnds
  BY <1>3, <1>10 DEF vars, DrainOutbox, SendFailure, Shutdown, SchedulerCrashes, StopBegins,
                     StopEnds, stateVars, workVars
<1> QED BY <1>4, <1>5, <1>7, <1>8, <1>9, <1>10 DEF Next
-----------------------------------------------------------------------------
StageInv == QuietInv /\ OneReport /\ ToldInv /\ LaneInv /\ FanInv

LEMMA StageInvariant == Spec => []StageInv
<1>1. Init => StageInv
  <2> SUFFICES ASSUME Init PROVE StageInv
    OBVIOUS
  <2>1. QuietInv /\ OneReport /\ ToldInv
    BY DEF Init, QuietInv, StateTypeOK, AbortQuiesces, OneReport, RoutesOne, FailsOne, ToldInv,
           ToldType, FailMarked
  <2>2. FanInv
    BY DEF Init, FanInv, FanInOK
  <2>3. LaneTypeOK
    BY DEF Init, LaneTypeOK, PerLane
  <2>4. ASSUME NEW r \in Requests, NEW s \in Upstream
        PROVE  LaneOK(r, s) /\ AckedOK(r, s) /\ StreamOK(r, s)
    <3>1. /\ lane[r][s] = <<>> /\ inbox[r][s] = <<>> /\ owed[r][s] = 0
          /\ sent[r][s] = [chunks |-> 0, done |-> FALSE, payload |-> FALSE]
      BY DEF Init, PerLane
    <3>2. Unacked(<<>>) = {}
      BY DEF Unacked
    <3>3. Len(lane[r][s]) = 0 /\ Len(inbox[r][s]) = 0
      BY <3>1
    <3>4. LaneOK(r, s) /\ PrefixOK(r, s)
      BY <3>3 DEF LaneOK, PrefixOK
    <3>5. RestOK(r, s)
      BY <3>1, <3>3 DEF RestOK
    <3>6. AckedOK(r, s)
      BY <3>1, <3>2, FS_EmptySet DEF AckedOK
    <3> QED BY <3>4, <3>5, <3>6 DEF StreamOK
  <2> QED BY <2>1, <2>2, <2>3, <2>4 DEF StageInv, LaneInv
<1>2. StageInv /\ [Next]_vars => StageInv'
  <2> SUFFICES ASSUME StageInv, [Next]_vars PROVE StageInv'
    OBVIOUS
  <2>1. MarksStay
    BY SaysStep DEF StageInv, ToldInv, SaysOK
  <2> QED BY <2>1, QuietStep, OneReportStep, ToldStep, LaneStep, FanStep DEF StageInv
<1> QED BY <1>1, <1>2, PTL DEF Spec

\* While the stage runs, a receiver owes an acknowledgement for exactly the
\* transfers it has not read to the end: however a read ends, and whatever
\* became of the request meanwhile, its sender is answered once.
THEOREM TransfersAreAcked == Spec => []EveryTransferAcked
<1>1. StageInv => EveryTransferAcked
  BY DEF StageInv, LaneInv, AckedOK, Unacked, Unread, EveryTransferAcked
<1> QED BY <1>1, StageInvariant, PTL

\* A request is given to the scheduler at most once, and then with the
\* payloads of exactly the stages its fan-in waits for.
THEOREM FanInsMergeOnce == Spec => []DispatchedOnce
<1>1. StageInv => DispatchedOnce
  BY DEF StageInv, FanInv, FanInOK, DispatchedOnce
<1> QED BY <1>1, StageInvariant, PTL

\* The stream items the scheduler gets of an upstream stage are the ones it
\* sent, in order and without a gap, the end only behind the last chunk:
\* reads end in any order and fail anywhere, and a task acts when it is the
\* first of its lane.
THEOREM StreamsInOrder == Spec => []StreamInOrder
<1>1. StageInv => StreamInOrder
  BY DEF StageInv, LaneInv, StreamOK, PrefixOK, StreamInOrder
<1> QED BY <1>1, StageInvariant, PTL
=============================================================================
