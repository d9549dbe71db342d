------------------------ MODULE SimpleSchedulersProofs ------------------------
(***************************************************************************)
(* Theorems about SimpleSchedulers, for any requests, streams, batch sizes *)
(* and numbers of threads: a request is answered at most once, its chunks  *)
(* are handled in order and completely, and no state outlives it.          *)
(*                                                                         *)
(* All three rest on one view of the scheduler: the batch in hand, what    *)
(* was pushed back and the inbox are one LINE, from which messages leave   *)
(* but in which they never overtake each other.                            *)
(***************************************************************************)
EXTENDS SimpleSchedulers, FiniteSetTheorems, TLAPS

Line == batch \o (pending \o inbox)

\* a payload in the batch
Held(r) == \E i \in 1..Len(batch) : batch[i].type = "new" /\ batch[i].req = r

\* nothing of the request has been dropped for its mark
Alive(r) == r \notin marks \/ Held(r)

ThreadKinds == {"threaded", "workers"}

\* the loop between its steps
LoopOK ==
  /\ pc = "idle" => batch = <<>>
  /\ pc \in {"collect", "run"} => batch # <<>>
  /\ Len(pending) <= 1 /\ (pc = "collect" => pending = <<>>)
  /\ kind \in ThreadKinds => pc = "idle"
  /\ kind \notin ThreadKinds => tasks = {} /\ running = {}
  /\ kind # "streaming" => abortOf = NoRequest
  /\ pc = "answer" => outcome # "none"

\* only payloads to compute and chunks are batched, each with its like and
\* one per request
BatchOK ==
  /\ \A i, j \in 1..Len(batch) : i # j =>
       /\ batch[i].type = batch[j].type /\ batch[i].type # "done"
       /\ batch[i].type = "new" => ~Streams(batch[i].req)
       /\ batch[i].req # batch[j].req
  /\ pc = "answer" => \A i \in 1..Len(batch) : batch[i].type = "new" /\ ~Streams(batch[i].req)

\* a request has one payload and one end in the line, and its chunks are in
\* order and before the end
OrderOK ==
  \A i, j \in 1..Len(Line) : i < j /\ Line[i].req = Line[j].req =>
    /\ Line[i].type = Line[j].type => Line[i].type = "chunk" /\ Line[i].n < Line[j].n
    /\ Line[i].type = "done" => Line[j].type # "chunk"

\* what is in the line has not been consumed, and its request not answered
\* (a marked stream's messages are only waiting to be dropped)
PlaceOK(i) ==
  LET m == Line[i]
      r == m.req
  IN
  /\ m.type = "new" => put[r].new /\ r \notin payloads \cup tasks \cup running
  /\ m.type = "chunk" => Streams(r) /\ Len(handled[r]) < m.n /\ m.n <= put[r].n
  /\ m.type = "done" => Streams(r) /\ put[r].done
  /\ m.type # "new" => r \notin pendingDone
  /\ ~Streams(r) \/ r \notin marks \/ i <= Len(batch) => told[r] = <<>>

\* a request that is held somewhere has been put and not been answered
RequestOK(r) ==
  /\ put[r].done => Streams(r) /\ put[r].n = Chunks[r]
  /\ r \in payloads \cup tasks \cup running => put[r].new
  /\ r \in pendingDone => put[r].done
  /\ r \in payloads \cup pendingDone => Streams(r)
  /\ r \in payloads \cup pendingDone \cup tasks \cup running => told[r] = <<>>
  /\ told[r] # <<>> => IF Streams(r) THEN r \in marks \/ (put[r].new /\ put[r].done)
                                     ELSE put[r].new
  /\ Len(told[r]) <= 1

\* the chunks of a live stream have been handled or are in the line
FlowOK(r) ==
  /\ \A i \in 1..Len(handled[r]) : handled[r][i] = i
  /\ Len(handled[r]) <= put[r].n
  /\ Streams(r) /\ Alive(r) =>
       \A n \in Len(handled[r]) + 1 .. put[r].n :
         \E i \in 1..Len(Line) : Line[i].type = "chunk" /\ Line[i].req = r /\ Line[i].n = n
  /\ Streams(r) /\ told[r] = <<"result">> => Len(handled[r]) = Chunks[r]

\* an aborted stream keeps its mark, unless its messages raced the abort
StopOK(r) ==
  kind = "streaming" /\ r \in stopped =>
    /\ r \in marks \cup raced
    /\ r \in payloads \cup pendingDone => r \in raced \cup {abortOf}

RequestsOK ==
  /\ OrderOK
  /\ \A i \in 1..Len(Line) : PlaceOK(i)
  /\ \A r \in Requests : RequestOK(r) /\ FlowOK(r)

SchedInv == LoopOK /\ BatchOK /\ RequestsOK /\ \A r \in Requests : StopOK(r)
-----------------------------------------------------------------------------
(* The line.                                                               *)

LEMMA MessageType ==
  ASSUME NEW m \in Messages
  PROVE  /\ m.req \in Requests /\ m.type \in {"new", "done", "chunk"}
         /\ m.type = "chunk" =>
              m.req \in Streaming /\ Chunks[m.req] \in Nat /\ m.n \in 1..Chunks[m.req]
<1>1. CASE m \in [type : {"new", "done"}, req : Requests]
  BY <1>1
<1>2. ASSUME NEW r \in Streaming, m \in [type : {"chunk"}, req : {r}, n : 1..Chunks[r]]
      PROVE  m.req = r /\ m.type = "chunk" /\ m.n \in 1..Chunks[r]
  BY <1>2
<1> QED BY <1>1, <1>2, StreamingAssumption, LimitsAssumption DEF Messages

LEMMA Joined ==
  ASSUME NEW b \in Seq(Messages), NEW p \in Seq(Messages), NEW q \in Seq(Messages)
  PROVE  LET s == b \o (p \o q) IN
         /\ s \in Seq(Messages) /\ Len(s) = Len(b) + Len(p) + Len(q)
         /\ \A i \in 1..Len(s) :
              s[i] = IF i <= Len(b) THEN b[i]
                     ELSE IF i <= Len(b) + Len(p) THEN p[i - Len(b)]
                     ELSE q[i - Len(b) - Len(p)]
<1>1. /\ Len(b) \in Nat /\ Len(p) \in Nat /\ Len(q) \in Nat
      /\ p \o q \in Seq(Messages) /\ Len(p \o q) = Len(p) + Len(q)
      /\ \A i \in 1..Len(p \o q) : (p \o q)[i] = IF i <= Len(p) THEN p[i] ELSE q[i - Len(p)]
  OBVIOUS
<1>2. PICK u \in Seq(Messages) : u = p \o q
  BY <1>1
<1>3. /\ b \o u \in Seq(Messages) /\ Len(b \o u) = Len(b) + Len(u)
      /\ \A i \in 1..Len(b \o u) : (b \o u)[i] = IF i <= Len(b) THEN b[i] ELSE u[i - Len(b)]
  OBVIOUS
<1>4. \A i \in 1..Len(b \o u) : i > Len(b) =>
        u[i - Len(b)] = IF i <= Len(b) + Len(p) THEN p[i - Len(b)] ELSE q[i - Len(b) - Len(p)]
  BY <1>1, <1>2, <1>3
<1> QED BY <1>1, <1>2, <1>3, <1>4

\* The line, its length and its three parts.
LEMMA LineFacts ==
  ASSUME TypeOK
  PROVE  /\ Line \in Seq(Messages) /\ Len(Line) = Len(batch) + Len(pending) + Len(inbox)
         /\ Len(Line) \in Nat /\ Len(batch) \in Nat /\ Len(pending) \in Nat /\ Len(inbox) \in Nat
         /\ \A i \in 1..Len(Line) : Line[i] \in Messages
         /\ \A i \in 1..Len(batch) : i \in 1..Len(Line) /\ Line[i] = batch[i]
<1>1. batch \in Seq(Messages) /\ pending \in Seq(Messages) /\ inbox \in Seq(Messages)
  BY DEF TypeOK
<1>2. Len(batch) \in Nat /\ Len(pending) \in Nat /\ Len(inbox) \in Nat
  BY <1>1
<1>3. Line \in Seq(Messages) /\ Len(Line) = Len(batch) + Len(pending) + Len(inbox)
  BY <1>1, Joined DEF Line
<1>4. \A i \in 1..Len(Line) : i <= Len(batch) => Line[i] = batch[i]
  BY <1>1, Joined DEF Line
<1>5. Len(Line) \in Nat /\ \A i \in 1..Len(Line) : Line[i] \in Messages
  BY <1>3
<1> QED BY <1>2, <1>3, <1>4, <1>5

LEMMA LineAt ==
  ASSUME TypeOK, NEW i \in 1..Len(Line)
  PROVE  Line[i] = IF i <= Len(batch) THEN batch[i]
                   ELSE IF i <= Len(batch) + Len(pending) THEN pending[i - Len(batch)]
                   ELSE inbox[i - Len(batch) - Len(pending)]
<1>1. batch \in Seq(Messages) /\ pending \in Seq(Messages) /\ inbox \in Seq(Messages)
  BY DEF TypeOK
<1> QED BY <1>1, Joined DEF Line

LEMMA LineNext ==
  ASSUME TypeOK'
  PROVE  /\ Line' \in Seq(Messages) /\ Len(Line') = Len(batch') + Len(pending') + Len(inbox')
         /\ Len(Line') \in Nat /\ Len(batch') \in Nat /\ Len(pending') \in Nat /\ Len(inbox') \in Nat
         /\ \A i \in 1..Len(Line') : Line'[i] \in Messages
         /\ \A i \in 1..Len(batch') : i \in 1..Len(Line') /\ Line'[i] = batch'[i]
<1>1. batch' \in Seq(Messages) /\ pending' \in Seq(Messages) /\ inbox' \in Seq(Messages)
  BY DEF TypeOK
<1>2. Len(batch') \in Nat /\ Len(pending') \in Nat /\ Len(inbox') \in Nat
  BY <1>1
<1>3. Line' \in Seq(Messages) /\ Len(Line') = Len(batch') + Len(pending') + Len(inbox')
  BY <1>1, Joined DEF Line
<1>4. \A i \in 1..Len(Line') : i <= Len(batch') => Line'[i] = batch'[i]
  BY <1>1, Joined DEF Line
<1>5. Len(Line') \in Nat /\ \A i \in 1..Len(Line') : Line'[i] \in Messages
  BY <1>3
<1> QED BY <1>2, <1>3, <1>4, <1>5

LEMMA LineAtNext ==
  ASSUME TypeOK', NEW i \in 1..Len(Line')
  PROVE  Line'[i] = IF i <= Len(batch') THEN batch'[i]
                    ELSE IF i <= Len(batch') + Len(pending') THEN pending'[i - Len(batch')]
                    ELSE inbox'[i - Len(batch') - Len(pending')]
<1>1. batch' \in Seq(Messages) /\ pending' \in Seq(Messages) /\ inbox' \in Seq(Messages)
  BY DEF TypeOK
<1> QED BY <1>1, Joined DEF Line

\* the step takes the places a + 1 to b out of the line
From(i, a, b) == IF i <= a THEN i ELSE i + (b - a)

Cut(a, b) ==
  /\ a \in Nat /\ b \in Nat /\ a <= b /\ b <= Len(Line)
  /\ Len(Line') = Len(Line) - (b - a)
  /\ \A i \in 1..Len(Line') : Line'[i] = Line[From(i, a, b)]

\* Where the messages of a cut line come from.
LEMMA CutFacts ==
  ASSUME TypeOK, TypeOK', NEW a, NEW b, Cut(a, b)
  PROVE  /\ \A i \in 1..Len(Line') : From(i, a, b) \in 1..Len(Line) /\ From(i, a, b) \notin a+1..b
         /\ \A i, j \in 1..Len(Line') : i < j => From(i, a, b) < From(j, a, b)
         /\ \A i \in 1..Len(Line) : i \notin a+1..b => \E j \in 1..Len(Line') : From(j, a, b) = i
<1>1. a \in Nat /\ b \in Nat /\ a <= b /\ b <= Len(Line) /\ Len(Line) \in Nat
      /\ Len(Line') = Len(Line) - (b - a)
  BY LineFacts DEF Cut
<1>2. ASSUME NEW i \in 1..Len(Line), i \notin a+1..b
      PROVE  \E j \in 1..Len(Line') : From(j, a, b) = i
  <2>1. CASE i <= a
    BY <1>1, <2>1 DEF From
  <2>2. CASE i > b
    <3>1. i - (b - a) \in 1..Len(Line') /\ From(i - (b - a), a, b) = i
      BY <1>1, <2>2 DEF From
    <3> QED BY <3>1
  <2> QED BY <1>1, <1>2, <2>1, <2>2
<1>3. \A i \in 1..Len(Line') : From(i, a, b) \in 1..Len(Line) /\ From(i, a, b) \notin a+1..b
  BY <1>1 DEF From
<1>4. \A i, j \in 1..Len(Line') : i < j => From(i, a, b) < From(j, a, b)
  BY <1>1 DEF From
<1> QED BY <1>2, <1>3, <1>4

LEMMA CutOrder ==
  ASSUME TypeOK, TypeOK', OrderOK, NEW a, NEW b, Cut(a, b)
  PROVE  OrderOK'
<1> SUFFICES ASSUME NEW i \in 1..Len(Line'), NEW j \in 1..Len(Line'), i < j,
                    Line'[i].req = Line'[j].req
             PROVE  /\ Line'[i].type = Line'[j].type => Line'[i].type = "chunk" /\ Line'[i].n < Line'[j].n
                    /\ Line'[i].type = "done" => Line'[j].type # "chunk"
  BY DEF OrderOK
<1>1. PICK x \in 1..Len(Line) : x = From(i, a, b) /\ Line'[i] = Line[x]
  BY CutFacts DEF Cut
<1>2. PICK y \in 1..Len(Line) : y = From(j, a, b) /\ Line'[j] = Line[y]
  BY CutFacts DEF Cut
<1>3. x < y
  BY <1>1, <1>2, CutFacts
<1> QED BY <1>1, <1>2, <1>3 DEF OrderOK
-----------------------------------------------------------------------------
(* Frames.                                                                 *)

\* the step lets the request go on: nothing new is held of it and nothing
\* is said of it
Same(r) ==
  /\ put'[r] = put[r] /\ handled'[r] = handled[r] /\ told'[r] = told[r]
  /\ r \in payloads' => r \in payloads
  /\ r \in pendingDone' => r \in pendingDone
  /\ r \in tasks' \cup running' => r \in tasks \cup running
  /\ Streams(r) /\ r \in marks => r \in marks'

\* A step that takes messages a+1..b from the line and touches no request but
\* r0, whose own invariant it keeps.
Touches(a, b, r0) ==
  /\ Cut(a, b)
  /\ \A r \in Requests : r # r0 => Same(r)
  /\ \A i \in 1..Len(Line') : i <= Len(batch') =>
       \/ From(i, a, b) <= Len(batch) \/ Line'[i].req = r0
       \/ ~Streams(Line'[i].req) \/ Line'[i].req \notin marks
  /\ \A r \in Requests : r # r0 /\ Streams(r) /\ Alive(r)' =>
       Alive(r) /\ \A i \in a+1..b : ~(Line[i].type = "chunk" /\ Line[i].req = r)
  /\ r0 \in Requests => RequestOK(r0)' /\ FlowOK(r0)'
  /\ \A i \in 1..Len(Line') : Line'[i].req = r0 => PlaceOK(i)'

\* What a step does not touch keeps its invariant.
LEMMA Touch ==
  ASSUME TypeOK, TypeOK', RequestsOK, kind' = kind, NEW a, NEW b, NEW r0, Touches(a, b, r0)
  PROVE  RequestsOK'
<1> USE DEF Touches
<1>1. OrderOK'
  BY CutOrder DEF RequestsOK
<1>2. \A r : Streams(r)' <=> Streams(r)
  BY DEF Streams
<1>3. ASSUME NEW r \in Requests, r # r0 PROVE RequestOK(r)'
  <2>1. Same(r) /\ RequestOK(r)
    BY <1>3 DEF RequestsOK
  <2> QED BY <1>2, <2>1 DEF Same, RequestOK
<1>4. ASSUME NEW i \in 1..Len(Line'), Line'[i].req # r0 PROVE PlaceOK(i)'
  <2>1. PICK x \in 1..Len(Line) : x = From(i, a, b) /\ Line'[i] = Line[x]
    BY CutFacts DEF Cut
  <2>2. PICK m \in Messages : m = Line[x]
    BY LineFacts
  <2>3. PICK r \in Requests : r = m.req
    BY <2>2, MessageType
  <2>4. PlaceOK(x) /\ Same(r)
    BY <1>4, <2>1, <2>2, <2>3 DEF RequestsOK
  <2>5. i <= Len(batch') => x <= Len(batch) \/ ~Streams(r) \/ r \notin marks
    BY <1>4, <2>1, <2>2, <2>3
  <2> QED BY <1>2, <2>1, <2>2, <2>3, <2>4, <2>5 DEF PlaceOK, Same
<1>5. ASSUME NEW r \in Requests, r # r0 PROVE FlowOK(r)'
  <2>1. Same(r) /\ FlowOK(r)
    BY <1>5 DEF RequestsOK
  <2>2. ASSUME Streams(r), Alive(r)', NEW n \in Len(handled[r]) + 1 .. put[r].n
        PROVE  \E j \in 1..Len(Line') : Line'[j].type = "chunk" /\ Line'[j].req = r /\ Line'[j].n = n
    <3>1. PICK i \in 1..Len(Line) : Line[i].type = "chunk" /\ Line[i].req = r /\ Line[i].n = n
      BY <1>5, <2>1, <2>2 DEF FlowOK
    <3>2. i \notin a+1..b
      BY <1>5, <2>2, <3>1
    <3>3. PICK j \in 1..Len(Line') : From(j, a, b) = i
      BY <3>2, CutFacts
    <3> QED BY <3>1, <3>3 DEF Cut
  <2> QED BY <1>2, <2>1, <2>2 DEF Same, FlowOK
<1> QED BY <1>1, <1>3, <1>4, <1>5 DEF RequestsOK

\* The ways a line is cut.
LEMMA CutZero ==
  ASSUME TypeOK, Len(Line') = Len(Line), \A i \in 1..Len(Line') : Line'[i] = Line[i]
  PROVE  Cut(0, 0)
<1>1. Len(Line) \in Nat
  BY LineFacts
<1>2. \A i \in 1..Len(Line') : From(i, 0, 0) = i
  BY <1>1 DEF From
<1> QED BY <1>1, <1>2 DEF Cut

LEMMA CutNothing ==
  ASSUME TypeOK, UNCHANGED <<batch, pending, inbox>>
  PROVE  Cut(0, 0)
<1>1. Line' = Line /\ Len(Line) \in Nat
  BY LineFacts DEF Line
<1> QED BY <1>1 DEF Cut, From

LEMMA CutFirst ==
  ASSUME TypeOK, TypeOK', batch # <<>>, batch' = Tail(batch), UNCHANGED <<pending, inbox>>
  PROVE  Cut(0, 1) /\ Line[1] = batch[1]
<1>1. Len(batch) > 0 /\ Len(batch') = Len(batch) - 1 /\ \A i \in 1..Len(batch') : batch'[i] = batch[i + 1]
  BY DEF TypeOK
<1>2. /\ Len(Line') = Len(Line) - 1 /\ 1 <= Len(Line) /\ Line[1] = batch[1] /\ Len(Line) \in Nat
      /\ Len(batch) \in Nat /\ Len(pending) \in Nat
  BY <1>1, LineFacts, LineNext
<1>3. ASSUME NEW i \in 1..Len(Line') PROVE Line'[i] = Line[i + 1]
  <2>1. i + 1 \in 1..Len(Line)
    BY <1>2
  <2>2. Line[i + 1] = IF i + 1 <= Len(batch) THEN batch[i + 1]
                      ELSE IF i + 1 <= Len(batch) + Len(pending) THEN pending[i + 1 - Len(batch)]
                      ELSE inbox[i + 1 - Len(batch) - Len(pending)]
    BY <2>1, LineAt
  <2>3. Line'[i] = IF i <= Len(batch') THEN batch'[i]
                   ELSE IF i <= Len(batch') + Len(pending) THEN pending[i - Len(batch')]
                   ELSE inbox[i - Len(batch') - Len(pending)]
    BY LineAtNext
  <2>4. i \in 1..Len(batch') \/ i > Len(batch')
    BY <1>1, <1>2
  <2> QED BY <1>1, <1>2, <2>2, <2>3, <2>4
<1> QED BY <1>2, <1>3 DEF Cut, From

\* The loop takes a message, to the batch or not.
LEMMA CutTaken ==
  ASSUME TypeOK, TypeOK', batch = <<>>, batch' = <<>> \/ batch' = <<NextMessage>>, NextQueue # <<>>,
         IF pending # <<>> THEN pending' = Tail(pending) /\ UNCHANGED inbox
                           ELSE inbox' = Tail(inbox) /\ UNCHANGED pending
  PROVE  /\ 1 \in 1..Len(Line) /\ Line[1] = NextMessage
         /\ batch' = <<>> => Cut(0, 1)
         /\ batch' # <<>> => Cut(0, 0)
<1>1. Len(batch) = 0 /\ pending \in Seq(Messages) /\ inbox \in Seq(Messages)
  BY DEF TypeOK
<1>2. PICK d \in {0, 1} : (batch' = <<>> <=> d = 0) /\ Len(batch') = d /\ (d = 1 => batch'[1] = NextMessage)
  <2>1. CASE batch' = <<>>
    BY <2>1
  <2>2. CASE batch' = <<NextMessage>>
    BY <2>2
  <2> QED BY <2>1, <2>2
<1>3. ASSUME 1 <= Len(Line), Len(Line') = Len(Line) - (1 - d), Line[1] = NextMessage,
             \A i \in 1..Len(Line') : Line'[i] = Line[i + (1 - d)]
      PROVE  /\ batch' = <<>> => Cut(0, 1)
             /\ batch' # <<>> => Cut(0, 0)
  <2>1. Len(Line) \in Nat
    BY LineFacts
  <2>2. CASE d = 0
    BY <1>2, <1>3, <2>1, <2>2 DEF Cut, From
  <2>3. CASE d = 1
    BY <1>2, <1>3, <2>1, <2>3 DEF Cut, From
  <2> QED BY <2>2, <2>3
<1>4. CASE pending # <<>>
  <2>1. /\ Len(pending) > 0 /\ Len(pending') = Len(pending) - 1 /\ inbox' = inbox
        /\ \A i \in 1..Len(pending') : pending'[i] = pending[i + 1]
        /\ NextMessage = pending[1] /\ Len(pending) \in Nat /\ Len(inbox) \in Nat
    BY <1>1, <1>4 DEF NextMessage, NextQueue
  <2>2. Len(Line) = Len(pending) + Len(inbox) /\ Len(Line') = Len(Line) - (1 - d)
    <3>1. Len(Line) = Len(batch) + Len(pending) + Len(inbox)
      BY LineFacts
    <3>2. Len(Line') = Len(batch') + Len(pending') + Len(inbox')
      BY LineNext
    <3> QED BY <1>1, <1>2, <2>1, <3>1, <3>2
  <2>3. 1 \in 1..Len(Line) /\ Line[1] = NextMessage
    BY <1>1, <2>1, <2>2, LineAt
  <2>4. ASSUME NEW i \in 1..Len(Line') PROVE Line'[i] = Line[i + (1 - d)]
    <3>1. i + (1 - d) \in 1..Len(Line)
      BY <2>1, <2>2
    <3>2. Line[i + (1 - d)] = IF i + (1 - d) <= Len(pending) THEN pending[i + (1 - d)]
                              ELSE inbox[i + (1 - d) - Len(pending)]
      BY <1>1, <2>1, <3>1, LineAt
    <3>3. Line'[i] = IF i <= d THEN NextMessage
                     ELSE IF i <= d + Len(pending') THEN pending'[i - d]
                     ELSE inbox[i - d - Len(pending')]
      BY <1>2, <2>1, LineAtNext
    <3>4. CASE i <= d
      <4>1. i + (1 - d) = 1 /\ i + (1 - d) <= Len(pending)
        BY <2>1, <3>4
      <4> QED BY <2>1, <3>2, <3>3, <3>4, <4>1
    <3>5. CASE i > d /\ i - d <= Len(pending')
      <4>1. /\ ~(i <= d) /\ i <= d + Len(pending') /\ i - d \in 1..Len(pending')
            /\ i + (1 - d) <= Len(pending) /\ i + (1 - d) = (i - d) + 1
        BY <2>1, <3>5
      <4>2. pending'[i - d] = pending[(i - d) + 1]
        BY <2>1, <4>1
      <4> QED BY <3>2, <3>3, <4>1, <4>2
    <3>6. CASE i - d > Len(pending')
      <4>1. /\ ~(i <= d) /\ ~(i <= d + Len(pending')) /\ ~(i + (1 - d) <= Len(pending))
            /\ i - d - Len(pending') = i + (1 - d) - Len(pending)
        BY <2>1, <3>6
      <4> QED BY <3>2, <3>3, <4>1
    <3> QED BY <2>1, <3>4, <3>5, <3>6
  <2> QED BY <1>3, <2>2, <2>3, <2>4
<1>5. CASE pending = <<>>
  <2>1. /\ Len(pending) = 0 /\ Len(pending') = 0 /\ Len(inbox) > 0 /\ Len(inbox') = Len(inbox) - 1
        /\ \A i \in 1..Len(inbox') : inbox'[i] = inbox[i + 1]
        /\ NextMessage = inbox[1] /\ Len(inbox) \in Nat
    BY <1>1, <1>5 DEF NextMessage, NextQueue
  <2>2. Len(Line) = Len(inbox) /\ Len(Line') = Len(Line) - (1 - d)
    BY <1>1, <1>2, <2>1, LineFacts, LineNext
  <2>3. 1 \in 1..Len(Line) /\ Line[1] = NextMessage
    BY <1>1, <2>1, <2>2, LineAt
  <2>4. ASSUME NEW i \in 1..Len(Line') PROVE Line'[i] = Line[i + (1 - d)]
    <3>1. i + (1 - d) \in 1..Len(Line)
      BY <2>1, <2>2
    <3>2. Line[i + (1 - d)] = inbox[i + (1 - d)]
      BY <1>1, <2>1, <3>1, LineAt
    <3>3. Line'[i] = IF i <= d THEN NextMessage ELSE inbox'[i - d]
      BY <1>2, <2>1, LineAtNext
    <3>4. CASE i <= d
      <4>1. i + (1 - d) = 1
        BY <3>4
      <4> QED BY <2>1, <3>2, <3>3, <3>4, <4>1
    <3>5. CASE i > d
      <4>1. Len(Line') = Len(inbox') + d
        BY <2>1, <2>2
      <4>2. ~(i <= d) /\ i - d \in 1..Len(inbox') /\ i + (1 - d) = (i - d) + 1
        BY <2>1, <3>5, <4>1
      <4>3. inbox'[i - d] = inbox[(i - d) + 1]
        BY <2>1, <4>2
      <4> QED BY <3>2, <3>3, <4>2, <4>3
    <3> QED BY <3>4, <3>5
  <2> QED BY <1>3, <2>2, <2>3, <2>4
<1> QED BY <1>4, <1>5

\* The collection takes the head of the inbox: it joins the batch, is pushed
\* back, or is dropped with the places from a + 1 on.
LEMMA CutCollected ==
  ASSUME TypeOK, TypeOK', pending = <<>>, inbox # <<>>, inbox' = Tail(inbox)
  PROVE  /\ Len(batch) + 1 \in 1..Len(Line) /\ Line[Len(batch) + 1] = Head(inbox)
         /\ batch' = Append(batch, Head(inbox)) /\ pending' = pending => Cut(0, 0)
         /\ batch' = batch /\ pending' = <<Head(inbox)>> \o pending => Cut(0, 0)
         /\ \A a \in 0..Len(batch) :
              /\ Len(batch') = a /\ (\A i \in 1..a : batch'[i] = batch[i]) /\ pending' = pending
              => Cut(a, Len(batch) + 1)
<1>1. /\ batch \in Seq(Messages) /\ inbox \in Seq(Messages) /\ Head(inbox) \in Messages
      /\ Len(pending) = 0 /\ Len(inbox) > 0 /\ Len(inbox') = Len(inbox) - 1 /\ Head(inbox) = inbox[1]
      /\ Len(inbox) \in Nat /\ Len(batch) \in Nat
      /\ \A i \in 1..Len(inbox') : inbox'[i] = inbox[i + 1]
  <2>1. batch \in Seq(Messages) /\ inbox \in Seq(Messages)
    BY DEF TypeOK
  <2> QED BY <2>1
<1>2. Len(Line) = Len(batch) + Len(inbox) /\ Len(Line') = Len(batch') + Len(pending') + Len(inbox')
  BY <1>1, LineFacts, LineNext
<1>3. \A i \in 1..Len(Line) : Line[i] = IF i <= Len(batch) THEN batch[i] ELSE inbox[i - Len(batch)]
  BY <1>1, LineAt
<1>4. Len(batch) + 1 \in 1..Len(Line) /\ Line[Len(batch) + 1] = Head(inbox)
  BY <1>1, <1>2, <1>3
<1>5. ASSUME batch' = Append(batch, Head(inbox)), pending' = pending PROVE Cut(0, 0)
  <2>1. /\ Len(batch') = Len(batch) + 1 /\ batch'[Len(batch) + 1] = Head(inbox)
        /\ \A i \in 1..Len(batch) : batch'[i] = batch[i]
    BY <1>1, <1>5
  <2>2. Len(Line') = Len(Line)
    BY <1>1, <1>2, <1>5, <2>1
  <2>3. ASSUME NEW i \in 1..Len(Line') PROVE Line'[i] = Line[i]
    <3>1. Line'[i] = IF i <= Len(batch) + 1 THEN batch'[i] ELSE inbox'[i - Len(batch) - 1]
      <4>1. Len(pending') = 0
        BY <1>1, <1>5
      <4>2. Line'[i] = IF i <= Len(batch') THEN batch'[i]
                       ELSE IF i <= Len(batch') + Len(pending') THEN pending'[i - Len(batch')]
                       ELSE inbox'[i - Len(batch') - Len(pending')]
        BY LineAtNext
      <4>3. i \in Int /\ Len(batch) \in Int
        BY <1>1
      <4>4. CASE i <= Len(batch) + 1
        BY <2>1, <4>2, <4>4
      <4>5. CASE i > Len(batch) + 1
        <5>1. /\ ~(i <= Len(batch')) /\ ~(i <= Len(batch') + Len(pending'))
              /\ i - Len(batch') - Len(pending') = i - Len(batch) - 1 /\ ~(i <= Len(batch) + 1)
          BY <2>1, <4>1, <4>3, <4>5
        <5> QED BY <4>2, <5>1
      <4>6. i <= Len(batch) + 1 \/ i > Len(batch) + 1
        BY <4>3
      <4> QED BY <4>4, <4>5, <4>6, Zenon
    <3> QED BY <1>1, <1>2, <1>3, <2>1, <2>2, <3>1
  <2> QED BY <2>2, <2>3, CutZero
<1>6. ASSUME batch' = batch, pending' = <<Head(inbox)>> \o pending PROVE Cut(0, 0)
  <2>1. Len(pending') = 1 /\ pending'[1] = Head(inbox)
    BY <1>6
  <2>2. Len(Line') = Len(Line)
    BY <1>1, <1>2, <1>6, <2>1
  <2>3. ASSUME NEW i \in 1..Len(Line') PROVE Line'[i] = Line[i]
    <3>1. Line'[i] = IF i <= Len(batch) THEN batch[i]
                     ELSE IF i <= Len(batch) + 1 THEN pending'[i - Len(batch)]
                     ELSE inbox'[i - Len(batch) - 1]
      BY <1>1, <1>6, <2>1, LineAtNext
    <3> QED BY <1>1, <1>2, <1>3, <2>1, <2>2, <3>1
  <2> QED BY <2>2, <2>3, CutZero
<1>7. ASSUME NEW a \in 0..Len(batch), Len(batch') = a, \A i \in 1..a : batch'[i] = batch[i],
             pending' = pending
      PROVE  Cut(a, Len(batch) + 1)
  <2>1. /\ a \in Nat /\ a <= Len(batch) /\ Len(pending') = 0 /\ Len(batch) + 1 <= Len(Line)
        /\ Len(Line') = Len(Line) - (Len(batch) + 1 - a)
    BY <1>1, <1>2, <1>7
  <2>2. ASSUME NEW i \in 1..Len(Line') PROVE Line'[i] = Line[From(i, a, Len(batch) + 1)]
    <3>1. Line'[i] = IF i <= a THEN batch'[i] ELSE inbox'[i - a]
      <4>1. Line'[i] = IF i <= Len(batch') THEN batch'[i]
                       ELSE IF i <= Len(batch') + Len(pending') THEN pending'[i - Len(batch')]
                       ELSE inbox'[i - Len(batch') - Len(pending')]
        BY LineAtNext
      <4>2. i \in Int /\ a \in Int
        BY <2>1
      <4>3. CASE i <= a
        BY <1>7, <4>1, <4>3
      <4>4. CASE i > a
        <5>1. /\ ~(i <= Len(batch')) /\ ~(i <= Len(batch') + Len(pending')) /\ ~(i <= a)
              /\ i - Len(batch') - Len(pending') = i - a
          BY <1>7, <2>1, <4>2, <4>4
        <5> QED BY <4>1, <5>1
      <4>5. i <= a \/ i > a
        BY <4>2
      <4> QED BY <4>3, <4>4, <4>5, Zenon
    <3>2. CASE i <= a
      <4>1. i \in 1..a /\ i \in 1..Len(Line) /\ i <= Len(batch) /\ From(i, a, Len(batch) + 1) = i
        BY <1>1, <1>2, <2>1, <3>2 DEF From
      <4> QED BY <1>3, <1>7, <3>1, <3>2, <4>1
    <3>3. CASE i > a
      <4> DEFINE j == i + (Len(batch) + 1 - a)
      <4>1. /\ From(i, a, Len(batch) + 1) = j /\ j \in 1..Len(Line) /\ ~(j <= Len(batch))
            /\ ~(i <= a) /\ i - a \in 1..Len(inbox') /\ j - Len(batch) = (i - a) + 1
        BY <1>1, <1>2, <2>1, <3>3 DEF From
      <4> HIDE DEF j
      <4>2. Line'[i] = inbox'[i - a]
        BY <3>1, <4>1
      <4>3. inbox'[i - a] = inbox[(i - a) + 1]
        BY <1>1, <4>1
      <4>4. Line[j] = inbox[j - Len(batch)]
        BY <1>3, <4>1
      <4> QED BY <4>1, <4>2, <4>3, <4>4
    <3> QED BY <2>1, <3>2, <3>3
  <2> QED BY <1>1, <2>1, <2>2 DEF Cut
<1> QED BY <1>4, <1>5, <1>6, <1>7
-----------------------------------------------------------------------------
(* Types, the loop and its batches.                                        *)

LEMMA Taking ==
  ASSUME TypeOK, NextQueue # <<>>
  PROVE  /\ NextMessage \in Messages /\ <<NextMessage>> \in Seq(Messages)
         /\ pending # <<>> => Tail(pending) \in Seq(Messages) /\ Len(Tail(pending)) = Len(pending) - 1
         /\ pending = <<>> => Tail(inbox) \in Seq(Messages)
<1>1. NextQueue \in Seq(Messages) /\ pending \in Seq(Messages) /\ inbox \in Seq(Messages)
  BY DEF TypeOK, NextQueue
<1>2. pending = <<>> => NextQueue = inbox
  BY DEF NextQueue
<1>3. NextMessage \in Messages
  BY <1>1 DEF NextMessage
<1> QED BY <1>1, <1>2, <1>3

\* The head of the batch, of the inbox, and what is left.
LEMMA Heads ==
  ASSUME TypeOK
  PROVE  /\ batch # <<>> => /\ 1 \in 1..Len(batch) /\ batch[1] \in Messages /\ <<batch[1]>> \in Seq(Messages)
                            /\ Tail(batch) \in Seq(Messages) /\ Len(Tail(batch)) = Len(batch) - 1
                            /\ \A i \in 1..Len(Tail(batch)) : Tail(batch)[i] = batch[i + 1] /\ i + 1 \in 1..Len(batch)
         /\ inbox # <<>> => /\ Head(inbox) \in Messages /\ Tail(inbox) \in Seq(Messages)
                            /\ Append(batch, Head(inbox)) \in Seq(Messages)
                            /\ <<Head(inbox)>> \o pending \in Seq(Messages)
BY DEF TypeOK

LEMMA FailType ==
  ASSUME TypeOK, NEW r \in Requests, FailStream(r)
  PROVE  /\ told' \in [Requests -> Seq({"result", "error"})] /\ marks' \subseteq Requests
         /\ payloads' \subseteq Requests /\ pendingDone' \subseteq Requests
<1>1. Append(told[r], "error") \in Seq({"result", "error"})
  BY DEF TypeOK
<1> QED BY <1>1 DEF TypeOK, FailStream

\* The batch that takes one more message.
LEMMA BatchGrows ==
  ASSUME TypeOK, LoopOK, BatchOK, OrderOK, CollectMore, TypeOK'
  PROVE  BatchOK'
<1>1. /\ batch \in Seq(Messages) /\ batch # <<>> /\ inbox # <<>> /\ pending = <<>> /\ pc = "collect"
      /\ inbox' = Tail(inbox) /\ UNCHANGED <<kind, pc, pending>>
      /\ Len(batch) \in Nat /\ Len(batch) > 0
  BY DEF CollectMore, Collecting, LoopOK, TypeOK
<1>2. PICK m \in Messages : m = Head(inbox)
  BY <1>1, Heads
<1>3. \A r : Streams(r)' <=> Streams(r)
  BY <1>1 DEF Streams
<1>4. CASE batch' = batch
  BY <1>1, <1>3, <1>4 DEF BatchOK
<1>5. CASE ~Skips(m)
  <2>1. Joins(m) /\ batch' = Append(batch, m)
    BY <1>2, <1>5 DEF CollectMore
  <2>2. /\ Len(batch') = Len(batch) + 1 /\ batch'[Len(batch) + 1] = m
        /\ \A i \in 1..Len(batch) : batch'[i] = batch[i]
    BY <1>1, <2>1
  <2>3. \A i \in 1..Len(batch) : /\ batch[i].type = batch[1].type
                                 /\ batch[1].type = "new" => ~Streams(batch[i].req)
    <3>1. 1 \in 1..Len(batch)
      BY <1>1
    <3> QED BY <2>1, <3>1 DEF BatchOK, Joins
  <2>4. ASSUME NEW i \in 1..Len(batch)
        PROVE  /\ batch[i].type = m.type /\ m.type # "done" /\ batch[i].req # m.req
               /\ m.type = "new" => ~Streams(batch[i].req) /\ ~Streams(m.req)
    <3>1. batch[i].type = m.type /\ m.type \in {"new", "chunk"} /\ (m.type = "new" => ~Streams(m.req))
      BY <2>1, <2>3 DEF Joins
    <3>2. CASE m.type = "chunk"
      BY <2>1, <2>3, <3>1, <3>2 DEF Joins
    <3>3. CASE m.type = "new"
      <4>1. Line[i] = batch[i] /\ i \in 1..Len(Line) /\ Len(batch) + 1 \in 1..Len(Line)
            /\ Line[Len(batch) + 1] = m /\ i < Len(batch) + 1
        BY <1>1, <1>2, CutCollected, LineFacts
      <4>2. batch[i].req # m.req
        BY <3>1, <3>3, <4>1 DEF OrderOK
      <4> QED BY <2>3, <3>1, <3>3, <4>2
    <3> QED BY <3>1, <3>2, <3>3
  <2>5. ASSUME NEW i \in 1..Len(batch'), NEW j \in 1..Len(batch'), i # j
        PROVE  /\ batch'[i].type = batch'[j].type /\ batch'[i].type # "done"
               /\ batch'[i].type = "new" => ~Streams(batch'[i].req)
               /\ batch'[i].req # batch'[j].req
    <3>1. CASE i \in 1..Len(batch) /\ j \in 1..Len(batch)
      BY <2>2, <2>5, <3>1 DEF BatchOK
    <3>2. CASE i \in 1..Len(batch) /\ j = Len(batch) + 1
      BY <2>2, <2>4, <3>2
    <3>3. CASE i = Len(batch) + 1 /\ j \in 1..Len(batch)
      BY <2>2, <2>4, <3>3
    <3> QED BY <1>1, <2>2, <2>5, <3>1, <3>2, <3>3
  <2> QED BY <1>1, <1>3, <2>5 DEF BatchOK
<1> QED BY <1>2, <1>4, <1>5 DEF CollectMore

\* A batch that loses its first message, or all but it.
LEMMA BatchShrinks ==
  ASSUME TypeOK, BatchOK, kind' = kind,
         \/ batch' = batch \/ batch' = <<>> \/ (\E m : batch' = <<m>>)
         \/ batch # <<>> /\ batch' = Tail(batch),
         pc' = "answer" => \A i \in 1..Len(batch') : batch'[i].type = "new" /\ ~Streams(batch'[i].req)
  PROVE  BatchOK'
<1>1. \A r : Streams(r)' <=> Streams(r)
  BY DEF Streams
<1>2. ASSUME NEW i \in 1..Len(batch'), NEW j \in 1..Len(batch'), i # j
      PROVE  /\ batch'[i].type = batch'[j].type /\ batch'[i].type # "done"
             /\ batch'[i].type = "new" => ~Streams(batch'[i].req)
             /\ batch'[i].req # batch'[j].req
  <2>1. CASE batch' = batch
    BY <1>2, <2>1 DEF BatchOK
  <2>2. CASE batch' = <<>>
    BY <1>2, <2>2
  <2>3. ASSUME NEW m, batch' = <<m>> PROVE i = j
    <3>1. Len(batch') = 1
      BY <2>3
    <3> QED BY <3>1
  <2>4. CASE batch # <<>> /\ batch' = Tail(batch)
    <3>1. /\ i + 1 \in 1..Len(batch) /\ j + 1 \in 1..Len(batch) /\ i + 1 # j + 1
          /\ batch'[i] = batch[i + 1] /\ batch'[j] = batch[j + 1]
      <4>1. i \in Int /\ j \in Int /\ i # j
        BY <1>2
      <4>2. i + 1 # j + 1
        BY <4>1
      <4> QED BY <2>4, <4>2, Heads
    <3> QED BY <3>1 DEF BatchOK
  <2> QED BY <1>2, <2>1, <2>2, <2>3, <2>4
<1> QED BY <1>1, <1>2 DEF BatchOK

ControlInv == LoopOK /\ BatchOK /\ OrderOK

\* Put adds to the request's record.
LEMMA PutType ==
  ASSUME TypeOK, NEW m \in Messages, Put(m)
  PROVE  /\ put' \in [Requests -> [new : BOOLEAN, n : Nat, done : BOOLEAN]]
         /\ Append(inbox, m) \in Seq(Messages)
<1>1. PICK r \in Requests : r = m.req
  BY MessageType
<1>2. /\ put \in [Requests -> [new : BOOLEAN, n : Nat, done : BOOLEAN]] /\ inbox \in Seq(Messages)
      /\ put[r] \in [new : BOOLEAN, n : Nat, done : BOOLEAN]
  BY DEF TypeOK
<1>3. CASE m.type = "new" /\ put' = [put EXCEPT ![r].new = TRUE]
  <2>1. PICK p \in [new : BOOLEAN, n : Nat, done : BOOLEAN] : p = [put[r] EXCEPT !.new = TRUE]
    BY <1>2, Zenon
  <2>2. put' = [put EXCEPT ![r] = p]
    BY <1>3, <2>1
  <2> QED BY <1>2, <2>2
<1>4. CASE m.type = "chunk" /\ put' = [put EXCEPT ![r].n = m.n]
  <2>1. m.n \in Nat
    BY <1>4, MessageType
  <2> QED BY <1>2, <1>4, <2>1
<1>5. CASE m.type = "done" /\ put' = [put EXCEPT ![r].done = TRUE]
  <2>1. PICK p \in [new : BOOLEAN, n : Nat, done : BOOLEAN] : p = [put[r] EXCEPT !.done = TRUE]
    BY <1>2, Zenon
  <2>2. put' = [put EXCEPT ![r] = p]
    BY <1>5, <2>1
  <2> QED BY <1>2, <2>2
<1> QED BY <1>1, <1>2, <1>3, <1>4, <1>5 DEF Put

\* Threads: never more of them than max_concurrency.
LEMMA TasksType ==
  ASSUME TypeOK, IsFiniteSet(tasks), NEW r \in Requests
  PROVE  /\ tasks \ {r} \subseteq Requests /\ IsFiniteSet(tasks \ {r})
         /\ Cardinality(tasks \ {r}) <= MaxThreads
         /\ HasCapacity => /\ tasks \cup {r} \subseteq Requests /\ IsFiniteSet(tasks \cup {r})
                           /\ Cardinality(tasks \cup {r}) <= MaxThreads
<1>1. /\ tasks \subseteq Requests /\ Cardinality(tasks) <= MaxThreads /\ MaxThreads \in Nat
      /\ Cardinality(tasks) \in Nat
  BY LimitsAssumption, FS_CardinalityType DEF TypeOK
<1>2. /\ IsFiniteSet(tasks \ {r}) /\ Cardinality(tasks \ {r}) \in Nat
      /\ Cardinality(tasks \ {r}) <= Cardinality(tasks)
  BY FS_RemoveElement, FS_Subset, FS_CardinalityType, <1>1
<1>3. IsFiniteSet(tasks \cup {r}) /\ Cardinality(tasks \cup {r}) <= Cardinality(tasks) + 1
  BY <1>1, FS_AddElement
<1>4. HasCapacity => Cardinality(tasks \cup {r}) <= MaxThreads
  <2>1. Cardinality(tasks \cup {r}) \in Nat
    BY <1>3, FS_CardinalityType
  <2> QED BY <1>1, <1>3, <2>1 DEF HasCapacity
<1> QED BY <1>1, <1>2, <1>3, <1>4

\* What each step does to the three queues, in terms of their types.
LEMMA TypeLoop ==
  ASSUME TypeOK, ControlInv, IsFiniteSet(tasks), Loop
  PROVE  TypeOK' /\ IsFiniteSet(tasks')
<1> USE DEF ControlInv
<1>1. CASE TakeMessage
  <2>1. PICK r \in Requests : r = NextMessage.req
    BY <1>1, Taking, MessageType DEF TakeMessage
  <2>2. inbox' \in Seq(Messages) /\ pending' \in Seq(Messages) /\ batch' \in Seq(Messages)
    <3>1. inbox \in Seq(Messages) /\ pending \in Seq(Messages) /\ batch \in Seq(Messages)
      BY DEF TypeOK
    <3>2. /\ inbox' = inbox \/ (inbox' = Tail(inbox) /\ pending = <<>>)
          /\ pending' = pending \/ (pending' = Tail(pending) /\ pending # <<>>)
      BY <1>1 DEF TakeMessage
    <3>3. (batch' = batch \/ batch' = <<NextMessage>>) /\ NextQueue # <<>>
      BY <1>1 DEF TakeMessage
    <3> QED BY <3>1, <3>2, <3>3, Taking
  <2>3. marks' \subseteq Requests
    BY <1>1 DEF TakeMessage, MarksWithout, TypeOK
  <2>4. tasks' \subseteq Requests /\ IsFiniteSet(tasks') /\ Cardinality(tasks') <= MaxThreads
    <3>1. tasks' = tasks \/ (tasks' = tasks \cup {r} /\ HasCapacity)
      BY <1>1, <2>1 DEF TakeMessage
    <3> QED BY <3>1, TasksType DEF TypeOK
  <2>5. pc' \in {"idle", "collect", "run", "answer"}
    BY <1>1 DEF TakeMessage, TypeOK
  <2>6. UNCHANGED <<kind, put, outcome, running, abortOf, streamVars, told, ghostVars>>
    BY <1>1 DEF TakeMessage
  <2> QED BY <2>2, <2>3, <2>4, <2>5, <2>6 DEF TypeOK, streamVars, ghostVars
<1>2. CASE CollectMore
  <2>1. inbox # <<>>
    BY <1>2 DEF CollectMore, Collecting
  <2>2. inbox' \in Seq(Messages) /\ batch' \in Seq(Messages)
    BY <1>2, <2>1, Heads DEF CollectMore, TypeOK
  <2> QED BY <1>2, <2>2 DEF CollectMore, TypeOK, streamVars, ghostVars
<1>3. CASE PushBack
  <2>1. inbox # <<>>
    BY <1>3 DEF PushBack, Collecting
  <2>2. inbox' \in Seq(Messages) /\ pending' \in Seq(Messages)
    BY <1>3, <2>1, Heads DEF PushBack
  <2> QED BY <1>3, <2>2 DEF PushBack, TypeOK, streamVars, ghostVars
<1>4. CASE CostRaises
  <2>1. /\ inbox # <<>> /\ batch # <<>> /\ inbox' = Tail(inbox) /\ batch \in Seq(Messages)
        /\ pc \in {"idle", "collect", "run", "answer"} /\ outcome \in {"none", "result", "error"}
    BY <1>4 DEF CostRaises, Collecting, LoopOK, TypeOK
  <2>2. PICK r \in Requests : r = Head(inbox).req
    BY <2>1, Heads, MessageType
  <2>3. inbox' \in Seq(Messages) /\ <<batch[1]>> \in Seq(Messages)
    BY <2>1, Heads
  <2>4. \/ FailStream(r) /\ UNCHANGED <<pc, batch, outcome, lost>>
        \/ /\ lost' = lost \cup {r} \cup {batch[i].req : i \in 2..Len(batch)}
           /\ batch' = <<batch[1]>> /\ outcome' = "error" /\ pc' = "answer"
           /\ UNCHANGED <<marks, told, payloads, pendingDone>>
    BY <1>4, <2>2 DEF CostRaises
  <2>5. /\ batch' \in Seq(Messages) /\ pc' \in {"idle", "collect", "run", "answer"}
        /\ outcome' \in {"none", "result", "error"}
    BY <2>1, <2>3, <2>4
  <2>6. lost' \subseteq Requests
    <3>1. \A i \in 2..Len(batch) : batch[i].req \in Requests
      <4> SUFFICES ASSUME NEW i \in 2..Len(batch) PROVE batch[i].req \in Requests
        OBVIOUS
      <4>1. batch[i] \in Messages
        BY <2>1
      <4> QED BY <4>1, MessageType
    <3>2. lost \subseteq Requests
      BY DEF TypeOK
    <3>3. \A x \in {batch[i].req : i \in 2..Len(batch)} : x \in Requests
      BY <3>1
    <3>4. lost' = lost \/ lost' = lost \cup {r} \cup {batch[i].req : i \in 2..Len(batch)}
      BY <2>4
    <3> QED BY <3>2, <3>3, <3>4
  <2>7. /\ told' \in [Requests -> Seq({"result", "error"})] /\ marks' \subseteq Requests
        /\ payloads' \subseteq Requests /\ pendingDone' \subseteq Requests
    BY <2>4, FailType DEF TypeOK
  <2>8. UNCHANGED <<kind, pending, put, tasks, running, abortOf, completed, handled, stopped, raced>>
    BY <1>4 DEF CostRaises
  <2> QED BY <2>3, <2>5, <2>6, <2>7, <2>8 DEF TypeOK
<1>5. CASE FirstRaises
  <2>1. batch # <<>>
    BY <1>5 DEF FirstRaises, LoopOK
  <2>2. PICK r \in Requests : r = batch[1].req
    BY <2>1, Heads, MessageType
  <2>3. /\ told' \in [Requests -> Seq({"result", "error"})] /\ marks' \subseteq Requests
        /\ payloads' \subseteq Requests /\ pendingDone' \subseteq Requests
    BY <1>5, <2>2, FailType DEF FirstRaises
  <2>4. batch' \in Seq(Messages)
    BY <1>5 DEF FirstRaises
  <2> QED BY <1>5, <2>3, <2>4 DEF FirstRaises, TypeOK, ghostVars
<1>6. CASE CollectEnds
  BY <1>6 DEF CollectEnds, TypeOK, streamVars, ghostVars
<1>7. CASE Compute
  BY <1>7 DEF Compute, TypeOK, ghostVars
<1>8. CASE AnswerNext
  <2>1. /\ batch # <<>> /\ batch' = Tail(batch) /\ outcome \in {"result", "error"}
        /\ UNCHANGED <<kind, inbox, pending, put, pc, outcome, tasks, running, abortOf,
                       payloads, pendingDone, handled, ghostVars>>
    BY <1>8 DEF AnswerNext, LoopOK, TypeOK
  <2>2. PICK r \in Requests : r = batch[1].req
    BY <2>1, Heads, MessageType
  <2>3. \/ marks' = MarksWithout(r) /\ UNCHANGED <<told, completed>>
        \/ /\ marks' = marks
           /\ \E answer \in {"result", "error"} : told' = [told EXCEPT ![r] = Append(@, answer)]
           /\ completed' = completed \/ completed' = completed \cup {r}
    BY <1>8, <2>1, <2>2 DEF AnswerNext
  <2>4. marks' \subseteq Requests /\ completed' \subseteq Requests
    BY <2>3 DEF TypeOK, MarksWithout
  <2>5. told' \in [Requests -> Seq({"result", "error"})]
    <3>1. \A answer \in {"result", "error"} : Append(told[r], answer) \in Seq({"result", "error"})
      BY DEF TypeOK
    <3> QED BY <2>3, <3>1 DEF TypeOK
  <2>6. batch' \in Seq(Messages)
    BY <2>1, Heads
  <2> QED BY <2>1, <2>4, <2>5, <2>6 DEF TypeOK, ghostVars
<1>9. CASE BatchEnds
  BY <1>9 DEF BatchEnds, TypeOK, streamVars, ghostVars
<1>10. CASE NewStream
  <2>1. /\ batch # <<>> /\ pc' = "idle" /\ batch' = <<>>
        /\ UNCHANGED <<kind, inbox, pending, put, outcome, tasks, running, abortOf, handled, stopped, lost>>
    BY <1>10 DEF NewStream, LoopOK
  <2>2. PICK r \in Requests : r = batch[1].req
    BY <2>1, Heads, MessageType
  <2>3. \/ /\ marks' = marks \ {r} /\ raced' = raced \cup ({r} \cap marks) /\ completed' = completed \ {r}
           /\ \/ payloads' = payloads \cup {r} /\ UNCHANGED <<pendingDone, told>>
              \/ FinishStream(r, FALSE) /\ UNCHANGED payloads
        \/ FailStream(r) /\ UNCHANGED <<raced, completed>>
        \/ UNCHANGED <<marks, raced, payloads, pendingDone, told, completed>>
    BY <1>10, <2>2 DEF NewStream
  <2>4. raced' \subseteq Requests /\ completed' \subseteq Requests /\ batch' \in Seq(Messages)
    <3>1. /\ raced' = raced \/ raced' = raced \cup ({r} \cap marks)
          /\ completed' = completed \/ completed' = completed \ {r}
      BY <2>3
    <3> QED BY <2>1, <3>1 DEF TypeOK
  <2>5. Append(told[r], "result") \in Seq({"result", "error"})
    BY DEF TypeOK
  <2>6. /\ told' \in [Requests -> Seq({"result", "error"})] /\ marks' \subseteq Requests
        /\ payloads' \subseteq Requests /\ pendingDone' \subseteq Requests
    <3>1. CASE FailStream(r)
      BY <3>1, FailType
    <3>2. CASE FinishStream(r, FALSE) /\ payloads' = payloads /\ marks' = marks \ {r}
      BY <2>5, <3>2 DEF FinishStream, TypeOK
    <3>3. CASE marks' \subseteq marks /\ payloads' \subseteq payloads \cup {r} /\ UNCHANGED <<pendingDone, told>>
      BY <3>3 DEF TypeOK
    <3> QED BY <2>3, <3>1, <3>2, <3>3
  <2> QED BY <2>1, <2>4, <2>6 DEF TypeOK
<1>11. CASE HandleChunk
  <2>1. /\ batch # <<>> /\ batch' = Tail(batch) /\ batch[1].type = "chunk"
        /\ pc' \in {"idle", "run"}
        /\ UNCHANGED <<kind, inbox, pending, put, outcome, tasks, running, abortOf, completed, ghostVars>>
    BY <1>11 DEF HandleChunk, LoopOK
  <2>2. PICK r \in Requests : r = batch[1].req
    BY <2>1, Heads, MessageType
  <2>3. batch[1].n \in Nat /\ batch' \in Seq(Messages)
    <3>1. batch[1].n \in 1..Chunks[batch[1].req] /\ Chunks[batch[1].req] \in Nat
      BY <2>1, Heads, MessageType
    <3> QED BY <2>1, <3>1, Heads
  <2>4. Append(handled[r], batch[1].n) \in Seq(Nat)
    BY <2>3 DEF TypeOK
  <2>5. \/ UNCHANGED <<handled, told, marks, payloads, pendingDone>>
        \/ /\ handled' = [handled EXCEPT ![r] = Append(@, batch[1].n)]
           /\ UNCHANGED <<told, marks, payloads, pendingDone>>
        \/ FailStream(r) /\ UNCHANGED handled
    BY <1>11, <2>2 DEF HandleChunk
  <2>6. handled' \in [Requests -> Seq(Nat)]
    BY <2>4, <2>5 DEF TypeOK
  <2>7. /\ told' \in [Requests -> Seq({"result", "error"})] /\ marks' \subseteq Requests
        /\ payloads' \subseteq Requests /\ pendingDone' \subseteq Requests
    BY <2>5, FailType DEF TypeOK
  <2> QED BY <2>1, <2>3, <2>6, <2>7 DEF TypeOK, ghostVars
<1>12. CASE HandleDone
  <2>1. /\ batch # <<>> /\ pc' = "idle" /\ batch' = <<>>
        /\ UNCHANGED <<kind, inbox, pending, put, outcome, tasks, running, abortOf, completed,
                       handled, stopped, lost>>
    BY <1>12 DEF HandleDone, LoopOK
  <2>2. PICK r \in Requests : r = batch[1].req
    BY <2>1, Heads, MessageType
  <2>3. \/ /\ pendingDone' \subseteq pendingDone \cup {r} /\ raced' = raced \cup ({r} \cap marks)
           /\ UNCHANGED <<told, marks, payloads>>
        \/ /\ FinishStream(r, r \in marks) /\ payloads' \subseteq payloads
           /\ UNCHANGED <<marks, raced>>
        \/ FailStream(r) /\ UNCHANGED raced
    BY <1>12, <2>2 DEF HandleDone, EarlyDone
  <2>4. raced' \subseteq Requests /\ batch' \in Seq(Messages)
    BY <2>1, <2>3 DEF TypeOK
  <2>5. Append(told[r], "result") \in Seq({"result", "error"})
    BY DEF TypeOK
  <2>6. /\ told' \in [Requests -> Seq({"result", "error"})] /\ marks' \subseteq Requests
        /\ payloads' \subseteq Requests /\ pendingDone' \subseteq Requests
    <3>1. CASE FailStream(r)
      BY <3>1, FailType
    <3>2. CASE FinishStream(r, r \in marks) /\ payloads' \subseteq payloads /\ marks' = marks
      BY <2>5, <3>2 DEF FinishStream, TypeOK
    <3>3. CASE pendingDone' \subseteq pendingDone \cup {r} /\ UNCHANGED <<told, marks, payloads>>
      BY <3>3 DEF TypeOK
    <3> QED BY <2>3, <3>1, <3>2, <3>3
  <2> QED BY <2>1, <2>4, <2>6 DEF TypeOK
<1> QED BY <1>1, <1>2, <1>3, <1>4, <1>5, <1>6, <1>7, <1>8, <1>9, <1>10, <1>11, <1>12 DEF Loop, Collect

LEMMA TypeStep ==
  ASSUME TypeOK, ControlInv, IsFiniteSet(tasks), [Next]_vars
  PROVE  TypeOK' /\ IsFiniteSet(tasks')
<1>1. ASSUME NEW r \in Requests, ThreadStarts(r) PROVE TypeOK' /\ IsFiniteSet(tasks')
  BY <1>1 DEF ThreadStarts, TypeOK, streamVars, ghostVars
<1>2. ASSUME NEW r \in Requests, NEW answer \in {"result", "error"}, Finish(r, answer)
      PROVE  TypeOK' /\ IsFiniteSet(tasks')
  <2>1. Append(told[r], answer) \in Seq({"result", "error"})
    BY DEF TypeOK
  <2>2. told' \in [Requests -> Seq({"result", "error"})] /\ marks' \subseteq Requests
        /\ running' \subseteq Requests
    BY <1>2, <2>1 DEF Finish, MarksWithout, TypeOK
  <2>3. tasks' \subseteq Requests /\ IsFiniteSet(tasks') /\ Cardinality(tasks') <= MaxThreads
    BY <1>2, TasksType DEF Finish
  <2>4. UNCHANGED <<kind, inbox, pending, put, pc, batch, outcome, abortOf, streamVars, ghostVars>>
    BY <1>2 DEF Finish
  <2> QED BY <2>2, <2>3, <2>4 DEF TypeOK, streamVars, ghostVars
<1>3. ASSUME NEW m \in Messages, Put(m) PROVE TypeOK' /\ IsFiniteSet(tasks')
  <2>1. put' \in [Requests -> [new : BOOLEAN, n : Nat, done : BOOLEAN]] /\ inbox' \in Seq(Messages)
    BY <1>3, PutType DEF Put
  <2>2. UNCHANGED <<kind, pending, pc, batch, outcome, tasks, running, marks, abortOf,
                    streamVars, told, ghostVars>>
    BY <1>3 DEF Put
  <2> QED BY <2>1, <2>2 DEF TypeOK, streamVars, ghostVars
<1>4. ASSUME NEW r \in Requests, Abort(r) PROVE TypeOK' /\ IsFiniteSet(tasks')
  <2>1. tasks' \subseteq Requests /\ IsFiniteSet(tasks') /\ Cardinality(tasks') <= MaxThreads
    BY <1>4, TasksType DEF Abort, TypeOK
  <2> QED BY <1>4, <2>1 DEF Abort, TypeOK, streamVars
<1>5. ASSUME NEW r \in Requests, AbortMarks(r) PROVE TypeOK' /\ IsFiniteSet(tasks')
  BY <1>5 DEF AbortMarks, TypeOK, streamVars
<1>6. CASE AbortClears
  BY <1>6 DEF AbortClears, TypeOK, ghostVars
<1>7. CASE UNCHANGED vars
  BY <1>7 DEF vars, TypeOK, streamVars, ghostVars
<1> QED BY <1>1, <1>2, <1>3, <1>4, <1>5, <1>6, <1>7, TypeLoop DEF Next, Threads

\* The loop's control: what it has in hand at each place.
LEMMA LoopControl ==
  ASSUME TypeOK, TypeOK', ControlInv, Loop
  PROVE  LoopOK' /\ BatchOK'
<1> USE DEF ControlInv
<1>1. CASE TakeMessage
  <2>1. /\ pc = "idle" /\ batch = <<>> /\ NextQueue # <<>> /\ UNCHANGED <<kind, running, abortOf, outcome>>
        /\ Len(pending) <= 1 /\ pending \in Seq(Messages)
    BY <1>1 DEF TakeMessage, LoopOK, TypeOK
  <2>2. \/ pc' = "idle" /\ batch' = <<>> /\ (kind \in ThreadKinds \/ tasks' = tasks)
        \/ pc' = "collect" /\ batch' = <<NextMessage>> /\ kind \notin ThreadKinds /\ tasks' = tasks
    BY <1>1, <2>1 DEF TakeMessage, ThreadKinds
  <2>3. Len(pending') <= 1 /\ pending' = <<>>
    <3>1. CASE pending = <<>>
      BY <1>1, <3>1 DEF TakeMessage
    <3>2. CASE pending # <<>>
      <4>1. Len(pending) = 1 /\ pending' = Tail(pending)
        <5>1. Len(pending) > 0 /\ Len(pending) \in Nat
          BY <2>1, <3>2
        <5>2. Len(pending) = 1
          BY <2>1, <5>1
        <5>3. pending' = Tail(pending)
          BY <1>1, <3>2 DEF TakeMessage
        <5> QED BY <5>2, <5>3
      <4>2. Len(Tail(pending)) = 0 /\ Tail(pending) = <<>>
        BY <2>1, <4>1
      <4> QED BY <4>1, <4>2
    <3> QED BY <3>1, <3>2
  <2>4. LoopOK'
    BY <2>1, <2>2, <2>3 DEF LoopOK
  <2>5. BatchOK'
    BY <2>1, <2>2, BatchShrinks
  <2> QED BY <2>4, <2>5
<1>2. CASE CollectMore
  <2>1. batch' # <<>>
    <3>1. batch # <<>> /\ batch \in Seq(Messages) /\ inbox # <<>>
      BY <1>2 DEF CollectMore, Collecting, LoopOK, TypeOK
    <3>2. Append(batch, Head(inbox)) # <<>>
      BY <3>1
    <3> QED BY <1>2, <3>1, <3>2 DEF CollectMore
  <2>2. LoopOK'
    BY <1>2, <2>1 DEF CollectMore, Collecting, LoopOK
  <2> QED BY <1>2, <2>2, BatchGrows
<1>3. CASE PushBack
  <2>1. /\ pc = "collect" /\ pending = <<>> /\ pc' = "run" /\ pending' = <<Head(inbox)>> \o pending
        /\ UNCHANGED <<kind, batch, tasks, running, abortOf>>
    BY <1>3 DEF PushBack, Collecting, LoopOK
  <2>2. Len(pending') = 1
    BY <2>1
  <2>3. LoopOK'
    BY <2>1, <2>2 DEF LoopOK
  <2> QED BY <2>1, <2>3, BatchShrinks
<1>4. CASE CostRaises
  <2>1. /\ pc = "collect" /\ batch # <<>> /\ batch[1].type = "new" /\ Joins(Head(inbox))
        /\ UNCHANGED <<kind, pending, tasks, running, abortOf>>
    BY <1>4 DEF CostRaises, Collecting, LoopOK
  <2>2. \/ UNCHANGED <<pc, batch, outcome>>
        \/ batch' = <<batch[1]>> /\ outcome' = "error" /\ pc' = "answer"
    BY <1>4 DEF CostRaises
  <2>3. LoopOK'
    BY <2>1, <2>2 DEF LoopOK
  <2>4. pc' = "answer" => \A i \in 1..Len(batch') : batch'[i].type = "new" /\ ~Streams(batch'[i].req)
    <3>1. ~Streams(batch[1].req)
      BY <2>1 DEF Joins
    <3>2. ASSUME pc' = "answer", NEW i \in 1..Len(batch') PROVE batch'[i] = batch[1]
      <4>1. batch' = <<batch[1]>>
        BY <2>1, <2>2, <3>2
      <4> QED BY <4>1
    <3> QED BY <2>1, <3>1, <3>2
  <2> QED BY <2>1, <2>2, <2>3, <2>4, BatchShrinks
<1>5. CASE FirstRaises
  <2>1. /\ pc' = "idle" /\ batch' = <<>> /\ pc = "collect"
        /\ UNCHANGED <<kind, pending, tasks, running, abortOf>>
    BY <1>5 DEF FirstRaises
  <2>2. LoopOK'
    BY <2>1 DEF LoopOK
  <2> QED BY <2>1, <2>2, BatchShrinks
<1>6. CASE CollectEnds
  <2>1. pc' = "run" /\ pc = "collect" /\ UNCHANGED <<kind, batch, pending, tasks, running, abortOf>>
    BY <1>6 DEF CollectEnds
  <2>2. LoopOK'
    BY <2>1 DEF LoopOK
  <2> QED BY <2>1, <2>2, BatchShrinks
<1>7. CASE Compute
  <2>1. /\ pc = "run" /\ pc' = "answer" /\ outcome' # "none" /\ batch[1].type = "new" /\ ~Streams(batch[1].req)
        /\ UNCHANGED <<kind, batch, pending, tasks, running, abortOf>>
    BY <1>7 DEF Compute
  <2>2. LoopOK'
    BY <2>1 DEF LoopOK
  <2>3. 1 \in 1..Len(batch)
    BY <2>1, Heads DEF LoopOK
  <2>4. \A i \in 1..Len(batch) : batch[i].type = "new" /\ ~Streams(batch[i].req)
    BY <2>1, <2>3 DEF BatchOK
  <2> QED BY <2>1, <2>2, <2>4, BatchShrinks
<1>8. CASE AnswerNext
  <2>1. /\ pc = "answer" /\ batch # <<>> /\ batch' = Tail(batch)
        /\ UNCHANGED <<kind, pc, pending, tasks, running, abortOf, outcome>>
    BY <1>8 DEF AnswerNext
  <2>2. LoopOK'
    BY <2>1 DEF LoopOK
  <2>3. \A i \in 1..Len(batch') : batch'[i].type = "new" /\ ~Streams(batch'[i].req)
    BY <2>1, Heads DEF BatchOK
  <2> QED BY <2>1, <2>2, <2>3, BatchShrinks
<1>9. CASE BatchEnds
  <2>1. /\ batch = <<>> /\ pc' = "idle" /\ UNCHANGED <<kind, batch, pending, tasks, running, abortOf>>
    BY <1>9 DEF BatchEnds
  <2>2. LoopOK'
    BY <2>1 DEF LoopOK
  <2> QED BY <2>1, <2>2, BatchShrinks
<1>10. CASE NewStream \/ HandleDone
  <2>1. /\ pc' = "idle" /\ batch' = <<>> /\ UNCHANGED <<kind, pending, tasks, running, abortOf>>
    BY <1>10 DEF NewStream, HandleDone
  <2>2. LoopOK'
    BY <2>1 DEF LoopOK
  <2> QED BY <2>1, <2>2, BatchShrinks
<1>11. CASE HandleChunk
  <2>1. /\ pc = "run" /\ batch # <<>> /\ batch' = Tail(batch)
        /\ pc' = IF Len(batch) = 1 THEN "idle" ELSE "run"
        /\ UNCHANGED <<kind, pending, tasks, running, abortOf>>
    BY <1>11 DEF HandleChunk, LoopOK
  <2>2. Len(batch) = 1 <=> batch' = <<>>
    <3>1. batch \in Seq(Messages) /\ Len(batch) > 0 /\ Len(batch) \in Nat
      BY <2>1 DEF TypeOK
    <3>2. Len(Tail(batch)) = Len(batch) - 1 /\ Tail(batch) \in Seq(Messages)
      BY <2>1, <3>1
    <3>3. PICK u \in Seq(Messages) : u = Tail(batch)
      BY <3>2
    <3>4. u = <<>> <=> Len(u) = 0
      OBVIOUS
    <3> QED BY <2>1, <3>1, <3>2, <3>3, <3>4
  <2>3. LoopOK'
    BY <2>1, <2>2 DEF LoopOK
  <2> QED BY <2>1, <2>3, BatchShrinks
<1> QED BY <1>1, <1>2, <1>3, <1>4, <1>5, <1>6, <1>7, <1>8, <1>9, <1>10, <1>11 DEF Loop, Collect

LEMMA ControlStep ==
  ASSUME TypeOK, TypeOK', ControlInv, [Next]_vars
  PROVE  LoopOK' /\ BatchOK'
<1>1. ASSUME UNCHANGED <<kind, batch, pending, pc, outcome>>,
             kind \notin ThreadKinds => tasks' = {} /\ running' = {},
             kind # "streaming" => abortOf' = NoRequest
      PROVE  LoopOK' /\ BatchOK'
  <2>1. LoopOK'
    BY <1>1 DEF LoopOK, ControlInv
  <2>2. \A r : Streams(r)' <=> Streams(r)
    BY <1>1 DEF Streams
  <2> QED BY <1>1, <2>1, <2>2 DEF BatchOK, ControlInv
<1>2. /\ kind \notin ThreadKinds => tasks = {} /\ running = {}
      /\ kind # "streaming" => abortOf = NoRequest
  BY DEF ControlInv, LoopOK
<1>3. ASSUME NEW r \in Requests,
             ThreadStarts(r) \/ Finish(r, "result") \/ Finish(r, "error") \/ Abort(r) \/ AbortMarks(r)
      PROVE  LoopOK' /\ BatchOK'
  <2>1. UNCHANGED <<kind, batch, pending, pc, outcome>>
    BY <1>3 DEF ThreadStarts, Finish, Abort, AbortMarks
  <2>2. /\ kind \notin ThreadKinds => tasks' = {} /\ running' = {}
        /\ kind # "streaming" => abortOf' = NoRequest
    BY <1>2, <1>3 DEF ThreadStarts, Finish, Abort, AbortMarks, ThreadKinds
  <2> QED BY <1>1, <2>1, <2>2
<1>4. ASSUME NEW m \in Messages, Put(m) PROVE LoopOK' /\ BatchOK'
  BY <1>1, <1>2, <1>4 DEF Put
<1>5. CASE AbortClears
  BY <1>1, <1>2, <1>5 DEF AbortClears
<1>6. CASE UNCHANGED vars
  BY <1>1, <1>2, <1>6 DEF vars
<1> QED BY <1>3, <1>4, <1>5, <1>6, LoopControl DEF Next, Threads

\* Marks of aborted streams.
LEMMA StopStep ==
  ASSUME TypeOK, ControlInv, \A r \in Requests : StopOK(r), [Next]_vars
  PROVE  \A r \in Requests : StopOK(r)'
<1> USE DEF ControlInv
<1>1. ASSUME UNCHANGED <<kind, stopped, abortOf>>, raced \subseteq raced',
             kind = "streaming" => marks \subseteq marks',
             payloads' \subseteq payloads, pendingDone' \subseteq pendingDone
      PROVE  \A r \in Requests : StopOK(r)'
  BY <1>1 DEF StopOK
<1>2. CASE TakeMessage \/ Collect \/ Compute \/ AnswerNext \/ BatchEnds \/ HandleChunk
  <2>1. UNCHANGED <<kind, stopped, abortOf>> /\ raced' = raced
    BY <1>2 DEF TakeMessage, Collect, Compute, AnswerNext, BatchEnds, HandleChunk, CollectMore,
                PushBack, CostRaises, FirstRaises, CollectEnds, ghostVars
  <2>2. kind = "streaming" => marks \subseteq marks'
    BY <1>2 DEF TakeMessage, Collect, Compute, AnswerNext, BatchEnds, HandleChunk, CollectMore,
                PushBack, CostRaises, FirstRaises, CollectEnds, MarksWithout, FailStream
  <2>3. payloads' \subseteq payloads /\ pendingDone' \subseteq pendingDone
    BY <1>2 DEF TakeMessage, Collect, Compute, AnswerNext, BatchEnds, HandleChunk, CollectMore,
                PushBack, CostRaises, FirstRaises, CollectEnds, FailStream, streamVars
  <2> QED BY <1>1, <2>1, <2>2, <2>3
<1>3. ASSUME NEW r \in Requests,
             ThreadStarts(r) \/ Finish(r, "result") \/ Finish(r, "error")
      PROVE  \A s \in Requests : StopOK(s)'
  BY <1>1, <1>3 DEF ThreadStarts, Finish, MarksWithout, streamVars, ghostVars
<1>4. ASSUME NEW m \in Messages, Put(m) PROVE \A s \in Requests : StopOK(s)'
  BY <1>1, <1>4 DEF Put, streamVars, ghostVars
<1>5. ASSUME NEW r \in Requests, Abort(r) PROVE \A s \in Requests : StopOK(s)'
  BY <1>5 DEF Abort, StopOK
<1>6. ASSUME NEW r \in Requests, AbortMarks(r) PROVE \A s \in Requests : StopOK(s)'
  BY <1>6, NoRequestAssumption DEF AbortMarks, StopOK, streamVars
<1>7. CASE AbortClears
  BY <1>7 DEF AbortClears, StopOK, ghostVars
<1>8. CASE NewStream
  <2>1. PICK r : r = batch[1].req
    OBVIOUS
  <2>2. /\ UNCHANGED <<kind, stopped, abortOf>>
        /\ \/ /\ marks' = marks \ {r} /\ raced' = raced \cup ({r} \cap marks)
              /\ payloads' \subseteq payloads \cup {r} /\ pendingDone' \subseteq pendingDone
           \/ FailStream(r) /\ raced' = raced
           \/ UNCHANGED <<marks, raced, payloads, pendingDone>>
    BY <1>8, <2>1 DEF NewStream, FinishStream
  <2>3. CASE /\ marks' = marks \ {r} /\ raced' = raced \cup ({r} \cap marks)
             /\ payloads' \subseteq payloads \cup {r} /\ pendingDone' \subseteq pendingDone
    BY <2>2, <2>3 DEF StopOK
  <2>4. CASE raced' = raced /\ marks \subseteq marks' /\ payloads' \subseteq payloads
             /\ pendingDone' \subseteq pendingDone
    BY <1>1, <2>2, <2>4
  <2> QED BY <2>2, <2>3, <2>4 DEF FailStream
<1>9. CASE HandleDone
  <2>1. PICK r : r = batch[1].req
    OBVIOUS
  <2>2. /\ UNCHANGED <<kind, stopped, abortOf>>
        /\ \/ /\ marks' = marks /\ raced' = raced \cup ({r} \cap marks)
              /\ payloads' = payloads /\ pendingDone' \subseteq pendingDone \cup {r}
           \/ /\ raced' = raced /\ marks \subseteq marks' /\ payloads' \subseteq payloads
              /\ pendingDone' \subseteq pendingDone
    BY <1>9, <2>1 DEF HandleDone, FinishStream, FailStream, EarlyDone
  <2>3. CASE /\ marks' = marks /\ raced' = raced \cup ({r} \cap marks)
             /\ payloads' = payloads /\ pendingDone' \subseteq pendingDone \cup {r}
    BY <2>2, <2>3 DEF StopOK
  <2>4. CASE raced' = raced /\ marks \subseteq marks' /\ payloads' \subseteq payloads
             /\ pendingDone' \subseteq pendingDone
    BY <1>1, <2>2, <2>4
  <2> QED BY <2>2, <2>3, <2>4
<1>10. CASE UNCHANGED vars
  BY <1>1, <1>10 DEF vars, streamVars, ghostVars
<1> QED BY <1>2, <1>3, <1>4, <1>5, <1>6, <1>7, <1>8, <1>9, <1>10 DEF Next, Loop, Threads
-----------------------------------------------------------------------------
(* What the steps do to the requests.                                      *)

RequestSteps == TypeOK /\ TypeOK' /\ LoopOK /\ BatchOK /\ RequestsOK /\ kind' = kind

\* A step that takes nothing and says nothing.
LEMMA StandStill ==
  ASSUME RequestSteps, UNCHANGED <<batch, pending, inbox, put, handled, told>>,
         payloads' \subseteq payloads, pendingDone' \subseteq pendingDone,
         tasks' \cup running' \subseteq tasks \cup running, marks \subseteq marks'
  PROVE  RequestsOK'
<1> USE DEF RequestSteps
<1>1. Cut(0, 0) /\ Line' = Line /\ Len(Line) \in Nat
  BY CutNothing, LineFacts DEF Line
<1>2. \A r \in Requests : Same(r)
  BY DEF Same
<1>3. \A i \in 1..Len(Line') : i <= Len(batch') => From(i, 0, 0) <= Len(batch)
  BY <1>1 DEF From
<1>4. \A r \in Requests : Alive(r)' => Alive(r)
  BY DEF Alive, Held
<1>5. \A i \in 1..Len(Line') : Line'[i].req # NoRequest
  BY LineNext, MessageType, NoRequestAssumption
<1>6. \A i \in 1..Len(Line') : i <= Len(batch') =>
        \/ From(i, 0, 0) <= Len(batch) \/ Line'[i].req = NoRequest
        \/ ~Streams(Line'[i].req) \/ Line'[i].req \notin marks
  BY <1>3
<1>7. \A r \in Requests : r # NoRequest /\ Streams(r) /\ Alive(r)' =>
        Alive(r) /\ \A i \in 0+1..0 : ~(Line[i].type = "chunk" /\ Line[i].req = r)
  BY <1>4
<1>8. NoRequest \in Requests => RequestOK(NoRequest)' /\ FlowOK(NoRequest)'
  BY NoRequestAssumption
<1>9. \A i \in 1..Len(Line') : Line'[i].req = NoRequest => PlaceOK(i)'
  BY <1>5
<1> HIDE DEF RequestSteps
<1>10. TypeOK /\ TypeOK' /\ RequestsOK /\ kind' = kind
  BY DEF RequestSteps
<1>11. Touches(0, 0, NoRequest)
  BY <1>1, <1>2, <1>6, <1>7, <1>8, <1>9 DEF Touches
<1> QED BY <1>10, <1>11, Touch

\* A step that takes messages and says nothing.
LEMMA Quiet ==
  ASSUME RequestSteps, NEW a, NEW b, Cut(a, b), \A r \in Requests : Same(r),
         \A i \in 1..Len(Line') : i <= Len(batch') =>
           \/ From(i, a, b) <= Len(batch) \/ ~Streams(Line'[i].req) \/ Line'[i].req \notin marks,
         \A r \in Requests : Streams(r) /\ Alive(r)' =>
           Alive(r) /\ \A i \in a+1..b : ~(Line[i].type = "chunk" /\ Line[i].req = r)
  PROVE  RequestsOK'
<1> USE DEF RequestSteps
<1>1. \A i \in 1..Len(Line') : Line'[i].req # NoRequest
  BY LineNext, MessageType, NoRequestAssumption
<1>2. \A r \in Requests : r # NoRequest => Same(r)
  OBVIOUS
<1>3. \A i \in 1..Len(Line') : i <= Len(batch') =>
        \/ From(i, a, b) <= Len(batch) \/ Line'[i].req = NoRequest
        \/ ~Streams(Line'[i].req) \/ Line'[i].req \notin marks
  OBVIOUS
<1>4. \A r \in Requests : r # NoRequest /\ Streams(r) /\ Alive(r)' =>
        Alive(r) /\ \A i \in a+1..b : ~(Line[i].type = "chunk" /\ Line[i].req = r)
  OBVIOUS
<1> HIDE DEF RequestSteps
<1>5. TypeOK /\ TypeOK' /\ RequestsOK /\ kind' = kind
  BY DEF RequestSteps
<1>6. NoRequest \in Requests => RequestOK(NoRequest)' /\ FlowOK(NoRequest)'
  BY NoRequestAssumption
<1>7. \A i \in 1..Len(Line') : Line'[i].req = NoRequest => PlaceOK(i)'
  BY <1>1
<1>8. Touches(a, b, NoRequest)
  BY <1>2, <1>3, <1>4, <1>6, <1>7 DEF Touches
<1> QED BY <1>5, <1>8, Touch

\* The request of a message in the line, and what is known of it.
LEMMA InLine ==
  ASSUME TypeOK, RequestsOK, NEW i \in 1..Len(Line)
  PROVE  /\ PlaceOK(i) /\ Line[i] \in Messages /\ Line[i].req \in Requests
         /\ Line[i].type \in {"new", "done", "chunk"}
         /\ ~Streams(Line[i].req) => Line[i].type = "new"
BY LineFacts, MessageType DEF RequestsOK, PlaceOK

\* Once the only payload of a request that is no stream is cut, nothing of
\* it is left.
LEMMA Alone ==
  ASSUME RequestSteps, NEW a, NEW b, Cut(a, b), NEW k \in a+1..b, k \in 1..Len(Line),
         ~Streams(Line[k].req), NEW i \in 1..Len(Line'), Line'[i].req = Line[k].req
  PROVE  FALSE
<1> USE DEF RequestSteps
<1>1. PICK x \in 1..Len(Line) : x = From(i, a, b) /\ Line'[i] = Line[x] /\ x \notin a+1..b
  BY CutFacts DEF Cut
<1>2. Line[x].req = Line[k].req /\ Line[x].type = "new" /\ Line[k].type = "new" /\ x # k
  BY <1>1, InLine
<1>3. x < k \/ k < x
  BY <1>1, <1>2, LineFacts
<1> QED BY <1>1, <1>2, <1>3 DEF RequestsOK, OrderOK

\* A failed message: its request is answered and closed.
LEMMA Fails ==
  ASSUME RequestSteps, NEW a, NEW b, Cut(a, b), NEW r0 \in Requests, FailStream(r0),
         told[r0] = <<>>, Streams(r0) \/ put[r0].new, UNCHANGED <<put, handled, tasks, running>>,
         Streams(r0) \/ r0 \notin tasks \cup running,
         \A i \in 1..Len(Line') : Line'[i].req = r0 => Streams(r0) /\ ~(i <= Len(batch')),
         \A i \in 1..Len(Line') : i <= Len(batch') => From(i, a, b) <= Len(batch),
         \A r \in Requests : r # r0 /\ Streams(r) /\ Alive(r)' =>
           Alive(r) /\ \A i \in a+1..b : ~(Line[i].type = "chunk" /\ Line[i].req = r)
  PROVE  RequestsOK'
<1> USE DEF RequestSteps
<1>1. /\ marks' = marks \cup {r0} /\ payloads' = payloads \ {r0} /\ pendingDone' = pendingDone \ {r0}
      /\ \A r \in Requests : r # r0 => told'[r] = told[r]
      /\ told'[r0] = <<"error">>
  BY DEF FailStream, TypeOK
<1>2. \A r \in Requests : r # r0 => Same(r)
  BY <1>1 DEF Same
<1>3. \A r : Streams(r)' <=> Streams(r)
  BY DEF Streams
<1>4. ~Held(r0)'
  <2> SUFFICES ASSUME NEW i \in 1..Len(batch'), batch'[i].req = r0 PROVE FALSE
    BY DEF Held
  <2>1. i \in 1..Len(Line') /\ Line'[i] = batch'[i] /\ i <= Len(batch')
    BY LineNext
  <2> QED BY <2>1
<1>5. r0 \in tasks \cup running => FALSE
  <2>1. Streams(r0) => kind = "streaming"
    BY DEF Streams
  <2> QED BY <2>1 DEF LoopOK, ThreadKinds
<1>6. Len(told'[r0]) = 1 /\ told'[r0] # <<>> /\ told'[r0] # <<"result">>
  BY <1>1
<1>7. RequestOK(r0)'
  BY <1>1, <1>3, <1>5, <1>6 DEF RequestsOK, RequestOK
<1>8. FlowOK(r0)'
  BY <1>1, <1>3, <1>4, <1>6 DEF RequestsOK, FlowOK, Alive
<1>9. ASSUME NEW i \in 1..Len(Line'), Line'[i].req = r0 PROVE PlaceOK(i)'
  <2>1. PICK x \in 1..Len(Line) : Line'[i] = Line[x]
    BY CutFacts DEF Cut
  <2>2. PlaceOK(x) /\ Streams(r0) /\ ~(i <= Len(batch')) /\ r0 \in marks'
    BY <1>1, <1>9, <2>1 DEF RequestsOK
  <2> QED BY <1>1, <1>3, <1>9, <2>1, <2>2 DEF PlaceOK
<1> QED BY <1>2, <1>7, <1>8, <1>9, Touch DEF Touches

\* An answer to a request that is no stream.
LEMMA Answers ==
  ASSUME RequestSteps, NEW a, NEW b, Cut(a, b), NEW r0 \in Requests, NEW answer,
         told' = [told EXCEPT ![r0] = Append(@, answer)], told[r0] = <<>>, ~Streams(r0), put[r0].new,
         r0 \notin tasks' \cup running', UNCHANGED <<put, handled, payloads, pendingDone, marks>>,
         tasks' \cup running' \subseteq tasks \cup running,
         \A i \in 1..Len(Line') : Line'[i].req # r0,
         \A i \in 1..Len(Line') : i <= Len(batch') => From(i, a, b) <= Len(batch),
         \A r \in Requests : r # r0 /\ Streams(r) /\ Alive(r)' =>
           Alive(r) /\ \A i \in a+1..b : ~(Line[i].type = "chunk" /\ Line[i].req = r)
  PROVE  RequestsOK'
<1> USE DEF RequestSteps
<1>1. told'[r0] = <<answer>> /\ \A r \in Requests : r # r0 => told'[r] = told[r]
  BY DEF TypeOK
<1>2. \A r \in Requests : r # r0 => Same(r)
  BY <1>1 DEF Same
<1>3. \A r : Streams(r)' <=> Streams(r)
  BY DEF Streams
<1>4. Len(told'[r0]) = 1
  BY <1>1
<1>5. RequestOK(r0)'
  BY <1>3, <1>4 DEF RequestsOK, RequestOK
<1>6. FlowOK(r0)'
  BY <1>3 DEF RequestsOK, FlowOK
<1> QED BY <1>2, <1>5, <1>6, Touch DEF Touches

\* TakeMessage: dropped, handed to a thread, or the first of a batch.
LEMMA TakeStep ==
  ASSUME RequestSteps, TakeMessage
  PROVE  RequestsOK'
<1> USE DEF RequestSteps
<1>1. /\ batch = <<>> /\ NextQueue # <<>> /\ (batch' = <<>> \/ batch' = <<NextMessage>>)
      /\ UNCHANGED <<put, running, payloads, pendingDone, handled, told>>
      /\ IF pending # <<>> THEN pending' = Tail(pending) /\ UNCHANGED inbox
                           ELSE inbox' = Tail(inbox) /\ UNCHANGED pending
  BY DEF TakeMessage, LoopOK, streamVars
<1>2. /\ 1 \in 1..Len(Line) /\ Line[1] = NextMessage
      /\ batch' = <<>> => Cut(0, 1)
      /\ batch' # <<>> => Cut(0, 0)
  BY <1>1, CutTaken
<1>3. PICK r0 \in Requests : r0 = NextMessage.req
  BY <1>2, InLine
<1>4. ASSUME batch' = <<>> PROVE (\A i \in 1..Len(batch') : FALSE) /\ (\A r : ~Held(r)')
  BY <1>4 DEF Held
<1>5. CASE r0 \in marks
  <2>1. marks' = MarksWithout(r0) /\ batch' = <<>> /\ tasks' = tasks
    BY <1>1, <1>3, <1>5 DEF TakeMessage
  <2>2. \A r \in Requests : Same(r)
    BY <1>1, <2>1 DEF Same, Streams, MarksWithout
  <2>3. \A i \in 1..Len(Line') : ~(i <= Len(batch'))
    BY <2>1, LineNext
  <2>4. ASSUME NEW r \in Requests, Streams(r), Alive(r)'
        PROVE  Alive(r) /\ \A i \in 0+1..1 : ~(Line[i].type = "chunk" /\ Line[i].req = r)
    <3>1. r \notin marks
      BY <1>4, <2>1, <2>4 DEF Alive, Streams, MarksWithout
    <3> QED BY <1>2, <1>3, <1>5, <3>1 DEF Alive
  <2>5. Cut(0, 1)
    BY <1>2, <2>1
  <2> HIDE DEF RequestSteps
  <2> QED BY <2>2, <2>3, <2>4, <2>5, Quiet
<1>6. CASE r0 \notin marks /\ kind \in ThreadKinds
  <2>1. marks' = marks /\ batch' = <<>> /\ tasks' = tasks \cup {r0} /\ Cut(0, 1)
    BY <1>1, <1>2, <1>3, <1>6 DEF TakeMessage, ThreadKinds
  <2>2. \A r : ~Streams(r)
    BY <1>6 DEF Streams, ThreadKinds
  <2>3. \A r \in Requests : r # r0 => Same(r)
    BY <1>1, <2>1 DEF Same
  <2>4. put[r0].new /\ told[r0] = <<>>
    BY <1>2, <1>3, <2>2, InLine DEF PlaceOK
  <2>5. RequestOK(r0) /\ FlowOK(r0)
    BY DEF RequestsOK
  <2>6. RequestOK(r0)' /\ FlowOK(r0)'
    BY <1>1, <2>1, <2>2, <2>4, <2>5 DEF RequestOK, FlowOK, Streams
  <2>7. \A i \in 1..Len(Line') : Line'[i].req # r0
    BY <1>2, <1>3, <2>1, <2>2, Alone
  <2>8. \A i \in 1..Len(Line') : ~(i <= Len(batch'))
    BY <2>1, LineNext
  <2> QED BY <2>1, <2>2, <2>3, <2>6, <2>7, <2>8, Touch DEF Touches
<1>7. CASE r0 \notin marks /\ kind \notin ThreadKinds
  <2>1. marks' = marks /\ batch' = <<NextMessage>> /\ tasks' = tasks
    BY <1>1, <1>3, <1>7 DEF TakeMessage, ThreadKinds
  <2>2. batch' # <<>> /\ Len(batch') = 1 /\ batch'[1] = NextMessage
    BY <2>1
  <2>3. Cut(0, 0)
    BY <1>2, <2>2
  <2>4. \A r \in Requests : Same(r)
    BY <1>1, <2>1 DEF Same
  <2>5. \A i \in 1..Len(Line') : i <= Len(batch') => Line'[i].req \notin marks
    <3>1. \A i \in 1..Len(Line') : i <= Len(batch') => i = 1
      BY <2>2, LineNext
    <3>2. Line'[1].req = r0
      BY <1>3, <2>2, LineNext
    <3> QED BY <1>7, <3>1, <3>2
  <2>6. ASSUME NEW r \in Requests, Streams(r), Alive(r)'
        PROVE  Alive(r) /\ \A i \in 0+1..0 : ~(Line[i].type = "chunk" /\ Line[i].req = r)
    <3>1. Held(r)' => r = r0
      BY <1>3, <2>2 DEF Held
    <3> QED BY <1>7, <2>1, <2>6, <3>1 DEF Alive
  <2> HIDE DEF RequestSteps
  <2> QED BY <2>3, <2>4, <2>5, <2>6, Quiet
<1> QED BY <1>5, <1>6, <1>7

\* What a collection starts from.
LEMMA CollectingFacts ==
  ASSUME RequestSteps, Collecting, inbox' = Tail(inbox)
  PROVE  /\ pending = <<>> /\ inbox # <<>> /\ Len(batch) \in Nat /\ 1 \in 1..Len(batch)
         /\ Len(batch) + 1 \in 1..Len(Line) /\ Line[Len(batch) + 1] = Head(inbox)
         /\ Head(inbox).req \in Requests
         /\ \A r : Held(r) => ~Streams(r)
<1> USE DEF RequestSteps
<1>1. pending = <<>> /\ inbox # <<>> /\ batch # <<>> /\ Collects
  BY DEF Collecting, LoopOK
<1>2. Len(batch) \in Nat /\ 1 \in 1..Len(batch)
  BY <1>1, Heads, LineFacts
<1>3. Len(batch) + 1 \in 1..Len(Line) /\ Line[Len(batch) + 1] = Head(inbox)
  BY <1>1, CutCollected
<1>4. \A r : Held(r) => ~Streams(r)
  BY <1>1, <1>2 DEF Held, Collects, BatchOK
<1> QED BY <1>1, <1>2, <1>3, <1>4, InLine

LEMMA CollectStep ==
  ASSUME RequestSteps, CollectMore \/ PushBack
  PROVE  RequestsOK'
<1> USE DEF RequestSteps
<1>1. /\ Collecting /\ inbox' = Tail(inbox)
      /\ UNCHANGED <<kind, put, tasks, running, marks, payloads, pendingDone, handled, told>>
  BY DEF CollectMore, PushBack, streamVars
<1>2. /\ pending = <<>> /\ inbox # <<>> /\ Len(batch) \in Nat /\ 1 \in 1..Len(batch)
      /\ Len(batch) + 1 \in 1..Len(Line) /\ Line[Len(batch) + 1] = Head(inbox)
      /\ \A r : Held(r) => ~Streams(r)
  BY <1>1, CollectingFacts
<1>3. PICK m \in Messages : m = Head(inbox)
  BY <1>2, Heads
<1>4. \A r \in Requests : Same(r)
  BY <1>1 DEF Same
<1>5. CASE CollectMore /\ Skips(m)
  <2>1. batch' = batch /\ pending' = pending
    BY <1>3, <1>5 DEF CollectMore
  <2>2. Cut(Len(batch), Len(batch) + 1)
    <3>1. Len(batch) \in 0..Len(batch)
      BY <1>2
    <3> QED BY <1>1, <1>2, <2>1, <3>1, CutCollected
  <2>3. \A i \in 1..Len(Line') : i <= Len(batch') => From(i, Len(batch), Len(batch) + 1) <= Len(batch)
    BY <1>2, <2>1 DEF From
  <2>4. ASSUME NEW r \in Requests, Streams(r), Alive(r)'
        PROVE  Alive(r) /\ \A i \in Len(batch)+1..Len(batch)+1 : ~(Line[i].type = "chunk" /\ Line[i].req = r)
    <3>1. r \notin marks
      BY <1>1, <1>2, <2>1, <2>4 DEF Alive, Held
    <3>2. m.req \in marks
      BY <1>5 DEF Skips
    <3>3. \A i \in Len(batch)+1..Len(batch)+1 : i = Len(batch) + 1
      BY <1>2
    <3> QED BY <1>2, <1>3, <3>1, <3>2, <3>3 DEF Alive
  <2> HIDE DEF RequestSteps
  <2> QED BY <1>4, <2>2, <2>3, <2>4, Quiet
<1>6. CASE CollectMore /\ ~Skips(m)
  <2>1. batch' = Append(batch, m) /\ pending' = pending /\ Joins(m)
    BY <1>3, <1>6 DEF CollectMore
  <2>2. /\ Len(batch') = Len(batch) + 1 /\ batch'[Len(batch) + 1] = m
        /\ \A i \in 1..Len(batch) : batch'[i] = batch[i]
    BY <2>1 DEF TypeOK
  <2>3. Cut(0, 0)
    BY <1>1, <1>2, <1>3, <2>1, CutCollected
  <2>4. ~Streams(m.req) \/ (m.type = "chunk" /\ m.req \notin marks)
    BY <1>6, <2>1 DEF Joins, Skips, Streams
  <2>5. ASSUME NEW i \in 1..Len(Line'), i <= Len(batch')
        PROVE  \/ From(i, 0, 0) <= Len(batch) \/ ~Streams(Line'[i].req) \/ Line'[i].req \notin marks
    <3>1. From(i, 0, 0) = i /\ (i <= Len(batch) \/ i = Len(batch) + 1)
      BY <1>2, <2>2, <2>5 DEF From
    <3>2. i = Len(batch) + 1 => Line'[i] = m
      BY <2>2, <2>5, LineNext
    <3> QED BY <2>4, <3>1, <3>2
  <2>6. ASSUME NEW r \in Requests, Streams(r), Alive(r)'
        PROVE  Alive(r) /\ \A i \in 0+1..0 : ~(Line[i].type = "chunk" /\ Line[i].req = r)
    <3>1. ~Held(r)'
      <4> SUFFICES ASSUME NEW i \in 1..Len(batch'), batch'[i].type = "new", batch'[i].req = r
                   PROVE  FALSE
        BY DEF Held
      <4>1. i \in 1..Len(batch) \/ i = Len(batch) + 1
        BY <1>2, <2>2
      <4>2. CASE i \in 1..Len(batch)
        BY <1>2, <2>2, <2>6, <4>2 DEF Held
      <4>3. CASE i = Len(batch) + 1
        BY <2>2, <2>4, <2>6, <4>3
      <4> QED BY <4>1, <4>2, <4>3
    <3> QED BY <1>1, <2>6, <3>1 DEF Alive
  <2> HIDE DEF RequestSteps
  <2> QED BY <1>4, <2>3, <2>5, <2>6, Quiet
<1>7. CASE PushBack
  <2>1. batch' = batch /\ pending' = <<Head(inbox)>> \o pending
    BY <1>7 DEF PushBack
  <2>2. Cut(0, 0)
    BY <1>1, <1>2, <2>1, CutCollected
  <2>3. \A i \in 1..Len(Line') : i <= Len(batch') => From(i, 0, 0) <= Len(batch)
    BY <1>2, <2>1 DEF From
  <2>4. \A r \in Requests : Streams(r) /\ Alive(r)' =>
          Alive(r) /\ \A i \in 0+1..0 : ~(Line[i].type = "chunk" /\ Line[i].req = r)
    BY <1>1, <2>1 DEF Alive, Held
  <2> HIDE DEF RequestSteps
  <2> QED BY <1>4, <2>2, <2>3, <2>4, Quiet
<1> QED BY <1>3, <1>5, <1>6, <1>7

LEMMA CostStep ==
  ASSUME RequestSteps, CostRaises
  PROVE  RequestsOK'
<1> USE DEF RequestSteps
<1>1. /\ Collecting /\ inbox' = Tail(inbox) /\ batch[1].type = "new" /\ Joins(Head(inbox))
      /\ UNCHANGED <<kind, pending, put, tasks, running, handled>>
  BY DEF CostRaises
<1>2. /\ pending = <<>> /\ inbox # <<>> /\ Len(batch) \in Nat /\ 1 \in 1..Len(batch)
      /\ Len(batch) + 1 \in 1..Len(Line) /\ Line[Len(batch) + 1] = Head(inbox)
      /\ \A r : Held(r) => ~Streams(r)
  BY <1>1, CollectingFacts
<1>3. PICK r0 \in Requests : r0 = Head(inbox).req
  BY <1>1, CollectingFacts
<1>4. Head(inbox).type = "new" /\ ~Streams(r0)
  BY <1>1, <1>3 DEF Joins
<1>5. PICK k : k = Len(batch) + 1
  OBVIOUS
<1>6. CASE kind = "streaming" /\ FailStream(r0) /\ batch' = batch
  <2>1. Cut(Len(batch), k)
    <3>1. Len(batch) \in 0..Len(batch)
      BY <1>2
    <3> QED BY <1>1, <1>2, <1>5, <1>6, <3>1, CutCollected
  <2>2. \A i \in Len(batch)+1..k : i = k
    BY <1>2, <1>5
  <2>3. PlaceOK(k) /\ k \in 1..Len(Line) /\ k \in Len(batch)+1..k
    BY <1>2, <1>5, InLine
  <2>4. told[r0] = <<>> /\ put[r0].new /\ r0 \notin tasks \cup running
    BY <1>2, <1>3, <1>4, <1>5, <2>3 DEF PlaceOK
  <2>5. \A i \in 1..Len(Line') : Line'[i].req # r0
    BY <1>2, <1>3, <1>4, <1>5, <2>1, <2>3, Alone
  <2>6. \A i \in 1..Len(Line') : i <= Len(batch') => From(i, Len(batch), k) <= Len(batch)
    BY <1>2, <1>6 DEF From
  <2>7. ASSUME NEW r \in Requests, r # r0, Streams(r), Alive(r)'
        PROVE  Alive(r) /\ \A i \in Len(batch)+1..k : ~(Line[i].type = "chunk" /\ Line[i].req = r)
    <3>1. marks \subseteq marks'
      BY <1>6 DEF FailStream
    <3>2. Alive(r)
      BY <1>6, <2>7, <3>1 DEF Alive, Held
    <3> QED BY <1>2, <1>4, <1>5, <2>2, <3>2
  <2> HIDE DEF RequestSteps
  <2> QED BY <1>1, <1>6, <2>1, <2>4, <2>5, <2>6, <2>7, Fails
<1>7. CASE kind = "serial" /\ batch' = <<batch[1]>> /\ UNCHANGED <<marks, told, payloads, pendingDone>>
  <2>1. Len(batch') = 1 /\ batch'[1] = batch[1] /\ 1 \in 0..Len(batch)
    BY <1>2, <1>7
  <2>2. Cut(1, k)
    <3>1. \A i \in 1..1 : batch'[i] = batch[i]
      BY <2>1
    <3> QED BY <1>1, <1>2, <1>5, <2>1, <3>1, CutCollected
  <2>3. \A r : ~Streams(r)
    BY <1>7 DEF Streams
  <2>4. \A r \in Requests : Same(r)
    BY <1>1, <1>7, <2>3 DEF Same
  <2> HIDE DEF RequestSteps
  <2> QED BY <2>2, <2>3, <2>4, Quiet
<1> QED BY <1>3, <1>6, <1>7 DEF CostRaises

\* The first message of the batch leaves the line.
LEMMA FirstOut ==
  ASSUME RequestSteps, batch # <<>>, batch' = Tail(batch), UNCHANGED <<pending, inbox>>
  PROVE  /\ Cut(0, 1) /\ Line[1] = batch[1] /\ 1 \in 1..Len(Line) /\ 1 \in 1..Len(batch) /\ 1 <= Len(batch)
         /\ batch[1].req \in Requests /\ PlaceOK(1)
         /\ \A i \in 1..Len(Line') :
              i + 1 \in 1..Len(Line) /\ Line'[i] = Line[i + 1] /\ PlaceOK(i + 1) /\ 1 < i + 1
         /\ \A i \in 1..Len(Line') : i <= Len(batch') =>
              /\ From(i, 0, 1) <= Len(batch) /\ i + 1 \in 1..Len(batch)
              /\ Line'[i] = batch[i + 1]
         /\ \A r : Held(r)' => Held(r)
         /\ told[batch[1].req] = <<>>
<1> USE DEF RequestSteps
<1>1. Cut(0, 1) /\ Line[1] = batch[1]
  BY CutFirst
<1>2. /\ 1 \in 1..Len(batch) /\ 1 \in 1..Len(Line) /\ Len(batch') = Len(batch) - 1 /\ Len(batch) \in Nat
      /\ Len(Line) \in Nat /\ Len(Line') = Len(Line) - 1 /\ 1 <= Len(batch)
  BY <1>1, Heads, LineFacts DEF Cut
<1>3. PlaceOK(1) /\ batch[1].req \in Requests
  BY <1>1, <1>2, InLine
<1>4. ASSUME NEW i \in 1..Len(Line')
      PROVE  /\ i + 1 \in 1..Len(Line) /\ Line'[i] = Line[i + 1] /\ 1 < i + 1 /\ From(i, 0, 1) = i + 1
             /\ i <= Len(batch') => i + 1 \in 1..Len(batch)
  <2>1. From(i, 0, 1) = i + 1
    BY <1>2 DEF From
  <2>2. Line'[i] = Line[From(i, 0, 1)]
    BY <1>1 DEF Cut
  <2> QED BY <1>2, <2>1, <2>2
<1>5. ASSUME NEW i \in 1..Len(Line') PROVE PlaceOK(i + 1)
  BY <1>4, InLine
<1>6. ASSUME NEW i \in 1..Len(Line'), i <= Len(batch')
      PROVE  From(i, 0, 1) <= Len(batch) /\ i + 1 \in 1..Len(batch) /\ Line'[i] = batch[i + 1]
  <2>1. i + 1 \in 1..Len(batch)
    BY <1>4, <1>6
  <2>2. Line[i + 1] = batch[i + 1]
    BY <2>1, LineFacts
  <2> QED BY <1>2, <1>4, <2>1, <2>2
<1>7. ASSUME NEW r, Held(r)' PROVE Held(r)
  <2>1. PICK i \in 1..Len(batch') : batch'[i].type = "new" /\ batch'[i].req = r
    BY <1>7 DEF Held
  <2>2. batch'[i] = batch[i + 1] /\ i + 1 \in 1..Len(batch)
    BY Heads
  <2> QED BY <2>1, <2>2 DEF Held
<1>8. told[batch[1].req] = <<>>
  BY <1>1, <1>2, <1>3 DEF PlaceOK
<1> QED BY <1>1, <1>2, <1>3, <1>4, <1>5, <1>6, <1>7, <1>8

\* A batch of one message, which leaves.
LEMMA OnlyOne ==
  ASSUME TypeOK, Len(batch) = 1, batch' = <<>>
  PROVE  /\ batch # <<>> /\ batch' = Tail(batch)
         /\ \A i \in Nat \ {0} : ~(i <= Len(batch'))
         /\ \A r : ~Held(r)'
         /\ \A r : Held(r) => batch[1].type = "new" /\ batch[1].req = r
<1>1. batch \in Seq(Messages)
  BY DEF TypeOK
<1>2. Tail(batch) = <<>> /\ batch # <<>> /\ Len(batch') = 0
  <2>1. Len(Tail(batch)) = 0 /\ Tail(batch) \in Seq(Messages) /\ batch # <<>> /\ Len(batch') = 0
    BY <1>1
  <2>2. PICK u \in Seq(Messages) : u = Tail(batch)
    BY <2>1
  <2>3. Len(u) = 0 => u = <<>>
    OBVIOUS
  <2> QED BY <2>1, <2>2, <2>3
<1>3. \A i \in 1..Len(batch) : i = 1
  OBVIOUS
<1>4. \A r : ~Held(r)'
  BY <1>2 DEF Held
<1>5. \A r : Held(r) => batch[1].type = "new" /\ batch[1].req = r
  BY <1>3 DEF Held
<1> QED BY <1>2, <1>4, <1>5

LEMMA FirstStep ==
  ASSUME RequestSteps, FirstRaises
  PROVE  RequestsOK'
<1> USE DEF RequestSteps
<1>1. /\ Len(batch) = 1 /\ batch' = <<>> /\ batch[1].type = "new" /\ kind = "streaming"
      /\ FailStream(batch[1].req) /\ UNCHANGED <<inbox, pending, put, tasks, running, handled>>
  BY DEF FirstRaises
<1>2. batch # <<>> /\ batch' = Tail(batch) /\ \A r : ~Held(r)'
  BY <1>1, OnlyOne
<1>3. PICK r0 \in Requests : r0 = batch[1].req
  BY <1>1, <1>2, FirstOut
<1>4. /\ Cut(0, 1) /\ Line[1] = batch[1] /\ 1 \in 1..Len(Line) /\ PlaceOK(1) /\ told[r0] = <<>>
  BY <1>1, <1>2, <1>3, FirstOut
<1>5. put[r0].new /\ r0 \notin tasks \cup running
  BY <1>1, <1>3, <1>4 DEF PlaceOK
<1>6. \A i \in 1..Len(Line') : ~(i <= Len(batch'))
  BY <1>1, OnlyOne
<1>7. \A i \in 1..Len(Line') : Line'[i].req = r0 => Streams(r0)
  <2>1. 1 \in 0+1..1
    OBVIOUS
  <2> QED BY <1>3, <1>4, <2>1, Alone
<1>8. ASSUME NEW r \in Requests, r # r0, Streams(r), Alive(r)'
      PROVE  Alive(r) /\ \A i \in 0+1..1 : ~(Line[i].type = "chunk" /\ Line[i].req = r)
  <2>1. marks \subseteq marks'
    BY <1>1 DEF FailStream
  <2>2. \A i \in 0+1..1 : i = 1
    OBVIOUS
  <2> QED BY <1>1, <1>2, <1>4, <1>8, <2>1, <2>2 DEF Alive
<1> HIDE DEF RequestSteps
<1> QED BY <1>1, <1>3, <1>4, <1>5, <1>6, <1>7, <1>8, Fails

LEMMA AnswerStep ==
  ASSUME RequestSteps, AnswerNext
  PROVE  RequestsOK'
<1> USE DEF RequestSteps
<1>1. /\ pc = "answer" /\ batch # <<>> /\ batch' = Tail(batch)
      /\ UNCHANGED <<inbox, pending, put, tasks, running, payloads, pendingDone, handled>>
  BY DEF AnswerNext
<1>2. PICK r0 \in Requests : r0 = batch[1].req
  BY <1>1, FirstOut
<1>3. /\ Cut(0, 1) /\ Line[1] = batch[1] /\ 1 \in 1..Len(Line) /\ PlaceOK(1) /\ told[r0] = <<>>
      /\ \A i \in 1..Len(Line') : i <= Len(batch') => From(i, 0, 1) <= Len(batch)
  BY <1>1, <1>2, FirstOut
<1>4. /\ batch[1].type = "new" /\ ~Streams(r0)
      /\ \A r : Held(r)' => ~Streams(r)
  <2>1. \A r : Held(r) => ~Streams(r)
    BY <1>1 DEF BatchOK, Held
  <2> QED BY <1>1, <1>2, <2>1, FirstOut DEF BatchOK
<1>5. \A i \in 0+1..1 : i = 1
  OBVIOUS
<1>6. CASE marks' = MarksWithout(r0) /\ told' = told
  <2>1. \A r \in Requests : Same(r)
    BY <1>1, <1>6 DEF Same, Streams, MarksWithout
  <2>2. ASSUME NEW r \in Requests, Streams(r), Alive(r)'
        PROVE  Alive(r) /\ \A i \in 0+1..1 : ~(Line[i].type = "chunk" /\ Line[i].req = r)
    <3>1. r \notin marks
      BY <1>4, <1>6, <2>2 DEF Alive, Streams, MarksWithout
    <3> QED BY <1>3, <1>4, <1>5, <3>1 DEF Alive
  <2> HIDE DEF RequestSteps
  <2> QED BY <1>3, <2>1, <2>2, Quiet
<1>7. ASSUME NEW answer, marks' = marks, told' = [told EXCEPT ![r0] = Append(@, answer)]
      PROVE  RequestsOK'
  <2>1. put[r0].new /\ r0 \notin tasks' \cup running' /\ tasks' \cup running' \subseteq tasks \cup running
    BY <1>1, <1>2, <1>3, <1>4 DEF PlaceOK
  <2>2. \A i \in 1..Len(Line') : Line'[i].req # r0
    <3>1. 1 \in 0+1..1
      OBVIOUS
    <3> QED BY <1>2, <1>3, <1>4, <3>1, Alone
  <2>3. ASSUME NEW r \in Requests, r # r0, Streams(r), Alive(r)'
        PROVE  Alive(r) /\ \A i \in 0+1..1 : ~(Line[i].type = "chunk" /\ Line[i].req = r)
    <3>1. r \notin marks
      BY <1>4, <1>7, <2>3 DEF Alive
    <3> QED BY <1>3, <1>4, <1>5, <3>1 DEF Alive
  <2>4. UNCHANGED <<put, handled, payloads, pendingDone, marks>>
    BY <1>1, <1>7
  <2>5. told' = [told EXCEPT ![r0] = Append(@, answer)] /\ told[r0] = <<>> /\ ~Streams(r0) /\ Cut(0, 1)
    BY <1>3, <1>4, <1>7
  <2>6. \A i \in 1..Len(Line') : i <= Len(batch') => From(i, 0, 1) <= Len(batch)
    BY <1>3
  <2>7. \A r \in Requests : r # r0 /\ Streams(r) /\ Alive(r)' =>
          Alive(r) /\ \A i \in 0+1..1 : ~(Line[i].type = "chunk" /\ Line[i].req = r)
    BY <2>3
  <2> HIDE DEF RequestSteps
  <2> QED BY <2>1, <2>2, <2>4, <2>5, <2>6, <2>7, Answers
<1> QED BY <1>2, <1>6, <1>7 DEF AnswerNext

LEMMA FinishStep ==
  ASSUME RequestSteps, NEW r0 \in Requests, NEW answer, Finish(r0, answer)
  PROVE  RequestsOK'
<1> USE DEF RequestSteps
<1>1. /\ r0 \in running /\ running' = running \ {r0} /\ tasks' = tasks \ {r0}
      /\ UNCHANGED <<inbox, pending, batch, put, payloads, pendingDone, handled>>
  BY DEF Finish, streamVars
<1>2. \A r : ~Streams(r)
  BY <1>1 DEF LoopOK, Streams, ThreadKinds
<1>3. Cut(0, 0) /\ Line' = Line /\ \A i \in 1..Len(Line') : i <= Len(batch') => From(i, 0, 0) <= Len(batch)
  <2>1. Cut(0, 0) /\ Line' = Line /\ Len(Line) \in Nat
    BY <1>1, CutNothing, LineFacts DEF Line
  <2> QED BY <1>1, <2>1 DEF From
<1>4. CASE told' = told
  <2>1. \A r \in Requests : Same(r)
    BY <1>1, <1>2, <1>4 DEF Same
  <2> HIDE DEF RequestSteps
  <2> QED BY <1>2, <1>3, <2>1, Quiet
<1>5. CASE told' = [told EXCEPT ![r0] = Append(@, answer)] /\ marks' = marks
  <2>1. told[r0] = <<>> /\ put[r0].new
    BY <1>1 DEF RequestsOK, RequestOK
  <2>2. \A i \in 1..Len(Line) : Line[i].req # r0
    <3> SUFFICES ASSUME NEW i \in 1..Len(Line), Line[i].req = r0 PROVE FALSE
      OBVIOUS
    <3>1. Line[i].type = "new" /\ PlaceOK(i)
      BY <1>2, InLine
    <3> QED BY <1>1, <3>1 DEF PlaceOK
  <2>3. r0 \notin tasks' \cup running' /\ tasks' \cup running' \subseteq tasks \cup running
    BY <1>1
  <2> HIDE DEF RequestSteps
  <2> QED BY <1>1, <1>2, <1>3, <1>5, <2>1, <2>2, <2>3, Answers
<1> QED BY <1>4, <1>5 DEF Finish

\* When a stream has ended and no chunk of it waits, all were handled.
LEMMA HandledAll ==
  ASSUME RequestSteps, NEW r \in Requests, Streams(r), Alive(r), put[r].done,
         \A i \in 1..Len(Line) : ~(Line[i].type = "chunk" /\ Line[i].req = r)
  PROVE  Len(handled[r]) = Chunks[r] /\ put[r].n = Chunks[r] /\ Len(handled[r]) \in Nat
<1> USE DEF RequestSteps
<1>1. /\ handled[r] \in Seq(Nat) /\ put[r].n \in Nat /\ Len(handled[r]) <= put[r].n /\ put[r].n = Chunks[r]
      /\ Len(handled[r]) \in Nat
  <2>1. handled[r] \in Seq(Nat) /\ put[r] \in [new : BOOLEAN, n : Nat, done : BOOLEAN]
    BY DEF TypeOK
  <2>2. Len(handled[r]) \in Nat /\ put[r].n \in Nat
    BY <2>1
  <2> QED BY <2>1, <2>2 DEF RequestsOK, RequestOK, FlowOK
<1>2. \A n \in Len(handled[r]) + 1 .. put[r].n : FALSE
  BY DEF RequestsOK, FlowOK
<1>3. ~(Len(handled[r]) < put[r].n)
  <2>1. Len(handled[r]) < put[r].n => put[r].n \in Len(handled[r]) + 1 .. put[r].n
    BY <1>1
  <2> QED BY <1>2, <2>1
<1> QED BY <1>1, <1>3

\* The result of a stream: its last message leaves and all its state.
LEMMA StreamEnds ==
  ASSUME RequestSteps, Len(batch) = 1, batch' = <<>>, UNCHANGED <<pending, inbox, put, handled, tasks, running>>,
         NEW r0 \in Requests, r0 = batch[1].req, Streams(r0), Alive(r0), batch[1].type # "chunk",
         told' = [told EXCEPT ![r0] = Append(@, "result")], put[r0].new, put[r0].done,
         pendingDone' = pendingDone \ {r0}, payloads' \subseteq payloads, r0 \notin payloads',
         \A r \in Requests : r # r0 => (r \in marks <=> r \in marks'),
         \A i \in 1..Len(Line') : Line'[i].req # r0
  PROVE  RequestsOK'
<1> USE DEF RequestSteps
<1>1. /\ batch # <<>> /\ batch' = Tail(batch) /\ (\A r : ~Held(r)')
      /\ \A r : Held(r) => batch[1].type = "new" /\ batch[1].req = r
  BY OnlyOne
<1>2. /\ Cut(0, 1) /\ Line[1] = batch[1] /\ 1 \in 1..Len(Line) /\ PlaceOK(1) /\ told[r0] = <<>>
  BY <1>1, FirstOut
<1>3. \A i \in 1..Len(Line) : ~(Line[i].type = "chunk" /\ Line[i].req = r0)
  <2> SUFFICES ASSUME NEW i \in 1..Len(Line), Line[i].type = "chunk", Line[i].req = r0 PROVE FALSE
    OBVIOUS
  <2>1. i \notin 0+1..1
    BY <1>2
  <2>2. PICK j \in 1..Len(Line') : From(j, 0, 1) = i
    BY <1>2, <2>1, CutFacts
  <2> QED BY <1>2, <2>2 DEF Cut
<1>4. Len(handled[r0]) = Chunks[r0] /\ put[r0].n = Chunks[r0] /\ Len(handled[r0]) \in Nat
  <2> HIDE DEF RequestSteps
  <2> QED BY <1>3, HandledAll
<1>5. told'[r0] = <<"result">> /\ \A r \in Requests : r # r0 => told'[r] = told[r]
  BY <1>2 DEF TypeOK
<1>6. Len(told'[r0]) = 1
  BY <1>5
<1>7. \A r : Streams(r)' <=> Streams(r)
  BY DEF Streams
<1>8. \A r \in Requests : r # r0 => Same(r)
  BY <1>5 DEF Same
<1>9. RequestOK(r0)'
  <2>1. r0 \notin tasks \cup running
    BY DEF LoopOK, Streams, ThreadKinds
  <2>2. RequestOK(r0)
    BY DEF RequestsOK
  <2> QED BY <1>5, <1>6, <1>7, <2>1, <2>2 DEF RequestOK
<1>10. FlowOK(r0)'
  <2>1. FlowOK(r0)
    BY DEF RequestsOK
  <2>2. \A n \in Len(handled[r0]) + 1 .. put[r0].n : FALSE
    BY <1>4
  <2> QED BY <1>4, <1>7, <2>1, <2>2 DEF FlowOK
<1>11. \A i \in 1..Len(Line') : ~(i <= Len(batch'))
  BY OnlyOne
<1>12. ASSUME NEW r \in Requests, r # r0, Streams(r), Alive(r)'
       PROVE  Alive(r) /\ \A i \in 0+1..1 : ~(Line[i].type = "chunk" /\ Line[i].req = r)
  <2>1. \A i \in 0+1..1 : i = 1
    OBVIOUS
  <2> QED BY <1>1, <1>2, <1>12, <2>1 DEF Alive
<1> QED BY <1>2, <1>8, <1>9, <1>10, <1>11, <1>12, Touch DEF Touches

LEMMA NewStreamStep ==
  ASSUME RequestSteps, NewStream
  PROVE  RequestsOK'
<1> USE DEF RequestSteps
<1>1. /\ pc = "run" /\ batch # <<>> /\ batch[1].type = "new" /\ batch' = <<>> /\ Streams(batch[1].req)
      /\ UNCHANGED <<inbox, pending, put, tasks, running, handled>>
  BY DEF NewStream, LoopOK
<1>2. Len(batch) = 1
  <2>1. Len(batch) \in Nat /\ 1 \in 1..Len(batch)
    BY <1>1, Heads, LineFacts
  <2>2. 2 \notin 1..Len(batch)
    BY <1>1, <2>1 DEF BatchOK
  <2>3. PICK n \in Nat : n = Len(batch)
    BY <2>1
  <2>4. n >= 1 /\ ~(n >= 2)
    BY <2>1, <2>2, <2>3
  <2>5. n = 1
    BY <2>4
  <2> QED BY <2>3, <2>5
<1>3. /\ batch' = Tail(batch) /\ (\A r : ~Held(r)')
      /\ \A r : Held(r) => batch[1].req = r
  BY <1>1, <1>2, OnlyOne
<1>4. PICK r0 \in Requests : r0 = batch[1].req
  BY <1>1, <1>3, FirstOut
<1>5. /\ Cut(0, 1) /\ Line[1] = batch[1] /\ 1 \in 1..Len(Line) /\ 1 <= Len(batch) /\ PlaceOK(1) /\ told[r0] = <<>>
      /\ \A i \in 1..Len(Line') :
           i + 1 \in 1..Len(Line) /\ Line'[i] = Line[i + 1] /\ PlaceOK(i + 1) /\ 1 < i + 1
  BY <1>1, <1>3, <1>4, FirstOut
<1>6. put[r0].new /\ r0 \notin payloads /\ Streams(r0) /\ Alive(r0)
  <2>1. 1 \in 1..Len(batch)
    BY <1>2
  <2>2. Held(r0)
    BY <1>1, <1>4, <2>1 DEF Held
  <2> QED BY <1>1, <1>4, <1>5, <2>2 DEF PlaceOK, Alive
<1>7. \A i \in 1..Len(Line') : ~(i <= Len(batch'))
  BY <1>1, <1>2, OnlyOne
<1>8. \A i \in 0+1..1 : i = 1
  OBVIOUS
<1>9. ASSUME \A r \in Requests : r # r0 => (r \in marks' <=> r \in marks),
             NEW r \in Requests, r # r0, Streams(r), Alive(r)'
      PROVE  Alive(r) /\ \A i \in 0+1..1 : ~(Line[i].type = "chunk" /\ Line[i].req = r)
  BY <1>1, <1>3, <1>5, <1>8, <1>9 DEF Alive
<1>10. ASSUME NEW i \in 1..Len(Line'), Line'[i].req = r0 PROVE Line'[i].type # "new"
  BY <1>1, <1>4, <1>5, <1>10 DEF RequestsOK, OrderOK
<1>11. \A r : Streams(r)' <=> Streams(r)
  BY DEF Streams
<1>12. CASE /\ marks' = marks \ {r0} /\ r0 \notin pendingDone /\ payloads' = payloads \cup {r0}
            /\ UNCHANGED <<pendingDone, told>>
  <2>1. \A r \in Requests : r # r0 => Same(r)
    BY <1>1, <1>12 DEF Same
  <2>2. \A r \in Requests : r # r0 => (r \in marks' <=> r \in marks)
    BY <1>12
  <2>3. RequestOK(r0)'
    BY <1>1, <1>5, <1>6, <1>11, <1>12 DEF RequestsOK, RequestOK
  <2>4. FlowOK(r0)'
    <3>1. FlowOK(r0) /\ told[r0] # <<"result">>
      BY <1>5 DEF RequestsOK
    <3>2. ASSUME NEW n \in Len(handled[r0]) + 1 .. put[r0].n
          PROVE  \E j \in 1..Len(Line') : Line'[j].type = "chunk" /\ Line'[j].req = r0 /\ Line'[j].n = n
      <4>1. PICK i \in 1..Len(Line) : Line[i].type = "chunk" /\ Line[i].req = r0 /\ Line[i].n = n
        BY <1>6, <3>1, <3>2 DEF FlowOK
      <4>2. i \notin 0+1..1
        BY <1>1, <1>5, <1>8, <4>1
      <4>3. PICK j \in 1..Len(Line') : From(j, 0, 1) = i
        BY <1>5, <4>2, CutFacts
      <4> QED BY <1>5, <4>1, <4>3 DEF Cut
    <3> QED BY <1>1, <1>11, <1>12, <3>1, <3>2 DEF FlowOK
  <2>5. ASSUME NEW i \in 1..Len(Line'), Line'[i].req = r0 PROVE PlaceOK(i)'
    <3>1. Line'[i] = Line[i + 1] /\ PlaceOK(i + 1) /\ Line'[i].type # "new"
      BY <1>5, <1>10, <2>5
    <3> QED BY <1>1, <1>5, <1>11, <1>12, <2>5, <3>1 DEF PlaceOK
  <2> QED BY <1>5, <1>7, <1>9, <2>1, <2>2, <2>3, <2>4, <2>5, Touch DEF Touches
<1>13. CASE /\ marks' = marks \ {r0} /\ r0 \in pendingDone /\ FinishStream(r0, FALSE) /\ payloads' = payloads
  <2>1. \A i \in 1..Len(Line') : Line'[i].req # r0
    <3> SUFFICES ASSUME NEW i \in 1..Len(Line'), Line'[i].req = r0 PROVE FALSE
      OBVIOUS
    <3>1. Line'[i] = Line[i + 1] /\ PlaceOK(i + 1) /\ Line'[i].type # "new"
      BY <1>5, <1>10
    <3> QED BY <1>13, <3>1 DEF PlaceOK
  <2>2. put[r0].done
    BY <1>13 DEF RequestsOK, RequestOK
  <2>3. told' = [told EXCEPT ![r0] = Append(@, "result")] /\ pendingDone' = pendingDone \ {r0}
    BY <1>13 DEF FinishStream
  <2>4. \A r \in Requests : r # r0 => (r \in marks <=> r \in marks')
    BY <1>13
  <2>5. batch[1].type # "chunk" /\ payloads' \subseteq payloads /\ r0 \notin payloads'
    BY <1>1, <1>6, <1>13
  <2> HIDE DEF RequestSteps
  <2> QED BY <1>1, <1>2, <1>4, <1>6, <2>1, <2>2, <2>3, <2>4, <2>5, StreamEnds
<1>14. CASE FailStream(r0)
  <2>1. ASSUME NEW r \in Requests, r # r0, Streams(r), Alive(r)'
        PROVE  Alive(r) /\ \A i \in 0+1..1 : ~(Line[i].type = "chunk" /\ Line[i].req = r)
    <3>1. \A s \in Requests : s # r0 => (s \in marks' <=> s \in marks)
      BY <1>14 DEF FailStream
    <3> QED BY <1>9, <2>1, <3>1
  <2> HIDE DEF RequestSteps
  <2> QED BY <1>1, <1>5, <1>6, <1>7, <1>14, <2>1, Fails
<1>15. CASE r0 \in marks /\ UNCHANGED <<marks, payloads, pendingDone, told>>
  <2>1. \A r \in Requests : Same(r)
    BY <1>1, <1>15 DEF Same
  <2>2. ASSUME NEW r \in Requests, Streams(r), Alive(r)'
        PROVE  Alive(r) /\ \A i \in 0+1..1 : ~(Line[i].type = "chunk" /\ Line[i].req = r)
    BY <1>1, <1>3, <1>5, <1>8, <1>15, <2>2 DEF Alive
  <2> HIDE DEF RequestSteps
  <2> QED BY <1>5, <1>7, <2>1, <2>2, Quiet
<1> QED BY <1>4, <1>12, <1>13, <1>14, <1>15 DEF NewStream

\* The first chunk of a live stream in the line is the next to be handled.
LEMMA NextChunk ==
  ASSUME RequestSteps, 1 \in 1..Len(Line), 1 <= Len(batch), Line[1].type = "chunk",
         NEW r \in Requests, r = Line[1].req, Alive(r)
  PROVE  /\ Streams(r) /\ Len(handled[r]) \in Nat /\ put[r].n \in Nat
         /\ Line[1].n = Len(handled[r]) + 1 /\ Line[1].n <= put[r].n
<1> USE DEF RequestSteps
<1>1. /\ PlaceOK(1) /\ Line[1] \in Messages /\ FlowOK(r)
  BY InLine DEF RequestsOK
<1>2. Streams(r) /\ Len(handled[r]) < Line[1].n /\ Line[1].n <= put[r].n
  BY <1>1 DEF PlaceOK
<1>3. Len(handled[r]) \in Nat /\ put[r].n \in Nat /\ Line[1].n \in Nat
  <2>1. handled[r] \in Seq(Nat) /\ put[r] \in [new : BOOLEAN, n : Nat, done : BOOLEAN]
    BY DEF TypeOK
  <2>2. Line[1].n \in 1..Chunks[r] /\ Chunks[r] \in Nat
    BY <1>1, MessageType
  <2> QED BY <2>1, <2>2
<1>4. PICK n \in Nat : n = Len(handled[r]) + 1
  BY <1>3
<1>5. n \in Len(handled[r]) + 1 .. put[r].n
  BY <1>2, <1>3, <1>4
<1>6. PICK i \in 1..Len(Line) : Line[i].type = "chunk" /\ Line[i].req = r /\ Line[i].n = n
  BY <1>1, <1>2, <1>5 DEF FlowOK
<1>7. CASE i = 1
  BY <1>2, <1>3, <1>4, <1>6, <1>7
<1>8. CASE 1 < i
  <2>1. Line[1].n < Line[i].n
    BY <1>6, <1>8 DEF RequestsOK, OrderOK
  <2> QED BY <1>2, <1>3, <1>4, <1>6, <2>1
<1> QED BY <1>7, <1>8, LineFacts

LEMMA ChunkStep ==
  ASSUME RequestSteps, HandleChunk
  PROVE  RequestsOK'
<1> USE DEF RequestSteps
<1>1. /\ pc = "run" /\ batch # <<>> /\ batch[1].type = "chunk" /\ batch' = Tail(batch)
      /\ UNCHANGED <<inbox, pending, put, tasks, running>>
  BY DEF HandleChunk, LoopOK
<1>2. PICK r0 \in Requests : r0 = batch[1].req
  BY <1>1, FirstOut
<1>3. /\ Cut(0, 1) /\ Line[1] = batch[1] /\ 1 \in 1..Len(Line) /\ 1 \in 1..Len(batch) /\ 1 <= Len(batch)
      /\ PlaceOK(1) /\ told[r0] = <<>>
  BY <1>1, <1>2, FirstOut
<1>4. \A i \in 1..Len(Line') :
        i + 1 \in 1..Len(Line) /\ Line'[i] = Line[i + 1] /\ PlaceOK(i + 1) /\ 1 < i + 1
  BY <1>1, FirstOut
<1>5. \A i \in 1..Len(Line') : i <= Len(batch') =>
        /\ From(i, 0, 1) <= Len(batch) /\ i + 1 \in 1..Len(batch) /\ Line'[i] = batch[i + 1]
  BY <1>1, FirstOut
<1>6. \A r : ~Held(r) /\ ~Held(r)'
  <2>1. \A r : ~Held(r)
    BY <1>1, <1>3 DEF Held, BatchOK
  <2> QED BY <1>1, <2>1, FirstOut
<1>7. \A i \in 1..Len(Line') : Line'[i].req = r0 => ~(i <= Len(batch'))
  <2> SUFFICES ASSUME NEW i \in 1..Len(Line'), Line'[i].req = r0, i <= Len(batch') PROVE FALSE
    OBVIOUS
  <2>1. i + 1 \in 1..Len(batch) /\ batch[i + 1].req = r0 /\ 1 < i + 1
    BY <1>4, <1>5
  <2> QED BY <1>2, <1>3, <2>1 DEF BatchOK
<1>8. \A i \in 0+1..1 : i = 1
  OBVIOUS
<1>9. Streams(r0)
  BY <1>1, <1>2, <1>3 DEF PlaceOK
<1>10. \A r : Streams(r)' <=> Streams(r)
  BY DEF Streams
<1>11. CASE r0 \in marks /\ UNCHANGED <<handled, told, marks, payloads, pendingDone>>
  <2>1. \A r \in Requests : Same(r)
    BY <1>1, <1>11 DEF Same
  <2>2. ASSUME NEW r \in Requests, Streams(r), Alive(r)'
        PROVE  Alive(r) /\ \A i \in 0+1..1 : ~(Line[i].type = "chunk" /\ Line[i].req = r)
    <3>1. r \notin marks /\ r # r0
      BY <1>6, <1>11, <2>2 DEF Alive
    <3> QED BY <1>2, <1>3, <1>8, <3>1 DEF Alive
  <2> HIDE DEF RequestSteps
  <2> QED BY <1>3, <1>5, <2>1, <2>2, Quiet
<1>12. CASE /\ r0 \notin marks /\ handled' = [handled EXCEPT ![r0] = Append(@, batch[1].n)]
            /\ UNCHANGED <<told, marks, payloads, pendingDone>>
  <2>1. /\ Len(handled[r0]) \in Nat /\ put[r0].n \in Nat
        /\ Line[1].n = Len(handled[r0]) + 1 /\ Line[1].n <= put[r0].n
    <3>1. Alive(r0) /\ r0 = Line[1].req /\ Line[1].type = "chunk"
      BY <1>1, <1>2, <1>3, <1>12 DEF Alive
    <3> HIDE DEF RequestSteps
    <3> QED BY <1>3, <3>1, NextChunk
  <2>2. /\ Len(handled'[r0]) = Len(handled[r0]) + 1 /\ handled'[r0][Len(handled[r0]) + 1] = Len(handled[r0]) + 1
        /\ \A i \in 1..Len(handled[r0]) : handled'[r0][i] = handled[r0][i]
    <3>1. handled[r0] \in Seq(Nat) /\ handled'[r0] = Append(handled[r0], Line[1].n)
      BY <1>3, <1>12 DEF TypeOK
    <3> QED BY <2>1, <3>1
  <2>3. \A r \in Requests : r # r0 => Same(r)
    BY <1>1, <1>12 DEF Same, TypeOK
  <2>4. RequestOK(r0)'
    BY <1>1, <1>10, <1>12 DEF RequestsOK, RequestOK
  <2>5. FlowOK(r0)'
    <3>1. FlowOK(r0)
      BY DEF RequestsOK
    <3>2. \A i \in 1..Len(handled'[r0]) : handled'[r0][i] = i
      <4> SUFFICES ASSUME NEW i \in 1..Len(handled'[r0]) PROVE handled'[r0][i] = i
        OBVIOUS
      <4>1. i \in 1..Len(handled[r0]) \/ i = Len(handled[r0]) + 1
        BY <2>1, <2>2
      <4> QED BY <2>2, <3>1, <4>1 DEF FlowOK
    <3>3. ASSUME NEW n \in Len(handled'[r0]) + 1 .. put[r0].n
          PROVE  \E j \in 1..Len(Line') : Line'[j].type = "chunk" /\ Line'[j].req = r0 /\ Line'[j].n = n
      <4>1. n \in Len(handled[r0]) + 1 .. put[r0].n /\ n # Line[1].n
        BY <2>1, <2>2
      <4>2. PICK i \in 1..Len(Line) : Line[i].type = "chunk" /\ Line[i].req = r0 /\ Line[i].n = n
        BY <1>9, <1>12, <3>1, <4>1 DEF FlowOK, Alive
      <4>3. i \notin 0+1..1
        BY <1>8, <4>1, <4>2
      <4>4. PICK j \in 1..Len(Line') : From(j, 0, 1) = i
        BY <1>3, <4>3, CutFacts
      <4> QED BY <1>3, <4>2, <4>4 DEF Cut
    <3>4. Len(handled'[r0]) <= put'[r0].n
      BY <1>1, <2>1, <2>2
    <3>5. told'[r0] # <<"result">>
      <4>1. told'[r0] = <<>>
        BY <1>3, <1>12
      <4> QED BY <4>1
    <3> QED BY <1>1, <1>10, <3>2, <3>3, <3>4, <3>5 DEF FlowOK
  <2>6. ASSUME NEW i \in 1..Len(Line'), Line'[i].req = r0 PROVE PlaceOK(i)'
    <3>1. PICK x \in 1..Len(Line) : x = i + 1 /\ Line'[i] = Line[x] /\ PlaceOK(x) /\ 1 < x
      BY <1>4
    <3>2. Line[x].type = "chunk" => Len(handled'[r0]) < Line[x].n
      <4> SUFFICES ASSUME Line[x].type = "chunk" PROVE Len(handled'[r0]) < Line[x].n
        OBVIOUS
      <4>1. Line[1].n < Line[x].n
        BY <1>1, <1>2, <1>3, <2>6, <3>1 DEF RequestsOK, OrderOK
      <4> QED BY <2>1, <2>2, <4>1
    <3> QED BY <1>1, <1>3, <1>10, <1>12, <2>6, <3>1, <3>2 DEF PlaceOK
  <2>7. ASSUME NEW r \in Requests, r # r0, Streams(r), Alive(r)'
        PROVE  Alive(r) /\ \A i \in 0+1..1 : ~(Line[i].type = "chunk" /\ Line[i].req = r)
    BY <1>2, <1>3, <1>6, <1>8, <1>12, <2>7 DEF Alive
  <2> QED BY <1>3, <1>5, <2>3, <2>4, <2>5, <2>6, <2>7, Touch DEF Touches
<1>13. CASE FailStream(r0) /\ handled' = handled
  <2>1. ASSUME NEW r \in Requests, r # r0, Streams(r), Alive(r)'
        PROVE  Alive(r) /\ \A i \in 0+1..1 : ~(Line[i].type = "chunk" /\ Line[i].req = r)
    <3>1. marks \subseteq marks'
      BY <1>13 DEF FailStream
    <3> QED BY <1>2, <1>3, <1>6, <1>8, <2>1, <3>1 DEF Alive
  <2> HIDE DEF RequestSteps
  <2> QED BY <1>1, <1>3, <1>5, <1>7, <1>9, <1>13, <2>1, Fails
<1> QED BY <1>2, <1>11, <1>12, <1>13 DEF HandleChunk

LEMMA DoneStep ==
  ASSUME RequestSteps, HandleDone
  PROVE  RequestsOK'
<1> USE DEF RequestSteps
<1>1. /\ pc = "run" /\ batch # <<>> /\ batch[1].type = "done" /\ batch' = <<>>
      /\ UNCHANGED <<inbox, pending, put, tasks, running, handled>>
  BY DEF HandleDone, LoopOK
<1>2. Len(batch) = 1
  <2>1. Len(batch) \in Nat /\ 1 \in 1..Len(batch)
    BY <1>1, Heads, LineFacts
  <2>2. 2 \notin 1..Len(batch)
    BY <1>1, <2>1 DEF BatchOK
  <2>3. PICK n \in Nat : n = Len(batch)
    BY <2>1
  <2>4. n >= 1 /\ ~(n >= 2)
    BY <2>1, <2>2, <2>3
  <2>5. n = 1
    BY <2>4
  <2> QED BY <2>3, <2>5
<1>3. batch' = Tail(batch) /\ (\A r : ~Held(r)') /\ (\A r : ~Held(r))
  BY <1>1, <1>2, OnlyOne
<1>4. PICK r0 \in Requests : r0 = batch[1].req
  BY <1>1, <1>3, FirstOut
<1>5. /\ Cut(0, 1) /\ Line[1] = batch[1] /\ 1 \in 1..Len(Line) /\ PlaceOK(1) /\ told[r0] = <<>>
      /\ \A i \in 1..Len(Line') :
           i + 1 \in 1..Len(Line) /\ Line'[i] = Line[i + 1] /\ PlaceOK(i + 1) /\ 1 < i + 1
  BY <1>1, <1>3, <1>4, FirstOut
<1>6. Streams(r0) /\ put[r0].done
  BY <1>1, <1>4, <1>5 DEF PlaceOK
<1>7. \A i \in 1..Len(Line') : ~(i <= Len(batch'))
  BY <1>1, <1>2, OnlyOne
<1>8. \A i \in 0+1..1 : i = 1
  OBVIOUS
<1>9. ASSUME marks \subseteq marks', NEW r \in Requests, Streams(r), Alive(r)'
      PROVE  Alive(r) /\ \A i \in 0+1..1 : ~(Line[i].type = "chunk" /\ Line[i].req = r)
  BY <1>1, <1>3, <1>5, <1>8, <1>9 DEF Alive
<1>10. ASSUME NEW i \in 1..Len(Line'), Line'[i].req = r0 PROVE Line'[i].type = "new"
  <2>1. Line[1].type = "done" /\ Line[1].req = Line[i + 1].req /\ Line[i + 1].type \in {"new", "done", "chunk"}
    BY <1>1, <1>4, <1>5, <1>10, InLine
  <2> QED BY <1>5, <2>1 DEF RequestsOK, OrderOK
<1>11. \A r : Streams(r)' <=> Streams(r)
  BY DEF Streams
<1>12. CASE /\ r0 \notin payloads /\ pendingDone' = EarlyDone(r0)
            /\ UNCHANGED <<told, marks, payloads>>
  <2>1. \A r \in Requests : r # r0 => Same(r)
    BY <1>1, <1>12 DEF Same, EarlyDone
  <2>2. RequestOK(r0)'
    BY <1>1, <1>5, <1>6, <1>11, <1>12 DEF RequestsOK, RequestOK
  <2>3. FlowOK(r0)'
    <3>1. FlowOK(r0)
      BY DEF RequestsOK
    <3>2. ASSUME Alive(r0)', NEW n \in Len(handled[r0]) + 1 .. put[r0].n
          PROVE  \E j \in 1..Len(Line') : Line'[j].type = "chunk" /\ Line'[j].req = r0 /\ Line'[j].n = n
      <4>1. Alive(r0) /\ \A i \in 0+1..1 : ~(Line[i].type = "chunk" /\ Line[i].req = r0)
        BY <1>6, <1>9, <1>12, <3>2
      <4>2. PICK i \in 1..Len(Line) : Line[i].type = "chunk" /\ Line[i].req = r0 /\ Line[i].n = n
        BY <1>6, <3>1, <3>2, <4>1 DEF FlowOK
      <4>3. PICK j \in 1..Len(Line') : From(j, 0, 1) = i
        BY <1>5, <4>1, <4>2, CutFacts
      <4> QED BY <1>5, <4>2, <4>3 DEF Cut
    <3> QED BY <1>1, <1>11, <1>12, <3>1, <3>2 DEF FlowOK
  <2>4. ASSUME NEW i \in 1..Len(Line'), Line'[i].req = r0 PROVE PlaceOK(i)'
    <3>1. Line'[i] = Line[i + 1] /\ PlaceOK(i + 1) /\ Line'[i].type = "new"
      BY <1>5, <1>10, <2>4
    <3> QED BY <1>1, <1>5, <1>11, <1>12, <2>4, <3>1 DEF PlaceOK
  <2>5. marks \subseteq marks'
    BY <1>12
  <2> QED BY <1>5, <1>7, <1>9, <2>1, <2>2, <2>3, <2>4, <2>5, Touch DEF Touches
<1>13. CASE /\ r0 \in payloads /\ r0 \in marks /\ FinishStream(r0, TRUE)
            /\ UNCHANGED <<payloads, marks>>
  <2>1. \A r \in Requests : Same(r)
    BY <1>1, <1>13 DEF Same, FinishStream
  <2>2. marks \subseteq marks'
    BY <1>13
  <2> HIDE DEF RequestSteps
  <2> QED BY <1>5, <1>7, <1>9, <2>1, <2>2, Quiet
<1>14. CASE /\ r0 \in payloads /\ r0 \notin marks /\ FinishStream(r0, FALSE)
            /\ payloads' = payloads \ {r0} /\ marks' = marks
  <2>1. \A i \in 1..Len(Line') : Line'[i].req # r0
    <3> SUFFICES ASSUME NEW i \in 1..Len(Line'), Line'[i].req = r0 PROVE FALSE
      OBVIOUS
    <3>1. Line'[i] = Line[i + 1] /\ PlaceOK(i + 1) /\ Line'[i].type = "new"
      BY <1>5, <1>10
    <3> QED BY <1>14, <3>1 DEF PlaceOK
  <2>2. put[r0].new /\ Alive(r0)
    BY <1>14 DEF RequestsOK, RequestOK, Alive
  <2>3. told' = [told EXCEPT ![r0] = Append(@, "result")] /\ pendingDone' = pendingDone \ {r0}
    BY <1>14 DEF FinishStream
  <2>4. \A r \in Requests : r # r0 => (r \in marks <=> r \in marks')
    BY <1>14
  <2>5. batch[1].type # "chunk" /\ payloads' \subseteq payloads /\ r0 \notin payloads'
    BY <1>1, <1>14
  <2> HIDE DEF RequestSteps
  <2> QED BY <1>1, <1>2, <1>4, <1>6, <2>1, <2>2, <2>3, <2>4, <2>5, StreamEnds
<1>15. CASE FailStream(r0)
  <2>1. marks \subseteq marks'
    BY <1>15 DEF FailStream
  <2>2. ASSUME NEW r \in Requests, r # r0, Streams(r), Alive(r)'
        PROVE  Alive(r) /\ \A i \in 0+1..1 : ~(Line[i].type = "chunk" /\ Line[i].req = r)
    BY <1>9, <2>1, <2>2
  <2> HIDE DEF RequestSteps
  <2> QED BY <1>1, <1>5, <1>6, <1>7, <1>15, <2>2, Fails
<1> QED BY <1>4, <1>12, <1>13, <1>14, <1>15 DEF HandleDone, FinishStream

\* The line with one more message at its end.
LEMMA LinePut ==
  ASSUME TypeOK, TypeOK', NEW m \in Messages, inbox' = Append(inbox, m), UNCHANGED <<batch, pending>>
  PROVE  /\ Len(Line') = Len(Line) + 1 /\ Line'[Len(Line) + 1] = m /\ Len(Line) \in Nat
         /\ \A i \in 1..Len(Line) : Line'[i] = Line[i]
<1>1. /\ Len(inbox') = Len(inbox) + 1 /\ inbox'[Len(inbox) + 1] = m
      /\ \A i \in 1..Len(inbox) : inbox'[i] = inbox[i]
  BY DEF TypeOK
<1>2. /\ Len(Line) = Len(batch) + Len(pending) + Len(inbox) /\ Len(Line) \in Nat
      /\ Len(batch) \in Nat /\ Len(pending) \in Nat /\ Len(inbox) \in Nat
  BY LineFacts
<1>3. Len(Line') = Len(batch) + Len(pending) + Len(inbox')
  BY LineNext
<1>4. Len(Line') = Len(Line) + 1
  BY <1>1, <1>2, <1>3
<1>5. ASSUME NEW i \in 1..Len(Line')
      PROVE  Line'[i] = IF i <= Len(batch) THEN batch[i]
                        ELSE IF i <= Len(batch) + Len(pending) THEN pending[i - Len(batch)]
                        ELSE inbox'[i - Len(batch) - Len(pending)]
  BY LineAtNext
<1>6. Line'[Len(Line) + 1] = m
  <2>1. Len(Line) + 1 \in 1..Len(Line') /\ Len(Line) + 1 - Len(batch) - Len(pending) = Len(inbox) + 1
    BY <1>2, <1>4
  <2>2. ~(Len(Line) + 1 <= Len(batch)) /\ ~(Len(Line) + 1 <= Len(batch) + Len(pending))
    BY <1>2
  <2> QED BY <1>1, <1>5, <2>1, <2>2
<1>7. ASSUME NEW i \in 1..Len(Line) PROVE Line'[i] = Line[i]
  <2>1. i \in 1..Len(Line')
    BY <1>2, <1>4
  <2>2. Line[i] = IF i <= Len(batch) THEN batch[i]
                  ELSE IF i <= Len(batch) + Len(pending) THEN pending[i - Len(batch)]
                  ELSE inbox[i - Len(batch) - Len(pending)]
    BY LineAt
  <2>3. i > Len(batch) + Len(pending) => i - Len(batch) - Len(pending) \in 1..Len(inbox)
    BY <1>2
  <2>4. Line'[i] = IF i <= Len(batch) THEN batch[i]
                   ELSE IF i <= Len(batch) + Len(pending) THEN pending[i - Len(batch)]
                   ELSE inbox'[i - Len(batch) - Len(pending)]
    BY <1>5, <2>1
  <2>5. CASE i <= Len(batch) + Len(pending)
    BY <2>2, <2>4, <2>5
  <2>6. CASE i > Len(batch) + Len(pending)
    <3>1. inbox'[i - Len(batch) - Len(pending)] = inbox[i - Len(batch) - Len(pending)]
      BY <1>1, <2>3, <2>6
    <3> QED BY <2>2, <2>4, <3>1
  <2> QED BY <1>2, <2>5, <2>6
<1> QED BY <1>2, <1>4, <1>6, <1>7

LEMMA PutStep ==
  ASSUME RequestSteps, NEW m \in Messages, Put(m)
  PROVE  RequestsOK'
<1> USE DEF RequestSteps
<1>1. /\ inbox' = Append(inbox, m)
      /\ UNCHANGED <<batch, pending, tasks, running, marks, payloads, pendingDone, handled, told>>
  BY DEF Put, streamVars
<1>2. PICK r0 \in Requests : r0 = m.req
  BY MessageType
<1>3. /\ Len(Line') = Len(Line) + 1 /\ Line'[Len(Line) + 1] = m /\ Len(Line) \in Nat
      /\ \A i \in 1..Len(Line) : Line'[i] = Line[i]
  BY <1>1, LinePut
<1>4. \A r \in Requests : put[r] \in [new : BOOLEAN, n : Nat, done : BOOLEAN] /\ put[r].n \in Nat
                          /\ handled[r] \in Seq(Nat) /\ Len(handled[r]) \in Nat
  <2>1. \A r \in Requests : put[r] \in [new : BOOLEAN, n : Nat, done : BOOLEAN] /\ handled[r] \in Seq(Nat)
    BY DEF TypeOK
  <2> QED BY <2>1
<1>5. m.type = "chunk" => m.n \in Nat
  BY MessageType
<1>6. \A r : Streams(r)' <=> Streams(r)
  BY DEF Streams
<1>7. /\ \A r \in Requests : r # r0 => put'[r] = put[r]
      /\ \/ /\ m.type = "new" /\ ~put[r0].new
            /\ put'[r0].new /\ put'[r0].n = put[r0].n /\ put'[r0].done = put[r0].done
         \/ /\ m.type = "chunk" /\ Streams(r0) /\ ~put[r0].done /\ m.n = put[r0].n + 1
            /\ put'[r0].new = put[r0].new /\ put'[r0].n = m.n /\ put'[r0].done = put[r0].done
         \/ /\ m.type = "done" /\ Streams(r0) /\ ~put[r0].done /\ put[r0].n = Chunks[r0]
            /\ put'[r0].new = put[r0].new /\ put'[r0].n = put[r0].n /\ put'[r0].done
  <2>1. put \in [Requests -> [new : BOOLEAN, n : Nat, done : BOOLEAN]]
    BY DEF TypeOK
  <2>2. CASE m.type = "new" /\ ~put[r0].new /\ put' = [put EXCEPT ![r0].new = TRUE]
    BY <2>1, <2>2
  <2>3. CASE /\ m.type = "chunk" /\ Streams(r0) /\ ~put[r0].done /\ m.n = put[r0].n + 1
             /\ put' = [put EXCEPT ![r0].n = m.n]
    BY <2>1, <2>3
  <2>4. CASE /\ m.type = "done" /\ Streams(r0) /\ ~put[r0].done /\ put[r0].n = Chunks[r0]
             /\ put' = [put EXCEPT ![r0].done = TRUE]
    BY <2>1, <2>4
  <2> QED BY <1>2, <2>2, <2>3, <2>4 DEF Put
<1>8. ASSUME NEW r \in Requests
      PROVE  /\ put[r].new => put'[r].new
             /\ put[r].done => put'[r].done
             /\ put[r].n \in Nat /\ put'[r].n \in Nat /\ put[r].n <= put'[r].n
  BY <1>4, <1>5, <1>7
<1>9. ASSUME NEW i \in 1..Len(Line), Line[i].req = r0
      PROVE  /\ Line[i].type = m.type => m.type = "chunk" /\ Line[i].n < m.n
             /\ Line[i].type = "done" => m.type # "chunk"
  <2>1. PlaceOK(i) /\ Line[i] \in Messages
    BY InLine
  <2>2. Line[i].type = "chunk" => Line[i].n \in Nat
    BY <2>1, MessageType
  <2> QED BY <1>4, <1>7, <1>9, <2>1, <2>2 DEF PlaceOK
<1>10. OrderOK'
  <2> SUFFICES ASSUME NEW i \in 1..Len(Line'), NEW j \in 1..Len(Line'), i < j,
                      Line'[i].req = Line'[j].req
               PROVE  /\ Line'[i].type = Line'[j].type => Line'[i].type = "chunk" /\ Line'[i].n < Line'[j].n
                      /\ Line'[i].type = "done" => Line'[j].type # "chunk"
    BY DEF OrderOK
  <2>1. i \in 1..Len(Line) /\ (j \in 1..Len(Line) \/ j = Len(Line) + 1)
    BY <1>3
  <2>2. CASE j \in 1..Len(Line)
    BY <1>3, <2>1, <2>2 DEF RequestsOK, OrderOK
  <2>3. CASE j = Len(Line) + 1
    BY <1>2, <1>3, <1>9, <2>1, <2>3
  <2> QED BY <2>1, <2>2, <2>3
<1>11. ASSUME NEW i \in 1..Len(Line) PROVE PlaceOK(i)'
  <2>1. PlaceOK(i) /\ Line[i] \in Messages /\ Line'[i] = Line[i]
    BY <1>3, InLine
  <2>2. PICK r \in Requests : r = Line[i].req
    BY <2>1, MessageType
  <2>3. Line[i].type = "chunk" => Line[i].n \in Nat
    BY <2>1, MessageType
  <2> QED BY <1>1, <1>6, <1>8, <2>1, <2>2, <2>3 DEF PlaceOK
<1>12. RequestOK(r0) /\ FlowOK(r0)
  BY DEF RequestsOK
<1>13. ASSUME NEW i \in Nat, i = Len(Line) + 1 PROVE PlaceOK(i)'
  <2>1. Line'[i] = m /\ ~(i <= Len(batch'))
    <3>1. Len(batch') <= Len(Line) /\ Len(batch') \in Nat
      BY <1>1, LineFacts
    <3> QED BY <1>3, <1>13, <3>1
  <2>2. /\ m.type = "new" => put'[r0].new /\ r0 \notin payloads \cup tasks \cup running
        /\ m.type = "done" => Streams(r0) /\ put'[r0].done
        /\ m.type # "new" => r0 \notin pendingDone
    BY <1>7, <1>12 DEF RequestOK
  <2>3. m.type = "chunk" => Streams(r0) /\ Len(handled[r0]) < m.n /\ m.n <= put'[r0].n
    BY <1>4, <1>5, <1>7, <1>12 DEF FlowOK
  <2>4. ~Streams(r0) \/ r0 \notin marks => told[r0] = <<>>
    BY <1>7, <1>12 DEF RequestOK
  <2> QED BY <1>1, <1>2, <1>6, <2>1, <2>2, <2>3, <2>4 DEF PlaceOK
<1>14. ASSUME NEW r \in Requests PROVE RequestOK(r)'
  <2>1. RequestOK(r)
    BY DEF RequestsOK
  <2>2. put'[r].done => Streams(r) /\ put'[r].n = Chunks[r]
    BY <1>7, <2>1 DEF RequestOK
  <2> QED BY <1>1, <1>6, <1>8, <2>1, <2>2 DEF RequestOK
<1>15. ASSUME NEW r \in Requests PROVE FlowOK(r)'
  <2>1. FlowOK(r)
    BY DEF RequestsOK
  <2>2. Alive(r)' <=> Alive(r)
    BY <1>1 DEF Alive, Held
  <2>3. ASSUME Streams(r), Alive(r), NEW n \in Len(handled[r]) + 1 .. put'[r].n
        PROVE  \E j \in 1..Len(Line') : Line'[j].type = "chunk" /\ Line'[j].req = r /\ Line'[j].n = n
    <3>1. CASE n \in Len(handled[r]) + 1 .. put[r].n
      <4>1. PICK i \in 1..Len(Line) : Line[i].type = "chunk" /\ Line[i].req = r /\ Line[i].n = n
        BY <2>1, <2>3, <3>1 DEF FlowOK
      <4>2. i \in 1..Len(Line')
        BY <1>3
      <4> QED BY <1>3, <4>1, <4>2
    <3>2. CASE n \notin Len(handled[r]) + 1 .. put[r].n
      <4>1. n > put[r].n /\ n <= put'[r].n
        BY <1>4, <1>8, <2>3, <3>2
      <4>2. r = r0 /\ m.type = "chunk" /\ m.n = n
        BY <1>4, <1>5, <1>7, <1>8, <4>1
      <4>3. Len(Line) + 1 \in 1..Len(Line')
        BY <1>3
      <4> QED BY <1>2, <1>3, <4>2, <4>3
    <3> QED BY <3>1, <3>2
  <2>4. Len(handled[r]) <= put'[r].n
    BY <1>4, <1>8, <2>1 DEF FlowOK
  <2> QED BY <1>1, <1>6, <2>1, <2>2, <2>3, <2>4 DEF FlowOK
<1>16. \A i \in 1..Len(Line') : i \in 1..Len(Line) \/ (i \in Nat /\ i = Len(Line) + 1)
  BY <1>3
<1> QED BY <1>10, <1>11, <1>13, <1>14, <1>15, <1>16 DEF RequestsOK

LEMMA RequestsStep ==
  ASSUME TypeOK, TypeOK', LoopOK, BatchOK, RequestsOK, [Next]_vars
  PROVE  RequestsOK'
<1>1. RequestSteps
  <2>1. kind' = kind
    BY DEF Next, Loop, Threads, Collect, vars, TakeMessage, CollectMore, PushBack, CostRaises, FirstRaises,
           CollectEnds, Compute, AnswerNext, BatchEnds, NewStream, HandleChunk, HandleDone,
           ThreadStarts, Finish, Put, Abort, AbortMarks, AbortClears
  <2> QED BY <2>1 DEF RequestSteps
<1>2. ASSUME UNCHANGED <<batch, pending, inbox, put, handled, told>>,
             payloads' \subseteq payloads, pendingDone' \subseteq pendingDone,
             tasks' \cup running' \subseteq tasks \cup running, marks \subseteq marks'
      PROVE  RequestsOK'
  BY <1>1, <1>2, StandStill
<1>3. CASE CollectEnds \/ BatchEnds
  BY <1>2, <1>3 DEF CollectEnds, BatchEnds, streamVars
<1>4. CASE Compute
  BY <1>2, <1>4 DEF Compute
<1>5. ASSUME NEW r \in Requests, ThreadStarts(r) PROVE RequestsOK'
  BY <1>2, <1>5 DEF ThreadStarts, streamVars
<1>6. ASSUME NEW r \in Requests, Abort(r) PROVE RequestsOK'
  BY <1>2, <1>6 DEF Abort, streamVars
<1>7. ASSUME NEW r \in Requests, AbortMarks(r) PROVE RequestsOK'
  BY <1>2, <1>7 DEF AbortMarks, streamVars
<1>8. CASE AbortClears
  BY <1>2, <1>8 DEF AbortClears
<1>9. CASE UNCHANGED vars
  BY <1>2, <1>9 DEF vars, streamVars
<1>10. CASE TakeMessage
  BY <1>1, <1>10, TakeStep
<1>11. CASE CollectMore \/ PushBack
  BY <1>1, <1>11, CollectStep
<1>12. CASE CostRaises
  BY <1>1, <1>12, CostStep
<1>13. CASE FirstRaises
  BY <1>1, <1>13, FirstStep
<1>14. CASE AnswerNext
  BY <1>1, <1>14, AnswerStep
<1>15. CASE NewStream
  BY <1>1, <1>15, NewStreamStep
<1>16. CASE HandleChunk
  BY <1>1, <1>16, ChunkStep
<1>17. CASE HandleDone
  BY <1>1, <1>17, DoneStep
<1>18. ASSUME NEW r \in Requests, NEW answer \in {"result", "error"}, Finish(r, answer) PROVE RequestsOK'
  BY <1>1, <1>18, FinishStep
<1>19. ASSUME NEW m \in Messages, Put(m) PROVE RequestsOK'
  BY <1>1, <1>19, PutStep
<1> QED BY <1>3, <1>4, <1>5, <1>6, <1>7, <1>8, <1>9, <1>10, <1>11, <1>12, <1>13, <1>14, <1>15, <1>16,
           <1>17, <1>18, <1>19 DEF Next, Loop, Collect, Threads
-----------------------------------------------------------------------------
(* The theorems.                                                           *)

Inductive == TypeOK /\ IsFiniteSet(tasks) /\ SchedInv

LEMMA InductiveInit ==
  Init => Inductive
<1> SUFFICES ASSUME Init PROVE Inductive
  OBVIOUS
<1>1. TypeOK /\ IsFiniteSet(tasks)
  <2>1. IsFiniteSet(tasks) /\ Cardinality(tasks) <= MaxThreads
    BY FS_EmptySet, LimitsAssumption DEF Init
  <2>2. <<>> \in Seq(Messages) /\ <<>> \in Seq(Nat) /\ <<>> \in Seq({"result", "error"})
    OBVIOUS
  <2>3. put \in [Requests -> [new : BOOLEAN, n : Nat, done : BOOLEAN]]
    BY DEF Init
  <2> QED BY <2>1, <2>2, <2>3 DEF Init, TypeOK
<1>2. Len(Line) = 0 /\ Len(batch) = 0
  BY <1>1, LineFacts DEF Init
<1>3. LoopOK /\ BatchOK
  BY <1>2 DEF Init, LoopOK, BatchOK
<1>4. OrderOK /\ \A i \in 1..Len(Line) : PlaceOK(i)
  BY <1>2 DEF OrderOK
<1>5. ASSUME NEW r \in Requests PROVE RequestOK(r) /\ FlowOK(r) /\ StopOK(r)
  <2>1. /\ put[r].new = FALSE /\ put[r].done = FALSE /\ put[r].n = 0 /\ told[r] = <<>> /\ handled[r] = <<>>
        /\ payloads = {} /\ pendingDone = {} /\ tasks = {} /\ running = {} /\ stopped = {}
    BY DEF Init
  <2>2. Len(told[r]) = 0 /\ Len(handled[r]) = 0 /\ told[r] # <<"result">>
    BY <2>1
  <2>3. \A n \in Len(handled[r]) + 1 .. put[r].n : FALSE
    BY <2>1, <2>2
  <2>4. RequestOK(r)
    BY <2>1, <2>2 DEF RequestOK
  <2>5. FlowOK(r)
    BY <2>1, <2>2, <2>3 DEF FlowOK
  <2> QED BY <2>1, <2>4, <2>5 DEF StopOK
<1> QED BY <1>1, <1>3, <1>4, <1>5 DEF Inductive, SchedInv, RequestsOK

LEMMA InductiveStep ==
  Inductive /\ [Next]_vars => Inductive'
<1> SUFFICES ASSUME Inductive, [Next]_vars PROVE Inductive'
  OBVIOUS
<1>1. TypeOK /\ IsFiniteSet(tasks) /\ LoopOK /\ BatchOK /\ RequestsOK /\ \A r \in Requests : StopOK(r)
  BY DEF Inductive, SchedInv
<1>2. ControlInv
  BY <1>1 DEF ControlInv, RequestsOK
<1>3. TypeOK' /\ IsFiniteSet(tasks')
  BY <1>1, <1>2, TypeStep
<1>4. LoopOK' /\ BatchOK'
  BY <1>1, <1>2, <1>3, ControlStep
<1>5. RequestsOK'
  BY <1>1, <1>3, RequestsStep
<1>6. \A r \in Requests : StopOK(r)'
  BY <1>1, <1>2, StopStep
<1> QED BY <1>3, <1>4, <1>5, <1>6 DEF Inductive, SchedInv

\* The scheduler's state keeps its type; in particular it never runs more
\* than max_concurrency requests at once.
THEOREM TypesKept == Spec => []TypeOK
<1>1. Inductive => TypeOK
  BY DEF Inductive
<1> QED BY <1>1, InductiveInit, InductiveStep, PTL DEF Spec

\* A request is answered at most once, whichever scheduler has it and
\* however its payload travels through batches, pushback and threads.
THEOREM AnsweredAtMostOnce == Spec => []AnsweredOnce
<1>1. Inductive => AnsweredOnce
  BY DEF Inductive, SchedInv, RequestsOK, RequestOK, AnsweredOnce
<1> QED BY <1>1, InductiveInit, InductiveStep, PTL DEF Spec

\* The chunks of a stream are handled in the order they were put, and all
\* of them before its result is sent.
THEOREM ChunksHandledInOrder == Spec => []ChunksInOrder
<1>1. Inductive => ChunksInOrder
  <2> SUFFICES ASSUME Inductive, NEW r \in Streaming
               PROVE  /\ \A i \in 1..Len(handled[r]) : handled[r][i] = i
                      /\ kind = "streaming" /\ told[r] = <<"result">> => Len(handled[r]) = Chunks[r]
    BY DEF ChunksInOrder
  <2>1. r \in Requests
    BY StreamingAssumption
  <2>2. FlowOK(r)
    BY <2>1 DEF Inductive, SchedInv, RequestsOK
  <2> QED BY <2>2 DEF FlowOK, Streams
<1> QED BY <1>1, InductiveInit, InductiveStep, PTL DEF Spec

\* A stream that was answered, or whose abort() returned without a message
\* of it racing the abort, keeps no payload and no early end.
THEOREM StateIsReleased == Spec => []StateReleased
<1>1. Inductive => StateReleased
  <2> SUFFICES ASSUME Inductive, NEW r \in payloads \cup pendingDone
               PROVE  told[r] = <<>> /\ (r \in stopped => r \in raced \cup {abortOf})
    BY DEF StateReleased
  <2>1. r \in Requests
    BY DEF Inductive, TypeOK
  <2>2. RequestOK(r) /\ StopOK(r)
    BY <2>1 DEF Inductive, SchedInv, RequestsOK
  <2>3. kind = "streaming" /\ told[r] = <<>>
    BY <2>2 DEF RequestOK, Streams
  <2> QED BY <2>2, <2>3 DEF StopOK
<1> QED BY <1>1, InductiveInit, InductiveStep, PTL DEF Spec
=============================================================================
