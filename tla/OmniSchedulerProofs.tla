------------------------- MODULE OmniSchedulerProofs -------------------------
(***************************************************************************)
(* OmniScheduler, for any number of requests, any batch size and any       *)
(* number of tokens, retractions and administrative operations: memory is  *)
(* released once, requests are neither lost nor duplicated, and no result  *)
(* follows an answer.                                                      *)
(*                                                                         *)
(* The invariant says where a request may be at which point of the loop,   *)
(* and that whatever is still going to be processed holds its KV: a        *)
(* request in a batch until it has finished, and one in a step in flight   *)
(* until it has finished or was retracted.  The exception is a request     *)
(* that abort() tore out of a batch in which it had not found it before.   *)
(***************************************************************************)
EXTENDS OmniScheduler, SequenceTheorems, FiniteSetTheorems, TLAPS

Step == [reqs : Seq(Requests), rows : Seq(Requests)]

\* the variables whose values the proof looks into
BatchTypeOK ==
  /\ inbox \subseteq Requests /\ admitted \subseteq Requests /\ waiting \subseteq Requests
  /\ running \in Seq(Requests) /\ fresh \in Seq(Requests)
  /\ pend \in Step /\ prev \in Step
  /\ kv \in [Requests -> Nat] /\ version \in Nat \ {0}
  /\ told \in [Requests -> Seq({"result", "error"})]

Batched == Range(running) \cup Range(fresh)
Stepped == Range(pend.reqs) \cup Range(prev.reqs)

\* the loop, at which points the prefill batch is the last or the current one
\* and which step is in flight
LoopOK ==
  /\ fresh # <<>> /\ pc \in {"top", "paused", "select", "pausing", "updating"} => last = "fresh"
  /\ fresh # <<>> /\ pc \in {"dispatch", "drained", "running", "resolve", "end"} => cur = "fresh"
  /\ pend.rows = <<>> => Range(pend.reqs) = {}
  /\ pc # "resolve" => Range(prev.reqs) = {}
  /\ pc = "running" => Range(Batch(cur)) \cap fin = {}

\* a request is in one place
PlaceOK ==
  /\ inbox \cap admitted = {}
  /\ waiting \subseteq admitted /\ Batched \subseteq admitted
  /\ waiting \cap Batched = {}
  /\ Range(running) \cap Range(fresh) = {}
  /\ retracted \cap Batched = {}
  /\ admitted \subseteq waiting \cup Batched \cup fin \cup aborted
  /\ \A r \in Requests : kv[r] # 0 => r \in admitted \ waiting

\* whatever is still going to be processed holds its KV
KvOK ==
  /\ doubleFreed \subseteq torn
  /\ torn \subseteq aborted
  /\ \A r \in Requests \ torn :
       r \in (Batched \ fin) \cup (Stepped \ (fin \cup retracted)) => kv[r] # 0

\* a request that was answered has finished or is aborted
ToldOK ==
  /\ NoLateResult
  /\ \A r \in Requests : told[r] # <<>> => r \in fin \cup aborted

OmniInv == BatchTypeOK /\ LoopOK /\ PlaceOK /\ KvOK /\ ToldOK
-----------------------------------------------------------------------------
(* Sequences.                                                              *)

LEMMA EmptyRange ==
  ASSUME NEW S, NEW s \in Seq(S)
  PROVE  Range(s) = {} <=> s = <<>>
<1>1. s # <<>> => 1 \in DOMAIN s
  OBVIOUS
<1>2. s # <<>> => s[1] \in Range(s)
  BY <1>1 DEF Range
<1>3. s = <<>> => DOMAIN s = {}
  OBVIOUS
<1> QED BY <1>2, <1>3 DEF Range

LEMMA RangeType ==
  ASSUME NEW S, NEW s \in Seq(S)
  PROVE  Range(s) \subseteq S
BY DEF Range

\* The positions that are kept are numbered through.
LEMMA RankOnto ==
  ASSUME NEW n \in Nat, NEW keep \in SUBSET (1..n),
         NEW j \in 1..Cardinality(keep)
  PROVE  \E i \in keep : Cardinality({k \in keep : k <= i}) = j
<1> DEFINE below(i) == {k \in keep : k <= i}
           N == Cardinality(keep)
           rank == [i \in keep |-> Cardinality(below(i))]
<1>1. IsFiniteSet(keep) /\ N \in Nat
  <2>1. IsFiniteSet(1..n)
    BY FS_Interval
  <2> QED BY <2>1, FS_Subset, FS_CardinalityType
<1>2. IsFiniteSet(1..N) /\ Cardinality(1..N) = N
  BY <1>1, FS_Interval
<1>3. ASSUME NEW i \in keep
      PROVE  IsFiniteSet(below(i)) /\ Cardinality(below(i)) \in 1..N
  <2>1. IsFiniteSet(below(i)) /\ Cardinality(below(i)) <= N /\ Cardinality(below(i)) \in Nat
    BY <1>1, FS_Subset, FS_CardinalityType
  <2>2. Cardinality(below(i)) # 0
    <3>1. i \in below(i)
      OBVIOUS
    <3> QED BY <2>1, <3>1, FS_EmptySet
  <2> QED BY <1>1, <2>1, <2>2
<1>4. ASSUME NEW i \in keep, NEW k \in keep, i < k
      PROVE  Cardinality(below(i)) # Cardinality(below(k))
  <2>1. below(i) \subseteq below(k) /\ below(i) # below(k)
    <3>1. \A x \in keep : x \in Nat
      OBVIOUS
    <3>2. k \in below(k) /\ k \notin below(i)
      BY <1>4, <3>1
    <3>3. \A x \in keep : x <= i => x <= k
      BY <1>4, <3>1
    <3> QED BY <3>2, <3>3
  <2>2. IsFiniteSet(below(k))
    BY <1>3
  <2> HIDE DEF below
  <2> QED BY <2>1, <2>2, FS_Subset
<1>5. rank \in Injection(keep, 1..N)
  <2>1. rank \in [keep -> 1..N]
    BY <1>3
  <2>2. \A i, k \in keep : rank[i] = rank[k] => i = k
    <3>1. \A i, k \in keep : i = k \/ i < k \/ k < i
      OBVIOUS
    <3> HIDE DEF below
    <3> QED BY <1>4, <3>1
  <2> HIDE DEF rank
  <2> QED BY <2>1, <2>2 DEF Injection, IsInjective
<1>6. rank \in Surjection(keep, 1..N)
  BY <1>2, <1>5, FS_Injection
<1>7. \E i \in keep : rank[i] = j
  BY <1>6 DEF Surjection
<1> QED BY <1>7

\* Taking the elements at some positions out of a sequence.
LEMMA PickedElements ==
  ASSUME NEW S, NEW s \in Seq(S), NEW keep \in SUBSET (1..Len(s))
  PROVE  /\ AtPositions(s, keep) \in Seq(S)
         /\ Range(AtPositions(s, keep)) = {s[i] : i \in keep}
<1> DEFINE N == Cardinality(keep)
           rank(i) == Cardinality({k \in keep : k <= i})
           at(j) == CHOOSE i \in keep : rank(i) = j
           p == AtPositions(s, keep)
<1>1. Len(s) \in Nat /\ IsFiniteSet(keep) /\ N \in Nat
  <2>1. Len(s) \in Nat
    OBVIOUS
  <2>2. IsFiniteSet(1..Len(s))
    BY <2>1, FS_Interval
  <2> QED BY <2>1, <2>2, FS_Subset, FS_CardinalityType
<1>2. p = [j \in 1..N |-> s[at(j)]]
  BY DEF AtPositions
<1>3. \A j \in 1..N : at(j) \in keep
  BY <1>1, RankOnto
<1>4. p \in Seq(S)
  <2>1. \A i \in keep : s[i] \in S
    OBVIOUS
  <2> HIDE DEF N, at, p
  <2>2. p \in [1..N -> S]
    BY <1>2, <1>3, <2>1
  <2> QED BY <1>1, <2>2, SeqDef
<1>5. ASSUME NEW i \in keep
      PROVE  \E j \in 1..N : at(j) = i
  <2>1. IsFiniteSet({k \in keep : k <= i}) /\ rank(i) <= N /\ rank(i) \in Nat
    BY <1>1, FS_Subset, FS_CardinalityType
  <2>2. rank(i) # 0
    <3>1. i \in {k \in keep : k <= i}
      OBVIOUS
    <3> QED BY <2>1, <3>1, FS_EmptySet
  <2>3. rank(i) \in 1..N
    BY <1>1, <2>1, <2>2
  <2>4. at(rank(i)) \in keep /\ rank(at(rank(i))) = rank(i)
    BY <2>3
  <2>5. ASSUME NEW a \in keep, NEW b \in keep, a < b
        PROVE  rank(a) # rank(b)
    <3>0. keep \subseteq Nat
      BY <1>1
    <3>1. /\ {k \in keep : k <= a} \subseteq {k \in keep : k <= b}
          /\ b \in {k \in keep : k <= b} /\ b \notin {k \in keep : k <= a}
      <4>1. \A k \in keep : k <= a => k <= b
        BY <2>5, <3>0
      <4>2. b <= b /\ ~(b <= a)
        BY <2>5, <3>0
      <4> QED BY <4>1, <4>2
    <3>2. IsFiniteSet({k \in keep : k <= b})
      BY <1>1, FS_Subset
    <3> QED BY <3>1, <3>2, FS_Subset
  <2>6. at(rank(i)) = i
    <3>1. at(rank(i)) = i \/ at(rank(i)) < i \/ i < at(rank(i))
      BY <2>4
    <3> HIDE DEF rank, at
    <3> QED BY <2>4, <2>5, <3>1
  <2> QED BY <2>3, <2>6
<1> HIDE DEF N, at, p
<1>6. Range(p) = {s[at(j)] : j \in 1..N}
  <2>1. DOMAIN p = 1..N /\ \A j \in 1..N : p[j] = s[at(j)]
    BY <1>2
  <2> QED BY <2>1 DEF Range
<1>7. Range(p) = {s[i] : i \in keep}
  BY <1>3, <1>5, <1>6
<1> QED BY <1>4, <1>7 DEF p

\* _remove_from_batch, and every other filter of a batch
LEMMA WithoutRange ==
  ASSUME NEW s \in Seq(Requests), NEW gone
  PROVE  /\ Without(s, gone) \in Seq(Requests)
         /\ Range(Without(s, gone)) = Range(s) \ gone
         /\ s = <<>> => Without(s, gone) = <<>>
<1> DEFINE keep == {i \in DOMAIN s : s[i] \notin gone}
<1>1. DOMAIN s = 1..Len(s)
  OBVIOUS
<1>2. keep \in SUBSET (1..Len(s)) /\ Without(s, gone) = AtPositions(s, keep)
  BY <1>1 DEF Without
<1>3. Without(s, gone) \in Seq(Requests) /\ Range(Without(s, gone)) = {s[i] : i \in keep}
  BY <1>2, PickedElements
<1>4. Range(Without(s, gone)) = Range(s) \ gone
  BY <1>3 DEF Range
<1>5. s = <<>> => Range(s) = {}
  BY EmptyRange
<1> QED BY <1>3, <1>4, <1>5, EmptyRange

\* the order in which a new prefill batch is taken from the queue
LEMMA PrefillRange ==
  ASSUME NEW rs \in SUBSET Requests
  PROVE  SetToSeq(rs) \in Seq(Requests) /\ Range(SetToSeq(rs)) = rs
<1> DEFINE N == Cardinality(rs)
           f == SetToSeq(rs)
<1>1. IsFiniteSet(rs) /\ N \in Nat /\ ExistsBijection(1..N, rs)
  BY RequestsAssumption, FS_Subset, FS_CardinalityType
<1>2. \E g \in [1..N -> rs] : IsInjective(g)
  BY <1>1 DEF ExistsBijection, Bijection, Injection
<1>3. f \in [1..N -> rs] /\ IsInjective(f)
  BY <1>2 DEF SetToSeq
<1> HIDE DEF f
<1>4. IsFiniteSet(1..N) /\ Cardinality(1..N) = N
  BY <1>1, FS_Interval
<1>5. f \in Surjection(1..N, rs)
  <2>1. f \in Injection(1..N, rs)
    BY <1>3 DEF Injection
  <2> QED BY <1>1, <1>4, <2>1, FS_Injection
<1>6. Range(f) = rs
  BY <1>3, <1>5 DEF Surjection, Range
<1>7. f \in Seq(Requests)
  <2>1. f \in [1..N -> Requests]
    BY <1>3
  <2> QED BY <1>1, <2>1, SeqDef
<1> QED BY <1>6, <1>7 DEF f

LEMMA ConcatRange ==
  ASSUME NEW a \in Seq(Requests), NEW b \in Seq(Requests)
  PROVE  a \o b \in Seq(Requests) /\ Range(a \o b) = Range(a) \cup Range(b)
<1>1. /\ Len(a) \in Nat /\ Len(b) \in Nat /\ DOMAIN a = 1..Len(a) /\ DOMAIN b = 1..Len(b)
      /\ DOMAIN (a \o b) = 1..(Len(a) + Len(b))
      /\ \A i \in 1..Len(a) : (a \o b)[i] = a[i]
      /\ \A i \in 1..Len(b) : (a \o b)[Len(a) + i] = b[i]
  OBVIOUS
<1>2. a \o b \in Seq(Requests)
  OBVIOUS
<1> DEFINE c == a \o b
<1>3. ASSUME NEW i \in DOMAIN c
      PROVE  c[i] \in Range(a) \cup Range(b)
  <2>1. CASE i <= Len(a)
    BY <1>1, <2>1 DEF Range
  <2>2. CASE i > Len(a)
    <3>1. i - Len(a) \in 1..Len(b) /\ i = Len(a) + (i - Len(a))
      BY <1>1, <2>2
    <3> QED BY <1>1, <3>1 DEF Range
  <2> QED BY <1>1, <2>1, <2>2
<1>4. \A i \in DOMAIN a : i \in DOMAIN c /\ c[i] = a[i]
  BY <1>1
<1>5. \A i \in DOMAIN b : Len(a) + i \in DOMAIN c /\ c[Len(a) + i] = b[i]
  BY <1>1
<1> HIDE DEF c
<1>6. Range(c) = Range(a) \cup Range(b)
  BY <1>3, <1>4, <1>5 DEF Range
<1> QED BY <1>2, <1>6 DEF c
-----------------------------------------------------------------------------
(* The two ways in which requests end.                                     *)

\* what AbortNow leaves of the batches
LEMMA AbortEffect ==
  ASSUME BatchTypeOK, NEW rs, NEW step \in Step, AbortNow(rs, step)
  PROVE  /\ running' \in Seq(Requests) /\ Range(running') = Range(running) \ rs
         /\ fresh' \in Seq(Requests) /\ Range(fresh') = Range(fresh) \ rs
         /\ fresh = <<>> => fresh' = <<>>
         /\ pend' \in Step /\ Range(pend'.reqs) = Range(step.reqs) \ rs /\ pend'.rows = step.rows
         /\ kv' \in [Requests -> Nat]
<1>1. step.reqs \in Seq(Requests) /\ step.rows \in Seq(Requests)
  BY DEF Step
<1>2. /\ Without(step.reqs, rs) \in Seq(Requests)
      /\ Range(Without(step.reqs, rs)) = Range(step.reqs) \ rs
  BY <1>1, WithoutRange
<1>3. pend' = [step EXCEPT !.reqs = Without(step.reqs, rs)]
  BY DEF AbortNow
<1>4. pend'.reqs = Without(step.reqs, rs) /\ pend'.rows = step.rows /\ pend' \in Step
  BY <1>1, <1>2, <1>3 DEF Step
<1>5. kv' \in [Requests -> Nat]
  BY DEF AbortNow, BatchTypeOK
<1>6. /\ running' \in Seq(Requests) /\ Range(running') = Range(running) \ rs
      /\ fresh' \in Seq(Requests) /\ Range(fresh') = Range(fresh) \ rs
      /\ fresh = <<>> => fresh' = <<>>
  BY WithoutRange DEF AbortNow, BatchTypeOK
<1> QED BY <1>2, <1>4, <1>5, <1>6

\* Aborting requests keeps the places and the memory in order.  Requests that
\* a resolved step still holds must have left it, or be torn.
LEMMA AbortKeeps ==
  ASSUME OmniInv, NEW rs, NEW step \in Step, AbortNow(rs, step),
         Range(step.reqs) \subseteq Range(pend.reqs),
         UNCHANGED <<admitted, fin, retracted, doubleFreed>>,
         torn \subseteq torn', torn' \subseteq torn \cup rs,
         Range(prev'.reqs) \subseteq Range(prev.reqs),
         \/ Range(prev'.reqs) = {}
         \/ rs \cap (InBatches \ fin) \subseteq torn' /\ step = pend
  PROVE  PlaceOK' /\ KvOK'
<1>1. /\ Range(running') = Range(running) \ rs /\ Range(fresh') = Range(fresh) \ rs
      /\ Range(pend'.reqs) = Range(step.reqs) \ rs
  BY AbortEffect DEF OmniInv
<1>2. /\ aborted' = aborted \cup rs /\ waiting' = waiting \ rs /\ inbox' = inbox \ rs
      /\ \A r \in Requests :
           kv'[r] = IF r \in rs \cap (Batched \cup Range(step.reqs)) THEN 0 ELSE kv[r]
  BY DEF AbortNow, Batched
<1>3. PlaceOK'
  <2>1. PlaceOK
    BY DEF OmniInv
  <2>2. Batched' = Batched \ rs
    BY <1>1 DEF Batched
  <2>3. \A r \in Requests : kv'[r] # 0 => kv[r] # 0
    BY <1>2
  <2> QED BY <1>1, <1>2, <2>1, <2>2, <2>3 DEF PlaceOK
<1>4. KvOK'
  <2>1. KvOK
    BY DEF OmniInv
  <2>2. doubleFreed' \subseteq torn' /\ torn' \subseteq aborted'
    BY <1>2, <2>1 DEF KvOK
  <2>3. ASSUME NEW r \in Requests, r \notin torn',
               r \in (Batched \ fin)' \cup (Stepped \ (fin \cup retracted))'
        PROVE  kv'[r] # 0
    <3>1. r \in (Batched \ fin) \cup (Stepped \ (fin \cup retracted))
      BY <1>1, <2>3 DEF Batched, Stepped
    <3>2. kv[r] # 0
      BY <2>1, <2>3, <3>1 DEF KvOK
    <3>3. r \notin rs \cap (Batched \cup Range(step.reqs))
      BY <1>1, <2>3 DEF Batched, Stepped, InBatches
    <3> QED BY <1>2, <3>2, <3>3
  <2> QED BY <2>2, <2>3 DEF KvOK
<1> QED BY <1>3, <1>4

\* the requests that a step which has not been processed may still answer
Live == (Batched \ fin) \cup (Stepped \ (fin \cup retracted))

\* Processing live requests keeps the places, the memory and the answers in
\* order (process_batch_result, stream_output).
LEMMA ProcessKeeps ==
  ASSUME OmniInv, NEW pairs, NEW ending, NEW answer \in {"result", "error"},
         Process(pairs, ending, answer),
         \A p \in Range(pairs) : p[1] \in Requests \cap Live,
         UNCHANGED <<inbox, admitted, waiting, running, fresh, retracted, aborted, torn>>,
         Range(pend'.reqs) \subseteq Range(pend.reqs),
         Range(prev'.reqs) \subseteq Range(prev.reqs)
  PROVE  /\ PlaceOK' /\ KvOK' /\ ToldOK'
         /\ kv' \in [Requests -> Nat] /\ told' \in [Requests -> Seq({"result", "error"})]
<1> DEFINE got == {p[1] : p \in Range(pairs)}
           over == {r \in got : r \in toFinish \cup fin \/ tokens[r] + 1 >= MaxTokens}
           ends == over \cup ending
<1>1. /\ ending \subseteq got
      /\ fin' = fin \cup ends
      /\ kv' = [r \in Requests |-> IF r \in ends THEN 0 ELSE kv[r]]
      /\ doubleFreed' = doubleFreed \cup {r \in ends : kv[r] = 0}
      /\ told' = [r \in Requests |-> IF r \in ends \ aborted
                                     THEN Append(told[r], answer) ELSE told[r]]
  BY DEF Process
<1>2. ends \subseteq got /\ got \subseteq Requests \cap Live
  BY <1>1
<1>3. ends \subseteq Requests \cap Live
  BY <1>2
<1> HIDE DEF ends
<1>4. BatchTypeOK /\ PlaceOK /\ KvOK /\ ToldOK
  BY DEF OmniInv
<1>5. Batched' = Batched
  BY DEF Batched
<1>6. PlaceOK'
  <2>1. \A r \in Requests : kv'[r] # 0 => kv[r] # 0
    BY <1>1
  <2> QED BY <1>1, <1>4, <1>5, <2>1 DEF PlaceOK
<1>7. KvOK'
  <2>1. \A r \in ends : kv[r] = 0 => r \in torn
    BY <1>3, <1>4 DEF KvOK, Live
  <2>2. ASSUME NEW r \in Requests, r \notin torn',
               r \in (Batched \ fin)' \cup (Stepped \ (fin \cup retracted))'
        PROVE  kv'[r] # 0
    <3>1. r \notin ends /\ r \in (Batched \ fin) \cup (Stepped \ (fin \cup retracted))
      BY <1>1, <1>5, <2>2 DEF Stepped
    <3> QED BY <1>1, <1>4, <2>2, <3>1 DEF KvOK
  <2> QED BY <1>1, <1>4, <2>1, <2>2 DEF KvOK
<1>8. kv' \in [Requests -> Nat]
  BY <1>1, <1>4 DEF BatchTypeOK
<1>9. told' \in [Requests -> Seq({"result", "error"})]
  BY <1>1, <1>4 DEF BatchTypeOK
<1>10. ToldOK'
  <2>1. ASSUME NEW r \in Requests
        PROVE  /\ \A i \in 2..Len(told'[r]) : told'[r][i] # "result"
               /\ told'[r] # <<>> => r \in fin' \cup aborted'
    <3>1. CASE r \in ends \ aborted
      <4>1. r \notin fin \cup aborted
        BY <1>3, <3>1 DEF Live
      <4>2. told[r] = <<>>
        BY <1>4, <4>1 DEF ToldOK
      <4>3. told'[r] = Append(<<>>, answer)
        BY <1>1, <3>1, <4>2
      <4>4. Len(told'[r]) = 1
        BY <4>3
      <4> QED BY <1>1, <3>1, <4>4
    <3>2. CASE r \notin ends \ aborted
      BY <1>1, <1>4, <3>2 DEF ToldOK, NoLateResult
    <3> QED BY <3>1, <3>2
  <2> QED BY <2>1 DEF ToldOK, NoLateResult
<1> QED BY <1>6, <1>7, <1>8, <1>9, <1>10

\* Errors are sent for requests that are aborted with them
\* (_handle_batch_failure).
LEMMA ErrorsKeep ==
  ASSUME OmniInv, NEW rs, aborted' = aborted \cup rs, fin' = fin,
         told' = [r \in Requests |-> IF r \in rs THEN Append(told[r], "error") ELSE told[r]]
  PROVE  ToldOK' /\ told' \in [Requests -> Seq({"result", "error"})]
<1>1. BatchTypeOK /\ ToldOK
  BY DEF OmniInv
<1>2. ASSUME NEW r \in Requests
      PROVE  /\ told'[r] \in Seq({"result", "error"})
             /\ \A i \in 2..Len(told'[r]) : told'[r][i] # "result"
             /\ told'[r] # <<>> => r \in fin' \cup aborted'
  <2>1. told[r] \in Seq({"result", "error"}) /\ \A i \in 2..Len(told[r]) : told[r][i] # "result"
    BY <1>1 DEF BatchTypeOK, ToldOK, NoLateResult
  <2>2. CASE r \in rs
    BY <2>1, <2>2
  <2>3. CASE r \notin rs
    BY <1>1, <2>1, <2>3 DEF ToldOK
  <2> QED BY <2>2, <2>3
<1> QED BY <1>2 DEF ToldOK, NoLateResult

LEMMA SilenceKeeps ==
  ASSUME OmniInv, UNCHANGED <<told, fin>>, aborted \subseteq aborted'
  PROVE  ToldOK'
BY DEF OmniInv, ToldOK, NoLateResult
-----------------------------------------------------------------------------
(* Steps that fail or are resolved.                                        *)

\* all of the invariant that does not depend on the point of the loop
RequestsOK == BatchTypeOK /\ PlaceOK /\ KvOK /\ ToldOK

\* what resolving leaves of the batches
Resolved ==
  /\ fresh = <<>> => fresh' = <<>>
  /\ pend'.rows = <<>> => Range(pend'.reqs) = {}
  /\ UNCHANGED <<cur, last>>

LEMMA NoStepFacts ==
  NoStep \in Step /\ Range(NoStep.reqs) = {} /\ NoStep.rows = <<>>
<1>1. NoStep \in Step /\ NoStep.reqs = <<>> /\ NoStep.rows = <<>>
  BY DEF NoStep, Step
<1>2. NoStep.reqs \in Seq(Requests)
  BY <1>1
<1> QED BY <1>1, <1>2, EmptyRange

LEMMA FailureKeeps ==
  ASSUME OmniInv, NEW rs, NEW step \in {pend, NoStep}, HandleBatchFailure(rs, step),
         UNCHANGED <<admitted, torn, version>>, prev' \in Step, Range(prev'.reqs) = {}
  PROVE  RequestsOK' /\ Resolved
<1>1. BatchTypeOK /\ LoopOK
  BY DEF OmniInv
<1>2. step \in Step /\ Range(step.reqs) \subseteq Range(pend.reqs)
      /\ (step.rows = <<>> => Range(step.reqs) = {})
  BY <1>1, NoStepFacts DEF BatchTypeOK, LoopOK
<1>3. /\ AbortNow(rs, step) /\ UNCHANGED <<cur, last, fin, retracted, doubleFreed>>
      /\ told' = [r \in Requests |-> IF r \in rs THEN Append(told[r], "error") ELSE told[r]]
  BY DEF HandleBatchFailure, ghostVars
<1>4. PlaceOK' /\ KvOK'
  BY <1>2, <1>3, AbortKeeps
<1>5. aborted' = aborted \cup rs /\ waiting' = waiting \ rs /\ inbox' = inbox \ rs
  BY <1>3 DEF AbortNow
<1>6. ToldOK' /\ told' \in [Requests -> Seq({"result", "error"})]
  BY <1>3, <1>5, ErrorsKeep
<1>7. /\ running' \in Seq(Requests) /\ fresh' \in Seq(Requests) /\ pend' \in Step
      /\ kv' \in [Requests -> Nat] /\ (fresh = <<>> => fresh' = <<>>)
      /\ Range(pend'.reqs) = Range(step.reqs) \ rs /\ pend'.rows = step.rows
  BY <1>1, <1>2, <1>3, AbortEffect
<1>8. BatchTypeOK'
  BY <1>1, <1>5, <1>6, <1>7 DEF BatchTypeOK
<1> QED BY <1>2, <1>3, <1>4, <1>6, <1>7, <1>8 DEF RequestsOK, Resolved

LEMMA LiveRequests ==
  ASSUME NEW step \in Step, NEW p \in Range(LivePairs(step))
  PROVE  p[1] \in Range(step.reqs) \ (fin \cup retracted)
<1> DEFINE n == Len(step.reqs)
           pair(i) == <<step.reqs[i], step.rows[i]>>
           all == {pair(i) : i \in 1..n}
           s == [i \in 1..n |-> pair(i)]
           keep == {i \in 1..n : step.reqs[i] \notin fin \cup retracted}
<1>1. step.reqs \in Seq(Requests) /\ DOMAIN step.reqs = 1..n /\ n \in Nat
  BY DEF Step
<1>2. s \in Seq(all) /\ Len(s) = n
  <2>1. s \in [1..n -> all]
    OBVIOUS
  <2>2. s \in Seq(all)
    BY <1>1, <2>1, SeqDef
  <2> QED BY <1>1, <2>2
<1>3. LivePairs(step) = AtPositions(s, keep)
  BY <1>1 DEF LivePairs
<1>4. keep \in SUBSET (1..Len(s))
  BY <1>2
<1>5. Range(LivePairs(step)) = {s[i] : i \in keep}
  <2> HIDE DEF s, keep, all
  <2> QED BY <1>2, <1>3, <1>4, PickedElements
<1>6. PICK i \in keep : p = s[i]
  BY <1>5
<1>7. p[1] = step.reqs[i] /\ i \in DOMAIN step.reqs
  BY <1>1, <1>6
<1> QED BY <1>6, <1>7 DEF Range

\* _resolve_and_process of the step in flight or of the one before it
LEMMA ResolveKeeps ==
  ASSUME OmniInv, NEW step \in {pend, prev}, Resolve(step),
         UNCHANGED <<admitted, torn, version>>,
         pend' \in {pend, NoStep}, prev' \in {prev, NoStep}
  PROVE  RequestsOK' /\ Resolved
<1>1. BatchTypeOK /\ LoopOK
  BY DEF OmniInv
<1>2. step \in Step /\ Range(step.reqs) \subseteq Stepped
  BY <1>1 DEF BatchTypeOK, Stepped
<1>3. PICK ending \in SUBSET Requests, answer \in {"result", "error"} :
        Process(LivePairs(step), ending, answer)
  BY DEF Resolve
<1>4. UNCHANGED <<inbox, waiting, running, fresh, cur, last, retracted, aborted>>
  BY DEF Resolve
<1>5. Range(step.reqs) \subseteq Requests
  BY <1>2, RangeType DEF Step
<1>6. \A p \in Range(LivePairs(step)) : p[1] \in Requests \cap Live
  BY <1>2, <1>5, LiveRequests DEF Live
<1>7. /\ pend' \in Step /\ Range(pend'.reqs) \subseteq Range(pend.reqs)
      /\ prev' \in Step /\ Range(prev'.reqs) \subseteq Range(prev.reqs)
      /\ (pend'.rows = <<>> => Range(pend'.reqs) = {})
  BY <1>1, NoStepFacts DEF BatchTypeOK, LoopOK
<1>8. /\ PlaceOK' /\ KvOK' /\ ToldOK'
      /\ kv' \in [Requests -> Nat] /\ told' \in [Requests -> Seq({"result", "error"})]
  BY <1>3, <1>4, <1>6, <1>7, ProcessKeeps
<1>9. BatchTypeOK'
  BY <1>1, <1>4, <1>7, <1>8 DEF BatchTypeOK
<1> QED BY <1>4, <1>7, <1>8, <1>9 DEF RequestsOK, Resolved

\* _resolve_pending_async
LEMMA PendingKeeps ==
  ASSUME OmniInv, ResolvePending, UNCHANGED <<admitted, torn, version, prev>>, pc # "resolve"
  PROVE  RequestsOK' /\ Resolved
<1>1. BatchTypeOK /\ LoopOK
  BY DEF OmniInv
<1>2. CASE UNCHANGED <<inbox, batchVars, reqVars, aborted, cleaned, told, ghostVars>>
  BY <1>1, <1>2 DEF batchVars, reqVars, ghostVars, RequestsOK, Resolved, OmniInv, LoopOK, BatchTypeOK,
                    PlaceOK, KvOK, ToldOK, NoLateResult, Batched, Stepped
<1>3. CASE Resolve(pend) /\ pend' = NoStep
  BY <1>3, ResolveKeeps
<1>4. CASE HandleBatchFailure(Range(pend.reqs), NoStep)
  <2>1. prev' \in Step /\ Range(prev'.reqs) = {}
    BY <1>1 DEF BatchTypeOK, LoopOK
  <2> QED BY <1>4, <2>1, FailureKeeps
<1> QED BY <1>2, <1>3, <1>4 DEF ResolvePending
-----------------------------------------------------------------------------
(* The steps of the loop.                                                  *)

LEMMA FrameKeeps ==
  ASSUME OmniInv, UNCHANGED <<inbox, admitted, waiting, running, fresh, pend, prev, kv, version,
                              told, fin, retracted, aborted, torn, doubleFreed>>
  PROVE  RequestsOK'
BY DEF RequestsOK, OmniInv, BatchTypeOK, PlaceOK, KvOK, ToldOK, NoLateResult, Batched, Stepped

LEMMA ReceiveKeeps ==
  ASSUME OmniInv, ReceiveRequests
  PROVE  OmniInv'
<1>1. /\ pc = "top" /\ pc' \in {"paused", "select"}
      /\ waiting' = waiting \cup (inbox \ aborted) /\ inbox' = {}
      /\ admitted' = admitted \cup (inbox \ aborted)
      /\ UNCHANGED <<running, fresh, cur, last, pend, prev, kv, version, told, fin, retracted,
                     aborted, torn, doubleFreed>>
  BY DEF ReceiveRequests, reqVars, abortVars, adminVars, ghostVars
<1>2. BatchTypeOK /\ PlaceOK /\ KvOK /\ LoopOK
  BY DEF OmniInv
<1>3. BatchTypeOK'
  BY <1>1, <1>2 DEF BatchTypeOK
<1>4. Batched' = Batched /\ Stepped' = Stepped
  BY <1>1 DEF Batched, Stepped
<1>5. PlaceOK'
  BY <1>1, <1>2, <1>4 DEF PlaceOK, BatchTypeOK
<1>6. KvOK'
  BY <1>1, <1>2, <1>4 DEF KvOK
<1>7. LoopOK'
  BY <1>1, <1>2 DEF LoopOK
<1>8. ToldOK'
  BY <1>1, SilenceKeeps
<1> QED BY <1>3, <1>5, <1>6, <1>7, <1>8 DEF OmniInv

\* The prefill batch joins the running batch.
LEMMA JoinedRange ==
  ASSUME OmniInv, pc = "select"
  PROVE  /\ Joined \in Seq(Requests)
         /\ Range(running) \subseteq Range(Joined) /\ Range(Joined) \subseteq Batched
         /\ Batched \ fin \subseteq Range(Joined)
<1>1. running \in Seq(Requests) /\ fresh \in Seq(Requests) /\ LoopOK
  BY DEF OmniInv, BatchTypeOK
<1>2. CASE last = "fresh"
  <2>1. Without(fresh, fin) \in Seq(Requests) /\ Range(Without(fresh, fin)) = Range(fresh) \ fin
    BY <1>1, WithoutRange
  <2>2. Joined = running \o Without(fresh, fin)
    BY <1>2 DEF Joined
  <2> QED BY <1>1, <2>1, <2>2, ConcatRange DEF Batched
<1>3. CASE last # "fresh"
  <2>1. Joined = running /\ fresh = <<>>
    BY <1>1, <1>3 DEF Joined, LoopOK
  <2>2. Range(fresh) = {}
    BY <1>1, <2>1, EmptyRange
  <2> QED BY <1>1, <2>1, <2>2 DEF Batched
<1> QED BY <1>2, <1>3

LEMMA PrefillKeeps ==
  ASSUME OmniInv, NEW rs \in SUBSET Requests, SelectPrefill(rs)
  PROVE  OmniInv'
<1>1. /\ pc = "select" /\ pc' = "dispatch" /\ cur' = "fresh" /\ rs \subseteq waiting
      /\ waiting' = waiting \ rs /\ running' = Joined /\ fresh' = SetToSeq(rs)
      /\ kv' = [r \in Requests |-> IF r \in rs THEN version ELSE kv[r]]
      /\ retracted' = retracted \ rs
      /\ UNCHANGED <<inbox, admitted, pend, prev, version, told, fin, aborted, torn, doubleFreed>>
  BY DEF SelectPrefill, abortVars, adminVars, countVars, ghostVars
<1>2. BatchTypeOK /\ PlaceOK /\ KvOK /\ LoopOK
  BY DEF OmniInv
<1>3. /\ running' \in Seq(Requests) /\ Range(running') \subseteq Batched
      /\ Batched \ fin \subseteq Range(running')
  BY <1>1, JoinedRange
<1>4. fresh' \in Seq(Requests) /\ Range(fresh') = rs
  BY <1>1, PrefillRange
<1>5. BatchTypeOK'
  BY <1>1, <1>2, <1>3, <1>4 DEF BatchTypeOK
<1>6. Stepped' = Stepped /\ Batched' = Range(running') \cup rs
  BY <1>1, <1>4 DEF Stepped, Batched
<1>7. \A r \in Requests : kv'[r] = IF r \in rs THEN version ELSE kv[r]
  BY <1>1
<1>8. PlaceOK'
  BY <1>1, <1>2, <1>3, <1>4, <1>6, <1>7 DEF PlaceOK
<1>9. KvOK'
  BY <1>1, <1>2, <1>3, <1>6, <1>7 DEF KvOK, BatchTypeOK
<1>10. LoopOK'
  BY <1>1, <1>2 DEF LoopOK
<1>11. ToldOK'
  BY <1>1, SilenceKeeps
<1> QED BY <1>5, <1>8, <1>9, <1>10, <1>11 DEF OmniInv

LEMMA DecodeKeeps ==
  ASSUME OmniInv, NEW victims \in SUBSET Requests, SelectDecode(victims)
  PROVE  OmniInv'
<1> DEFINE ready == Without(Joined, fin)
<1>1. /\ pc = "select" /\ pc' = "dispatch" /\ victims \subseteq Range(ready)
      /\ waiting' = waiting \cup victims /\ running' = Without(ready, victims) /\ fresh' = <<>>
      /\ kv' = [r \in Requests |-> IF r \in victims THEN 0 ELSE kv[r]]
      /\ retracted' = retracted \cup victims
      /\ UNCHANGED <<inbox, admitted, pend, prev, version, told, fin, aborted, torn, doubleFreed>>
  BY DEF SelectDecode, abortVars, adminVars, ghostVars
<1>2. BatchTypeOK /\ PlaceOK /\ KvOK /\ LoopOK
  BY DEF OmniInv
<1>3. ready \in Seq(Requests) /\ Range(ready) = Range(Joined) \ fin
  BY <1>1, JoinedRange, WithoutRange
<1>4. Range(ready) = Batched \ fin
  BY <1>1, <1>3, JoinedRange
<1> HIDE DEF ready
<1>5. running' \in Seq(Requests) /\ Range(running') = (Batched \ fin) \ victims
  BY <1>1, <1>3, <1>4, WithoutRange
<1>6. fresh' \in Seq(Requests) /\ Range(fresh') = {}
  <2>1. fresh' \in Seq(Requests)
    BY <1>1
  <2> QED BY <1>1, <2>1, EmptyRange
<1>7. BatchTypeOK'
  BY <1>1, <1>2, <1>5, <1>6 DEF BatchTypeOK
<1>8. Stepped' = Stepped /\ Batched' = (Batched \ fin) \ victims
  BY <1>1, <1>5, <1>6 DEF Stepped, Batched
<1>9. \A r \in Requests : kv'[r] = IF r \in victims THEN 0 ELSE kv[r]
  BY <1>1
<1>10. PlaceOK'
  BY <1>1, <1>2, <1>4, <1>6, <1>8, <1>9 DEF PlaceOK
<1>11. KvOK'
  BY <1>1, <1>2, <1>8, <1>9 DEF KvOK
<1>12. LoopOK'
  BY <1>1, <1>2 DEF LoopOK
<1>13. ToldOK'
  BY <1>1, SilenceKeeps
<1> QED BY <1>7, <1>10, <1>11, <1>12, <1>13 DEF OmniInv

LEMMA LaunchKeeps ==
  ASSUME OmniInv, LaunchStep
  PROVE  OmniInv'
<1>1. /\ pc = "dispatch" /\ cur = "running" /\ running # <<>>
      /\ prev' = pend /\ pend' = [reqs |-> running, rows |-> running]
      /\ pc' = IF InFlight(pend) THEN "resolve" ELSE "end"
      /\ UNCHANGED <<inbox, admitted, waiting, running, fresh, cur, last, kv, version, told, fin,
                     retracted, aborted, torn, doubleFreed>>
  BY MinBatchAssumption DEF LaunchStep, reqVars, abortVars, adminVars, countVars, ghostVars
<1>2. BatchTypeOK /\ PlaceOK /\ KvOK /\ LoopOK
  BY DEF OmniInv
<1>3. pend' \in Step /\ pend'.reqs = running /\ pend'.rows = running
  BY <1>1, <1>2 DEF BatchTypeOK, Step
<1>4. BatchTypeOK'
  BY <1>1, <1>2, <1>3 DEF BatchTypeOK
<1>5. Batched' = Batched /\ Stepped' \subseteq Stepped \cup Batched
  BY <1>1, <1>3 DEF Batched, Stepped
<1>6. PlaceOK'
  BY <1>1, <1>2, <1>5 DEF PlaceOK
<1>7. KvOK'
  BY <1>1, <1>2, <1>5 DEF KvOK
<1>8. LoopOK'
  BY <1>1, <1>2, <1>3 DEF LoopOK, InFlight
<1>9. ToldOK'
  BY <1>1, SilenceKeeps
<1> QED BY <1>4, <1>6, <1>7, <1>8, <1>9 DEF OmniInv

\* Points of the loop at which the prefill batch is the last one, and those at
\* which it is the current one.
Before == {"top", "paused", "select", "pausing", "updating"}
After == {"dispatch", "drained", "resolve", "end"}

\* A step in which batches are only resolved keeps the loop in order.
LEMMA ResolvedLoop ==
  ASSUME OmniInv, Resolved, Range(prev'.reqs) = {},
         \/ pc \in Before /\ pc' \in Before
         \/ pc \in After \cup {"running"} /\ pc' \in After \ {"resolve"}
  PROVE  LoopOK'
BY DEF OmniInv, LoopOK, Resolved, Before, After

LEMMA PendingLoop ==
  ASSUME OmniInv, ResolvePending, UNCHANGED <<admitted, torn, version, prev>>, pc # "resolve",
         \/ pc \in Before /\ pc' \in Before
         \/ pc \in After /\ pc' \in After \ {"resolve"}
  PROVE  OmniInv'
<1>1. RequestsOK' /\ Resolved
  BY PendingKeeps
<1>2. Range(prev'.reqs) = {}
  BY DEF OmniInv, LoopOK
<1>3. LoopOK'
  BY <1>1, <1>2, ResolvedLoop
<1> QED BY <1>1, <1>3 DEF OmniInv, RequestsOK

LEMMA RaisesKeeps ==
  ASSUME OmniInv, LaunchRaises
  PROVE  OmniInv'
<1>1. /\ pc = "dispatch" /\ pc' = "end" /\ HandleBatchFailure(Range(running), pend)
      /\ UNCHANGED <<prev, admitted, torn, version>>
  BY DEF LaunchRaises, abortVars, adminVars, countVars
<1>2. prev' \in Step /\ Range(prev'.reqs) = {}
  BY <1>1 DEF OmniInv, BatchTypeOK, LoopOK
<1>3. RequestsOK' /\ Resolved
  BY <1>1, <1>2, FailureKeeps
<1>4. LoopOK'
  BY <1>1, <1>2, <1>3, ResolvedLoop DEF Before, After
<1> QED BY <1>3, <1>4 DEF OmniInv, RequestsOK

LEMMA PreviousKeeps ==
  ASSUME OmniInv, ResolvePrevious
  PROVE  OmniInv'
<1>1. /\ pc = "resolve" /\ pc' = "end" /\ prev' = NoStep
      /\ UNCHANGED <<admitted, torn, version>>
      /\ (Resolve(prev) /\ UNCHANGED pend) \/ HandleBatchFailure(Range(prev.reqs), pend)
  BY DEF ResolvePrevious, abortVars, adminVars, countVars
<1>2. prev' \in Step /\ Range(prev'.reqs) = {}
  BY <1>1, NoStepFacts
<1>3. RequestsOK' /\ Resolved
  BY <1>1, <1>2, FailureKeeps, ResolveKeeps
<1>4. LoopOK'
  BY <1>1, <1>2, <1>3, ResolvedLoop DEF Before, After
<1> QED BY <1>3, <1>4 DEF OmniInv, RequestsOK

\* _drop_stale_overrun
LEMMA RunKeeps ==
  ASSUME OmniInv, RunBatch
  PROVE  OmniInv'
<1>1. /\ pc = "drained"
      /\ running' = (IF cur = "running" THEN NotStale("running") ELSE running)
      /\ fresh' = (IF cur = "fresh" THEN NotStale("fresh") ELSE fresh)
      /\ IF NotStale(cur) = <<>> THEN cur' = "none" /\ pc' = "end" ELSE cur' = cur /\ pc' = "running"
      /\ UNCHANGED <<inbox, admitted, waiting, last, pend, prev, kv, version, told, fin,
                     retracted, aborted, torn, doubleFreed>>
  BY DEF RunBatch, reqVars, abortVars, adminVars, countVars, ghostVars
<1>2. BatchTypeOK /\ PlaceOK /\ KvOK /\ LoopOK
  BY DEF OmniInv
<1>3. /\ NotStale("running") \in Seq(Requests)
      /\ Range(NotStale("running")) = Range(running) \ (fin \cup retracted)
      /\ NotStale("fresh") \in Seq(Requests)
      /\ Range(NotStale("fresh")) = Range(fresh) \ (fin \cup retracted)
      /\ fresh = <<>> => NotStale("fresh") = <<>>
  BY <1>2, WithoutRange DEF BatchTypeOK, NotStale, Batch
<1>4. BatchTypeOK'
  BY <1>1, <1>2, <1>3 DEF BatchTypeOK
<1>5. /\ Range(running') \subseteq Range(running) /\ Range(fresh') \subseteq Range(fresh)
      /\ Range(running) \ (fin \cup retracted) \subseteq Range(running')
      /\ Range(fresh) \ (fin \cup retracted) \subseteq Range(fresh')
      /\ fresh = <<>> => fresh' = <<>>
  BY <1>1, <1>3
<1>6. Stepped' = Stepped /\ Batched' \subseteq Batched /\ Batched \ fin \subseteq Batched'
  BY <1>1, <1>2, <1>5 DEF Stepped, Batched, PlaceOK
<1>7. PlaceOK'
  BY <1>1, <1>2, <1>5, <1>6 DEF PlaceOK
<1>8. KvOK'
  BY <1>1, <1>2, <1>6 DEF KvOK
<1>9. LoopOK'
  <2>1. fresh' # <<>> => fresh # <<>> /\ cur = "fresh"
    BY <1>1, <1>2, <1>5 DEF LoopOK
  <2>2. fresh' # <<>> => cur' = "fresh"
    BY <1>1, <2>1
  <2>3. pc' = "running" => Range(Batch(cur))' \cap fin' = {}
    <3> SUFFICES ASSUME pc' = "running" PROVE Range(Batch(cur)') \cap fin = {}
      BY <1>1
    <3>1. cur' = cur
      BY <1>1
    <3>2. CASE cur = "running"
      BY <1>1, <1>3, <3>1, <3>2 DEF Batch
    <3>3. CASE cur = "fresh"
      BY <1>1, <1>3, <3>1, <3>3 DEF Batch
    <3>4. CASE cur \notin {"running", "fresh"}
      <4>1. Batch(cur)' = <<>>
        BY <3>1, <3>4 DEF Batch
      <4>2. <<>> \in Seq(Requests)
        OBVIOUS
      <4> QED BY <4>1, <4>2, EmptyRange
    <3> QED BY <3>2, <3>3, <3>4
  <2>4. pc' \in {"end", "running"}
    BY <1>1
  <2> QED BY <1>1, <1>2, <2>2, <2>3, <2>4 DEF LoopOK
<1>10. ToldOK'
  BY <1>1, SilenceKeeps
<1> QED BY <1>4, <1>7, <1>8, <1>9, <1>10 DEF OmniInv

LEMMA RunEndsKeeps ==
  ASSUME OmniInv, RunEnds
  PROVE  OmniInv'
<1> DEFINE b == Batch(cur)
           pairs == [i \in 1..Len(b) |-> <<b[i], stepRows[i]>>]
<1>1. pc = "running" /\ pc' = "end" /\ UNCHANGED <<prev, admitted, torn, version>>
  BY DEF RunEnds, abortVars, adminVars, countVars
<1>2. BatchTypeOK /\ LoopOK
  BY DEF OmniInv
<1>3. prev' \in Step /\ Range(prev'.reqs) = {}
  BY <1>1, <1>2 DEF BatchTypeOK, LoopOK
<1>4. CASE HandleBatchFailure(Range(b), pend)
  <2>1. RequestsOK' /\ Resolved
    BY <1>1, <1>3, <1>4, FailureKeeps
  <2>2. LoopOK'
    BY <1>1, <1>3, <2>1, ResolvedLoop DEF Before, After
  <2> QED BY <2>1, <2>2 DEF OmniInv, RequestsOK
<1>5. ASSUME NEW ending \in SUBSET Requests, NEW answer \in {"result", "error"},
             Process(pairs, ending, answer),
             UNCHANGED <<inbox, batchVars, toFinish, retracted, aborted>>
      PROVE  OmniInv'
  <2>1. UNCHANGED <<inbox, waiting, running, fresh, cur, last, pend, retracted, aborted>>
    BY <1>5 DEF batchVars
  <2>2. b \in Seq(Requests) /\ Range(b) \subseteq Batched
    <3>1. <<>> \in Seq(Requests)
      OBVIOUS
    <3>2. Range(<<>>) = {}
      BY <3>1, EmptyRange
    <3>3. b \in {running, fresh, <<>>}
      BY DEF Batch
    <3> HIDE DEF b
    <3> QED BY <1>2, <3>1, <3>2, <3>3 DEF BatchTypeOK, Batched
  <2>3. Range(b) \cap fin = {} /\ Range(b) \subseteq Requests
    BY <1>1, <1>2, <2>2, RangeType DEF LoopOK
  <2>4. \A p \in Range(pairs) : p[1] \in Requests \cap Live
    <3> SUFFICES ASSUME NEW i \in 1..Len(b) PROVE pairs[i][1] \in Requests \cap Live
      BY DEF Range
    <3>1. pairs[i][1] = b[i] /\ b[i] \in Range(b)
      BY <2>2 DEF Range
    <3> QED BY <2>2, <2>3, <3>1 DEF Live
  <2> HIDE DEF pairs
  <2>5. /\ PlaceOK' /\ KvOK' /\ ToldOK'
        /\ kv' \in [Requests -> Nat] /\ told' \in [Requests -> Seq({"result", "error"})]
    BY <1>1, <1>5, <2>1, <2>4, ProcessKeeps
  <2>6. BatchTypeOK'
    BY <1>1, <1>2, <2>1, <2>5 DEF BatchTypeOK
  <2>7. LoopOK'
    BY <1>1, <1>2, <2>1 DEF LoopOK
  <2> QED BY <2>5, <2>6, <2>7 DEF OmniInv
<1> QED BY <1>4, <1>5 DEF RunEnds

LEMMA IterationKeeps ==
  ASSUME OmniInv, IterationEnds
  PROVE  OmniInv'
<1>1. /\ pc = "end" /\ pc' = "top" /\ last' = cur
      /\ UNCHANGED <<inbox, admitted, waiting, running, fresh, pend, prev, kv, version, told, fin,
                     retracted, aborted, torn, doubleFreed>>
  BY DEF IterationEnds, reqVars, abortVars, adminVars, countVars, ghostVars
<1>2. RequestsOK'
  BY <1>1, FrameKeeps
<1>3. LoopOK'
  BY <1>1 DEF OmniInv, LoopOK
<1> QED BY <1>2, <1>3 DEF OmniInv, RequestsOK
-----------------------------------------------------------------------------
(* abort() on the event loop's thread.                                     *)

LEMMA NewRequestKeeps ==
  ASSUME OmniInv, NEW r \in Requests, NewRequest(r)
  PROVE  OmniInv'
<1>1. /\ r \notin admitted /\ inbox' = inbox \cup {r}
      /\ UNCHANGED <<admitted, waiting, running, fresh, cur, last, pend, prev, pc, kv, version,
                     told, fin, retracted, aborted, torn, doubleFreed>>
  BY DEF NewRequest, batchVars, reqVars, abortVars, adminVars, countVars, ghostVars
<1>2. Batched' = Batched /\ Stepped' = Stepped /\ Batch(cur)' = Batch(cur)
  BY <1>1 DEF Batched, Stepped, Batch
<1>3. BatchTypeOK'
  BY <1>1 DEF OmniInv, BatchTypeOK
<1>4. PlaceOK' /\ KvOK' /\ LoopOK'
  BY <1>1, <1>2 DEF OmniInv, PlaceOK, KvOK, LoopOK
<1>5. ToldOK'
  BY <1>1, SilenceKeeps
<1> QED BY <1>3, <1>4, <1>5 DEF OmniInv

\* Steps that change nothing the invariant speaks of.
LEMMA StillKeeps ==
  ASSUME OmniInv, UNCHANGED <<inbox, admitted, waiting, running, fresh, cur, last, pend, prev, pc,
                              kv, version, told, fin, retracted, aborted, torn, doubleFreed>>
  PROVE  OmniInv'
<1>1. RequestsOK'
  BY FrameKeeps
<1>2. LoopOK'
  BY DEF OmniInv, LoopOK, Batch
<1> QED BY <1>1, <1>2 DEF OmniInv, RequestsOK

LEMMA LockedKeeps ==
  ASSUME OmniInv, AbortLocked
  PROVE  OmniInv'
<1>1. /\ aborted' = aborted \cup {abortOf} /\ waiting' = waiting \ {abortOf}
      /\ UNCHANGED <<inbox, admitted, running, fresh, cur, last, pend, prev, pc, kv, version,
                     told, fin, retracted, torn, doubleFreed>>
  BY DEF AbortLocked, reqVars, adminVars, countVars, ghostVars
<1>2. Batched' = Batched /\ Stepped' = Stepped /\ Batch(cur)' = Batch(cur)
  BY <1>1 DEF Batched, Stepped, Batch
<1>3. BatchTypeOK'
  BY <1>1 DEF OmniInv, BatchTypeOK
<1>4. PlaceOK' /\ KvOK' /\ LoopOK'
  BY <1>1, <1>2 DEF OmniInv, PlaceOK, KvOK, LoopOK
<1>5. ToldOK'
  BY <1>1, SilenceKeeps
<1> QED BY <1>3, <1>4, <1>5 DEF OmniInv

\* Requests leave the batches and the step in flight, in whichever state the
\* loop is.
LEMMA AbortNowLoop ==
  ASSUME OmniInv, NEW rs, AbortNow(rs, pend), UNCHANGED <<cur, last, prev, fin>>,
         \/ pc' = pc
         \/ pc \in Before /\ pc' \in Before
  PROVE  LoopOK'
<1>1. BatchTypeOK /\ LoopOK /\ pend \in Step
  BY DEF OmniInv, BatchTypeOK
<1>2. /\ running' \in Seq(Requests) /\ Range(running') = Range(running) \ rs
      /\ Range(fresh') = Range(fresh) \ rs /\ (fresh = <<>> => fresh' = <<>>)
      /\ Range(pend'.reqs) = Range(pend.reqs) \ rs /\ pend'.rows = pend.rows
  BY <1>1, AbortEffect
<1>3. Range(Batch(cur)') \subseteq Range(Batch(cur))
  <2>1. CASE cur = "running"
    BY <1>2, <2>1 DEF Batch
  <2>2. CASE cur = "fresh"
    BY <1>2, <2>2 DEF Batch
  <2>3. CASE cur \notin {"running", "fresh"}
    BY <2>3 DEF Batch
  <2> QED BY <2>1, <2>2, <2>3
<1>4. Range(Batch(cur))' = Range(Batch(cur)')
  OBVIOUS
<1> QED BY <1>1, <1>2, <1>3 DEF LoopOK, Before

LEMMA CleanupKeeps ==
  ASSUME OmniInv, AbortCleansUp
  PROVE  OmniInv'
<1>1. UNCHANGED <<admitted, prev, pc, version, told, fin, retracted, doubleFreed>>
  BY DEF AbortCleansUp, adminVars, countVars, ghostVars
<1>2. BatchTypeOK /\ PlaceOK /\ KvOK /\ LoopOK
  BY DEF OmniInv
<1>3. CASE deferred
  <2>1. /\ inbox' = inbox \ {abortOf}
        /\ UNCHANGED <<waiting, running, fresh, cur, last, pend, kv, aborted, torn>>
    BY <1>3 DEF AbortCleansUp, batchVars
  <2>2. Batched' = Batched /\ Stepped' = Stepped /\ Batch(cur)' = Batch(cur)
    BY <1>1, <2>1 DEF Batched, Stepped, Batch
  <2>3. BatchTypeOK'
    BY <1>1, <1>2, <2>1 DEF BatchTypeOK
  <2>4. PlaceOK' /\ KvOK' /\ LoopOK'
    BY <1>1, <1>2, <2>1, <2>2 DEF PlaceOK, KvOK, LoopOK
  <2>5. ToldOK'
    BY <1>1, <2>1, SilenceKeeps
  <2> QED BY <2>3, <2>4, <2>5 DEF OmniInv
<1>4. CASE ~deferred
  <2>1. /\ AbortNow({abortOf}, pend) /\ UNCHANGED <<cur, last>>
        /\ torn' = torn \cup ({abortOf} \cap (InBatches \ fin))
    BY <1>4 DEF AbortCleansUp
  <2>2. /\ pend \in Step
        /\ {abortOf} \cap (InBatches \ fin) \subseteq torn'
        /\ torn \subseteq torn' /\ torn' \subseteq torn \cup {abortOf}
    BY <1>2, <2>1 DEF BatchTypeOK
  <2>3. PlaceOK' /\ KvOK'
    BY <1>1, <2>1, <2>2, AbortKeeps
  <2>4. LoopOK'
    BY <1>1, <2>1, AbortNowLoop
  <2>5. /\ aborted' = aborted \cup {abortOf} /\ waiting' = waiting \ {abortOf}
        /\ inbox' = inbox \ {abortOf}
    BY <2>1 DEF AbortNow
  <2>6. BatchTypeOK'
    <3>1. /\ running' \in Seq(Requests) /\ fresh' \in Seq(Requests) /\ pend' \in Step
          /\ kv' \in [Requests -> Nat]
      BY <1>2, <2>1, <2>2, AbortEffect
    <3> QED BY <1>1, <1>2, <2>5, <3>1 DEF BatchTypeOK
  <2>7. ToldOK'
    BY <1>1, <2>5, SilenceKeeps
  <2> QED BY <2>3, <2>4, <2>6, <2>7 DEF OmniInv
<1> QED BY <1>3, <1>4
-----------------------------------------------------------------------------
(* Administration.                                                         *)

\* A pause or an update aborts every active request.
LEMMA SweepKeeps ==
  ASSUME OmniInv, NEW rs, AbortNow(rs, pend), pc \in Before, pc' = "top",
         version' \in Nat \ {0},
         UNCHANGED <<admitted, cur, last, prev, told, fin, retracted, torn, doubleFreed>>
  PROVE  OmniInv'
<1>1. BatchTypeOK /\ pend \in Step /\ Range(prev'.reqs) = {}
  BY DEF OmniInv, BatchTypeOK, LoopOK, Before
<1>2. PlaceOK' /\ KvOK'
  BY <1>1, AbortKeeps
<1>3. LoopOK'
  BY AbortNowLoop DEF Before
<1>4. aborted' = aborted \cup rs /\ waiting' = waiting \ rs /\ inbox' = inbox \ rs
  BY DEF AbortNow
<1>5. BatchTypeOK'
  <2>1. /\ running' \in Seq(Requests) /\ fresh' \in Seq(Requests) /\ pend' \in Step
        /\ kv' \in [Requests -> Nat]
    BY <1>1, AbortEffect
  <2> QED BY <1>1, <1>4, <2>1 DEF BatchTypeOK
<1>6. ToldOK'
  BY <1>4, SilenceKeeps
<1> QED BY <1>2, <1>3, <1>5, <1>6 DEF OmniInv

LEMMA RetractKeeps ==
  ASSUME OmniInv, RetractRunning, pc \in Before, pc' = "top",
         UNCHANGED <<admitted, cur, last, prev, told, fin, version, torn, doubleFreed>>
  PROVE  OmniInv'
<1> DEFINE rs == Range(running) \ fin
<1>1. /\ retracted' = retracted \cup rs /\ waiting' = waiting \cup rs /\ running' = <<>>
      /\ kv' = [r \in Requests |-> IF r \in rs THEN 0 ELSE kv[r]]
      /\ UNCHANGED <<inbox, fresh, pend, aborted>>
  BY DEF RetractRunning
<1>2. BatchTypeOK /\ PlaceOK /\ KvOK /\ LoopOK
  BY DEF OmniInv
<1>3. running' \in Seq(Requests) /\ Range(running') = {}
  <2>1. running' \in Seq(Requests)
    BY <1>1
  <2> QED BY <1>1, <2>1, EmptyRange
<1>4. BatchTypeOK'
  <2>1. rs \subseteq Requests
    BY <1>2, RangeType DEF BatchTypeOK
  <2> QED BY <1>1, <1>2, <1>3, <2>1 DEF BatchTypeOK
<1>5. Stepped' = Stepped /\ Batched' = Range(fresh)
  BY <1>1, <1>3 DEF Stepped, Batched
<1>6. \A r \in Requests : kv'[r] = IF r \in rs THEN 0 ELSE kv[r]
  BY <1>1
<1>7. PlaceOK'
  BY <1>1, <1>2, <1>3, <1>5, <1>6 DEF PlaceOK, Batched
<1>8. KvOK'
  BY <1>1, <1>2, <1>5, <1>6 DEF KvOK, PlaceOK, Batched
<1>9. LoopOK'
  BY <1>1, <1>2 DEF LoopOK, Before
<1>10. ToldOK'
  BY <1>1, SilenceKeeps
<1> QED BY <1>4, <1>7, <1>8, <1>9, <1>10 DEF OmniInv

LEMMA PauseEndsKeeps ==
  ASSUME OmniInv, PauseEnds
  PROVE  OmniInv'
<1>1. /\ pc = "pausing" /\ pc' = "top"
      /\ UNCHANGED <<admitted, cur, last, prev, told, fin, version, torn, doubleFreed>>
  BY DEF PauseEnds, abortVars, countVars, ghostVars
<1>2. version' \in Nat \ {0}
  BY <1>1 DEF OmniInv, BatchTypeOK
<1>3. CASE AbortNow(Active, pend) /\ UNCHANGED retracted
  BY <1>1, <1>2, <1>3, SweepKeeps DEF Before
<1>4. CASE RetractRunning
  BY <1>1, <1>4, RetractKeeps DEF Before
<1>5. CASE UNCHANGED <<inbox, waiting, running, fresh, pend, kv, retracted, aborted, cleaned, swept>>
  <2>1. RequestsOK'
    BY <1>1, <1>5, FrameKeeps
  <2>2. LoopOK'
    BY <1>1, <1>5 DEF OmniInv, LoopOK
  <2> QED BY <2>1, <2>2 DEF OmniInv, RequestsOK
<1> QED BY <1>3, <1>4, <1>5 DEF PauseEnds

LEMMA UpdateEndsKeeps ==
  ASSUME OmniInv, NEW abortAll \in BOOLEAN, NEW keepPause \in BOOLEAN, NEW ok \in BOOLEAN,
         UpdateEnds(abortAll, keepPause, ok)
  PROVE  OmniInv'
<1>1. /\ pc = "updating" /\ pc' = "top"
      /\ UNCHANGED <<admitted, cur, last, prev, told, fin, retracted, torn, doubleFreed>>
  BY DEF UpdateEnds, abortVars, countVars, ghostVars
<1>2. version' \in Nat \ {0}
  <2>1. version \in Nat \ {0} /\ version' \in {version, version + 1}
    BY DEF OmniInv, BatchTypeOK, UpdateEnds
  <2> QED BY <2>1
<1>3. CASE abortAll
  <2>1. AbortNow(Active, pend)
    BY <1>3 DEF UpdateEnds
  <2> QED BY <1>1, <1>2, <2>1, SweepKeeps DEF Before
<1>4. CASE ~abortAll
  <2>1. UNCHANGED <<inbox, waiting, running, fresh, pend, kv, aborted>>
    BY <1>4 DEF UpdateEnds
  <2>2. BatchTypeOK'
    BY <1>1, <1>2, <2>1 DEF OmniInv, BatchTypeOK
  <2>3. PlaceOK' /\ KvOK'
    BY <1>1, <2>1 DEF OmniInv, PlaceOK, KvOK, Batched, Stepped
  <2>4. LoopOK'
    BY <1>1, <2>1 DEF OmniInv, LoopOK
  <2>5. ToldOK'
    BY <1>1, <2>1, SilenceKeeps
  <2> QED BY <2>2, <2>3, <2>4, <2>5 DEF OmniInv
<1> QED BY <1>3, <1>4
-----------------------------------------------------------------------------
(* The theorems.                                                           *)

LEMMA OmniInit == Init => OmniInv
<1> SUFFICES ASSUME Init PROVE OmniInv
  OBVIOUS
<1>1. running \in Seq(Requests) /\ fresh \in Seq(Requests)
  BY DEF Init
<1>2. Range(running) = {} /\ Range(fresh) = {}
  BY <1>1, EmptyRange DEF Init
<1>3. pend \in Step /\ prev \in Step /\ Range(pend.reqs) = {} /\ Range(prev.reqs) = {}
  BY NoStepFacts DEF Init
<1>4. BatchTypeOK
  BY <1>1, <1>3 DEF Init, BatchTypeOK
<1>5. LoopOK
  BY <1>3 DEF Init, LoopOK
<1>6. PlaceOK /\ KvOK
  BY <1>2, <1>3 DEF Init, PlaceOK, KvOK, Batched, Stepped
<1>7. ToldOK
  <2>1. \A r \in Requests : told[r] = <<>> /\ Len(told[r]) = 0
    BY DEF Init
  <2> QED BY <2>1 DEF ToldOK, NoLateResult
<1> QED BY <1>4, <1>5, <1>6, <1>7 DEF OmniInv

LEMMA OmniStep == OmniInv /\ [Next]_vars => OmniInv'
<1> SUFFICES ASSUME OmniInv, [Next]_vars PROVE OmniInv'
  OBVIOUS
<1>1. CASE LoopStep
  <2>1. CASE ReceiveRequests
    BY <2>1, ReceiveKeeps
  <2>2. CASE PausedIteration
    <3>1. /\ ResolvePending /\ pc = "paused" /\ pc' = "top"
          /\ UNCHANGED <<admitted, torn, version, prev>>
      BY <2>2 DEF PausedIteration, abortVars, adminVars, countVars
    <3> QED BY <3>1, PendingLoop DEF Before
  <2>3. ASSUME NEW rs \in SUBSET Requests, SelectPrefill(rs) \/ SelectDecode(rs)
        PROVE  OmniInv'
    BY <2>3, PrefillKeeps, DecodeKeeps
  <2>4. CASE LaunchStep
    BY <2>4, LaunchKeeps
  <2>5. CASE LaunchRaises
    BY <2>5, RaisesKeeps
  <2>6. CASE ResolvePrevious
    BY <2>6, PreviousKeeps
  <2>7. CASE DrainPending
    <3>1. /\ ResolvePending /\ pc = "dispatch" /\ pc' = "drained"
          /\ UNCHANGED <<admitted, torn, version, prev>>
      BY <2>7 DEF DrainPending, abortVars, adminVars, countVars
    <3> QED BY <3>1, PendingLoop DEF After
  <2>8. CASE RunBatch
    BY <2>8, RunKeeps
  <2>9. CASE RunEnds
    BY <2>9, RunEndsKeeps
  <2>10. CASE IterationEnds
    BY <2>10, IterationKeeps
  <2>11. CASE PauseEnds
    BY <2>11, PauseEndsKeeps
  <2>12. ASSUME NEW abortAll \in BOOLEAN, NEW keepPause \in BOOLEAN, NEW ok \in BOOLEAN,
                UpdateEnds(abortAll, keepPause, ok)
         PROVE  OmniInv'
    BY <2>12, UpdateEndsKeeps
  <2> QED
    BY <1>1, <2>1, <2>2, <2>3, <2>4, <2>5, <2>6, <2>7, <2>8, <2>9, <2>10, <2>11, <2>12
       DEF LoopStep
<1>2. ASSUME NEW mode, PauseBegins(mode)
      PROVE  OmniInv'
  <2>1. /\ ResolvePending /\ pc = "top" /\ pc' = "pausing"
        /\ UNCHANGED <<admitted, torn, version, prev>>
    BY <1>2 DEF PauseBegins, abortVars, countVars
  <2> QED BY <2>1, PendingLoop DEF Before
<1>3. CASE ContinueGeneration
  BY <1>3, StillKeeps DEF ContinueGeneration, batchVars, reqVars, abortVars, countVars, ghostVars
<1>4. CASE UpdateBegins
  <2>1. /\ ResolvePending /\ pc = "top" /\ pc' = "updating"
        /\ UNCHANGED <<admitted, torn, version, prev>>
    BY <1>4 DEF UpdateBegins, abortVars, countVars
  <2> QED BY <2>1, PendingLoop DEF Before
<1>5. ASSUME NEW r \in Requests, NewRequest(r)
      PROVE  OmniInv'
  BY <1>5, NewRequestKeeps
<1>6. ASSUME NEW r \in Requests, AbortMarks(r)
      PROVE  OmniInv'
  BY <1>6, StillKeeps DEF AbortMarks, batchVars, adminVars, countVars, ghostVars
<1>7. CASE AbortLocked
  BY <1>7, LockedKeeps
<1>8. CASE AbortCleansUp
  BY <1>8, CleanupKeeps
<1>9. CASE UNCHANGED vars
  BY <1>9, StillKeeps DEF vars, batchVars, reqVars, abortVars, adminVars, ghostVars
<1> QED BY <1>1, <1>2, <1>3, <1>4, <1>5, <1>6, <1>7, <1>8, <1>9 DEF Next

\* The invariant holds in every state of the scheduler.
THEOREM OmniInvariance == Spec => []OmniInv
BY OmniInit, OmniStep, PTL DEF Spec

\* No request's KV is released twice by the scheduler's paths (finishing,
\* failing, retracting, aborting, sweeping), with any number of requests, any
\* MinBatch and any interleaving with abort(); the only exceptions are the
\* requests that abort() tore out of a batch.
THEOREM KvIsReleasedOnce == Spec => []KvReleasedOnce
<1>1. OmniInv => KvReleasedOnce
  BY DEF OmniInv, KvOK, KvReleasedOnce
<1> QED BY <1>1, OmniInvariance, PTL

\* A request without an outcome is in exactly one of waiting_queue, running
\* batch and prefill batch, and holds KV exactly when it is in a batch.
THEOREM RequestsStayPlaced == Spec => []PlacedOnce
<1>1. OmniInv => PlacedOnce
  <2> SUFFICES ASSUME OmniInv, NEW r \in Requests, r \in admitted \ (fin \cup aborted)
               PROVE  /\ r \in waiting \cup Range(running) \cup Range(fresh)
                      /\ r \in waiting => r \notin Range(running) \cup Range(fresh)
                      /\ r \in Range(running) => r \notin Range(fresh)
                      /\ kv[r] = 0 <=> r \in waiting
    BY DEF PlacedOnce
  <2>1. PlaceOK /\ KvOK
    BY DEF OmniInv
  <2>2. /\ r \in waiting \cup Batched
        /\ r \in waiting => r \notin Batched
        /\ r \in Range(running) => r \notin Range(fresh)
    BY <2>1 DEF PlaceOK
  <2>3. r \in waiting => kv[r] = 0
    BY <2>1 DEF PlaceOK
  <2>4. r \in Batched => kv[r] # 0
    BY <2>1 DEF KvOK
  <2> QED BY <2>2, <2>3, <2>4 DEF Batched
<1> QED BY <1>1, OmniInvariance, PTL

\* stream_output sends no result for a request that was answered before, even
\* though a finished request stays in the step in flight.
THEOREM NoResultAfterAnswer == Spec => []NoLateResult
<1>1. OmniInv => NoLateResult
  BY DEF OmniInv, ToldOK
<1> QED BY <1>1, OmniInvariance, PTL
=============================================================================
