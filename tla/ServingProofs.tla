---------------------------- MODULE ServingProofs ----------------------------
(***************************************************************************)
(* The two kinds of session of the API server, for any frames and bounds:  *)
(* speech requests and their owners (SpeechServing), and the realtime      *)
(* session (RealtimeSession).                                              *)
(*                                                                         *)
(* Both say that something accumulated over all frames received is right:  *)
(* the sentences spoken so far are those the frames complete, and what the *)
(* voice activity detector and the buffer make of an append is an          *)
(* utterance with no speech before it.  The models compute these with      *)
(* folds, so the first part gives the folds their meaning, step by step.   *)
(***************************************************************************)
EXTENDS SpeechServing, RealtimeSession, SequenceTheorems, FiniteSetTheorems,
        WellFoundedInduction, TLAPS

(***************************************************************************)
(* Induction and recursion, for what the models compute by recursive       *)
(* functions and folds.  The theorems of the library take the statement as *)
(* an operator; here it is a set, and the step of a recursion a function.  *)
(***************************************************************************)

\* A set that holds zero and with each number the next holds all of them.
LEMMA SetInduction ==
  ASSUME NEW S, 0 \in S, \A n \in Nat : n \in S => n + 1 \in S
  PROVE  \A n \in Nat : n \in S
<1> DEFINE R == {ss \in Nat \X Nat : ss[1] < ss[2]}
           T == Nat \ S
<1>1. IsWellFoundedOn(R, Nat)
  BY NatLessThanWellFounded DEF OpToRel
<1>2. \A m, n \in Nat : <<m, n>> \in R <=> m < n
  OBVIOUS
<1> HIDE DEF R
<1>3. SUFFICES ASSUME T # {} PROVE FALSE
  OBVIOUS
<1>4. PICK x \in T : \A y \in T : ~(<<y, x>> \in R)
  <2>1. T \subseteq Nat
    OBVIOUS
  <2> HIDE DEF T
  <2> QED BY <1>1, <1>3, <2>1, WFMin
<1>5. x \in Nat /\ x # 0 /\ x - 1 \in Nat /\ x - 1 < x
  OBVIOUS
<1>6. x - 1 \in S
  BY <1>2, <1>4, <1>5
<1> QED BY <1>5, <1>6

\* f is a computation of m steps: it starts with base, and step i makes
\* F[<<v, i>>] of v.
Computes(f, m, S, base, F) ==
  /\ f \in [0..m -> S] /\ f[0] = base
  /\ \A i \in 1..m : f[i] = F[<<f[i - 1], i>>]

\* A computation goes on as long as its step is defined.
LEMMA ComputesNext ==
  ASSUME NEW S, NEW base \in S, NEW n \in Nat, NEW F \in [S \X (1..n) -> S],
         NEW m \in Nat, m + 1 <= n, NEW f, Computes(f, m, S, base, F)
  PROVE  \E g : Computes(g, m + 1, S, base, F)
<1> DEFINE g == [i \in 0..(m + 1) |-> IF i <= m THEN f[i] ELSE F[<<f[m], m + 1>>]]
<1>1. f[m] \in S /\ F[<<f[m], m + 1>>] \in S /\ f \in [0..m -> S]
  BY DEF Computes
<1>2. g \in [0..(m + 1) -> S] /\ g[0] = base
  BY <1>1 DEF Computes
<1>3. ASSUME NEW i \in 1..(m + 1) PROVE g[i] = F[<<g[i - 1], i>>]
  <2>1. CASE i <= m
    <3>1. g[i] = f[i] /\ g[i - 1] = f[i - 1]
      BY <2>1
    <3> HIDE DEF g
    <3> QED BY <2>1, <3>1 DEF Computes
  <2>2. CASE i = m + 1
    <3>1. g[i] = F[<<f[m], m + 1>>] /\ g[i - 1] = f[m]
      BY <2>2
    <3> HIDE DEF g
    <3> QED BY <2>2, <3>1
  <2> QED BY <2>1, <2>2
<1> HIDE DEF g
<1> QED BY <1>2, <1>3 DEF Computes

LEMMA ComputationExists ==
  ASSUME NEW S, NEW base \in S, NEW n \in Nat, NEW F \in [S \X (1..n) -> S]
  PROVE  \E f : Computes(f, n, S, base, F)
<1> DEFINE T == {m \in Nat : m <= n => \E f : Computes(f, m, S, base, F)}
<1>1. 0 \in T
  <2>1. Computes([i \in 0..0 |-> base], 0, S, base, F)
    BY DEF Computes
  <2> QED BY <2>1
<1>2. \A m \in Nat : m \in T => m + 1 \in T
  BY ComputesNext
<1> HIDE DEF T
<1>3. n \in T
  BY <1>1, <1>2, SetInduction
<1> QED BY <1>3 DEF T

\* Two computations with the same first m steps agree after them.
LEMMA ComputesSame ==
  ASSUME NEW S, NEW base, NEW m \in Nat, NEW n \in Nat, m <= n, NEW F, NEW G, NEW f, NEW g,
         Computes(f, m, S, base, F), Computes(g, n, S, base, G),
         \A v \in S, i \in 1..m : F[<<v, i>>] = G[<<v, i>>]
  PROVE  f[m] = g[m]
<1> DEFINE T == {i \in Nat : i <= m => f[i] = g[i]}
<1>1. 0 \in T
  BY DEF Computes
<1>2. ASSUME NEW i \in Nat, i \in T PROVE i + 1 \in T
  <2> SUFFICES ASSUME i + 1 <= m PROVE f[i + 1] = g[i + 1]
    OBVIOUS
  <2>1. i \in 0..m /\ i + 1 \in 1..m /\ i + 1 \in 1..n /\ (i + 1) - 1 = i
    OBVIOUS
  <2>2. f[i] = g[i] /\ f[i] \in S
    BY <1>2, <2>1 DEF Computes
  <2>3. f[i + 1] = F[<<f[i], i + 1>>] /\ g[i + 1] = G[<<g[i], i + 1>>]
    BY <2>1 DEF Computes
  <2> QED BY <2>1, <2>2, <2>3
<1> HIDE DEF T
<1>3. m \in T
  BY <1>1, <1>2, SetInduction
<1> QED BY <1>3 DEF T
-----------------------------------------------------------------------------
\* FlattenSeq is the last value of the computation that appends.
LEMMA FlattenComputes ==
  ASSUME NEW A, NEW s \in Seq(Seq(A))
  PROVE  \E f : /\ Computes(f, Len(s), Seq(A), <<>>, [p \in Seq(A) \X (1..Len(s)) |-> p[1] \o s[p[2]]])
                /\ FlattenSeq(s) = f[Len(s)]
<1> DEFINE F == [p \in Seq(A) \X (1..Len(s)) |-> p[1] \o s[p[2]]]
           G == CHOOSE f : f = [i \in 1..Len(s) |-> IF i = 1 THEN s[i] ELSE f[i-1] \o s[i]]
<1>1. F \in [Seq(A) \X (1..Len(s)) -> Seq(A)]
  <2> SUFFICES ASSUME NEW p \in Seq(A) \X (1..Len(s)) PROVE p[1] \o s[p[2]] \in Seq(A)
    OBVIOUS
  <2>1. p[1] \in Seq(A) /\ s[p[2]] \in Seq(A)
    OBVIOUS
  <2> QED BY <2>1
<1>2. <<>> \in Seq(A) /\ Len(s) \in Nat
  OBVIOUS
<1>3. \A v \in Seq(A), i \in 1..Len(s) : F[<<v, i>>] = v \o s[i]
  OBVIOUS
<1> HIDE DEF F
<1>4. PICK f : Computes(f, Len(s), Seq(A), <<>>, F)
  BY <1>1, <1>2, ComputationExists
<1>5. CASE s = <<>>
  BY <1>4, <1>5 DEF FlattenSeq, Computes, F
<1>6. CASE s # <<>>
  <2> DEFINE g == [i \in 1..Len(s) |-> f[i]]
  <2>1. ASSUME NEW i \in 1..Len(s) PROVE g[i] = IF i = 1 THEN s[i] ELSE g[i-1] \o s[i]
    <3>1. i - 1 \in 0..Len(s) /\ (i # 1 => i - 1 \in 1..Len(s)) /\ (i = 1 => i - 1 = 0)
      BY <1>2
    <3>2. f[i] = F[<<f[i - 1], i>>] /\ f[i - 1] \in Seq(A) /\ f[0] = <<>>
      BY <1>4, <3>1 DEF Computes
    <3>3. f[i] = f[i - 1] \o s[i]
      BY <1>3, <3>2
    <3>4. s[i] \in Seq(A)
      OBVIOUS
    <3>5. <<>> \o s[i] = s[i]
      BY <3>4
    <3> QED BY <3>1, <3>2, <3>3, <3>5
  <2>2. g = [i \in 1..Len(s) |-> IF i = 1 THEN s[i] ELSE g[i-1] \o s[i]]
    BY <2>1
  <2> HIDE DEF g
  <2>3. G = [i \in 1..Len(s) |-> IF i = 1 THEN s[i] ELSE G[i-1] \o s[i]]
    BY <2>2
  <2>4. FlattenSeq(s) = G[Len(s)] /\ Len(s) \in 1..Len(s) /\ Len(s) # 0
    BY <1>6 DEF FlattenSeq
  <2> HIDE DEF G
  <2> DEFINE h == [i \in 0..Len(s) |-> IF i = 0 THEN <<>> ELSE G[i]]
             T == {i \in Nat : i <= Len(s) => h[i] = f[i]}
  <2>5. h[0] = <<>> /\ \A i \in 1..Len(s) : h[i] = G[i] /\ h[i] = (IF i = 1 THEN s[i] ELSE h[i - 1] \o s[i])
    <3>1. 0 \in 0..Len(s) /\ \A i \in 1..Len(s) : i \in 0..Len(s) /\ i # 0 /\ i - 1 \in 0..Len(s)
                                                /\ (i # 1 => i - 1 # 0)
      BY <1>2
    <3>2. h[0] = <<>> /\ \A i \in 0..Len(s) : i # 0 => h[i] = G[i]
      BY <3>1
    <3> HIDE DEF h
    <3>3. \A i \in 1..Len(s) : G[i] = IF i = 1 THEN s[i] ELSE G[i-1] \o s[i]
      BY <2>3
    <3> QED BY <3>1, <3>2, <3>3
  <2> HIDE DEF h
  <2>6. 0 \in T
    BY <1>4, <2>5 DEF Computes
  <2>7. ASSUME NEW i \in Nat, i \in T PROVE i + 1 \in T
    <3> SUFFICES ASSUME i + 1 <= Len(s) PROVE h[i + 1] = f[i + 1]
      OBVIOUS
    <3>1. /\ i \in 0..Len(s) /\ i + 1 \in 1..Len(s) /\ (i + 1) - 1 = i /\ h[i] = f[i]
          /\ (i + 1 = 1 <=> i = 0)
      BY <1>2, <2>7
    <3>2. f[i + 1] = F[<<f[i], i + 1>>] /\ f[i] \in Seq(A)
      BY <1>4, <3>1 DEF Computes
    <3>3. f[i + 1] = f[i] \o s[i + 1] /\ s[i + 1] \in Seq(A)
      <4>1. F[<<f[i], i + 1>>] = f[i] \o s[i + 1]
        BY <1>3, <3>1, <3>2
      <4>2. s[i + 1] \in Seq(A)
        BY <3>1
      <4> QED BY <3>2, <4>1, <4>2
    <3>4. i = 0 => f[i] \o s[i + 1] = s[i + 1]
      <4>1. <<>> \o s[i + 1] = s[i + 1]
        BY <3>3
      <4> QED BY <2>5, <3>1, <4>1
    <3>5. h[i + 1] = IF i = 0 THEN s[i + 1] ELSE h[i] \o s[i + 1]
      BY <2>5, <3>1
    <3> QED BY <3>1, <3>3, <3>4, <3>5
  <2> HIDE DEF T
  <2>8. Len(s) \in T
    BY <1>2, <2>6, <2>7, SetInduction
  <2>9. h[Len(s)] = f[Len(s)]
    BY <1>2, <2>8 DEF T
  <2> QED BY <1>4, <2>4, <2>5, <2>9 DEF F
<1> QED BY <1>5, <1>6
-----------------------------------------------------------------------------
\* A fold as FoldLeft is defined: over the sets of positions of a sequence,
\* the last one first.
Folds(g, m, S, base, F) ==
  /\ g \in [SUBSET (1..m) -> S] /\ g[{}] = base
  /\ \A s \in SUBSET (1..m) :
       s # {} => Max(s) \in 1..m /\ g[s] = F[<<g[s \ {Max(s)}], Max(s)>>]

LEMMA LastIsMax ==
  ASSUME NEW m \in Nat, NEW s \in SUBSET (1..m), m \in s
  PROVE  Max(s) = m
<1>1. \A x \in s : x \in Nat /\ x <= m
  OBVIOUS
<1>2. \E x \in s : \A y \in s : x >= y
  BY <1>1
<1>3. Max(s) \in s /\ \A y \in s : Max(s) >= y
  BY <1>2 DEF Max
<1>4. Max(s) \in Nat /\ Max(s) <= m /\ Max(s) >= m
  BY <1>1, <1>3
<1> QED BY <1>4

LEMMA FoldStep ==
  ASSUME NEW S, NEW base \in S, NEW n \in Nat, NEW F \in [S \X (1..n) -> S],
         NEW m \in Nat, m + 1 <= n, NEW f, Folds(f, m, S, base, F)
  PROVE  \E g : Folds(g, m + 1, S, base, F)
<1> DEFINE g == [s \in SUBSET (1..(m + 1)) |->
                   IF m + 1 \in s THEN F[<<f[s \ {m + 1}], m + 1>>] ELSE f[s]]
<1>1. \A s \in SUBSET (1..(m + 1)) : /\ s \ {m + 1} \in SUBSET (1..m)
                                     /\ m + 1 \notin s => s \in SUBSET (1..m)
  OBVIOUS
<1>2. \A s \in SUBSET (1..m) : f[s] \in S
  BY DEF Folds
<1>3. g \in [SUBSET (1..(m + 1)) -> S]
  BY <1>1, <1>2
<1>4. g[{}] = base
  BY DEF Folds
<1>5. ASSUME NEW s \in SUBSET (1..(m + 1)), s # {}
      PROVE  Max(s) \in 1..(m + 1) /\ g[s] = F[<<g[s \ {Max(s)}], Max(s)>>]
  <2>1. CASE m + 1 \in s
    <3>1. Max(s) = m + 1
      BY <2>1, LastIsMax
    <3>2. g[s] = F[<<f[s \ {m + 1}], m + 1>>]
      BY <2>1
    <3>3. g[s \ {m + 1}] = f[s \ {m + 1}] /\ m + 1 \in 1..(m + 1)
      BY <1>1
    <3> HIDE DEF g
    <3> QED BY <3>1, <3>2, <3>3
  <2>2. CASE m + 1 \notin s
    <3>1. s \in SUBSET (1..m) /\ s \ {Max(s)} \in SUBSET (1..m) /\ m + 1 \notin s \ {Max(s)}
      BY <1>1, <2>2
    <3>2. g[s] = f[s] /\ g[s \ {Max(s)}] = f[s \ {Max(s)}]
      BY <2>2, <3>1
    <3> HIDE DEF g
    <3>3. Max(s) \in 1..m /\ f[s] = F[<<f[s \ {Max(s)}], Max(s)>>]
      BY <1>5, <3>1 DEF Folds
    <3> QED BY <3>2, <3>3
  <2> QED BY <2>1, <2>2
<1> HIDE DEF g
<1> QED BY <1>3, <1>4, <1>5 DEF Folds

LEMMA FoldExists ==
  ASSUME NEW S, NEW base \in S, NEW n \in Nat, NEW F \in [S \X (1..n) -> S]
  PROVE  \E g : Folds(g, n, S, base, F)
<1> DEFINE T == {m \in Nat : m <= n => \E g : Folds(g, m, S, base, F)}
<1>1. 0 \in T
  <2> DEFINE g == [s \in SUBSET (1..0) |-> base]
  <2>1. \A s \in SUBSET (1..0) : s = {}
    OBVIOUS
  <2>2. g \in [SUBSET (1..0) -> S] /\ g[{}] = base
    BY <2>1
  <2> HIDE DEF g
  <2>3. Folds(g, 0, S, base, F)
    BY <2>1, <2>2 DEF Folds
  <2> QED BY <2>3
<1>2. \A m \in Nat : m \in T => m + 1 \in T
  BY FoldStep
<1> HIDE DEF T
<1>3. n \in T
  BY <1>1, <1>2, SetInduction
<1> QED BY <1>3 DEF T

\* The prefixes of a sequence, as sets of positions.
LEMMA PrefixPositions ==
  ASSUME NEW n \in Nat
  PROVE  /\ 1..0 = {} /\ {} \in SUBSET (1..n)
         /\ \A i \in 1..n : /\ 1..i \in SUBSET (1..n) /\ 1..i # {} /\ Max(1..i) = i
                            /\ (1..i) \ {Max(1..i)} = 1..(i - 1)
<1>1. ASSUME NEW i \in 1..n
      PROVE  /\ 1..i \in SUBSET (1..n) /\ 1..i # {} /\ Max(1..i) = i
             /\ (1..i) \ {Max(1..i)} = 1..(i - 1)
  <2>1. 1..i \in SUBSET (1..i) /\ i \in 1..i /\ (1..i) \ {i} = 1..(i - 1) /\ i \in Nat
    OBVIOUS
  <2>2. Max(1..i) = i
    BY <2>1, LastIsMax
  <2> QED BY <2>1, <2>2
<1>2. 1..0 = {}
  OBVIOUS
<1> QED BY <1>1, <1>2

\* Flattening a list that has one more sequence appends that sequence.
LEMMA FlattenLast ==
  ASSUME NEW A, NEW s \in Seq(Seq(A)), NEW t \in Seq(Seq(A)), Len(s) = Len(t) + 1,
         \A i \in 1..Len(t) : t[i] = s[i]
  PROVE  FlattenSeq(t) \in Seq(A) /\ FlattenSeq(s) = FlattenSeq(t) \o s[Len(s)]
<1> DEFINE F == [p \in Seq(A) \X (1..Len(s)) |-> p[1] \o s[p[2]]]
           G == [p \in Seq(A) \X (1..Len(t)) |-> p[1] \o t[p[2]]]
<1>1. /\ Len(t) \in Nat /\ Len(s) \in Nat /\ Len(t) <= Len(s) /\ Len(t) \in 0..Len(t)
      /\ Len(s) \in 1..Len(s) /\ Len(s) - 1 = Len(t)
  OBVIOUS
<1>2. /\ \A v \in Seq(A), i \in 1..Len(t) : G[<<v, i>>] = F[<<v, i>>]
      /\ \A v \in Seq(A), i \in 1..Len(s) : F[<<v, i>>] = v \o s[i]
  <2>1. \A i \in 1..Len(t) : i \in 1..Len(s)
    BY <1>1
  <2>2. /\ \A v \in Seq(A), i \in 1..Len(t) : G[<<v, i>>] = v \o t[i]
        /\ \A v \in Seq(A), i \in 1..Len(s) : F[<<v, i>>] = v \o s[i]
    OBVIOUS
  <2> HIDE DEF F, G
  <2>3. ASSUME NEW v \in Seq(A), NEW i \in 1..Len(t) PROVE G[<<v, i>>] = F[<<v, i>>]
    <3>1. i \in 1..Len(s) /\ t[i] = s[i]
      BY <2>1
    <3> QED BY <2>2, <3>1
  <2> QED BY <2>2, <2>3
<1>3. PICK f : Computes(f, Len(s), Seq(A), <<>>, F) /\ FlattenSeq(s) = f[Len(s)]
  BY FlattenComputes
<1>4. PICK g : Computes(g, Len(t), Seq(A), <<>>, G) /\ FlattenSeq(t) = g[Len(t)]
  BY FlattenComputes
<1> HIDE DEF F, G
<1>5. g[Len(t)] = f[Len(t)]
  BY <1>1, <1>2, <1>3, <1>4, ComputesSame
<1>6. g[Len(t)] \in Seq(A) /\ f[Len(s)] = F[<<f[Len(t)], Len(s)>>]
  BY <1>1, <1>3, <1>4 DEF Computes
<1>7. F[<<f[Len(t)], Len(s)>>] = f[Len(t)] \o s[Len(s)]
  BY <1>1, <1>2, <1>5, <1>6
<1> QED BY <1>3, <1>4, <1>5, <1>6, <1>7
-----------------------------------------------------------------------------
(***************************************************************************)
(* Speech requests (SpeechServing).                                        *)
(***************************************************************************)

EngineStates == {"running", "finished", "failed", "aborted"}

\* the request that an owner answers for is the only one that may run
EngineOK ==
  /\ engine \in Seq(EngineStates) /\ active \in 0..Len(engine)
  /\ kind # "ws" => Len(engine) <= 1
  /\ pc \in {"config", "idle", "ended"} => active = 0
  /\ \A i \in 1..Len(engine) : engine[i] = "running" => i = active \/ unstarted

\* abort() of the owner's request: none runs on that he answers for.
LEMMA AbortStops ==
  ASSUME EngineOK
  PROVE  /\ AbortActive \in Seq(EngineStates) /\ Len(AbortActive) = Len(engine)
         /\ \A i \in 1..Len(engine) : AbortActive[i] = "running" => unstarted
<1>1. CASE active = 0
  BY <1>1 DEF EngineOK, AbortActive
<1>2. CASE active # 0
  <2>1. active \in 1..Len(engine) /\ Len(engine) \in Nat
    BY <1>2 DEF EngineOK
  <2>2. AbortActive = [engine EXCEPT ![active] = IF engine[active] = "running" THEN "aborted" ELSE engine[active]]
    BY <1>2 DEF AbortActive, Aborted
  <2>3. (IF engine[active] = "running" THEN "aborted" ELSE engine[active]) \in EngineStates
    BY <2>1 DEF EngineOK, EngineStates
  <2>4. AbortActive \in Seq(EngineStates) /\ Len(AbortActive) = Len(engine)
    BY <2>1, <2>2, <2>3 DEF EngineOK
  <2>5. ASSUME NEW i \in 1..Len(engine), AbortActive[i] = "running" PROVE unstarted
    <3>1. i # active /\ engine[i] = "running"
      BY <2>1, <2>2, <2>5 DEF EngineOK
    <3> QED BY <3>1 DEF EngineOK
  <2> QED BY <2>4, <2>5
<1> QED BY <1>1, <1>2

\* An owner that aborts and answers for nothing any more.
LEMMA AbortLeaves ==
  ASSUME EngineOK, engine' = AbortActive, active' = 0, UNCHANGED <<kind, unstarted>>
  PROVE  EngineOK'
<1>1. /\ engine' \in Seq(EngineStates) /\ Len(engine') = Len(engine)
      /\ \A i \in 1..Len(engine') : engine'[i] = "running" => unstarted'
  BY AbortStops
<1>2. active' \in 0..Len(engine')
  BY <1>1
<1> QED BY <1>1, <1>2 DEF EngineOK

LEMMA EngineStep ==
  ASSUME EngineOK, [Next]_vars
  PROVE  EngineOK'
<1>1. CASE UNCHANGED <<kind, engine, active, unstarted>> /\ pc' \notin {"config", "idle", "ended"}
  BY <1>1 DEF EngineOK
<1>2. CASE UNCHANGED <<kind, pc, engine, active, unstarted>>
  BY <1>2 DEF EngineOK
<1>3. CASE UNCHANGED <<kind, engine, active, unstarted>> /\ pc \in {"config", "idle"}
  BY <1>3 DEF EngineOK
<1>4. CASE engine' = AbortActive /\ active' = 0 /\ UNCHANGED <<kind, unstarted>>
  BY <1>4, AbortLeaves
<1>5. CASE StartSentence
  <2>1. active = 0 /\ engine' = Append(engine, "running") /\ active' = Len(engine) + 1
    BY <1>5 DEF StartSentence, EngineOK
  <2>2. engine \in Seq(EngineStates) /\ "running" \in EngineStates
    BY DEF EngineOK, EngineStates
  <2>3. /\ engine' \in Seq(EngineStates) /\ Len(engine') = Len(engine) + 1
        /\ \A i \in 1..Len(engine) : engine'[i] = engine[i]
    BY <2>1, <2>2
  <2>4. \A i \in 1..Len(engine') : i = active' \/ i \in 1..Len(engine)
    BY <2>1, <2>2, <2>3
  <2>5. active' \in 0..Len(engine')
    BY <2>1, <2>2, <2>3
  <2> QED BY <1>5, <2>1, <2>3, <2>4, <2>5 DEF StartSentence, EngineOK
<1>6. CASE StartRequest
  BY <1>6 DEF StartRequest, EngineOK, EngineStates
<1>7. CASE Respond
  <2>1. \A i \in 1..Len(engine) : i = 1
    BY <1>7 DEF Respond, EngineOK
  <2> QED BY <1>7, <2>1 DEF Respond, EngineOK
<1>8. CASE BodyNeverStarts
  BY <1>8 DEF BodyNeverStarts, EngineOK
<1>9. ASSUME NEW i \in 1..Len(engine), NEW how \in {"finished", "failed"}, EngineEnds(i, how)
      PROVE  EngineOK'
  BY <1>9 DEF EngineEnds, EngineOK, EngineStates
<1>10. CASE Teardown
  BY <1>4, <1>10 DEF Teardown
<1> QED BY <1>1, <1>2, <1>3, <1>4, <1>5, <1>6, <1>7, <1>8, <1>9
     DEF Next, vars, Owner, Interrupted, ReceiveConfig, ReceiveFrame, SendDone, Teardown, FirstChunk,
         SentenceEnds, BodyEnds, SentenceInterrupted, RequestInterrupted, SessionInterrupted, Watch,
         PollDisconnect, ReceiveTimesOut, ClientLeaves, ClientSends

\* Aborts by the owners (AbortActive in _generate_sentence, teardown and the
\* HTTP handlers): whatever the engine, the client and failures do, and for
\* any number of frames, the requests left running have an owner.
THEOREM NothingAbandoned == Spec => []NoAbandonedRequest
<1>1. Init => EngineOK
  BY DEF Init, EngineOK, EngineStates
<1>2. EngineOK => NoAbandonedRequest
  BY DEF EngineOK, NoAbandonedRequest
<1> QED BY <1>1, <1>2, EngineStep, PTL DEF Spec
-----------------------------------------------------------------------------
\* frames that the session has taken in hand
Taken == Len(sent) - Len(buffered) - Len(socket)

\* those put aside and those on the socket follow by number
LineOK ==
  /\ Taken \in Nat
  /\ \A j \in 1..Len(buffered) : buffered[j] = Taken + j
  /\ \A j \in 1..Len(socket) : socket[j] = Taken + Len(buffered) + j

\* the session reads on: the watcher has not raised
Reading == pc \in {"config", "idle", "generate"} /\ watch # "raised"

\* all that the frames in hand complete has been spoken or is about to be
ReadOK ==
  /\ LineOK
  /\ spoken \o todo = Spoken(Taken)
  /\ ~closing => (rest <=> Unfinished(Taken + 1))
  /\ closing => Taken > 0 /\ Frame(Taken).t = "done"
  /\ ~doneSent

SpeechOK ==
  kind = "ws" =>
    /\ \A k \in 0..Len(sent) : IsPrefix(Spoken(k), Spoken(Len(sent)))
    /\ pc # "body" /\ (pc # "generate" => watch = "off")
    /\ pc = "config" => todo = <<>> /\ ~closing
    /\ Reading => ReadOK
    /\ SpokenInOrder


\* Prefixes, position by position.
LEMMA PrefixFacts ==
  ASSUME NEW A, NEW s \in Seq(A), NEW t \in Seq(A)
  PROVE  IsPrefix(s, t) <=> Len(s) <= Len(t) /\ \A i \in 1..Len(s) : s[i] = t[i]
<1>1. CASE Len(s) <= Len(t)
  <2>1. /\ SubSeq(s, 1, Len(s)) = [i \in 1..Len(s) |-> s[i]]
        /\ SubSeq(t, 1, Len(s)) = [i \in 1..Len(s) |-> t[i]]
    BY <1>1
  <2> QED BY <1>1, <2>1 DEF IsPrefix
<1>2. CASE ~(Len(s) <= Len(t))
  BY <1>2 DEF IsPrefix
<1> QED BY <1>1, <1>2

LEMMA PrefixTransitive ==
  ASSUME NEW A, NEW s \in Seq(A), NEW t \in Seq(A), NEW u \in Seq(A), IsPrefix(s, t), IsPrefix(t, u)
  PROVE  IsPrefix(s, u)
<1>1. Len(s) <= Len(t) /\ \A i \in 1..Len(s) : s[i] = t[i]
  BY PrefixFacts
<1>2. Len(t) <= Len(u) /\ \A i \in 1..Len(t) : t[i] = u[i]
  BY PrefixFacts
<1>3. Len(s) <= Len(u) /\ \A i \in 1..Len(s) : s[i] = u[i]
  BY <1>1, <1>2
<1> QED BY <1>3, PrefixFacts

LEMMA PrefixAppend ==
  ASSUME NEW A, NEW s \in Seq(A), NEW t \in Seq(A)
  PROVE  IsPrefix(s, s \o t) /\ IsPrefix(s, s)
<1>1. s \o t \in Seq(A) /\ Len(s) <= Len(s \o t) /\ \A i \in 1..Len(s) : (s \o t)[i] = s[i]
  OBVIOUS
<1>2. IsPrefix(s, s \o t)
  BY <1>1, PrefixFacts
<1>3. Len(s) <= Len(s) /\ \A i \in 1..Len(s) : s[i] = s[i]
  OBVIOUS
<1>4. IsPrefix(s, s)
  BY <1>3, PrefixFacts
<1> QED BY <1>2, <1>4

Sentence == Nat \X Nat

ShapeSeqs ==
  /\ sent \in Seq(Frames) /\ socket \in Seq(Nat) /\ buffered \in Seq(Nat)
  /\ todo \in Seq(Sentence) /\ spoken \in Seq(Sentence)

LEMMA FrameFacts ==
  ASSUME ShapeSeqs, NEW x \in 1..Len(sent)
  PROVE  /\ Frame(x) \in FrameTypes /\ Frame(x).n \in Nat /\ Frame(x).rest \in BOOLEAN
         /\ Frame(x).t \in {"config", "bad", "done", "gone", "text"}
<1>1. Frame(x) \in FrameTypes
  BY FramesAssumption DEF ShapeSeqs, Frame
<1>2. CASE Frame(x) \in [t : {"config", "bad", "done", "gone"}, n : {0}, rest : {FALSE}]
  <2>1. Frame(x).n = 0 /\ Frame(x).rest = FALSE /\ Frame(x).t \in {"config", "bad", "done", "gone"}
    BY <1>2
  <2>2. Frame(x).rest \in BOOLEAN
    BY <2>1, Zenon
  <2> QED BY <1>1, <2>1, <2>2
<1>3. CASE Frame(x) \in [t : {"text"}, n : Nat, rest : BOOLEAN]
  BY <1>1, <1>3
<1> QED BY <1>1, <1>2, <1>3 DEF FrameTypes

LEMMA CompletedType ==
  ASSUME ShapeSeqs, NEW x \in 1..Len(sent)
  PROVE  Completed(x) \in Seq(Sentence) /\ Sentences(x) \in Seq(Sentence)
<1>1. x \in Nat /\ Frame(x).n \in Nat
  BY FrameFacts DEF ShapeSeqs
<1>2. Sentences(x) \in Seq(Sentence)
  BY <1>1 DEF Sentences, Sentence
<1>3. <<<<x, 1>>>> \in Seq(Sentence) /\ <<>> \in Seq(Sentence)
  BY <1>1 DEF Sentence
<1> QED BY <1>2, <1>3 DEF Completed

\* What the sentences of the first k frames are.
LEMMA SpokenNext ==
  ASSUME ShapeSeqs
  PROVE  /\ Spoken(0) = <<>>
         /\ \A k \in 0..Len(sent) : Spoken(k) \in Seq(Sentence)
         /\ \A k \in 1..Len(sent) : Spoken(k) = Spoken(k - 1) \o Completed(k)
<1>1. Spoken(0) = <<>>
  <2>1. [x \in 1..0 |-> Completed(x)] = <<>>
    OBVIOUS
  <2> QED BY <2>1 DEF Spoken, FlattenSeq
<1>2. ASSUME NEW k \in 1..Len(sent)
      PROVE  /\ Spoken(k - 1) \in Seq(Sentence) /\ Spoken(k) = Spoken(k - 1) \o Completed(k)
  <2> DEFINE s == [x \in 1..k |-> Completed(x)]
             t == [x \in 1..(k - 1) |-> Completed(x)]
  <2>1. \A x \in 1..k : Completed(x) \in Seq(Sentence)
    BY CompletedType DEF ShapeSeqs
  <2>2. k \in Nat /\ k - 1 \in Nat /\ k \in 1..k
    BY DEF ShapeSeqs
  <2>3. s \in Seq(Seq(Sentence)) /\ Len(s) = k /\ s[k] = Completed(k)
    BY <2>1, <2>2
  <2>4. t \in Seq(Seq(Sentence)) /\ Len(t) = k - 1
    BY <2>1, <2>2
  <2>5. \A i \in 1..Len(t) : t[i] = s[i]
    BY <2>2, <2>4
  <2>6. Spoken(k) = FlattenSeq(s) /\ Spoken(k - 1) = FlattenSeq(t)
    BY DEF Spoken
  <2> HIDE DEF s, t
  <2>7. Len(s) = Len(t) + 1
    BY <2>2, <2>3, <2>4
  <2> QED BY <2>3, <2>4, <2>5, <2>6, <2>7, FlattenLast
<1>3. ASSUME NEW k \in 0..Len(sent) PROVE Spoken(k) \in Seq(Sentence)
  <2>1. CASE k = 0
    <3>1. <<>> \in Seq(Sentence)
      OBVIOUS
    <3> QED BY <1>1, <2>1, <3>1
  <2>2. CASE k # 0
    <3>1. k \in 1..Len(sent)
      BY <2>2 DEF ShapeSeqs
    <3>2. Spoken(k - 1) \in Seq(Sentence) /\ Completed(k) \in Seq(Sentence)
      BY <1>2, <3>1, CompletedType
    <3>3. Spoken(k - 1) \o Completed(k) \in Seq(Sentence)
      BY <3>2
    <3>4. Spoken(k) = Spoken(k - 1) \o Completed(k)
      BY <1>2, <3>1
    <3> QED BY <3>3, <3>4
  <2> QED BY <2>1, <2>2
<1> QED BY <1>1, <1>2, <1>3

\* An unfinished sentence stays until a text completes another one.
LEMMA UnfinishedNext ==
  ASSUME ShapeSeqs, NEW x \in 1..Len(sent)
  PROVE  Unfinished(x + 1) <=> IF Frame(x).t = "text" THEN Frame(x).rest \/ (Frame(x).n = 0 /\ Unfinished(x))
                               ELSE Unfinished(x)
<1>1. x \in Nat /\ x + 1 - 1 = x /\ x >= 1
  BY DEF ShapeSeqs
<1>2. ASSUME Unfinished(x + 1)
      PROVE  IF Frame(x).t = "text" THEN Frame(x).rest \/ (Frame(x).n = 0 /\ Unfinished(x))
             ELSE Unfinished(x)
  <2>1. PICK y \in 1..x : /\ Frame(y).t = "text" /\ Frame(y).rest
                          /\ \A z \in (y + 1)..x : Frame(z).t = "text" => Frame(z).n = 0
    BY <1>1, <1>2 DEF Unfinished
  <2>2. CASE y = x
    BY <2>1, <2>2
  <2>3. CASE y # x
    <3>1. y \in 1..(x - 1) /\ x \in (y + 1)..x /\ \A z \in (y + 1)..(x - 1) : z \in (y + 1)..x
      BY <1>1, <2>3
    <3>2. Unfinished(x)
      BY <2>1, <3>1 DEF Unfinished
    <3> QED BY <2>1, <3>1, <3>2
  <2> QED BY <2>2, <2>3
<1>3. ASSUME Frame(x).t = "text", Frame(x).rest PROVE Unfinished(x + 1)
  BY <1>1, <1>3 DEF Unfinished
<1>4. ASSUME Frame(x).t = "text" => Frame(x).n = 0, Unfinished(x) PROVE Unfinished(x + 1)
  <2>1. PICK y \in 1..(x - 1) : /\ Frame(y).t = "text" /\ Frame(y).rest
                                /\ \A z \in (y + 1)..(x - 1) : Frame(z).t = "text" => Frame(z).n = 0
    BY <1>4 DEF Unfinished
  <2>2. y \in 1..x /\ \A z \in (y + 1)..x : z = x \/ z \in (y + 1)..(x - 1)
    BY <1>1
  <2> QED BY <1>1, <1>4, <2>1, <2>2 DEF Unfinished
<1> QED BY <1>2, <1>3, <1>4

\* What is known of the frames sent so far does not change when more are sent.
LEMMA SpokenStable ==
  ASSUME ShapeSeqs, sent' = sent \/ \E f \in Frames : sent' = Append(sent, f)
  PROVE  /\ \A k \in 1..Len(sent) : Frame(k)' = Frame(k)
         /\ \A k \in 0..Len(sent) : Spoken(k)' = Spoken(k) /\ Unfinished(k + 1)' = Unfinished(k + 1)
<1>1. \A k \in 1..Len(sent) : sent'[k] = sent[k]
  <2>1. ASSUME NEW f \in Frames PROVE \A k \in 1..Len(sent) : Append(sent, f)[k] = sent[k]
    BY DEF ShapeSeqs
  <2> QED BY <2>1
<1>2. ASSUME NEW k \in 1..(Len(sent) + 1) PROVE Unfinished(k)' = Unfinished(k)
  <2>1. /\ \A y \in 1..(k - 1) : y \in 1..Len(sent)
        /\ \A y \in 1..(k - 1) : \A z \in (y + 1)..(k - 1) : z \in 1..Len(sent)
    BY DEF ShapeSeqs
  <2> QED BY <1>1, <2>1 DEF Unfinished, Frame
<1>3. ASSUME NEW k \in 1..Len(sent) PROVE Completed(k)' = Completed(k)
  <2>1. Unfinished(k)' = Unfinished(k)
    BY <1>2 DEF ShapeSeqs
  <2> QED BY <1>1, <2>1 DEF Completed, Sentences, Frame
<1>4. ASSUME NEW k \in 0..Len(sent) PROVE Spoken(k)' = Spoken(k)
  <2>1. [x \in 1..k |-> Completed(x)]' = [x \in 1..k |-> Completed(x)]
    <3>1. \A x \in 1..k : Completed(x)' = Completed(x)
      BY <1>3 DEF ShapeSeqs
    <3> QED BY <3>1
  <2> QED BY <2>1 DEF Spoken
<1>5. \A k \in 0..Len(sent) : k + 1 \in 1..(Len(sent) + 1)
  BY DEF ShapeSeqs
<1> QED BY <1>1, <1>2, <1>4, <1>5 DEF Frame

\* The frames that Take takes from, and what it leaves.
LEMMA TakeFacts ==
  ASSUME ShapeSeqs, LineOK, Take, sent' = sent
  PROVE  /\ Taken + 1 \in 1..Len(sent) /\ Head(Waiting) = Taken + 1 /\ Taken' = Taken + 1
         /\ LineOK' /\ socket' \in Seq(Nat) /\ buffered' \in Seq(Nat)
<1>1. /\ Len(sent) \in Nat /\ Len(socket) \in Nat /\ Len(buffered) \in Nat
      /\ Taken \in Nat /\ Taken = Len(sent) - Len(buffered) - Len(socket)
  BY DEF ShapeSeqs, LineOK, Taken
<1>2. CASE buffered # <<>>
  <2>1. Waiting = buffered /\ buffered' = Tail(buffered) /\ socket' = socket
    BY <1>2 DEF Waiting, Take
  <2>2. /\ buffered' \in Seq(Nat) /\ Len(buffered') = Len(buffered) - 1 /\ Len(buffered) >= 1
        /\ Head(buffered) = buffered[1] /\ \A j \in 1..Len(buffered') : buffered'[j] = buffered[j + 1]
    BY <1>2, <2>1 DEF ShapeSeqs
  <2>3. Taken' = Taken + 1
    BY <1>1, <2>1, <2>2 DEF Taken
  <2>4. Head(buffered) = Taken + 1
    BY <1>1, <2>2 DEF LineOK
  <2>5. \A j \in 1..Len(buffered') : buffered'[j] = Taken' + j
    <3>1. \A j \in 1..Len(buffered') : j + 1 \in 1..Len(buffered)
      BY <1>1, <2>2
    <3>2. \A j \in 1..Len(buffered') : buffered'[j] = Taken + (j + 1)
      BY <2>2, <3>1 DEF LineOK
    <3>3. \A j \in 1..Len(buffered') : Taken + (j + 1) = Taken' + j
      BY <1>1, <2>2, <2>3
    <3> QED BY <3>2, <3>3
  <2>6. \A j \in 1..Len(socket') : socket'[j] = Taken' + Len(buffered') + j
    <3>1. \A j \in 1..Len(socket) : socket[j] = Taken + Len(buffered) + j
      BY DEF LineOK
    <3>2. Taken' + Len(buffered') = Taken + Len(buffered)
      BY <1>1, <2>2, <2>3
    <3> QED BY <2>1, <3>1, <3>2
  <2> QED BY <1>1, <2>1, <2>2, <2>3, <2>4, <2>5, <2>6 DEF LineOK, ShapeSeqs
<1>3. CASE buffered = <<>>
  <2>1. Waiting = socket /\ socket' = Tail(socket) /\ socket # <<>> /\ buffered' = buffered
    BY <1>3 DEF Waiting, Take
  <2>2. /\ socket' \in Seq(Nat) /\ Len(socket') = Len(socket) - 1 /\ Len(socket) >= 1
        /\ Head(socket) = socket[1] /\ \A j \in 1..Len(socket') : socket'[j] = socket[j + 1]
        /\ Len(buffered) = 0
    BY <1>3, <2>1 DEF ShapeSeqs
  <2>3. Taken' = Taken + 1
    BY <1>1, <2>1, <2>2 DEF Taken
  <2>4. Head(socket) = Taken + 1
    BY <1>1, <2>2 DEF LineOK
  <2>5. \A j \in 1..Len(socket') : socket'[j] = Taken' + Len(buffered') + j
    <3>1. \A j \in 1..Len(socket') : j + 1 \in 1..Len(socket)
      BY <1>1, <2>2
    <3>2. \A j \in 1..Len(socket') : socket'[j] = Taken + Len(buffered) + (j + 1)
      BY <2>2, <3>1 DEF LineOK
    <3> QED BY <1>1, <2>1, <2>2, <2>3, <3>2
  <2>6. \A j \in 1..Len(buffered') : buffered'[j] = Taken' + j
    BY <2>1, <2>2
  <2> QED BY <1>1, <2>1, <2>2, <2>3, <2>4, <2>5, <2>6 DEF LineOK, ShapeSeqs
<1> QED BY <1>2, <1>3

SpeechInv == ShapeSeqs /\ SpeechOK

\* Steps that send nothing and say nothing: what has been spoken stays in order.
LEMMA SpeechStays ==
  ASSUME SpeechInv, kind = "ws", UNCHANGED <<kind, sent, spoken, doneSent>>
  PROVE  /\ \A k \in 0..Len(sent') : IsPrefix(Spoken(k), Spoken(Len(sent)))'
         /\ SpokenInOrder'
<1>1. /\ \A k \in 1..Len(sent) : Frame(k)' = Frame(k)
      /\ \A k \in 0..Len(sent) : Spoken(k)' = Spoken(k)
  BY SpokenStable DEF SpeechInv
<1>2. Len(sent) \in 0..Len(sent) /\ \A k \in 1..Len(sent) : k \in 0..Len(sent)
  BY DEF SpeechInv, ShapeSeqs
<1>3. Spoken(Len(sent))' = Spoken(Len(sent))
  BY <1>1, <1>2
<1> QED BY <1>1, <1>2, <1>3 DEF SpeechInv, SpeechOK, SpokenInOrder

\* A session that leaves its loop.
LEMMA SpeechLeaves ==
  ASSUME SpeechInv, kind = "ws", UNCHANGED <<kind, sent, spoken, doneSent>>,
         pc' \in {"teardown", "ended"}, watch' = "off"
  PROVE  SpeechOK'
BY SpeechStays DEF SpeechOK, Reading

\* A session that goes on with the same frames in hand.
LEMMA SpeechGoesOn ==
  ASSUME SpeechInv, kind = "ws", UNCHANGED <<kind, sent, spoken, doneSent, todo, closing, rest>>,
         Taken' = Taken, LineOK => LineOK', pc' \notin {"body"}, pc' # "generate" => watch' = "off",
         Reading' => Reading, pc' = "config" => pc = "config"
  PROVE  SpeechOK'
<1>1. /\ \A k \in 0..Len(sent') : IsPrefix(Spoken(k), Spoken(Len(sent)))'
      /\ SpokenInOrder'
  BY SpeechStays
<1>2. ASSUME Reading' PROVE ReadOK'
  <2>1. ReadOK
    BY <1>2 DEF SpeechInv, SpeechOK
  <2>2. Taken \in 0..Len(sent) /\ (Taken > 0 => Taken \in 1..Len(sent))
    BY <2>1 DEF ReadOK, LineOK, Taken, SpeechInv, ShapeSeqs
  <2>3. /\ Spoken(Taken)' = Spoken(Taken) /\ Unfinished(Taken + 1)' = Unfinished(Taken + 1)
        /\ (Taken > 0 => Frame(Taken)' = Frame(Taken))
    <3>1. /\ \A k \in 1..Len(sent) : Frame(k)' = Frame(k)
          /\ \A k \in 0..Len(sent) : Spoken(k)' = Spoken(k) /\ Unfinished(k + 1)' = Unfinished(k + 1)
      BY SpokenStable DEF SpeechInv
    <3> QED BY <2>2, <3>1 DEF Spoken, Unfinished, Frame, Completed, Sentences
  <2> QED BY <2>1, <2>3 DEF ReadOK
<1> QED BY <1>1, <1>2 DEF SpeechInv, SpeechOK

\* A frame is taken in hand.
LEMMA SpeechTakes ==
  ASSUME SpeechInv, kind = "ws", ReadOK, Take, todo = <<>>, ~closing, UNCHANGED <<kind, sent, spoken>>,
         ~doneSent', pc' \notin {"body", "config"}, pc' # "generate" => watch' = "off",
         todo' = Completed(Taken + 1),
         closing' <=> Frame(Taken + 1).t = "done",
         ~closing' => (rest' <=> Unfinished(Taken + 2))
  PROVE  SpeechOK'
<1>1. /\ Taken + 1 \in 1..Len(sent) /\ Taken' = Taken + 1 /\ LineOK' /\ Taken \in 0..Len(sent)
      /\ Taken + 1 \in 0..Len(sent) /\ Taken + 1 > 0 /\ (Taken + 1) - 1 = Taken
      /\ (Taken + 1) + 1 = Taken + 2 /\ Len(sent) \in 0..Len(sent)
  BY TakeFacts DEF SpeechInv, ShapeSeqs, ReadOK, LineOK
<1>2. /\ \A k \in 1..Len(sent) : Frame(k)' = Frame(k)
      /\ \A k \in 0..Len(sent) : Spoken(k)' = Spoken(k) /\ Unfinished(k + 1)' = Unfinished(k + 1)
  BY SpokenStable DEF SpeechInv
<1>3. spoken' \o todo' = Spoken(Taken + 1)
  <2>1. spoken = Spoken(Taken)
    BY DEF ReadOK, SpeechInv, ShapeSeqs
  <2>2. Spoken(Taken + 1) = Spoken(Taken) \o Completed(Taken + 1)
    BY <1>1, SpokenNext DEF SpeechInv
  <2> QED BY <2>1, <2>2
<1> DEFINE x == Taken + 1
<1>4. /\ (\A k \in {x} : Spoken(k)' = Spoken(x) /\ Unfinished(k + 1)' = Unfinished(x + 1) /\ Frame(k)' = Frame(x))
  BY <1>1, <1>2
<1>5. ReadOK'
  <2>1. Spoken(Taken)' = Spoken(x) /\ Unfinished(Taken + 1)' = Unfinished(x + 1) /\ Frame(Taken)' = Frame(x)
    BY <1>1, <1>4 DEF Spoken, Unfinished, Frame, Completed, Sentences
  <2>2. closing' => Taken' > 0 /\ Frame(Taken)'.t = "done"
    BY <1>1, <2>1
  <2>3. ~closing' => (rest' <=> Unfinished(Taken + 1)')
    BY <1>1, <2>1
  <2> QED BY <1>1, <1>3, <2>1, <2>2, <2>3 DEF ReadOK
<1>6. ~doneSent /\ Spoken(Len(sent))' = Spoken(Len(sent))
  BY <1>1, <1>2 DEF ReadOK
<1>7. SpokenInOrder' /\ \A k \in 0..Len(sent') : IsPrefix(Spoken(k), Spoken(Len(sent)))'
  BY <1>1, <1>2, <1>6 DEF SpeechInv, SpeechOK, SpokenInOrder
<1> QED BY <1>5, <1>7 DEF SpeechOK

LEMMA SpeechConfig ==
  ASSUME SpeechInv, ReceiveConfig
  PROVE  SpeechOK' /\ ShapeSeqs'
<1>1. /\ watch = "off" /\ ReadOK /\ kind = "ws" /\ todo = <<>> /\ ~closing /\ ~doneSent
      /\ UNCHANGED <<kind, sent, spoken, doneSent, watch, todo, closing, rest>>
  BY DEF SpeechInv, SpeechOK, ReceiveConfig, Reading, ReadOK
<1>2. /\ Head(Waiting) = Taken + 1 /\ socket' \in Seq(Nat) /\ buffered' \in Seq(Nat)
      /\ Taken + 1 \in 1..Len(sent) /\ (Taken + 1) + 1 = Taken + 2
  BY <1>1, TakeFacts DEF ReceiveConfig, SpeechInv, ReadOK, LineOK
<1>3. ShapeSeqs'
  BY <1>1, <1>2 DEF SpeechInv, ShapeSeqs
<1>4. CASE Frame(Head(Waiting)).t # "config"
  BY <1>1, <1>3, <1>4, SpeechLeaves DEF ReceiveConfig
<1>5. CASE Frame(Head(Waiting)).t = "config"
  <2>1. Frame(Taken + 1).t = "config" /\ Completed(Taken + 1) = <<>>
    BY <1>2, <1>5 DEF Completed
  <2>2. Unfinished(Taken + 2) <=> Unfinished(Taken + 1)
    BY <1>2, <2>1, UnfinishedNext DEF SpeechInv
  <2>3. rest <=> Unfinished(Taken + 1)
    BY <1>1 DEF ReadOK
  <2>4. pc' = "idle" /\ Take
    BY <1>5 DEF ReceiveConfig
  <2>5. SpeechOK'
    BY <1>1, <2>1, <2>2, <2>3, <2>4, SpeechTakes
  <2> QED BY <1>3, <2>5
<1> QED BY <1>4, <1>5

LEMMA SpeechFrame ==
  ASSUME SpeechInv, ReceiveFrame
  PROVE  SpeechOK' /\ ShapeSeqs'
<1> DEFINE f == Frame(Head(Waiting))
<1>1. /\ watch = "off" /\ ReadOK /\ kind = "ws" /\ todo = <<>> /\ ~closing /\ ~doneSent /\ Take
      /\ UNCHANGED <<kind, sent, spoken, doneSent, watch>>
  BY DEF SpeechInv, SpeechOK, ReceiveFrame, Reading, ReadOK
<1>2. /\ Head(Waiting) = Taken + 1 /\ socket' \in Seq(Nat) /\ buffered' \in Seq(Nat)
      /\ Taken + 1 \in 1..Len(sent) /\ (Taken + 1) + 1 = Taken + 2
  BY <1>1, TakeFacts DEF SpeechInv, ReadOK, LineOK
<1>3. rest <=> Unfinished(Taken + 1)
  BY <1>1 DEF ReadOK
<1>4. /\ Unfinished(Taken + 2) <=> IF f.t = "text" THEN f.rest \/ (f.n = 0 /\ Unfinished(Taken + 1))
                                  ELSE Unfinished(Taken + 1)
      /\ f = Frame(Taken + 1) /\ f.n \in Nat /\ f.rest \in BOOLEAN
      /\ Completed(Taken + 1) \in Seq(Sentence)
  BY <1>2, UnfinishedNext, FrameFacts, CompletedType DEF SpeechInv
<1>5. \/ f.t = "text" /\ pc' = "idle" /\ todo' = Completed(Taken + 1) /\ ~closing'
         /\ (rest' <=> Unfinished(Taken + 2))
      \/ f.t \in {"text", "gone"} /\ pc' = "teardown" /\ todo' = todo
      \/ f.t = "done" /\ pc' = "idle" /\ todo' = Completed(Taken + 1) /\ closing'
      \/ f.t \in {"bad", "config"} /\ pc' = pc /\ todo' = Completed(Taken + 1) /\ ~closing'
         /\ (rest' <=> Unfinished(Taken + 2))
  <2>1. CASE f.t = "text" /\ pc' = "idle"
    <3>1. todo' = Sentences(Taken + 1) /\ ~closing' /\ rest' = IF f.n > 0 THEN f.rest ELSE rest \/ f.rest
      BY <1>1, <1>2, <2>1 DEF ReceiveFrame
    <3>2. todo' = Completed(Taken + 1)
      BY <1>4, <2>1, <3>1 DEF Completed
    <3>3. rest' <=> Unfinished(Taken + 2)
      <4>1. CASE f.n > 0
        BY <1>4, <2>1, <3>1, <4>1
      <4>2. CASE f.n = 0
        <5>1. ~(f.n > 0)
          BY <4>2
        <5>2. rest' = (rest \/ f.rest)
          BY <3>1, <5>1
        <5>3. rest' <=> (rest \/ f.rest)
          BY <5>2, Zenon
        <5>4. Unfinished(Taken + 2) <=> (f.rest \/ Unfinished(Taken + 1))
          BY <1>4, <2>1, <4>2
        <5> QED BY <1>3, <5>3, <5>4, Zenon
      <4> QED BY <1>4, <4>1, <4>2
    <3> QED BY <2>1, <3>1, <3>2, <3>3
  <2>2. CASE f.t \in {"text", "gone"} /\ pc' = "teardown"
    BY <1>1, <2>2 DEF ReceiveFrame
  <2>3. CASE f.t = "done"
    BY <1>2, <1>3, <1>4, <2>3 DEF ReceiveFrame, Completed
  <2>4. CASE f.t \in {"bad", "config"}
    BY <1>1, <1>2, <1>3, <1>4, <2>4 DEF ReceiveFrame, Completed
  <2> QED BY <2>1, <2>2, <2>3, <2>4 DEF ReceiveFrame
<1>6. ShapeSeqs'
  BY <1>1, <1>2, <1>4, <1>5 DEF SpeechInv, ShapeSeqs
<1>7. CASE pc' = "teardown"
  BY <1>1, <1>6, <1>7, SpeechLeaves
<1>8. CASE pc' # "teardown"
  <2>1. /\ todo' = Completed(Taken + 1) /\ (closing' <=> f.t = "done") /\ pc' = "idle"
        /\ (~closing' => (rest' <=> Unfinished(Taken + 2)))
    BY <1>5, <1>8 DEF ReceiveFrame
  <2>2. closing' <=> Frame(Taken + 1).t = "done"
    BY <1>4, <2>1
  <2> HIDE DEF f
  <2>3. SpeechOK'
    BY <1>1, <2>1, <2>2, SpeechTakes
  <2> QED BY <1>6, <2>3
<1> QED BY <1>7, <1>8

\* The frames in hand say the same when more are sent.
LEMMA TakenStable ==
  ASSUME ShapeSeqs, LineOK, Taken' = Taken, sent' = sent \/ \E f \in Frames : sent' = Append(sent, f)
  PROVE  /\ Spoken(Taken)' = Spoken(Taken) /\ Unfinished(Taken + 1)' = Unfinished(Taken + 1)
         /\ (Taken > 0 => Frame(Taken)' = Frame(Taken)) /\ Taken \in 0..Len(sent)
<1>1. Taken \in 0..Len(sent) /\ (Taken > 0 => Taken \in 1..Len(sent))
  BY DEF LineOK, Taken, ShapeSeqs
<1>2. /\ \A k \in 1..Len(sent) : Frame(k)' = Frame(k)
      /\ \A k \in 0..Len(sent) : Spoken(k)' = Spoken(k) /\ Unfinished(k + 1)' = Unfinished(k + 1)
  BY SpokenStable
<1> QED BY <1>1, <1>2 DEF Spoken, Unfinished, Frame, Completed, Sentences

\* the sentences of the frames sent, in this state and in the next
SpokenShape ==
  /\ \A k \in 0..Len(sent) : Spoken(k) \in Seq(Sentence)
  /\ \A k \in 1..Len(sent) : Spoken(k) = Spoken(k - 1) \o Completed(k) /\ Completed(k) \in Seq(Sentence)

LEMMA SpokenShapes == ShapeSeqs => SpokenShape
BY SpokenNext, CompletedType DEF SpokenShape

LEMMA SpokenAfter == ShapeSeqs' => SpokenShape'
BY SpokenShapes, PTL

\* The head of what is to be said moves to what has been said.
LEMMA SayNext ==
  ASSUME NEW A, NEW s \in Seq(A), NEW t \in Seq(A), t # <<>>
  PROVE  /\ Tail(t) \in Seq(A) /\ Append(s, Head(t)) \in Seq(A)
         /\ Append(s, Head(t)) \o Tail(t) = s \o t
<1> DEFINE u == Append(s, Head(t)) \o Tail(t)
<1>1. /\ Tail(t) \in Seq(A) /\ Len(Tail(t)) = Len(t) - 1 /\ Len(t) >= 1 /\ Head(t) = t[1] /\ Head(t) \in A
      /\ \A i \in 1..Len(Tail(t)) : Tail(t)[i] = t[i + 1]
  OBVIOUS
<1>2. /\ Append(s, Head(t)) \in Seq(A) /\ Len(Append(s, Head(t))) = Len(s) + 1 /\ Len(s) \in Nat
      /\ \A i \in 1..Len(s) : Append(s, Head(t))[i] = s[i]
      /\ Append(s, Head(t))[Len(s) + 1] = t[1]
  BY <1>1
<1>3. u \in Seq(A) /\ Len(u) = Len(s) + Len(t) /\ s \o t \in Seq(A) /\ Len(s \o t) = Len(s) + Len(t)
  BY <1>1, <1>2
<1>4. ASSUME NEW i \in 1..(Len(s) + Len(t)) PROVE u[i] = (s \o t)[i]
  <2>1. CASE i <= Len(s)
    BY <1>1, <1>2, <2>1
  <2>2. CASE i = Len(s) + 1
    BY <1>1, <1>2, <2>2
  <2>3. CASE i > Len(s) + 1
    <3>1. u[i] = Tail(t)[i - (Len(s) + 1)] /\ (s \o t)[i] = t[i - Len(s)]
      BY <1>1, <1>2, <2>3
    <3>2. i - (Len(s) + 1) \in 1..Len(Tail(t)) /\ (i - (Len(s) + 1)) + 1 = i - Len(s)
      BY <1>1, <1>2, <2>3
    <3> QED BY <1>1, <3>1, <3>2
  <2> QED BY <1>2, <2>1, <2>2, <2>3
<1> HIDE DEF u
<1>5. u = s \o t
  BY <1>3, <1>4, SeqEqual
<1> QED BY <1>1, <1>2, <1>5 DEF u

LEMMA SpeechStarts ==
  ASSUME SpeechInv, StartSentence
  PROVE  SpeechOK' /\ ShapeSeqs'
<1>1. /\ ReadOK /\ kind = "ws" /\ ~doneSent /\ todo # <<>> /\ LineOK /\ todo \in Seq(Sentence)
      /\ spoken \in Seq(Sentence) /\ ShapeSeqs /\ spoken \o todo = Spoken(Taken)
      /\ UNCHANGED <<kind, sent, socket, buffered, doneSent, closing, rest>>
      /\ pc' = "generate" /\ spoken' = Append(spoken, Head(todo)) /\ todo' = Tail(todo)
  BY DEF SpeechInv, SpeechOK, StartSentence, Reading, ReadOK, ShapeSeqs
<1>2. todo' \in Seq(Sentence) /\ spoken' \in Seq(Sentence) /\ spoken' \o todo' = spoken \o todo
  <2>1. /\ Tail(todo) \in Seq(Sentence) /\ Append(spoken, Head(todo)) \in Seq(Sentence)
        /\ Append(spoken, Head(todo)) \o Tail(todo) = spoken \o todo
    BY <1>1, SayNext, Zenon
  <2> QED BY <1>1, <2>1, Zenon
<1>3. Taken' = Taken /\ LineOK' /\ ShapeSeqs'
  BY <1>1, <1>2 DEF Taken, LineOK, ShapeSeqs
<1>4. /\ Spoken(Taken)' = Spoken(Taken) /\ Unfinished(Taken + 1)' = Unfinished(Taken + 1)
      /\ (Taken > 0 => Frame(Taken)' = Frame(Taken)) /\ Taken \in 0..Len(sent)
  BY <1>1, <1>3, TakenStable
<1>5. ReadOK'
  BY <1>1, <1>2, <1>3, <1>4 DEF ReadOK
<1>6. /\ \A k \in 0..Len(sent) : Spoken(k)' = Spoken(k) /\ Spoken(k) \in Seq(Sentence)
      /\ Len(sent) \in 0..Len(sent)
  BY <1>1, SpokenStable, SpokenNext DEF ShapeSeqs
<1>7. Spoken(Len(sent))' = Spoken(Len(sent))
  BY <1>1, <1>6
<1>8. \A k \in 0..Len(sent') : IsPrefix(Spoken(k), Spoken(Len(sent)))'
  BY <1>1, <1>6, <1>7 DEF SpeechInv, SpeechOK
<1>9. IsPrefix(spoken', Spoken(Len(sent)))
  <2>1. IsPrefix(spoken', Spoken(Taken))
    BY <1>1, <1>2, PrefixAppend
  <2>2. IsPrefix(Spoken(Taken), Spoken(Len(sent)))
    BY <1>1, <1>4 DEF SpeechInv, SpeechOK
  <2> QED BY <1>2, <1>4, <1>6, <2>1, <2>2, PrefixTransitive
<1>10. SpokenInOrder'
  BY <1>1, <1>7, <1>9 DEF SpokenInOrder
<1> QED BY <1>1, <1>3, <1>5, <1>8, <1>10 DEF SpeechOK

LEMMA SpeechWatch ==
  ASSUME SpeechInv, Watch
  PROVE  SpeechOK' /\ ShapeSeqs'
<1>1. /\ socket # <<>> /\ socket' = Tail(socket) /\ kind = "ws" /\ watch = "on" /\ pc = "generate"
      /\ UNCHANGED <<kind, sent, pc, todo, closing, rest, doneSent, spoken>> /\ ShapeSeqs
  BY DEF Watch, SpeechInv, SpeechOK
<1>2. /\ socket \in Seq(Nat) /\ socket' \in Seq(Nat) /\ Len(socket') = Len(socket) - 1 /\ Len(socket) >= 1
      /\ Head(socket) = socket[1] /\ Head(socket) \in Nat
      /\ \A j \in 1..Len(socket') : socket'[j] = socket[j + 1]
  BY <1>1 DEF ShapeSeqs
<1>3. CASE watch' = "raised" /\ UNCHANGED buffered
  <2>1. ShapeSeqs'
    BY <1>1, <1>2, <1>3 DEF ShapeSeqs
  <2>2. SpeechOK'
    BY <1>1, <1>3, SpeechStays DEF SpeechOK, Reading
  <2> QED BY <2>1, <2>2
<1>4. CASE buffered' = Append(buffered, Head(socket)) /\ UNCHANGED watch
  <2>1. /\ buffered' \in Seq(Nat) /\ Len(buffered') = Len(buffered) + 1 /\ Len(buffered) \in Nat
        /\ \A j \in 1..Len(buffered) : buffered'[j] = buffered[j]
        /\ buffered'[Len(buffered) + 1] = Head(socket)
    BY <1>2, <1>4 DEF ShapeSeqs, SpeechInv
  <2>2. ShapeSeqs'
    BY <1>1, <1>2, <2>1 DEF ShapeSeqs
  <2>3. Taken' = Taken
    BY <1>1, <1>2, <2>1 DEF Taken, ShapeSeqs
  <2>4. ASSUME LineOK PROVE LineOK'
    <3>1. Taken \in Nat /\ socket[1] = Taken + Len(buffered) + 1
      BY <1>2, <2>4 DEF LineOK
    <3>2. ASSUME NEW j \in 1..Len(buffered') PROVE buffered'[j] = Taken' + j
      <4>1. CASE j \in 1..Len(buffered)
        BY <2>1, <2>3, <2>4, <4>1 DEF LineOK
      <4>2. CASE j = Len(buffered) + 1
        BY <1>2, <2>1, <2>3, <3>1, <4>2
      <4> QED BY <2>1, <4>1, <4>2
    <3>3. ASSUME NEW j \in 1..Len(socket') PROVE socket'[j] = Taken' + Len(buffered') + j
      <4>1. j + 1 \in 1..Len(socket) /\ socket'[j] = socket[j + 1]
        BY <1>2
      <4>2. socket[j + 1] = Taken + Len(buffered) + (j + 1)
        BY <2>4, <4>1 DEF LineOK
      <4> QED BY <2>1, <2>3, <3>1, <4>1, <4>2
    <3> QED BY <2>3, <3>1, <3>2, <3>3 DEF LineOK
  <2>5. SpeechOK'
    BY <1>1, <1>4, <2>3, <2>4, SpeechGoesOn DEF Reading
  <2> QED BY <2>2, <2>5
<1> QED BY <1>3, <1>4 DEF Watch

LEMMA SpeechSends ==
  ASSUME SpeechInv, NEW f \in Frames, ClientSends(f)
  PROVE  SpeechOK' /\ ShapeSeqs'
<1>1. /\ kind = "ws" /\ ShapeSeqs /\ sent' = Append(sent, f) /\ socket' = Append(socket, Len(sent) + 1)
      /\ UNCHANGED <<kind, buffered, pc, rest, todo, closing, watch, doneSent, spoken>>
  BY DEF SpeechInv, ClientSends
<1>2. /\ sent' \in Seq(Frames) /\ Len(sent') = Len(sent) + 1 /\ Len(sent) \in Nat
      /\ socket' \in Seq(Nat) /\ Len(socket') = Len(socket) + 1 /\ Len(socket) \in Nat
      /\ Len(buffered) \in Nat
      /\ \A j \in 1..Len(socket) : socket'[j] = socket[j]
      /\ socket'[Len(socket) + 1] = Len(sent) + 1
  BY <1>1 DEF ShapeSeqs
<1>3. ShapeSeqs' /\ Taken' = Taken
  BY <1>1, <1>2 DEF ShapeSeqs, Taken
<1>4. /\ \A k \in 1..Len(sent) : Frame(k)' = Frame(k)
      /\ \A k \in 0..Len(sent) : Spoken(k)' = Spoken(k) /\ Spoken(k) \in Seq(Sentence)
  BY <1>1, SpokenStable, SpokenNext
<1>5. /\ Spoken(Len(sent))' \in Seq(Sentence) /\ IsPrefix(Spoken(Len(sent)), Spoken(Len(sent))')
      /\ IsPrefix(Spoken(Len(sent))', Spoken(Len(sent))')
  <2>1. SpokenShape'
    BY <1>3, SpokenAfter
  <2>2. Len(sent') \in 0..Len(sent') /\ Len(sent') \in 1..Len(sent') /\ Len(sent') - 1 = Len(sent)
    BY <1>2
  <2>3. /\ Spoken(Len(sent))' \in Seq(Sentence) /\ Completed(Len(sent))' \in Seq(Sentence)
        /\ Spoken(Len(sent))' = Spoken(Len(sent) - 1)' \o Completed(Len(sent))'
    BY <2>1, <2>2 DEF SpokenShape
  <2>4. Len(sent) \in 0..Len(sent)
    BY <1>2
  <2>5. Spoken(Len(sent) - 1)' = Spoken(Len(sent)) /\ Spoken(Len(sent)) \in Seq(Sentence)
    BY <1>4, <2>2, <2>4
  <2> QED BY <2>3, <2>5, PrefixAppend
<1>6. ASSUME NEW k \in 0..Len(sent') PROVE IsPrefix(Spoken(k), Spoken(Len(sent)))'
  <2>1. CASE k = Len(sent')
    BY <1>5, <2>1
  <2>2. CASE k \in 0..Len(sent)
    <3>1. IsPrefix(Spoken(k), Spoken(Len(sent))) /\ Spoken(k)' = Spoken(k) /\ Spoken(k) \in Seq(Sentence)
      BY <1>1, <1>4, <2>2 DEF SpeechInv, SpeechOK
    <3>2. Spoken(Len(sent)) \in Seq(Sentence)
      BY <1>2, <1>4
    <3> QED BY <1>5, <3>1, <3>2, PrefixTransitive
  <2> QED BY <1>2, <2>1, <2>2
<1>7. SpokenInOrder'
  <2>1. IsPrefix(spoken, Spoken(Len(sent))')
    <3>1. IsPrefix(spoken, Spoken(Len(sent))) /\ spoken \in Seq(Sentence)
      BY <1>1 DEF SpeechInv, SpeechOK, SpokenInOrder, ShapeSeqs
    <3>2. Spoken(Len(sent)) \in Seq(Sentence)
      BY <1>2, <1>4
    <3> QED BY <1>5, <3>1, <3>2, PrefixTransitive
  <2>2. ASSUME doneSent PROVE \E k \in 1..Len(sent') : Frame(k)'.t = "done" /\ spoken = Spoken(k)'
    <3>1. PICK k \in 1..Len(sent) : Frame(k).t = "done" /\ spoken = Spoken(k)
      BY <1>1, <2>2 DEF SpeechInv, SpeechOK, SpokenInOrder
    <3>2. k \in 0..Len(sent) /\ k \in 1..Len(sent')
      BY <1>2
    <3> QED BY <1>4, <3>1, <3>2
  <2> QED BY <1>1, <2>1, <2>2 DEF SpokenInOrder
<1>8. ASSUME Reading' PROVE ReadOK'
  <2>1. ReadOK
    BY <1>1, <1>8 DEF SpeechInv, SpeechOK, Reading
  <2>2. Taken \in Nat /\ Taken + Len(buffered) + (Len(socket) + 1) = Len(sent) + 1
    BY <1>2, <2>1 DEF Taken, ReadOK, LineOK
  <2>3. ASSUME NEW j \in 1..Len(socket') PROVE socket'[j] = Taken' + Len(buffered') + j
    <3>1. CASE j \in 1..Len(socket)
      BY <1>1, <1>2, <1>3, <2>1, <3>1 DEF ReadOK, LineOK
    <3>2. CASE j = Len(socket) + 1
      BY <1>1, <1>2, <1>3, <2>2, <3>2
    <3> QED BY <1>2, <3>1, <3>2
  <2>4. LineOK'
    BY <1>1, <1>3, <2>1, <2>3 DEF ReadOK, LineOK
  <2>5. /\ Spoken(Taken)' = Spoken(Taken) /\ Unfinished(Taken + 1)' = Unfinished(Taken + 1)
        /\ (Taken > 0 => Frame(Taken)' = Frame(Taken))
    BY <1>1, <1>3, <2>1, TakenStable DEF ReadOK
  <2> QED BY <1>1, <1>3, <2>1, <2>4, <2>5 DEF ReadOK
<1> QED BY <1>1, <1>3, <1>6, <1>7, <1>8 DEF SpeechInv, SpeechOK

\* The other steps of a session; those of HTTP requests say nothing.
LEMMA SpeechStep ==
  ASSUME SpeechInv, [Next]_vars
  PROVE  SpeechInv'
<1>1. CASE kind # "ws" /\ UNCHANGED <<kind, sent, socket, buffered, todo, spoken>>
  BY <1>1 DEF SpeechInv, SpeechOK, ShapeSeqs
<1>2. CASE UNCHANGED <<kind, sent, socket, buffered, rest, todo, closing, spoken, doneSent, pc, watch>>
  <2>1. ShapeSeqs'
    BY <1>2 DEF SpeechInv, ShapeSeqs
  <2>2. Taken' = Taken /\ (LineOK => LineOK') /\ (Reading' => Reading)
    BY <1>2 DEF Taken, LineOK, Reading
  <2>3. SpeechOK'
    BY <1>1, <1>2, <2>2, SpeechGoesOn DEF SpeechInv, SpeechOK
  <2> QED BY <2>1, <2>3 DEF SpeechInv
<1>3. CASE /\ UNCHANGED <<kind, sent, socket, buffered, todo, spoken, doneSent>>
           /\ pc' \in {"teardown", "ended"} /\ (kind = "ws" => watch' = "off")
  <2>1. ShapeSeqs'
    BY <1>3 DEF SpeechInv, ShapeSeqs
  <2> QED BY <1>1, <1>3, <2>1, SpeechLeaves DEF SpeechInv
<1>4. CASE SentenceEnds
  <2>1. ShapeSeqs' /\ Taken' = Taken /\ (LineOK => LineOK') /\ (Reading' => Reading)
    BY <1>4 DEF SpeechInv, ShapeSeqs, Taken, LineOK, Reading, SentenceEnds
  <2>2. SpeechOK'
    BY <1>4, <2>1, SpeechGoesOn DEF SentenceEnds
  <2> QED BY <2>1, <2>2 DEF SpeechInv
<1>5. CASE SendDone
  <2>1. ShapeSeqs'
    BY <1>5 DEF SpeechInv, ShapeSeqs, SendDone
  <2>2. CASE kind # "ws"
    BY <1>5, <2>1, <2>2 DEF SendDone, SpeechInv, SpeechOK
  <2>3. CASE kind = "ws"
    <3>1. /\ ReadOK /\ ShapeSeqs /\ spoken = Spoken(Taken) /\ Taken > 0 /\ Frame(Taken).t = "done" /\ watch = "off"
          /\ UNCHANGED <<kind, sent, socket, buffered, spoken, watch>> /\ pc' = "teardown"
      BY <1>5, <2>3 DEF SendDone, SpeechInv, SpeechOK, Reading, ReadOK, ShapeSeqs
    <3>2. Taken \in 1..Len(sent) /\ Len(sent) \in 0..Len(sent) /\ \A k \in 1..Len(sent) : k \in 0..Len(sent)
      BY <3>1 DEF ReadOK, LineOK, Taken, ShapeSeqs
    <3>3. /\ \A k \in 1..Len(sent) : Frame(k)' = Frame(k)
          /\ \A k \in 0..Len(sent) : Spoken(k)' = Spoken(k)
      BY <3>1, SpokenStable
    <3>4. Spoken(Len(sent))' = Spoken(Len(sent))
      BY <3>1, <3>2, <3>3
    <3>5. \E k \in 1..Len(sent') : Frame(k)'.t = "done" /\ spoken' = Spoken(k)'
      BY <3>1, <3>2, <3>3
    <3>6. SpokenInOrder'
      BY <2>3, <3>1, <3>4, <3>5 DEF SpeechInv, SpeechOK, SpokenInOrder
    <3>7. \A k \in 0..Len(sent') : IsPrefix(Spoken(k), Spoken(Len(sent)))'
      BY <2>3, <3>1, <3>3, <3>4 DEF SpeechInv, SpeechOK
    <3>8. SpeechOK'
      BY <3>1, <3>6, <3>7 DEF SpeechOK, Reading
    <3> QED BY <2>1, <3>8 DEF SpeechInv
  <2> QED BY <2>2, <2>3
<1>6. CASE ReceiveConfig \/ ReceiveFrame \/ StartSentence \/ Watch \/ (\E f \in Frames : ClientSends(f))
  BY <1>6, SpeechConfig, SpeechFrame, SpeechStarts, SpeechWatch, SpeechSends DEF SpeechInv
<1>7. CASE Teardown \/ SentenceInterrupted \/ SessionInterrupted \/ ReceiveTimesOut
  <2>1. kind = "ws" => watch' = "off"
    BY <1>7 DEF Teardown, SentenceInterrupted, SessionInterrupted, ReceiveTimesOut, SpeechInv, SpeechOK
  <2> QED BY <1>3, <1>7, <2>1 DEF Teardown, SentenceInterrupted, SessionInterrupted, ReceiveTimesOut
<1>8. CASE BodyEnds \/ BodyNeverStarts
  <2>1. kind # "ws"
    BY <1>8 DEF BodyEnds, BodyNeverStarts, SpeechInv, SpeechOK
  <2> QED BY <1>1, <1>8, <2>1 DEF BodyEnds, BodyNeverStarts
<1>9. CASE StartRequest \/ Respond \/ FirstChunk \/ RequestInterrupted \/ PollDisconnect \/ ClientLeaves
  <2>1. kind # "ws" /\ UNCHANGED <<kind, sent, socket, buffered, todo, spoken>>
    BY <1>9 DEF StartRequest, Respond, FirstChunk, RequestInterrupted, PollDisconnect, ClientLeaves
  <2> QED BY <1>1, <2>1
<1>10. ASSUME NEW i \in 1..Len(engine), NEW how \in {"finished", "failed"}, EngineEnds(i, how)
       PROVE  SpeechInv'
  BY <1>2, <1>10 DEF EngineEnds
<1>11. CASE UNCHANGED vars
  BY <1>2, <1>11 DEF vars
<1> QED BY <1>4, <1>5, <1>6, <1>7, <1>8, <1>9, <1>10, <1>11 DEF Next, Owner, Interrupted

\* _receive_text_frame, _watch_client_disconnect and _message_loop: for any
\* number of frames, buffered or not, the sentences are spoken in the order
\* of the frames that complete them, and session.done comes after the last.
THEOREM SpokenAsSent == Spec => []SpokenInOrder
<1>1. Init => SpeechInv
  <2> SUFFICES ASSUME Init PROVE SpeechInv
    OBVIOUS
  <2>1. ShapeSeqs /\ Len(sent) = 0 /\ Len(socket) = 0 /\ Len(buffered) = 0
    BY DEF Init, ShapeSeqs
  <2>2. Spoken(0) = <<>> /\ Taken = 0
    BY <2>1, SpokenNext DEF Taken
  <2>3. IsPrefix(<<>>, <<>>) /\ <<>> \o <<>> = <<>>
    BY DEF IsPrefix
  <2>4. ~Unfinished(Taken + 1)
    BY <2>2 DEF Unfinished
  <2>5. LineOK
    BY <2>1, <2>2 DEF LineOK
  <2>6. ReadOK
    BY <2>2, <2>3, <2>4, <2>5 DEF Init, ReadOK
  <2>7. \A k \in 0..Len(sent) : k = 0
    BY <2>1
  <2> QED BY <2>1, <2>2, <2>3, <2>6, <2>7 DEF Init, SpeechInv, SpeechOK, SpokenInOrder
<1>2. SpeechInv => SpokenInOrder
  BY DEF SpeechInv, SpeechOK, SpokenInOrder
<1> QED BY <1>1, <1>2, SpeechStep, PTL DEF Spec
-----------------------------------------------------------------------------
(***************************************************************************)
(* Realtime sessions (RealtimeSession).  First the detector and the        *)
(* commit of utterances: what the two folds of handle_audio_append make of *)
(* a sequence of frames.                                                   *)
(***************************************************************************)

Vads == [speech : BOOLEAN, silent : 0..Silence, last : Nat, consumed : Nat]
Emits == {"started", "stopped"} \X Nat
Hearings == [vad : Vads, emits : Seq(Emits)]
Cuts == [start : Nat, size : Nat, vad : Vads, cut : Seq(Nat \X Nat)]

\* What one frame does to the detector.
LEMMA VadFrameFacts ==
  ASSUME NEW acc \in Hearings, NEW x \in BOOLEAN, NEW c, c = acc.vad.consumed + 1
  PROVE  LET r == VadFrame(acc, x) IN
         /\ r \in Hearings /\ r.vad.consumed = c /\ c \in Nat
         /\ x => /\ r.vad.speech /\ r.vad.last = c
                 /\ acc.vad.speech => r.emits = acc.emits
                 /\ ~acc.vad.speech => \E from \in Nat : from < c /\ r.emits = Append(acc.emits, <<"started", from>>)
         /\ ~x => /\ r.vad.last = acc.vad.last
                  /\ ~acc.vad.speech => ~r.vad.speech /\ r.emits = acc.emits
                  /\ acc.vad.speech =>
                       \/ r.vad.speech /\ r.emits = acc.emits
                       \/ ~r.vad.speech /\ r.emits = Append(acc.emits, <<"stopped", acc.vad.last>>)
<1> DEFINE v == acc.vad
           n == Least(v.silent + 1, Silence)
           ends == ~x /\ v.speech /\ n = Silence
           from == IF v.consumed < Pad THEN 0 ELSE v.consumed - Pad
           r == VadFrame(acc, x)
<1>1. /\ v \in Vads /\ acc.emits \in Seq(Emits) /\ v.speech \in BOOLEAN /\ v.silent \in 0..Silence
      /\ v.last \in Nat /\ v.consumed \in Nat /\ c \in Nat
  BY DEF Hearings, Vads
<1>2. n \in 0..Silence /\ from \in Nat /\ from < c
  <2>1. \A k \in 0..Silence : Least(k + 1, Silence) \in 0..Silence
    BY VadAssumption DEF Least
  <2>2. \A k \in Nat : LET f == IF k < Pad THEN 0 ELSE k - Pad IN f \in Nat /\ f < k + 1
    BY VadAssumption
  <2>3. n \in 0..Silence
    BY <1>1, <2>1
  <2>4. from \in Nat /\ from < c
    BY <1>1, <2>2
  <2> QED BY <2>3, <2>4
<1>3. /\ r.vad = [speech |-> x \/ (v.speech /\ ~ends), silent |-> IF x THEN 0 ELSE n,
                  last |-> IF x THEN c ELSE v.last, consumed |-> c]
      /\ r.emits = CASE x /\ ~v.speech -> Append(acc.emits, <<"started", from>>)
                     [] ends -> Append(acc.emits, <<"stopped", v.last>>)
                     [] OTHER -> acc.emits
      /\ r = [vad |-> r.vad, emits |-> r.emits]
  BY DEF VadFrame
<1> HIDE DEF r, n, from
<1>4. /\ r.vad.consumed = c /\ r.vad.last = (IF x THEN c ELSE v.last)
      /\ r.vad.speech = (x \/ (v.speech /\ ~ends))
  BY <1>3
<1>5. r.vad.speech <=> (x \/ (v.speech /\ ~ends))
  BY <1>4, Zenon
<1>6. r.vad \in Vads
  <2>1. (x \/ (v.speech /\ ~ends)) \in BOOLEAN
    OBVIOUS
  <2>2. (IF x THEN 0 ELSE n) \in 0..Silence /\ (IF x THEN c ELSE v.last) \in Nat
    BY <1>1, <1>2, VadAssumption
  <2> HIDE DEF ends
  <2> QED BY <1>1, <1>3, <2>1, <2>2 DEF Vads
<1>7. CASE x
  <2>1. ~ends /\ r.vad.speech /\ r.vad.last = c
    BY <1>4, <1>5, <1>7
  <2>2. CASE v.speech
    <3>1. r.emits = acc.emits
      BY <1>3, <1>7, <2>1, <2>2
    <3>2. r \in Hearings
      BY <1>1, <1>3, <1>6, <3>1 DEF Hearings
    <3> QED BY <1>1, <1>4, <1>7, <2>1, <2>2, <3>1, <3>2 DEF r
  <2>3. CASE ~v.speech
    <3>1. r.emits = Append(acc.emits, <<"started", from>>)
      BY <1>3, <1>7, <2>3
    <3>2. r \in Hearings
      <4>1. <<"started", from>> \in Emits
        BY <1>2 DEF Emits
      <4>2. r.emits \in Seq(Emits)
        BY <1>1, <3>1, <4>1
      <4> QED BY <1>3, <1>6, <4>2 DEF Hearings
    <3> QED BY <1>1, <1>2, <1>4, <1>7, <2>1, <2>3, <3>1, <3>2 DEF r
  <2> QED BY <2>2, <2>3
<1>8. CASE ~x
  <2>1. r.vad.last = v.last
    BY <1>4, <1>8
  <2>2. CASE ends
    <3>1. r.emits = Append(acc.emits, <<"stopped", v.last>>) /\ ~r.vad.speech
      BY <1>3, <1>5, <1>8, <2>2
    <3>2. r \in Hearings
      <4>1. <<"stopped", v.last>> \in Emits
        BY <1>1 DEF Emits
      <4>2. r.emits \in Seq(Emits)
        BY <1>1, <3>1, <4>1
      <4> QED BY <1>3, <1>6, <4>2 DEF Hearings
    <3> QED BY <1>1, <1>4, <1>8, <2>1, <2>2, <3>1, <3>2 DEF r
  <2>3. CASE ~ends
    <3>1. r.emits = acc.emits /\ (r.vad.speech <=> v.speech)
      BY <1>3, <1>5, <1>8, <2>3
    <3>2. r \in Hearings
      BY <1>1, <1>3, <1>6, <3>1 DEF Hearings
    <3> QED BY <1>1, <1>4, <1>8, <2>1, <3>1, <3>2 DEF r
  <2> QED BY <2>2, <2>3
<1> QED BY <1>7, <1>8

\* The detector's fold, frame by frame.
LEMMA VadComputes ==
  ASSUME NEW acc \in Hearings, NEW audio \in Seq(BOOLEAN)
  PROVE  \E f \in [0..Len(audio) -> Hearings] :
           /\ f[0] = acc /\ FoldLeft(VadFrame, acc, audio) = f[Len(audio)]
           /\ \A i \in 1..Len(audio) : f[i] = VadFrame(f[i - 1], audio[i])
<1> DEFINE n == Len(audio)
           F == [p \in Hearings \X (1..n) |-> VadFrame(p[1], audio[p[2]])]
           G == CHOOSE g : g = [t \in SUBSET (DOMAIN audio) |->
                                 IF t = {} THEN acc ELSE VadFrame(g[t \ {Max(t)}], audio[Max(t)])]
<1>1. n \in Nat /\ DOMAIN audio = 1..n /\ \A i \in 1..n : audio[i] \in BOOLEAN
  OBVIOUS
<1>2. FoldLeft(VadFrame, acc, audio) = G[1..n]
  BY <1>1 DEF FoldLeft, MapThenFoldSet
<1>3. \A v \in Hearings, i \in 1..n : VadFrame(v, audio[i]) \in Hearings
  BY <1>1, VadFrameFacts
<1>4. /\ F \in [Hearings \X (1..n) -> Hearings]
      /\ \A v \in Hearings, i \in 1..n : F[<<v, i>>] = VadFrame(v, audio[i])
  BY <1>3
<1> HIDE DEF F, n
<1>5. PICK f : Computes(f, n, Hearings, acc, F)
  BY <1>1, <1>4, ComputationExists
<1>6. PICK g : Folds(g, n, Hearings, acc, F)
  BY <1>1, <1>4, FoldExists
<1>7. g = [t \in SUBSET (DOMAIN audio) |->
            IF t = {} THEN acc ELSE VadFrame(g[t \ {Max(t)}], audio[Max(t)])]
  <2>1. ASSUME NEW t \in SUBSET (1..n), t # {} PROVE g[t] = VadFrame(g[t \ {Max(t)}], audio[Max(t)])
    <3>1. Max(t) \in 1..n /\ g[t] = F[<<g[t \ {Max(t)}], Max(t)>>] /\ g[t \ {Max(t)}] \in Hearings
      BY <1>6, <2>1 DEF Folds
    <3> QED BY <1>4, <3>1
  <2> QED BY <1>1, <1>6, <2>1 DEF Folds
<1>8. G = [t \in SUBSET (DOMAIN audio) |->
            IF t = {} THEN acc ELSE VadFrame(G[t \ {Max(t)}], audio[Max(t)])]
  BY <1>7
<1> HIDE DEF G
<1> DEFINE T == {i \in Nat : i <= n => G[1..i] = f[i]}
<1>9. 0 \in T
  <2>1. 1..0 = {} /\ {} \in SUBSET (DOMAIN audio) /\ f[0] = acc
    BY <1>1, <1>5, PrefixPositions DEF Computes
  <2> QED BY <1>8, <2>1
<1>10. ASSUME NEW i \in Nat, i \in T PROVE i + 1 \in T
  <2> SUFFICES ASSUME i + 1 <= n PROVE G[1..(i + 1)] = f[i + 1]
    OBVIOUS
  <2>1. i + 1 \in 1..n /\ i \in 0..n /\ (i + 1) - 1 = i /\ G[1..i] = f[i]
    BY <1>1, <1>10
  <2>2. /\ 1..(i + 1) \in SUBSET (DOMAIN audio) /\ 1..(i + 1) # {} /\ Max(1..(i + 1)) = i + 1
        /\ (1..(i + 1)) \ {Max(1..(i + 1))} = 1..i
    BY <1>1, <2>1, PrefixPositions
  <2>3. G[1..(i + 1)] = VadFrame(f[i], audio[i + 1])
    BY <1>8, <2>1, <2>2
  <2>4. f[i + 1] = F[<<f[i], i + 1>>] /\ f[i] \in Hearings
    BY <1>5, <2>1 DEF Computes
  <2> QED BY <1>4, <2>1, <2>3, <2>4
<1> HIDE DEF T
<1>11. n \in T
  BY <1>1, <1>9, <1>10, SetInduction
<1>12. G[1..n] = f[n]
  BY <1>1, <1>11 DEF T
<1>13. ASSUME NEW i \in 1..n PROVE f[i] = VadFrame(f[i - 1], audio[i])
  <2>1. f[i] = F[<<f[i - 1], i>>] /\ f[i - 1] \in Hearings
    BY <1>1, <1>5 DEF Computes
  <2> QED BY <1>4, <2>1
<1> QED BY <1>2, <1>5, <1>12, <1>13 DEF Computes, n

\* What one emission does to the audio of the session.
LEMMA VadEmitFacts ==
  ASSUME NEW s \in Cuts, NEW emit \in Emits
  PROVE  LET r == HandleVadEmit(s, emit) IN
         /\ r \in Cuts
         /\ emit[1] = "started" => r = [s EXCEPT !.start = Least(emit[2], s.size)]
         /\ emit[1] = "stopped" /\ s.size > 0 /\ Least(emit[2], s.size) > s.start =>
              r = [start |-> 0, size |-> 0, vad |-> FreshVad, cut |-> Append(s.cut, <<s.start, Least(emit[2], s.size)>>)]
         /\ s.size = 0 /\ s.start = 0 => r = s
         /\ \/ r.cut = s.cut
            \/ \E e \in Nat : r = [start |-> 0, size |-> 0, vad |-> FreshVad, cut |-> Append(s.cut, <<s.start, e>>)]
<1> DEFINE r == HandleVadEmit(s, emit)
           end == Least(emit[2], s.size)
<1>1. /\ emit[1] \in {"started", "stopped"} /\ emit[2] \in Nat /\ s.size \in Nat /\ s.start \in Nat
      /\ s.vad \in Vads /\ s.cut \in Seq(Nat \X Nat)
      /\ s = [start |-> s.start, size |-> s.size, vad |-> s.vad, cut |-> s.cut]
  BY DEF Emits, Cuts
<1>2. end \in Nat /\ (s.size = 0 => end = 0)
  BY <1>1 DEF Least
<1>3. FreshVad \in Vads
  BY VadAssumption DEF FreshVad, Vads
<1>4. CASE emit[1] = "started"
  <2>1. r = [s EXCEPT !.start = end]
    BY <1>4 DEF HandleVadEmit
  <2>2. r = [start |-> end, size |-> s.size, vad |-> s.vad, cut |-> s.cut]
    BY <1>1, <2>1
  <2>3. r \in Cuts
    BY <1>1, <1>2, <2>2 DEF Cuts
  <2>4. (s.size = 0 /\ s.start = 0 => r = s) /\ r.cut = s.cut
    BY <1>1, <1>2, <2>2
  <2> QED BY <1>4, <2>1, <2>3, <2>4
<1>5. CASE emit[1] = "stopped" /\ (s.size = 0 \/ end <= s.start)
  <2>1. r = s
    BY <1>5 DEF HandleVadEmit
  <2> HIDE DEF end, r
  <2>2. ~(s.size > 0 /\ end > s.start)
    BY <1>1, <1>2, <1>5
  <2> QED BY <1>5, <2>1, <2>2 DEF end, r
<1>6. CASE emit[1] = "stopped" /\ ~(s.size = 0 \/ end <= s.start)
  <2>1. r = [start |-> 0, size |-> 0, vad |-> FreshVad, cut |-> Append(s.cut, <<s.start, end>>)]
    BY <1>6 DEF HandleVadEmit, VadReset
  <2>2. <<s.start, end>> \in Nat \X Nat
    BY <1>1, <1>2
  <2> HIDE DEF end, r
  <2>3. Append(s.cut, <<s.start, end>>) \in Seq(Nat \X Nat)
    BY <1>1, <2>2
  <2>4. r \in Cuts
    BY <1>3, <2>1, <2>3 DEF Cuts
  <2> QED BY <1>2, <1>6, <2>1, <2>4 DEF end, r
<1> QED BY <1>1, <1>4, <1>5, <1>6

\* The fold over the emissions, one by one.
LEMMA EmitsCompute ==
  ASSUME NEW s \in Cuts, NEW emits \in Seq(Emits)
  PROVE  \E f \in [0..Len(emits) -> Cuts] :
           /\ f[0] = s /\ FoldLeft(HandleVadEmit, s, emits) = f[Len(emits)]
           /\ \A i \in 1..Len(emits) : f[i] = HandleVadEmit(f[i - 1], emits[i])
<1> DEFINE n == Len(emits)
           F == [p \in Cuts \X (1..n) |-> HandleVadEmit(p[1], emits[p[2]])]
           G == CHOOSE g : g = [t \in SUBSET (DOMAIN emits) |->
                                 IF t = {} THEN s ELSE HandleVadEmit(g[t \ {Max(t)}], emits[Max(t)])]
<1>1. n \in Nat /\ DOMAIN emits = 1..n /\ \A i \in 1..n : emits[i] \in Emits
  OBVIOUS
<1>2. FoldLeft(HandleVadEmit, s, emits) = G[1..n]
  BY <1>1 DEF FoldLeft, MapThenFoldSet
<1>3. \A v \in Cuts, i \in 1..n : HandleVadEmit(v, emits[i]) \in Cuts
  BY <1>1, VadEmitFacts
<1>4. /\ F \in [Cuts \X (1..n) -> Cuts]
      /\ \A v \in Cuts, i \in 1..n : F[<<v, i>>] = HandleVadEmit(v, emits[i])
  BY <1>3
<1> HIDE DEF F, n
<1>5. PICK f : Computes(f, n, Cuts, s, F)
  BY <1>1, <1>4, ComputationExists
<1>6. PICK g : Folds(g, n, Cuts, s, F)
  BY <1>1, <1>4, FoldExists
<1>7. g = [t \in SUBSET (DOMAIN emits) |->
            IF t = {} THEN s ELSE HandleVadEmit(g[t \ {Max(t)}], emits[Max(t)])]
  <2>1. ASSUME NEW t \in SUBSET (1..n), t # {} PROVE g[t] = HandleVadEmit(g[t \ {Max(t)}], emits[Max(t)])
    <3>1. Max(t) \in 1..n /\ g[t] = F[<<g[t \ {Max(t)}], Max(t)>>] /\ g[t \ {Max(t)}] \in Cuts
      BY <1>6, <2>1 DEF Folds
    <3> QED BY <1>4, <3>1
  <2> QED BY <1>1, <1>6, <2>1 DEF Folds
<1>8. G = [t \in SUBSET (DOMAIN emits) |->
            IF t = {} THEN s ELSE HandleVadEmit(G[t \ {Max(t)}], emits[Max(t)])]
  BY <1>7
<1> HIDE DEF G
<1> DEFINE T == {i \in Nat : i <= n => G[1..i] = f[i]}
<1>9. 0 \in T
  <2>1. 1..0 = {} /\ {} \in SUBSET (DOMAIN emits) /\ f[0] = s
    BY <1>1, <1>5, PrefixPositions DEF Computes
  <2> QED BY <1>8, <2>1
<1>10. ASSUME NEW i \in Nat, i \in T PROVE i + 1 \in T
  <2> SUFFICES ASSUME i + 1 <= n PROVE G[1..(i + 1)] = f[i + 1]
    OBVIOUS
  <2>1. i + 1 \in 1..n /\ i \in 0..n /\ (i + 1) - 1 = i /\ G[1..i] = f[i]
    BY <1>1, <1>10
  <2>2. /\ 1..(i + 1) \in SUBSET (DOMAIN emits) /\ 1..(i + 1) # {} /\ Max(1..(i + 1)) = i + 1
        /\ (1..(i + 1)) \ {Max(1..(i + 1))} = 1..i
    BY <1>1, <2>1, PrefixPositions
  <2>3. G[1..(i + 1)] = HandleVadEmit(f[i], emits[i + 1])
    BY <1>8, <2>1, <2>2
  <2>4. f[i + 1] = F[<<f[i], i + 1>>] /\ f[i] \in Cuts
    BY <1>5, <2>1 DEF Computes
  <2> QED BY <1>4, <2>1, <2>3, <2>4
<1> HIDE DEF T
<1>11. n \in T
  BY <1>1, <1>9, <1>10, SetInduction
<1>12. G[1..n] = f[n]
  BY <1>1, <1>11 DEF T
<1>13. ASSUME NEW i \in 1..n PROVE f[i] = HandleVadEmit(f[i - 1], emits[i])
  <2>1. f[i] = F[<<f[i - 1], i>>] /\ f[i - 1] \in Cuts
    BY <1>1, <1>5 DEF Computes
  <2> QED BY <1>4, <2>1
<1> QED BY <1>2, <1>5, <1>12, <1>13 DEF Computes, n

\* an utterance goes on from st in the frames snd received so far
Hears(snd, v, st) ==
  /\ v.speech /\ st < v.last /\ v.last <= v.consumed
  /\ \A q \in 1..v.consumed : snd[origin + q] => st < q /\ q <= v.last

Silent(snd, v) == ~v.speech /\ \A q \in 1..v.consumed : ~snd[origin + q]

\* no speech is in front of the utterance from st to e
Utters(snd, st, e) == st < e /\ \A q \in 1..e : snd[origin + q] => st < q

\* what was emitted and what was heard agree, up to the first end of an
\* utterance: what comes behind that is dropped with the buffer
HearOK(snd, acc) ==
  \/ acc.emits = <<>> /\ (Hears(snd, acc.vad, start) \/ Silent(snd, acc.vad))
  \/ \E st \in Nat : acc.emits = <<<<"started", st>>>> /\ Hears(snd, acc.vad, st)
  \/ \E st, e \in Nat :
       /\ Utters(snd, st, e) /\ e <= acc.vad.consumed
       /\ \/ Len(acc.emits) >= 1 /\ acc.emits[1] = <<"stopped", e>> /\ st = start
          \/ Len(acc.emits) >= 2 /\ acc.emits[1] = <<"started", st>> /\ acc.emits[2] = <<"stopped", e>>

LEMMA HearStep ==
  ASSUME NEW snd, NEW acc \in Hearings, NEW x \in BOOLEAN, start \in Nat, HearOK(snd, acc),
         snd[origin + (acc.vad.consumed + 1)] = x
  PROVE  HearOK(snd, VadFrame(acc, x))
<1> DEFINE r == VadFrame(acc, x)
           v == acc.vad
           c == v.consumed + 1
<1>1. /\ r \in Hearings /\ r.vad.consumed = c /\ c \in Nat
      /\ x => /\ r.vad.speech /\ r.vad.last = c
              /\ acc.vad.speech => r.emits = acc.emits
              /\ ~acc.vad.speech => \E from \in Nat : from < c /\ r.emits = Append(acc.emits, <<"started", from>>)
      /\ ~x => /\ r.vad.last = acc.vad.last
               /\ ~acc.vad.speech => ~r.vad.speech /\ r.emits = acc.emits
               /\ acc.vad.speech =>
                    \/ r.vad.speech /\ r.emits = acc.emits
                    \/ ~r.vad.speech /\ r.emits = Append(acc.emits, <<"stopped", acc.vad.last>>)
  BY VadFrameFacts
<1>2. /\ v.consumed \in Nat /\ v.last \in Nat /\ acc.emits \in Seq(Emits) /\ c = v.consumed + 1
      /\ \A q \in 1..c : q = c \/ q \in 1..v.consumed
      /\ \A q \in 1..v.consumed : q < c
  BY DEF Hearings, Vads
<1>3. snd[origin + c] <=> x
  BY Zenon
<1> HIDE DEF r, c
<1>4. ASSUME NEW st \in Nat, Hears(snd, v, st), r.emits = acc.emits
      PROVE  Hears(snd, r.vad, st)
  <2>1. CASE x
    BY <1>1, <1>2, <1>4, <2>1 DEF Hears
  <2>2. CASE ~x
    <3>1. r.vad.speech
      <4>1. Append(acc.emits, <<"stopped", v.last>>) # acc.emits
        <5>1. <<"stopped", v.last>> \in Emits
          BY <1>2 DEF Emits
        <5> QED BY <1>2, <5>1
      <4> QED BY <1>1, <1>4, <2>2, <4>1 DEF Hears
    <3>2. \A q \in 1..c : snd[origin + q] => st < q /\ q <= v.last
      BY <1>2, <1>3, <1>4, <2>2 DEF Hears
    <3> QED BY <1>1, <1>2, <1>4, <2>2, <3>1, <3>2 DEF Hears
  <2> QED BY <2>1, <2>2
<1>5. ASSUME NEW st \in Nat, Hears(snd, v, st), r.emits # acc.emits
      PROVE  /\ r.emits = Append(acc.emits, <<"stopped", v.last>>)
             /\ Utters(snd, st, v.last) /\ v.last <= r.vad.consumed
  <2>1. ~x /\ r.emits = Append(acc.emits, <<"stopped", v.last>>) /\ v.last <= v.consumed /\ st < v.last
    BY <1>1, <1>5 DEF Hears
  <2>2. \A q \in 1..v.last : q \in 1..v.consumed
    BY <1>2, <2>1
  <2> QED BY <1>1, <1>2, <1>5, <2>1, <2>2 DEF Hears, Utters
<1>6. CASE acc.emits = <<>> /\ Hears(snd, v, start)
  <2>1. CASE r.emits = acc.emits
    BY <1>4, <1>6, <2>1 DEF HearOK, r
  <2>2. CASE r.emits # acc.emits
    <3>1. r.emits = <<<<"stopped", v.last>>>> /\ Utters(snd, start, v.last) /\ v.last <= r.vad.consumed
      BY <1>5, <1>6, <2>2
    <3>2. Len(r.emits) >= 1 /\ r.emits[1] = <<"stopped", v.last>>
      BY <3>1
    <3> QED BY <1>2, <3>1, <3>2 DEF HearOK, r
  <2> QED BY <2>1, <2>2
<1>7. CASE acc.emits = <<>> /\ Silent(snd, v)
  <2>1. CASE x
    <3>1. PICK from \in Nat : from < c /\ r.emits = Append(acc.emits, <<"started", from>>)
      BY <1>1, <1>7, <2>1 DEF Silent
    <3>2. r.emits = <<<<"started", from>>>>
      BY <1>7, <3>1
    <3>3. Hears(snd, r.vad, from)
      BY <1>1, <1>2, <1>7, <2>1, <3>1 DEF Hears, Silent
    <3> QED BY <3>2, <3>3 DEF HearOK, r
  <2>2. CASE ~x
    <3>1. ~r.vad.speech /\ r.emits = <<>>
      BY <1>1, <1>7, <2>2 DEF Silent
    <3>2. \A q \in 1..c : ~snd[origin + q]
      BY <1>2, <1>3, <1>7, <2>2 DEF Silent
    <3> QED BY <1>1, <3>1, <3>2 DEF HearOK, Silent, r
  <2> QED BY <2>1, <2>2
<1>8. ASSUME NEW st \in Nat, acc.emits = <<<<"started", st>>>>, Hears(snd, v, st)
      PROVE  HearOK(snd, r)
  <2>1. CASE r.emits = acc.emits
    BY <1>4, <1>8, <2>1 DEF HearOK
  <2>2. CASE r.emits # acc.emits
    <3>1. /\ r.emits = Append(<<<<"started", st>>>>, <<"stopped", v.last>>)
          /\ Utters(snd, st, v.last) /\ v.last <= r.vad.consumed
      BY <1>5, <1>8, <2>2
    <3>2. Len(r.emits) >= 2 /\ r.emits[1] = <<"started", st>> /\ r.emits[2] = <<"stopped", v.last>>
      BY <3>1
    <3> QED BY <1>2, <3>1, <3>2 DEF HearOK
  <2> QED BY <2>1, <2>2
<1>9. ASSUME NEW st \in Nat, NEW e \in Nat, Utters(snd, st, e), e <= v.consumed,
             \/ Len(acc.emits) >= 1 /\ acc.emits[1] = <<"stopped", e>> /\ st = start
             \/ Len(acc.emits) >= 2 /\ acc.emits[1] = <<"started", st>> /\ acc.emits[2] = <<"stopped", e>>
      PROVE  HearOK(snd, r)
  <2>1. r.emits = acc.emits \/ \E y \in Emits : r.emits = Append(acc.emits, y)
    <3>1. \A from \in Nat : <<"started", from>> \in Emits /\ <<"stopped", from>> \in Emits
      BY DEF Emits
    <3>2. x \in BOOLEAN /\ acc.vad.speech \in BOOLEAN
      BY DEF Hearings, Vads
    <3> QED BY <1>1, <1>2, <3>1, <3>2
  <2>2. Len(r.emits) >= Len(acc.emits) /\ \A i \in 1..Len(acc.emits) : r.emits[i] = acc.emits[i]
    BY <1>2, <2>1
  <2>3. e <= r.vad.consumed
    BY <1>1, <1>2, <1>9
  <2>4. \/ Len(r.emits) >= 1 /\ r.emits[1] = <<"stopped", e>> /\ st = start
        \/ Len(r.emits) >= 2 /\ r.emits[1] = <<"started", st>> /\ r.emits[2] = <<"stopped", e>>
    <3>1. Len(r.emits) \in Nat /\ Len(acc.emits) \in Nat
      BY <1>1, <1>2 DEF Hearings
    <3> QED BY <1>9, <2>2, <3>1
  <2> QED BY <1>9, <2>3, <2>4 DEF HearOK
<1> QED BY <1>6, <1>7, <1>8, <1>9 DEF HearOK, r

\* Once the buffer is dropped nothing more happens to the session's audio.
LEMMA EmitsAfterCut ==
  ASSUME NEW emits \in Seq(Emits), NEW h \in [0..Len(emits) -> Cuts],
         \A i \in 1..Len(emits) : h[i] = HandleVadEmit(h[i - 1], emits[i]),
         NEW k \in 0..Len(emits), h[k].size = 0, h[k].start = 0
  PROVE  h[Len(emits)] = h[k]
<1> DEFINE T == {i \in Nat : k <= i /\ i <= Len(emits) => h[i] = h[k]}
<1>1. 0 \in T
  OBVIOUS
<1>2. ASSUME NEW i \in Nat, i \in T PROVE i + 1 \in T
  <2> SUFFICES ASSUME k <= i + 1, i + 1 <= Len(emits), i + 1 # k PROVE h[i + 1] = h[k]
    OBVIOUS
  <2>1. h[i] = h[k] /\ i \in 0..Len(emits) /\ i + 1 \in 1..Len(emits) /\ (i + 1) - 1 = i
    BY <1>2
  <2>2. h[i] \in Cuts /\ emits[i + 1] \in Emits /\ h[i].size = 0 /\ h[i].start = 0
    BY <2>1
  <2>3. HandleVadEmit(h[i], emits[i + 1]) = h[i]
    BY <2>2, VadEmitFacts
  <2> QED BY <2>1, <2>3
<1> HIDE DEF T
<1>3. Len(emits) \in T
  BY <1>1, <1>2, SetInduction
<1> QED BY <1>3 DEF T

\* An utterance ends with the k-th emission: it is cut out of the buffer.
LEMMA EmitsCut ==
  ASSUME NEW emits \in Seq(Emits), NEW h \in [0..Len(emits) -> Cuts],
         \A i \in 1..Len(emits) : h[i] = HandleVadEmit(h[i - 1], emits[i]),
         NEW k \in 1..Len(emits), NEW e \in Nat, emits[k] = <<"stopped", e>>,
         h[k - 1].start < e, e <= h[k - 1].size, h[k - 1].cut = <<>>
  PROVE  h[Len(emits)] = [start |-> 0, size |-> 0, vad |-> FreshVad, cut |-> <<<<h[k - 1].start, e>>>>]
<1> DEFINE s == h[k - 1]
<1>1. s \in Cuts /\ emits[k] \in Emits /\ emits[k][1] = "stopped" /\ emits[k][2] = e
  <2>1. Len(emits) \in Nat
    OBVIOUS
  <2>2. k - 1 \in 0..Len(emits)
    BY <2>1
  <2>3. emits[k] \in Emits
    BY DEF Emits
  <2>4. emits[k][1] = "stopped" /\ emits[k][2] = e
    OBVIOUS
  <2> QED BY <2>2, <2>3, <2>4
<1>2. s.size \in Nat /\ s.start \in Nat /\ s.size > 0
  BY <1>1 DEF Cuts
<1> HIDE DEF s
<1>3. Least(emits[k][2], s.size) = e /\ Least(emits[k][2], s.size) > s.start
  BY <1>1, <1>2 DEF Least, s
<1>4. HandleVadEmit(s, emits[k]) =
        [start |-> 0, size |-> 0, vad |-> FreshVad, cut |-> Append(s.cut, <<s.start, Least(emits[k][2], s.size)>>)]
  BY <1>1, <1>2, <1>3, VadEmitFacts
<1>5. h[k] = [start |-> 0, size |-> 0, vad |-> FreshVad, cut |-> <<<<s.start, e>>>>]
  <2>1. s.cut = <<>> /\ Append(<<>>, <<s.start, e>>) = <<<<s.start, e>>>>
    BY DEF s
  <2>2. h[k] = HandleVadEmit(s, emits[k])
    BY DEF s
  <2> QED BY <1>3, <1>4, <2>1, <2>2
<1>6. h[k].size = 0 /\ h[k].start = 0 /\ k \in 0..Len(emits)
  BY <1>5
<1>7. h[Len(emits)] = h[k]
  BY <1>6, EmitsAfterCut
<1> QED BY <1>5, <1>7 DEF s

\* What the emissions of one append make of the session's audio.
LEMMA EmitsResult ==
  ASSUME NEW snd, NEW acc \in Hearings, HearOK(snd, acc), start \in Nat,
         NEW s, s = FoldLeft(HandleVadEmit,
                             [start |-> start, size |-> acc.vad.consumed, vad |-> acc.vad, cut |-> <<>>],
                             acc.emits)
  PROVE  \/ /\ s.cut = <<>> /\ s.vad = acc.vad /\ s.start \in Nat
            /\ Hears(snd, s.vad, s.start) \/ Silent(snd, s.vad)
         \/ \E st, e \in Nat :
              /\ s = [start |-> 0, size |-> 0, vad |-> FreshVad, cut |-> <<<<st, e>>>>]
              /\ Utters(snd, st, e) /\ e <= acc.vad.consumed
<1> DEFINE s0 == [start |-> start, size |-> acc.vad.consumed, vad |-> acc.vad, cut |-> <<>>]
           n == Len(acc.emits)
<1>1. acc.emits \in Seq(Emits) /\ n \in Nat /\ acc.vad.consumed \in Nat /\ acc.vad \in Vads
  BY DEF Hearings, Vads
<1>2. s0 \in Cuts
  <2>1. <<>> \in Seq(Nat \X Nat)
    OBVIOUS
  <2> QED BY <1>1, <2>1 DEF Cuts
<1>3. s0.start = start /\ s0.size = acc.vad.consumed /\ s0.vad = acc.vad /\ s0.cut = <<>>
  OBVIOUS
<1> HIDE DEF s0, n
<1>4. PICK h \in [0..n -> Cuts] :
        /\ h[0] = s0 /\ s = h[n]
        /\ \A i \in 1..n : h[i] = HandleVadEmit(h[i - 1], acc.emits[i])
  BY <1>1, <1>2, EmitsCompute DEF s0, n
<1>5. CASE acc.emits = <<>> /\ (Hears(snd, acc.vad, start) \/ Silent(snd, acc.vad))
  <2>1. s = s0
    BY <1>4, <1>5 DEF n
  <2> QED BY <1>3, <1>5, <2>1
<1>6. ASSUME NEW st \in Nat, n >= 1, acc.emits[1] = <<"started", st>>, st < acc.vad.consumed
      PROVE  h[1].start = st /\ h[1].size = acc.vad.consumed /\ h[1].vad = acc.vad /\ h[1].cut = <<>>
  <2>1. 1 \in 1..n /\ acc.emits[1] \in Emits /\ acc.emits[1][1] = "started" /\ acc.emits[1][2] = st /\ 1 - 1 = 0
    BY <1>1, <1>6 DEF n
  <2>2. Least(st, s0.size) = st
    BY <1>3, <1>6 DEF Least
  <2>3. h[1] = [s0 EXCEPT !.start = st]
    BY <1>2, <1>4, <2>1, <2>2, VadEmitFacts
  <2> QED BY <1>2, <1>3, <2>3 DEF Cuts
<1>7. ASSUME NEW st \in Nat, acc.emits = <<<<"started", st>>>>, Hears(snd, acc.vad, st)
      PROVE  /\ s.cut = <<>> /\ s.vad = acc.vad /\ s.start \in Nat
             /\ Hears(snd, s.vad, s.start)
  <2>1. n = 1 /\ acc.emits[1] = <<"started", st>>
    BY <1>7 DEF n
  <2>2. st < acc.vad.consumed
    BY <1>1, <1>7 DEF Hears, Vads
  <2>3. h[1].start = st /\ h[1].size = acc.vad.consumed /\ h[1].vad = acc.vad /\ h[1].cut = <<>>
    BY <1>6, <2>1, <2>2
  <2> QED BY <1>4, <1>7, <2>1, <2>3
<1>8. ASSUME NEW st \in Nat, NEW e \in Nat, Utters(snd, st, e), e <= acc.vad.consumed,
             \/ n >= 1 /\ acc.emits[1] = <<"stopped", e>> /\ st = start
             \/ n >= 2 /\ acc.emits[1] = <<"started", st>> /\ acc.emits[2] = <<"stopped", e>>
      PROVE  s = [start |-> 0, size |-> 0, vad |-> FreshVad, cut |-> <<<<st, e>>>>]
  <2>1. st < e /\ h \in [0..Len(acc.emits) -> Cuts] /\ s = h[Len(acc.emits)]
    BY <1>4, <1>8 DEF Utters, n
  <2>2. \A i \in 1..Len(acc.emits) : h[i] = HandleVadEmit(h[i - 1], acc.emits[i])
    BY <1>4 DEF n
  <2>3. CASE n >= 1 /\ acc.emits[1] = <<"stopped", e>> /\ st = start
    <3>1. 1 \in 1..n /\ 1 - 1 = 0
      BY <1>1, <2>3
    <3>2. h[0].start < e /\ e <= h[0].size /\ h[0].cut = <<>> /\ h[0].start = st
      BY <1>3, <1>4, <1>8, <2>1, <2>3
    <3>3. h[1 - 1].start < e /\ e <= h[1 - 1].size /\ h[1 - 1].cut = <<>> /\ h[1 - 1].start = st
      BY <3>1, <3>2
    <3>4. 1 \in 1..Len(acc.emits)
      BY <3>1 DEF n
    <3>5. s = [start |-> 0, size |-> 0, vad |-> FreshVad, cut |-> <<<<h[1 - 1].start, e>>>>]
      BY <1>1, <2>1, <2>2, <2>3, <3>3, <3>4, EmitsCut
    <3> QED BY <3>3, <3>5
  <2>4. CASE n >= 2 /\ acc.emits[1] = <<"started", st>> /\ acc.emits[2] = <<"stopped", e>>
    <3>1. n >= 1 /\ 2 \in 1..n /\ 2 - 1 = 1 /\ st < acc.vad.consumed
      BY <1>1, <1>8, <2>1, <2>4
    <3>2. h[1].start = st /\ h[1].size = acc.vad.consumed /\ h[1].cut = <<>>
      BY <1>6, <2>4, <3>1
    <3>3. h[2 - 1].start < e /\ e <= h[2 - 1].size /\ h[2 - 1].cut = <<>> /\ h[2 - 1].start = st
      BY <1>8, <2>1, <3>1, <3>2
    <3>4. 2 \in 1..Len(acc.emits)
      BY <3>1 DEF n
    <3>5. s = [start |-> 0, size |-> 0, vad |-> FreshVad, cut |-> <<<<h[2 - 1].start, e>>>>]
      BY <1>1, <2>1, <2>2, <2>4, <3>3, <3>4, EmitsCut
    <3> QED BY <3>3, <3>5
  <2> QED BY <1>8, <2>3, <2>4
<1> QED BY <1>5, <1>7, <1>8 DEF HearOK, n

\* the buffer and the detector agree, unless the detector has heard the
\* buffer again
AudioOK ==
  /\ frames \in Seq(BOOLEAN) /\ origin \in 0..Len(frames) /\ start \in Nat /\ vad \in Vads
  /\ skewed \in BOOLEAN
  /\ ~skewed => /\ vad.consumed = Len(frames) - origin
                /\ Hears(frames, vad, start) \/ Silent(frames, vad)

\* What the detector has heard after an append.
LEMMA AppendHears ==
  ASSUME AudioOK, ~skewed, NEW audio \in Seq(BOOLEAN),
         NEW heard, heard = FoldLeft(VadFrame, [vad |-> vad, emits |-> <<>>], audio)
  PROVE  /\ heard \in Hearings /\ heard.vad.consumed = Len(frames) - origin + Len(audio)
         /\ HearOK(frames \o audio, heard)
<1> DEFINE acc == [vad |-> vad, emits |-> <<>>]
           snd == frames \o audio
           b == Len(frames) - origin
           n == Len(audio)
<1>1. /\ b \in Nat /\ n \in Nat /\ Len(frames) \in Nat /\ origin \in Nat /\ origin + b = Len(frames)
      /\ start \in Nat
  BY DEF AudioOK
<1>2. acc \in Hearings /\ acc.vad = vad /\ acc.emits = <<>>
  <2>1. <<>> \in Seq(Emits)
    OBVIOUS
  <2> QED BY <2>1 DEF AudioOK, Hearings
<1>3. /\ \A q \in 1..Len(frames) : snd[q] = frames[q]
      /\ \A i \in 1..n : snd[Len(frames) + i] = audio[i] /\ audio[i] \in BOOLEAN
  BY DEF AudioOK
<1> HIDE DEF acc, snd, b, n
<1>4. PICK f \in [0..n -> Hearings] :
        /\ f[0] = acc /\ heard = f[n]
        /\ \A i \in 1..n : f[i] = VadFrame(f[i - 1], audio[i])
  BY <1>2, VadComputes DEF acc, n
<1> DEFINE T == {i \in Nat : i <= n => f[i].vad.consumed = b + i /\ HearOK(snd, f[i])}
<1>5. 0 \in T
  <2>1. vad.consumed = b /\ \A q \in 1..b : snd[origin + q] = frames[origin + q]
    <3>1. \A q \in 1..b : origin + q \in 1..Len(frames)
      BY <1>1
    <3> QED BY <1>3, <3>1 DEF AudioOK, b
  <2>2. Hears(snd, vad, start) \/ Silent(snd, vad)
    BY <2>1 DEF AudioOK, Hears, Silent
  <2> QED BY <1>1, <1>2, <1>4, <2>1, <2>2 DEF HearOK
<1>6. ASSUME NEW i \in Nat, i \in T PROVE i + 1 \in T
  <2> SUFFICES ASSUME i + 1 <= n PROVE f[i + 1].vad.consumed = b + (i + 1) /\ HearOK(snd, f[i + 1])
    OBVIOUS
  <2>1. /\ i \in 0..n /\ i + 1 \in 1..n /\ (i + 1) - 1 = i /\ f[i] \in Hearings
        /\ f[i].vad.consumed = b + i /\ HearOK(snd, f[i])
    BY <1>1, <1>6
  <2>2. f[i + 1] = VadFrame(f[i], audio[i + 1])
    BY <1>4, <2>1
  <2>3. origin + (f[i].vad.consumed + 1) = Len(frames) + (i + 1)
    BY <1>1, <2>1
  <2>4. snd[origin + (f[i].vad.consumed + 1)] = audio[i + 1] /\ audio[i + 1] \in BOOLEAN
    BY <1>3, <2>1, <2>3
  <2>5. HearOK(snd, f[i + 1])
    BY <1>1, <2>1, <2>2, <2>4, HearStep
  <2>6. f[i + 1].vad.consumed = f[i].vad.consumed + 1
    BY <2>1, <2>2, <2>4, VadFrameFacts
  <2> QED BY <1>1, <2>1, <2>5, <2>6
<1> HIDE DEF T
<1>7. n \in T
  BY <1>1, <1>5, <1>6, SetInduction
<1>8. heard.vad.consumed = b + n /\ HearOK(snd, heard) /\ heard \in Hearings
  BY <1>1, <1>4, <1>7 DEF T
<1> QED BY <1>8 DEF b, n, snd

\* handle_audio_append: no utterance is complete, or one is and is cut out
\* with no speech before it.
LEMMA AppendResult ==
  ASSUME AudioOK, ~skewed, NEW audio \in Seq(BOOLEAN), NEW size, size = Len(frames) - origin + Len(audio),
         NEW heard, heard = FoldLeft(VadFrame, [vad |-> vad, emits |-> <<>>], audio),
         NEW s, s = FoldLeft(HandleVadEmit,
                             [start |-> start, size |-> size, vad |-> heard.vad, cut |-> <<>>], heard.emits)
  PROVE  \/ /\ s.cut = <<>> /\ s.vad \in Vads /\ s.vad.consumed = size /\ s.start \in Nat
            /\ Hears(frames \o audio, s.vad, s.start) \/ Silent(frames \o audio, s.vad)
         \/ \E st, e \in Nat :
              /\ s = [start |-> 0, size |-> 0, vad |-> FreshVad, cut |-> <<<<st, e>>>>]
              /\ Utters(frames \o audio, st, e) /\ e <= size
<1>1. /\ heard \in Hearings /\ heard.vad.consumed = size /\ HearOK(frames \o audio, heard)
      /\ start \in Nat /\ heard.vad \in Vads
  BY AppendHears DEF AudioOK, Hearings
<1> DEFINE snd == frames \o audio
<1>2. s = FoldLeft(HandleVadEmit,
                   [start |-> start, size |-> heard.vad.consumed, vad |-> heard.vad, cut |-> <<>>], heard.emits)
  BY <1>1
<1>3. HearOK(snd, heard)
  BY <1>1
<1> HIDE DEF snd
<1>4. \/ /\ s.cut = <<>> /\ s.vad = heard.vad /\ s.start \in Nat
         /\ Hears(snd, s.vad, s.start) \/ Silent(snd, s.vad)
      \/ \E st, e \in Nat :
           /\ s = [start |-> 0, size |-> 0, vad |-> FreshVad, cut |-> <<<<st, e>>>>]
           /\ Utters(snd, st, e) /\ e <= heard.vad.consumed
  <2>1. heard \in Hearings /\ start \in Nat
    BY <1>1
  <2> QED BY <1>2, <1>3, <2>1, EmitsResult
<1> QED BY <1>1, <1>4 DEF snd

\* Whatever the detector is given, it hears something.
LEMMA HeardAny ==
  ASSUME vad \in Vads, NEW fed \in Seq(BOOLEAN),
         NEW heard, heard = FoldLeft(VadFrame, [vad |-> vad, emits |-> <<>>], fed)
  PROVE  heard \in Hearings
<1> DEFINE acc == [vad |-> vad, emits |-> <<>>]
<1>1. acc \in Hearings
  <2>1. <<>> \in Seq(Emits)
    OBVIOUS
  <2> QED BY <2>1 DEF Hearings
<1> HIDE DEF acc
<1>2. PICK f \in [0..Len(fed) -> Hearings] : FoldLeft(VadFrame, acc, fed) = f[Len(fed)]
  BY <1>1, VadComputes
<1>3. Len(fed) \in 0..Len(fed)
  OBVIOUS
<1> QED BY <1>2, <1>3 DEF acc

\* Whatever it has heard, at most one utterance is cut out, and with it the
\* buffer is dropped.
LEMMA EmitsAny ==
  ASSUME NEW s0 \in Cuts, s0.cut = <<>>, NEW emits \in Seq(Emits),
         NEW s, s = FoldLeft(HandleVadEmit, s0, emits)
  PROVE  \/ s.cut = <<>> /\ s.vad \in Vads /\ s.start \in Nat
         \/ \E st, e \in Nat : s = [start |-> 0, size |-> 0, vad |-> FreshVad, cut |-> <<<<st, e>>>>]
<1> DEFINE Dropped(c) == \E st, e \in Nat :
                           c = [start |-> 0, size |-> 0, vad |-> FreshVad, cut |-> <<<<st, e>>>>]
           n == Len(emits)
<1>1. n \in Nat
  OBVIOUS
<1> HIDE DEF Dropped, n
<1>2. PICK h \in [0..n -> Cuts] :
        /\ h[0] = s0 /\ s = h[n]
        /\ \A i \in 1..n : h[i] = HandleVadEmit(h[i - 1], emits[i])
  BY EmitsCompute DEF n
<1> DEFINE T == {i \in Nat : i <= n => h[i].cut = <<>> \/ Dropped(h[i])}
<1>3. 0 \in T
  BY <1>1, <1>2
<1>4. ASSUME NEW i \in Nat, i \in T PROVE i + 1 \in T
  <2> SUFFICES ASSUME i + 1 <= n PROVE h[i + 1].cut = <<>> \/ Dropped(h[i + 1])
    OBVIOUS
  <2>1. i \in 0..n /\ i + 1 \in 1..n /\ (i + 1) - 1 = i /\ (h[i].cut = <<>> \/ Dropped(h[i]))
    BY <1>1, <1>4
  <2> DEFINE y == emits[i + 1]
  <2>2. h[i] \in Cuts /\ y \in Emits /\ h[i + 1] = HandleVadEmit(h[i], y)
    <3>1. y \in Emits
      BY <2>1 DEF n
    <3>2. h[(i + 1) - 1] = h[i]
      BY <2>1
    <3> QED BY <1>2, <2>1, <3>1, <3>2
  <2> HIDE DEF y
  <2>3. CASE Dropped(h[i])
    <3>1. h[i].size = 0 /\ h[i].start = 0
      BY <2>3 DEF Dropped
    <3>2. h[i + 1] = h[i]
      BY <2>2, <3>1, VadEmitFacts
    <3> QED BY <2>3, <3>2
  <2>4. CASE h[i].cut = <<>>
    <3>1. \/ h[i + 1].cut = h[i].cut
          \/ \E e \in Nat : h[i + 1] = [start |-> 0, size |-> 0, vad |-> FreshVad,
                                        cut |-> Append(h[i].cut, <<h[i].start, e>>)]
      <4>1. LET q == HandleVadEmit(h[i], y) IN
            \/ q.cut = h[i].cut
            \/ \E e \in Nat : q = [start |-> 0, size |-> 0, vad |-> FreshVad,
                                   cut |-> Append(h[i].cut, <<h[i].start, e>>)]
        BY <2>2, VadEmitFacts
      <4> QED BY <2>2, <4>1
    <3>2. h[i].start \in Nat
      BY <2>2 DEF Cuts
    <3>3. ASSUME NEW e \in Nat, h[i + 1] = [start |-> 0, size |-> 0, vad |-> FreshVad,
                                            cut |-> Append(h[i].cut, <<h[i].start, e>>)]
          PROVE  Dropped(h[i + 1])
      <4>1. Append(h[i].cut, <<h[i].start, e>>) = <<<<h[i].start, e>>>>
        BY <2>4
      <4> QED BY <3>2, <3>3, <4>1 DEF Dropped
    <3> QED BY <2>4, <3>1, <3>3
  <2> QED BY <2>1, <2>3, <2>4
<1> HIDE DEF T
<1>5. n \in T
  BY <1>1, <1>3, <1>4, SetInduction
<1>6. s \in Cuts /\ (s.cut = <<>> \/ Dropped(s))
  BY <1>1, <1>2, <1>5 DEF T
<1> QED BY <1>6 DEF Dropped, Cuts
-----------------------------------------------------------------------------
(***************************************************************************)
(* Turns: one drainer, one turn at a time, in the order of the commits.    *)
(***************************************************************************)

Roles == {"user", "assistant"}
Requests == {"none", "running", "finished", "failed", "aborted"}
TurnRecs == [from : Nat, to : Nat, st : TurnStates, held : BOOLEAN, req : Requests]

TurnShape ==
  /\ turns \in Seq(TurnRecs) /\ drainers \in {0, 1} /\ activeTask \in 0..Len(turns)

\* the turn under way is the one the drainer holds, and the active task; a
\* turn before one that was taken is over
TurnOK(i) ==
  /\ turns[i].st \in Under => turns[i].held
  /\ turns[i].held => /\ drainers = 1 /\ activeTask = i /\ turns[i].st # "queued" /\ run # "ended"
  /\ turns[i].req = "running" => turns[i].st \in {"response", "transcription"} \/ i \in abandoned
  /\ \A j \in 1..Len(turns) : i < j /\ turns[j].st # "queued" => turns[i].st # "queued" /\ ~turns[i].held

TalkShape ==
  talk \in Seq(Nat \X Roles) /\ \A k \in 1..Len(talk) : talk[k][1] \in 1..Len(turns)

TurnsInv ==
  /\ TurnShape /\ \A i \in 1..Len(turns) : TurnOK(i)
  /\ TalkShape /\ HistoryInOrder

\* one turn changes, and neither its place nor its utterance
Changed(i, st, req, held) ==
  /\ turns' \in Seq(TurnRecs) /\ Len(turns') = Len(turns)
  /\ \A j \in 1..Len(turns) : turns'[j].from = turns[j].from /\ turns'[j].to = turns[j].to
  /\ \A j \in 1..Len(turns) : j # i => turns'[j] = turns[j]
  /\ turns'[i].st = st /\ turns'[i].req = req /\ turns'[i].held = held

LEMMA ChangedBy ==
  ASSUME TurnShape, NEW i \in 1..Len(turns), NEW st \in TurnStates, NEW req \in Requests, NEW held \in BOOLEAN,
         turns' = [turns EXCEPT ![i] = [turns[i] EXCEPT !.st = st, !.req = req, !.held = held]]
  PROVE  Changed(i, st, req, held)
<1> DEFINE r == [turns[i] EXCEPT !.st = st, !.req = req, !.held = held]
<1>1. turns \in Seq(TurnRecs) /\ Len(turns) \in Nat /\ turns[i] \in TurnRecs
  BY DEF TurnShape
<1>2. /\ r \in TurnRecs /\ r.st = st /\ r.req = req /\ r.held = held
      /\ r.from = turns[i].from /\ r.to = turns[i].to
  BY <1>1 DEF TurnRecs
<1> HIDE DEF r
<1>3. turns' = [turns EXCEPT ![i] = r]
  BY DEF r
<1>4. turns' \in Seq(TurnRecs) /\ Len(turns') = Len(turns)
  BY <1>1, <1>2, <1>3
<1>5. turns'[i] = r /\ \A j \in 1..Len(turns) : j # i => turns'[j] = turns[j]
  <2>1. DOMAIN turns = 1..Len(turns)
    BY <1>1
  <2> QED BY <1>3, <2>1
<1> QED BY <1>2, <1>4, <1>5 DEF Changed

\* The steps of one turn.
LEMMA TurnSteps ==
  ASSUME TurnShape, NEW i \in 1..Len(turns)
  PROVE  /\ \A st \in TurnStates, req \in Requests : SetTurn(i, st, req) => Changed(i, st, req, turns[i].held)
         /\ \A req \in Requests : turns' = [turns EXCEPT ![i].req = req] => Changed(i, turns[i].st, req, turns[i].held)
         /\ turns' = [turns EXCEPT ![i].st = "created", ![i].held = TRUE] => Changed(i, "created", turns[i].req, TRUE)
         /\ turns' = [turns EXCEPT ![i].held = FALSE] => Changed(i, turns[i].st, turns[i].req, FALSE)
         /\ turns' = CancelAndAbort(i) =>
              Changed(i, "cancelled", IF turns[i].req = "running" THEN "aborted" ELSE turns[i].req, turns[i].held)
<1>1. /\ turns[i] \in TurnRecs /\ turns[i].st \in TurnStates /\ turns[i].req \in Requests
      /\ turns[i].held \in BOOLEAN /\ turns \in Seq(TurnRecs)
  <2>1. turns \in Seq(TurnRecs)
    BY DEF TurnShape
  <2>2. turns[i] \in TurnRecs
    BY <2>1
  <2> QED BY <2>1, <2>2 DEF TurnRecs
<1>2. ASSUME NEW st \in TurnStates, NEW req \in Requests, SetTurn(i, st, req)
      PROVE  Changed(i, st, req, turns[i].held)
  <2>1. turns' = [turns EXCEPT ![i] = [turns[i] EXCEPT !.st = st, !.req = req, !.held = turns[i].held]]
    BY <1>1, <1>2 DEF SetTurn, TurnRecs
  <2> QED BY <1>1, <2>1, ChangedBy
<1>3. ASSUME NEW req \in Requests, turns' = [turns EXCEPT ![i].req = req]
      PROVE  Changed(i, turns[i].st, req, turns[i].held)
  <2>1. turns' = [turns EXCEPT ![i] = [turns[i] EXCEPT !.st = turns[i].st, !.req = req, !.held = turns[i].held]]
    BY <1>1, <1>3 DEF TurnRecs
  <2> QED BY <1>1, <2>1, ChangedBy
<1>4. ASSUME turns' = [turns EXCEPT ![i].st = "created", ![i].held = TRUE]
      PROVE  Changed(i, "created", turns[i].req, TRUE)
  <2>1. turns' = [turns EXCEPT ![i] = [turns[i] EXCEPT !.st = "created", !.req = turns[i].req, !.held = TRUE]]
    BY <1>1, <1>4 DEF TurnRecs
  <2>2. "created" \in TurnStates /\ TRUE \in BOOLEAN
    BY DEF TurnStates
  <2> QED BY <1>1, <2>1, <2>2, ChangedBy
<1>5. ASSUME turns' = [turns EXCEPT ![i].held = FALSE]
      PROVE  Changed(i, turns[i].st, turns[i].req, FALSE)
  <2>1. turns' = [turns EXCEPT ![i] = [turns[i] EXCEPT !.st = turns[i].st, !.req = turns[i].req, !.held = FALSE]]
    BY <1>1, <1>5 DEF TurnRecs
  <2> QED BY <1>1, <2>1, ChangedBy
<1>6. ASSUME turns' = CancelAndAbort(i)
      PROVE  Changed(i, "cancelled", IF turns[i].req = "running" THEN "aborted" ELSE turns[i].req, turns[i].held)
  <2> DEFINE req == IF turns[i].req = "running" THEN "aborted" ELSE turns[i].req
  <2>1. turns' = [turns EXCEPT ![i] = [turns[i] EXCEPT !.st = "cancelled", !.req = req, !.held = turns[i].held]]
    BY <1>1, <1>6 DEF TurnRecs, CancelAndAbort
  <2>2. "cancelled" \in TurnStates /\ req \in Requests
    BY <1>1 DEF TurnStates, Requests
  <2> HIDE DEF req
  <2>3. Changed(i, "cancelled", req, turns[i].held)
    BY <1>1, <2>1, <2>2, ChangedBy
  <2> QED BY <2>3 DEF req
<1> QED BY <1>2, <1>3, <1>4, <1>5, <1>6

\* A step that finishes, fails or goes on with a turn, or takes the request
\* from it.
LEMMA TurnGoesOn ==
  ASSUME TurnsInv, NEW i \in 1..Len(turns), NEW st, NEW req, Changed(i, st, req, turns[i].held),
         UNCHANGED <<drainers, activeTask>>, abandoned \subseteq abandoned', run' = run \/ run' # "ended",
         st = "queued" <=> turns[i].st = "queued", st \in Under => turns[i].st \in Under,
         req = "running" => st \in {"response", "transcription"} \/ i \in abandoned'
  PROVE  TurnShape' /\ \A j \in 1..Len(turns') : TurnOK(j)'
<1>1. TurnShape' /\ Len(turns') = Len(turns)
  BY DEF TurnsInv, TurnShape, Changed
<1>2. \A j \in 1..Len(turns) : /\ turns'[j].held = turns[j].held
                               /\ turns'[j].st = "queued" <=> turns[j].st = "queued"
                               /\ turns'[j].st \in Under => turns[j].st \in Under
  BY DEF Changed
<1>3. ASSUME NEW j \in 1..Len(turns) PROVE TurnOK(j)'
  <2>1. TurnOK(j)
    BY DEF TurnsInv
  <2>2. turns'[j].st \in Under => turns'[j].held
    BY <1>2, <2>1 DEF TurnOK
  <2>3. turns'[j].held => drainers' = 1 /\ activeTask' = j /\ turns'[j].st # "queued" /\ run' # "ended"
    BY <1>2, <2>1 DEF TurnOK
  <2>4. turns'[j].req = "running" => turns'[j].st \in {"response", "transcription"} \/ j \in abandoned'
    BY <2>1 DEF TurnOK, Changed
  <2>5. ASSUME NEW k \in 1..Len(turns'), j < k, turns'[k].st # "queued"
        PROVE  turns'[j].st # "queued" /\ ~turns'[j].held
    BY <1>1, <1>2, <2>1, <2>5 DEF TurnOK
  <2> QED BY <2>2, <2>3, <2>4, <2>5 DEF TurnOK
<1> QED BY <1>1, <1>3

\* What has been said stays as it is while no finished turn changes.
LEMMA TalkStays ==
  ASSUME TurnsInv, talk' = talk, Len(turns') \in Nat, Len(turns') >= Len(turns),
         \A j \in 1..Len(turns) : turns[j].st = "done" => turns'[j].st = "done"
  PROVE  TalkShape' /\ HistoryInOrder'
<1>1. /\ talk \in Seq(Nat \X Roles) /\ DOMAIN talk = 1..Len(talk) /\ Len(turns) \in Nat
      /\ \A k \in 1..Len(talk) : talk[k][1] \in 1..Len(turns) /\ turns[talk[k][1]].st = "done"
  BY DEF TurnsInv, TalkShape, HistoryInOrder, TurnShape
<1>2. \A k \in 1..Len(talk) : talk[k][1] \in 1..Len(turns') /\ turns'[talk[k][1]].st = "done"
  BY <1>1
<1>3. TalkShape'
  BY <1>1, <1>2 DEF TalkShape
<1>4. HistoryInOrder'
  BY <1>1, <1>2 DEF TurnsInv, HistoryInOrder
<1> QED BY <1>3, <1>4

\* utterances stay as they were cut
CutsStay ==
  /\ Len(turns') \in Nat /\ Len(turns') >= Len(turns)
  /\ \A j \in 1..Len(turns) : turns'[j].from = turns[j].from /\ turns'[j].to = turns[j].to

\* What the lemmas on one turn give for a step that changes turn i and leaves
\* the conversation.
LEMMA TurnKeeps ==
  ASSUME TurnsInv, NEW i \in 1..Len(turns), NEW st, NEW req, Changed(i, st, req, turns[i].held),
         UNCHANGED <<drainers, activeTask, talk>>, abandoned \subseteq abandoned', run' = run \/ run' # "ended",
         st = "queued" <=> turns[i].st = "queued", st \in Under => turns[i].st \in Under,
         req = "running" => st \in {"response", "transcription"} \/ i \in abandoned',
         turns[i].st = "done" => st = "done"
  PROVE  TurnsInv' /\ CutsStay
<1>1. TurnShape' /\ \A j \in 1..Len(turns') : TurnOK(j)'
  BY TurnGoesOn
<1>2. /\ Len(turns') \in Nat /\ Len(turns') >= Len(turns)
      /\ \A j \in 1..Len(turns) : turns[j].st = "done" => turns'[j].st = "done"
  BY DEF Changed, TurnsInv, TurnShape
<1>3. TalkShape' /\ HistoryInOrder'
  BY <1>2, TalkStays
<1> QED BY <1>1, <1>2, <1>3 DEF TurnsInv, CutsStay, Changed

LEMMA TurnsUnchanged ==
  ASSUME TurnsInv, UNCHANGED turnVars, run' = run \/ run' # "ended"
  PROVE  TurnsInv' /\ CutsStay
<1>1. TurnShape' /\ \A j \in 1..Len(turns') : TurnOK(j)'
  BY DEF TurnsInv, turnVars, TurnShape, TurnOK
<1>2. Len(turns') \in Nat /\ Len(turns') >= Len(turns)
  BY DEF TurnsInv, turnVars, TurnShape
<1>3. TalkShape' /\ HistoryInOrder'
  BY <1>2, TalkStays DEF turnVars
<1> QED BY <1>1, <1>2, <1>3 DEF TurnsInv, CutsStay, turnVars

LEMMA TurnsTake ==
  ASSUME TurnsInv, NEW i \in 1..Len(turns), TakeTurn(i)
  PROVE  TurnsInv' /\ CutsStay
<1>1. /\ turns[i].st = "queued" /\ run = "loop" /\ activeTask' = i
      /\ \A j \in 1..(i - 1) : turns[j].st # "queued"
      /\ UNCHANGED <<run, drainers, talk, abandoned>>
      /\ turns' = [turns EXCEPT ![i].st = "created", ![i].held = TRUE]
      /\ TurnShape /\ DOMAIN turns = 1..Len(turns) /\ Len(turns) \in Nat /\ turns \in Seq(TurnRecs)
  BY DEF TakeTurn, TurnsInv, TurnShape
<1>2. Changed(i, "created", turns[i].req, TRUE)
  BY <1>1, TurnSteps
<1>3. drainers = 1 /\ \A j \in 1..Len(turns) : ~turns[j].held
  <2> DEFINE H == {j \in DOMAIN turns : turns[j].held}
  <2>1. IsFiniteSet(H)
    <3>1. IsFiniteSet(1..Len(turns))
      BY <1>1, FS_Interval
    <3> QED BY <1>1, <3>1, FS_Subset
  <2>2. drainers \in {0, 1} /\ drainers > Cardinality(H) /\ Cardinality(H) \in Nat
    BY <2>1, FS_CardinalityType DEF TakeTurn, TurnsInv, TurnShape
  <2>3. drainers = 1 /\ Cardinality(H) = 0
    BY <2>2
  <2>4. H = {}
    BY <2>1, <2>3, FS_EmptySet
  <2> QED BY <1>1, <2>3, <2>4
<1>4. TurnShape' /\ Len(turns') = Len(turns)
  BY <1>1, <1>2 DEF TurnShape, Changed
<1>5. ASSUME NEW j \in 1..Len(turns) PROVE TurnOK(j)'
  <2>1. TurnOK(j) /\ TurnOK(i)
    BY DEF TurnsInv
  <2>2. CASE j = i
    <3>1. ASSUME NEW k \in 1..Len(turns'), i < k PROVE turns'[k].st = "queued"
      BY <1>1, <1>2, <1>4, <2>1, <3>1 DEF TurnOK, Changed
    <3> QED BY <1>1, <1>2, <1>3, <1>4, <2>1, <2>2, <3>1 DEF TurnOK, Changed, Under
  <2>3. CASE j # i
    <3>1. turns'[j] = turns[j] /\ ~turns[j].held
      BY <1>2, <1>3, <2>3 DEF Changed
    <3>2. ASSUME NEW k \in 1..Len(turns'), j < k, turns'[k].st # "queued" PROVE turns[j].st # "queued"
      <4>1. CASE k = i
        BY <1>1, <3>2, <4>1
      <4>2. CASE k # i
        BY <1>2, <1>4, <2>1, <3>2, <4>2 DEF TurnOK, Changed
      <4> QED BY <4>1, <4>2
    <3> QED BY <1>1, <2>1, <3>1, <3>2 DEF TurnOK
  <2> QED BY <2>2, <2>3
<1>6. Len(turns') \in Nat /\ Len(turns') >= Len(turns)
  BY <1>1, <1>4
<1>7. \A j \in 1..Len(turns) : turns[j].st = "done" => turns'[j].st = "done"
  BY <1>1, <1>2 DEF Changed
<1>8. TalkShape' /\ HistoryInOrder'
  BY <1>1, <1>6, <1>7, TalkStays
<1> QED BY <1>2, <1>4, <1>5, <1>6, <1>8 DEF TurnsInv, CutsStay, Changed

LEMMA TurnsReaped ==
  ASSUME TurnsInv, NEW i \in 1..Len(turns), TurnReaped(i)
  PROVE  TurnsInv' /\ CutsStay
<1>1. /\ turns[i].held /\ turns[i].st \notin Under /\ activeTask' = 0 /\ UNCHANGED <<run, talk, abandoned>>
      /\ turns' = [turns EXCEPT ![i].held = FALSE] /\ TurnShape /\ Len(turns) \in Nat
  BY DEF TurnReaped, TurnsInv, TurnShape
<1>2. Changed(i, turns[i].st, turns[i].req, FALSE)
  BY <1>1, TurnSteps
<1>3. drainers = 1 /\ drainers' \in {0, 1} /\ \A j \in 1..Len(turns) : turns[j].held => j = i
  <2>1. drainers = 1 /\ \A j \in 1..Len(turns) : turns[j].held => j = i
    BY <1>1 DEF TurnsInv, TurnOK
  <2> QED BY <2>1 DEF TurnReaped
<1>4. TurnShape' /\ Len(turns') = Len(turns)
  BY <1>1, <1>2, <1>3 DEF TurnShape, Changed
<1>5. /\ \A j \in 1..Len(turns) : ~turns'[j].held /\ turns'[j].st = turns[j].st /\ turns'[j].req = turns[j].req
      /\ \A j \in 1..Len(turns) : turns'[j].st \notin Under
  BY <1>1, <1>2, <1>3 DEF Changed, TurnsInv, TurnOK
<1>6. ASSUME NEW j \in 1..Len(turns) PROVE TurnOK(j)'
  BY <1>1, <1>4, <1>5 DEF TurnsInv, TurnOK
<1>7. Len(turns') \in Nat /\ Len(turns') >= Len(turns)
  BY <1>1, <1>4
<1>8. TalkShape' /\ HistoryInOrder'
  BY <1>1, <1>5, <1>7, TalkStays
<1> QED BY <1>2, <1>4, <1>6, <1>7, <1>8 DEF TurnsInv, CutsStay, Changed

LEMMA TurnsLeft ==
  ASSUME TurnsInv, TeardownEnds
  PROVE  TurnsInv' /\ CutsStay
<1>1. /\ activeTask = 0 \/ turns[activeTask].st \notin Under
      /\ drainers' = 0 /\ turns' = [i \in DOMAIN turns |-> [turns[i] EXCEPT !.held = FALSE]]
      /\ UNCHANGED <<activeTask, talk, abandoned>> /\ turns \in Seq(TurnRecs) /\ Len(turns) \in Nat
      /\ DOMAIN turns = 1..Len(turns)
  BY DEF TeardownEnds, TurnsInv, TurnShape
<1>2. \A j \in 1..Len(turns) : turns[j].st \notin Under
  BY <1>1 DEF TurnsInv, TurnOK
<1>3. ASSUME NEW j \in 1..Len(turns)
      PROVE  /\ turns'[j] \in TurnRecs /\ turns'[j].from = turns[j].from /\ turns'[j].to = turns[j].to
             /\ turns'[j].st = turns[j].st /\ turns'[j].req = turns[j].req /\ turns'[j].held = FALSE
  <2>1. turns[j] \in TurnRecs /\ turns'[j] = [turns[j] EXCEPT !.held = FALSE]
    BY <1>1
  <2> QED BY <2>1 DEF TurnRecs
<1>4. turns' \in Seq(TurnRecs) /\ Len(turns') = Len(turns)
  <2>1. turns' \in [1..Len(turns) -> TurnRecs]
    BY <1>1, <1>3
  <2> QED BY <1>1, <2>1
<1>5. TurnShape'
  BY <1>1, <1>4 DEF TurnsInv, TurnShape
<1>6. ASSUME NEW j \in 1..Len(turns) PROVE TurnOK(j)'
  <2>1. TurnOK(j)
    BY DEF TurnsInv
  <2>2. turns'[j].st \notin Under /\ ~turns'[j].held
    BY <1>2, <1>3
  <2>3. turns'[j].req = "running" => turns'[j].st \in {"response", "transcription"} \/ j \in abandoned'
    BY <1>1, <1>3, <2>1 DEF TurnOK
  <2>4. ASSUME NEW k \in 1..Len(turns'), j < k, turns'[k].st # "queued" PROVE turns'[j].st # "queued"
    BY <1>3, <1>4, <2>1, <2>4 DEF TurnOK
  <2> QED BY <2>2, <2>3, <2>4 DEF TurnOK
<1>7. Len(turns') \in Nat /\ Len(turns') >= Len(turns)
  BY <1>1, <1>4
<1>8. TalkShape' /\ HistoryInOrder'
  BY <1>1, <1>3, <1>7, TalkStays
<1> QED BY <1>3, <1>4, <1>5, <1>6, <1>7, <1>8 DEF TurnsInv, CutsStay

\* A sequence with one element more.
LEMMA OneMore ==
  ASSUME NEW A, NEW t \in Seq(A), NEW x \in A
  PROVE  /\ t \o <<x>> \in Seq(A) /\ Len(t \o <<x>>) = Len(t) + 1 /\ Len(t) \in Nat
         /\ \A k \in 1..Len(t) : (t \o <<x>>)[k] = t[k]
         /\ (t \o <<x>>)[Len(t) + 1] = x
OBVIOUS

\* conversation u is t and what turn i adds to it
Adds(t, i, u) ==
  /\ u \in Seq(Nat \X Roles) /\ Len(u) >= Len(t) /\ \A k \in 1..Len(t) : u[k] = t[k]
  /\ \A k \in 1..Len(u) : k > Len(t) => u[k] \in {<<i, "user">>, <<i, "assistant">>}
  /\ \A k, l \in 1..Len(u) : k > Len(t) /\ k < l => u[k] = <<i, "user">> /\ u[l] = <<i, "assistant">>

LEMMA SaidLast ==
  ASSUME NEW t \in Seq(Nat \X Roles), NEW i \in Nat, NEW roles
  PROVE  Adds(t, i, t \o Said(i, "user", roles) \o Said(i, "assistant", roles))
<1> DEFINE u == t \o Said(i, "user", roles) \o Said(i, "assistant", roles)
           A == Nat \X Roles
           x == <<i, "user">>
           y == <<i, "assistant">>
<1>1. x \in A /\ y \in A /\ t \in Seq(A) /\ Len(t) \in Nat
  BY DEF Roles
<1>2. /\ "user" \in roles => Said(i, "user", roles) = <<x>>
      /\ "user" \notin roles => Said(i, "user", roles) = <<>>
      /\ "assistant" \in roles => Said(i, "assistant", roles) = <<y>>
      /\ "assistant" \notin roles => Said(i, "assistant", roles) = <<>>
  BY DEF Said
<1> DEFINE Goal == /\ u \in Seq(A) /\ Len(u) >= Len(t) /\ \A k \in 1..Len(t) : u[k] = t[k]
                   /\ \A k \in 1..Len(u) : k > Len(t) => u[k] \in {x, y}
                   /\ \A k, l \in 1..Len(u) : k > Len(t) /\ k < l => u[k] = x /\ u[l] = y
<1> SUFFICES Goal
  BY DEF Adds
<1>0. u = t \o Said(i, "user", roles) \o Said(i, "assistant", roles)
  OBVIOUS
<1> HIDE DEF A, x, y, u
<1>3. CASE "user" \in roles /\ "assistant" \in roles
  <2> DEFINE v == t \o <<x>>
  <2>1. u = v \o <<y>>
    BY <1>0, <1>2, <1>3
  <2>2. /\ v \in Seq(A) /\ Len(v) = Len(t) + 1 /\ \A k \in 1..Len(t) : v[k] = t[k]
        /\ v[Len(t) + 1] = x
    BY <1>1, OneMore
  <2> HIDE DEF v
  <2>3. /\ u \in Seq(A) /\ Len(u) = Len(v) + 1 /\ \A k \in 1..Len(v) : u[k] = v[k]
        /\ u[Len(v) + 1] = y
    <3>1. v \in Seq(A) /\ y \in A
      BY <1>1, <2>2
    <3>2. /\ v \o <<y>> \in Seq(A) /\ Len(v \o <<y>>) = Len(v) + 1
          /\ \A k \in 1..Len(v) : (v \o <<y>>)[k] = v[k]
          /\ (v \o <<y>>)[Len(v) + 1] = y
      BY <3>1, OneMore
    <3> QED BY <2>1, <3>2, Zenon
  <2>4. /\ \A k \in 1..Len(t) : k \in 1..Len(v)
        /\ Len(t) + 1 \in 1..Len(v) /\ Len(v) + 1 = Len(t) + 2 /\ Len(u) = Len(t) + 2
        /\ \A k \in 1..Len(u) : k > Len(t) => k = Len(t) + 1 \/ k = Len(t) + 2
    <3>1. Len(u) = Len(v) + 1 /\ Len(v) = Len(t) + 1 /\ Len(t) \in Nat
      BY <1>1, <2>2, <2>3
    <3> HIDE DEF Goal
    <3> QED BY <3>1
  <2>5. u[Len(t) + 1] = x /\ u[Len(t) + 2] = y /\ \A k \in 1..Len(t) : u[k] = t[k]
    BY <2>2, <2>3, <2>4
  <2>6. Len(u) >= Len(t)
    BY <1>1, <2>4
  <2>7. \A k, l \in 1..Len(u) : k > Len(t) /\ k < l => k = Len(t) + 1 /\ l = Len(t) + 2
    BY <1>1, <2>4
  <2>8. \A k \in 1..Len(u) : k > Len(t) => u[k] \in {x, y}
    BY <2>4, <2>5
  <2>9. \A k, l \in 1..Len(u) : k > Len(t) /\ k < l => u[k] = x /\ u[l] = y
    BY <2>5, <2>7
  <2> QED BY <2>3, <2>5, <2>6, <2>8, <2>9, Zenon
<1>4. ASSUME NEW z \in {x, y}, u = t \o <<z>> PROVE Goal
  <2>1. /\ u \in Seq(A) /\ Len(u) = Len(t) + 1 /\ \A k \in 1..Len(t) : u[k] = t[k]
        /\ u[Len(t) + 1] = z
    <3>1. z \in A
      BY <1>1
    <3>2. /\ t \o <<z>> \in Seq(A) /\ Len(t \o <<z>>) = Len(t) + 1
          /\ \A k \in 1..Len(t) : (t \o <<z>>)[k] = t[k]
          /\ (t \o <<z>>)[Len(t) + 1] = z
      <4>1. t \in Seq(A)
        BY <1>1
      <4> HIDE DEF Goal
      <4> QED BY <3>1, <4>1, OneMore
    <3> QED BY <1>4, <3>2, Zenon
  <2>2. \A k \in 1..Len(u) : k > Len(t) => k = Len(t) + 1
    BY <1>1, <2>1
  <2>3. \A k, l \in 1..Len(u) : ~(k > Len(t) /\ k < l)
    BY <1>1, <2>1
  <2> QED BY <1>1, <2>1, <2>2, <2>3
<1>5. t \o <<>> = t /\ \A z : (t \o <<>>) \o <<z>> = t \o <<z>>
  BY <1>1
<1>6. CASE "user" \in roles /\ "assistant" \notin roles
  <2>1. u = (t \o <<x>>) \o <<>> /\ t \o <<x>> \in Seq(A)
    BY <1>0, <1>1, <1>2, <1>6, OneMore
  <2>2. u = t \o <<x>>
    BY <2>1
  <2> QED BY <1>4, <2>2
<1>7. CASE "user" \notin roles /\ "assistant" \in roles
  <2>1. u = t \o <<y>>
    BY <1>0, <1>2, <1>5, <1>7
  <2> QED BY <1>4, <2>1
<1>8. CASE "user" \notin roles /\ "assistant" \notin roles
  <2>1. u = t
    BY <1>0, <1>1, <1>2, <1>5, <1>8
  <2>2. Len(t) >= Len(t) /\ \A k \in 1..Len(t) : ~(k > Len(t))
    BY <1>1
  <2> QED BY <1>1, <2>1, <2>2, Zenon
<1> QED BY <1>3, <1>6, <1>7, <1>8

LEMMA TurnsSaid ==
  ASSUME TurnsInv, NEW i \in 1..Len(turns), NEW roles, TranscriptionEnds(i, roles)
  PROVE  TurnsInv' /\ CutsStay
<1>1. /\ turns[i].st = "transcription" /\ SetTurn(i, "done", "finished") /\ TurnShape
      /\ UNCHANGED <<run, activeTask, drainers, abandoned>> /\ Len(turns) \in Nat /\ i \in Nat
      /\ talk' = talk \o Said(i, "user", roles) \o Said(i, "assistant", roles)
      /\ talk \in Seq(Nat \X Roles)
  BY DEF TranscriptionEnds, TurnsInv, TurnShape, TalkShape
<1>2. Changed(i, "done", "finished", turns[i].held)
  <2>1. "done" \in TurnStates /\ "finished" \in Requests
    BY DEF TurnStates, Requests
  <2> QED BY <1>1, <2>1, TurnSteps
<1>3. TurnShape' /\ \A j \in 1..Len(turns') : TurnOK(j)'
  BY <1>1, <1>2, TurnGoesOn DEF Under
<1>4. /\ talk' \in Seq(Nat \X Roles) /\ Len(talk') >= Len(talk) /\ \A k \in 1..Len(talk) : talk'[k] = talk[k]
      /\ \A k \in 1..Len(talk') : k > Len(talk) => talk'[k] \in {<<i, "user">>, <<i, "assistant">>}
      /\ \A k, l \in 1..Len(talk') :
           k > Len(talk) /\ k < l => talk'[k] = <<i, "user">> /\ talk'[l] = <<i, "assistant">>
  <2>1. Adds(talk, i, talk \o Said(i, "user", roles) \o Said(i, "assistant", roles))
    BY <1>1, SaidLast
  <2>2. Adds(talk, i, talk')
    BY <1>1, <2>1
  <2> QED BY <2>2 DEF Adds
<1>5. /\ Len(talk) \in Nat /\ Len(talk') \in Nat /\ DOMAIN talk' = 1..Len(talk') /\ DOMAIN talk = 1..Len(talk)
      /\ \A k \in 1..Len(talk') : k > Len(talk) \/ k \in 1..Len(talk)
  BY <1>1, <1>4
\* the turns in the conversation came before this one
<1>6. ASSUME NEW k \in 1..Len(talk)
      PROVE  /\ talk[k][1] \in 1..Len(turns) /\ talk[k][1] < i
             /\ turns'[talk[k][1]].st = "done"
  <2> DEFINE t == talk[k][1]
  <2>1. t \in 1..Len(turns) /\ turns[t].st = "done"
    BY <1>5 DEF TurnsInv, TalkShape, HistoryInOrder
  <2>2. turns[i].held /\ t # i
    BY <1>1, <2>1 DEF TurnsInv, TurnOK, Under
  <2>3. ~(i < t)
    BY <2>1, <2>2 DEF TurnsInv, TurnOK
  <2> QED BY <1>1, <1>2, <2>1, <2>2, <2>3 DEF Changed
<1>7. ASSUME NEW k \in 1..Len(talk')
      PROVE  talk'[k][1] \in 1..Len(turns') /\ turns'[talk'[k][1]].st = "done"
  <2>1. Len(turns') = Len(turns) /\ turns'[i].st = "done"
    BY <1>2 DEF Changed
  <2>2. CASE k \in 1..Len(talk)
    BY <1>4, <1>6, <2>1, <2>2
  <2>3. CASE k > Len(talk)
    BY <1>4, <2>1, <2>3
  <2> QED BY <1>5, <2>2, <2>3
<1>8. ASSUME NEW k \in 1..Len(talk'), NEW l \in 1..Len(talk'), k < l
      PROVE  \/ talk'[k][1] < talk'[l][1]
             \/ talk'[k] = <<talk'[l][1], "user">> /\ talk'[l][2] = "assistant"
  <2>1. CASE k > Len(talk)
    <3>1. talk'[k] = <<i, "user">> /\ talk'[l] = <<i, "assistant">>
      BY <1>4, <1>8, <2>1
    <3>2. talk'[l][1] = i /\ talk'[l][2] = "assistant"
      BY <3>1
    <3> QED BY <3>1, <3>2
  <2>2. CASE k \in 1..Len(talk) /\ l > Len(talk)
    <3>1. talk'[l][1] = i
      BY <1>4, <2>2
    <3> QED BY <1>4, <1>6, <2>2, <3>1
  <2>3. CASE k \in 1..Len(talk) /\ l \in 1..Len(talk)
    <3>1. \/ talk[k][1] < talk[l][1]
          \/ talk[k] = <<talk[l][1], "user">> /\ talk[l][2] = "assistant"
      BY <1>5, <1>8, <2>3 DEF TurnsInv, HistoryInOrder
    <3> QED BY <1>4, <2>3, <3>1
  <2> QED BY <1>5, <2>1, <2>2, <2>3
<1>9. TalkShape' /\ HistoryInOrder'
  BY <1>4, <1>5, <1>7, <1>8 DEF TalkShape, HistoryInOrder
<1> QED BY <1>1, <1>2, <1>3, <1>9 DEF TurnsInv, CutsStay, Changed

\* An utterance joins the queue.
LEMMA TurnsQueued ==
  ASSUME TurnsInv, NEW r \in TurnRecs, r.st = "queued", r.req = "none", r.held = FALSE,
         turns' = Append(turns, r), drainers' = 1, UNCHANGED <<run, activeTask, talk, abandoned>>
  PROVE  TurnsInv' /\ CutsStay
<1>1. turns \in Seq(TurnRecs) /\ Len(turns) \in Nat /\ activeTask \in 0..Len(turns)
  BY DEF TurnsInv, TurnShape
<1>2. /\ turns' \in Seq(TurnRecs) /\ Len(turns') = Len(turns) + 1
      /\ \A j \in 1..Len(turns) : turns'[j] = turns[j]
      /\ turns'[Len(turns) + 1] = r
  BY <1>1
<1>3. TurnShape'
  BY <1>1, <1>2 DEF TurnShape
<1>4. \A j \in 1..Len(turns') : j \in 1..Len(turns) \/ j = Len(turns) + 1
  BY <1>1, <1>2
<1>5. ASSUME NEW j \in 1..Len(turns') PROVE TurnOK(j)'
  <2>1. CASE j \in 1..Len(turns)
    <3>1. TurnOK(j) /\ turns'[j] = turns[j]
      BY <1>2, <2>1 DEF TurnsInv
    <3>2. ASSUME NEW k \in 1..Len(turns'), j < k, turns'[k].st # "queued"
          PROVE  turns[j].st # "queued" /\ ~turns[j].held
      BY <1>2, <1>4, <3>1, <3>2 DEF TurnOK
    <3> QED BY <3>1, <3>2 DEF TurnOK
  <2>2. CASE j = Len(turns) + 1
    <3>1. turns'[j] = r /\ ~\E k \in 1..Len(turns') : j < k
      BY <1>1, <1>2, <2>2
    <3> QED BY <3>1 DEF TurnOK, Under
  <2> QED BY <1>4, <2>1, <2>2
<1>6. Len(turns') \in Nat /\ Len(turns') >= Len(turns)
  BY <1>1, <1>2
<1>7. TalkShape' /\ HistoryInOrder'
  BY <1>2, <1>6, TalkStays
<1> QED BY <1>2, <1>3, <1>5, <1>6, <1>7 DEF TurnsInv, CutsStay

\* frames that have left the buffer were committed, cleared, came behind an
\* utterance or were dropped while the detector was out of step
Kept(i) ==
  \/ \E t \in 1..Len(turns) : turns[t].from < i /\ i <= turns[t].to
  \/ i \in cleared \cup trailing \cup garbled

KeptOK == \A i \in 1..origin : frames[i] => Kept(i)

SessionInv == AudioOK /\ KeptOK /\ TurnsInv

LEMMA KeptStays ==
  ASSUME CutsStay, Len(turns) \in Nat, cleared \subseteq cleared', trailing \subseteq trailing',
         garbled \subseteq garbled', NEW i, Kept(i)
  PROVE  Kept(i)'
<1>1. CASE i \in cleared \cup trailing \cup garbled
  BY <1>1 DEF Kept
<1>2. ASSUME NEW t \in 1..Len(turns), turns[t].from < i, i <= turns[t].to PROVE Kept(i)'
  <2>1. t \in 1..Len(turns') /\ turns'[t].from = turns[t].from /\ turns'[t].to = turns[t].to
    BY DEF CutsStay
  <2> QED BY <1>2, <2>1 DEF Kept
<1> QED BY <1>1, <1>2 DEF Kept

\* The buffer is dropped and the detector starts again.
LEMMA AudioDropped ==
  ASSUME frames' \in Seq(BOOLEAN), origin' = Len(frames'), vad' = FreshVad, start' = 0, skewed' = FALSE
  PROVE  AudioOK'
<1>1. Len(frames') \in Nat /\ origin' \in 0..Len(frames') /\ Len(frames') - origin' = 0
  OBVIOUS
<1>2. FreshVad \in Vads /\ FreshVad.consumed = 0 /\ ~FreshVad.speech
  BY VadAssumption DEF FreshVad, Vads
<1>3. \A q \in 1..0 : FALSE
  OBVIOUS
<1>4. Silent(frames, vad)'
  BY <1>2, <1>3 DEF Silent
<1> QED BY <1>1, <1>2, <1>4 DEF AudioOK

LEMMA SessionHears ==
  ASSUME SessionInv, NEW audio \in Appends, AudioAppend(audio)
  PROVE  SessionInv'
<1> DEFINE size == Len(frames) - origin + Len(audio)
           heard == FoldLeft(VadFrame, [vad |-> vad, emits |-> <<>>], BufferTail(audio))
           s == FoldLeft(HandleVadEmit,
                         [start |-> start, size |-> size, vad |-> heard.vad, cut |-> <<>>], heard.emits)
           snd == frames \o audio
           skew == skewed \/ (audio = <<>> /\ size > 0)
<1>1. /\ frames' = snd /\ vad' = s.vad /\ start' = s.start
      /\ origin' = IF s.cut = <<>> THEN origin ELSE origin + size
      /\ trailing' = IF s.cut = <<>> THEN trailing
                     ELSE trailing \cup ((origin + s.cut[1][2] + 1)..(origin + size))
      /\ skewed' = (skew /\ s.cut = <<>>)
      /\ garbled' = IF skew /\ s.cut # <<>>
                    THEN garbled \cup ((origin + 1)..(origin + size)) ELSE garbled
      /\ turns' = turns \o [i \in 1..Len(s.cut) |-> NewTurn(s.cut[i])]
      /\ drainers' = DrainersFor(Len(s.cut))
      /\ UNCHANGED <<run, cleared, activeTask, talk, abandoned>>
  BY DEF AudioAppend
<1>2. audio \in Seq(BOOLEAN) /\ AudioOK /\ TurnsInv /\ KeptOK
  BY AppendsAssumption DEF SessionInv
<1>3. /\ frames \in Seq(BOOLEAN) /\ Len(frames) \in Nat /\ origin \in 0..Len(frames) /\ Len(audio) \in Nat
      /\ size = Len(frames) - origin + Len(audio) /\ size \in Nat
      /\ snd \in Seq(BOOLEAN) /\ Len(snd) = origin + size
      /\ \A i \in 1..origin : snd[i] = frames[i]
      /\ turns \in Seq(TurnRecs) /\ Len(turns) \in Nat /\ drainers \in {0, 1}
  BY <1>2 DEF AudioOK, TurnsInv, TurnShape
<1>4. \/ /\ s.cut = <<>> /\ s.vad \in Vads /\ s.start \in Nat
         /\ ~skew => s.vad.consumed = size /\ (Hears(snd, s.vad, s.start) \/ Silent(snd, s.vad))
      \/ \E st, e \in Nat :
           /\ s = [start |-> 0, size |-> 0, vad |-> FreshVad, cut |-> <<<<st, e>>>>]
           /\ ~skew => Utters(snd, st, e) /\ e <= size
  <2>1. CASE skew
    <3> DEFINE fed == BufferTail(audio)
    <3>1. fed \in Seq(BOOLEAN)
      <4>1. \A k \in (origin + 1)..Len(frames) : k \in 1..Len(frames) /\ frames[k] \in BOOLEAN
        BY <1>3
      <4>2. SubSeq(frames, origin + 1, Len(frames)) \in Seq(BOOLEAN)
        BY <1>3, <4>1
      <4> QED BY <1>2, <4>2 DEF BufferTail
    <3>2. vad \in Vads /\ start \in Nat
      BY <1>2 DEF AudioOK
    <3>3. heard = FoldLeft(VadFrame, [vad |-> vad, emits |-> <<>>], fed)
      OBVIOUS
    <3>4. size \in Nat
      BY <1>3
    <3> DEFINE s0 == [start |-> start, size |-> size, vad |-> heard.vad, cut |-> <<>>]
    <3>5. s = FoldLeft(HandleVadEmit, s0, heard.emits)
      OBVIOUS
    <3> HIDE DEF fed, heard, s, skew, size, snd
    <3>6. \/ s.cut = <<>> /\ s.vad \in Vads /\ s.start \in Nat
          \/ \E st, e \in Nat : s = [start |-> 0, size |-> 0, vad |-> FreshVad, cut |-> <<<<st, e>>>>]
      <4>1. heard \in Hearings
        BY <3>1, <3>2, <3>3, HeardAny
      <4>2. heard.emits \in Seq(Emits) /\ heard.vad \in Vads
        BY <4>1 DEF Hearings
      <4>3. s0 \in Cuts /\ s0.cut = <<>>
        <5>1. <<>> \in Seq(Nat \X Nat)
          OBVIOUS
        <5> QED BY <3>2, <3>4, <4>2, <5>1 DEF Cuts
      <4> HIDE DEF s0
      <4> QED BY <3>5, <4>2, <4>3, EmitsAny
    <3> QED BY <2>1, <3>6
  <2>2. CASE ~skew
    <3>1. BufferTail(audio) = audio
      <4>1. CASE audio = <<>>
        <5>1. size = 0 /\ Len(frames) = origin
          <6>1. Len(audio) = 0 /\ ~(size > 0)
            BY <2>2, <4>1
          <6>2. size \in Nat /\ size = Len(frames) - origin + Len(audio) /\ Len(frames) \in Nat /\ origin \in Nat
            BY <1>3
          <6> HIDE DEF size
          <6> QED BY <6>1, <6>2
        <5>2. SubSeq(frames, origin + 1, Len(frames)) = <<>>
          BY <1>3, <5>1
        <5> QED BY <4>1, <5>2 DEF BufferTail
      <4> QED BY <4>1 DEF BufferTail
    <3>2. /\ heard = FoldLeft(VadFrame, [vad |-> vad, emits |-> <<>>], audio)
          /\ s = FoldLeft(HandleVadEmit,
                          [start |-> start, size |-> size, vad |-> heard.vad, cut |-> <<>>], heard.emits)
          /\ size = Len(frames) - origin + Len(audio) /\ ~skewed
      BY <2>2, <3>1
    <3> HIDE DEF heard, s, size, skew
    <3>3. \/ /\ s.cut = <<>> /\ s.vad \in Vads /\ s.vad.consumed = size /\ s.start \in Nat
             /\ Hears(snd, s.vad, s.start) \/ Silent(snd, s.vad)
          \/ \E st, e \in Nat :
               /\ s = [start |-> 0, size |-> 0, vad |-> FreshVad, cut |-> <<<<st, e>>>>]
               /\ Utters(snd, st, e) /\ e <= size
      BY <1>2, <3>2, AppendResult
    <3> QED BY <3>3
  <2> QED BY <2>1, <2>2
<1>skew. skew \in BOOLEAN
  BY <1>2 DEF AudioOK
<1> HIDE DEF size, heard, s, snd, skew
<1>5. CASE /\ s.cut = <<>> /\ s.vad \in Vads /\ s.start \in Nat
           /\ ~skew => s.vad.consumed = size /\ (Hears(snd, s.vad, s.start) \/ Silent(snd, s.vad))
  <2>1. origin' = origin /\ trailing' = trailing /\ garbled' = garbled /\ skewed' \in BOOLEAN /\ (skewed' <=> skew)
    BY <1>1, <1>5, <1>skew
  <2>2. turns' = turns /\ drainers' = drainers
    <3>1. Len(s.cut) = 0 /\ [i \in 1..0 |-> NewTurn(s.cut[i])] = <<>>
      BY <1>5
    <3>2. turns' = turns \o <<>>
      BY <1>1, <3>1
    <3> QED BY <1>1, <1>3, <3>1, <3>2 DEF DrainersFor
  <2>3. TurnsInv' /\ CutsStay
    BY <1>1, <1>2, <2>2, TurnsUnchanged DEF turnVars
  <2>4. ~skew => (Hears(frames, vad, start) \/ Silent(frames, vad))'
    BY <1>1, <1>5, <2>1 DEF Hears, Silent
  <2>5. AudioOK'
    BY <1>1, <1>3, <1>5, <2>1, <2>4 DEF AudioOK
  <2>6. KeptOK'
    <3> SUFFICES ASSUME NEW i \in 1..origin, frames'[i] PROVE Kept(i)'
      BY <2>1 DEF KeptOK
    <3>1. Kept(i)
      BY <1>1, <1>2, <1>3 DEF KeptOK
    <3> QED BY <1>1, <1>3, <2>1, <2>3, <3>1, KeptStays
  <2> QED BY <2>3, <2>5, <2>6 DEF SessionInv
<1>6. ASSUME NEW st \in Nat, NEW e \in Nat,
             s = [start |-> 0, size |-> 0, vad |-> FreshVad, cut |-> <<<<st, e>>>>],
             ~skew => Utters(snd, st, e) /\ e <= size
      PROVE  SessionInv'
  <2>1. s.cut = <<<<st, e>>>> /\ s.cut # <<>> /\ Len(s.cut) = 1 /\ s.cut[1] = <<st, e>> /\ s.cut[1][2] = e
    BY <1>6
  <2>2. /\ origin' = origin + size /\ vad' = FreshVad /\ start' = 0
        /\ trailing' = trailing \cup ((origin + e + 1)..(origin + size)) /\ skewed' = FALSE
        /\ garbled' = IF skew THEN garbled \cup ((origin + 1)..(origin + size)) ELSE garbled
    BY <1>1, <1>6, <2>1, <1>skew
  <2>3. AudioOK'
    BY <1>1, <1>3, <2>2, AudioDropped
  <2> DEFINE r == NewTurn(<<st, e>>)
  <2>4. /\ r \in TurnRecs /\ r.st = "queued" /\ r.req = "none" /\ r.held = FALSE
        /\ r.from = origin + st /\ r.to = origin + e
    BY <1>3 DEF NewTurn, TurnRecs, TurnStates, Requests
  <2>5. turns' = Append(turns, r)
    <3>1. [i \in 1..1 |-> NewTurn(s.cut[i])] = <<NewTurn(s.cut[1])>>
      OBVIOUS
    <3>2. turns' = turns \o <<r>>
      BY <1>1, <2>1, <3>1
    <3> HIDE DEF r
    <3> QED BY <1>3, <2>4, <3>2
  <2> HIDE DEF r
  <2>6. drainers' = 1
    BY <1>1, <1>3, <2>1 DEF DrainersFor
  <2>7. TurnsInv' /\ CutsStay
    BY <1>1, <1>2, <2>4, <2>5, <2>6, TurnsQueued
  <2>8. /\ Len(turns) + 1 \in 1..Len(turns') /\ turns'[Len(turns) + 1].from = origin + st
        /\ turns'[Len(turns) + 1].to = origin + e
    BY <1>3, <2>4, <2>5
  <2>9. ASSUME NEW i \in 1..(origin + size), snd[i] PROVE Kept(i)'
    <3>1. CASE i <= origin
      <4>1. i \in 1..origin /\ frames[i]
        BY <1>3, <2>9, <3>1
      <4>2. Kept(i)
        BY <1>2, <4>1 DEF KeptOK
      <4> QED BY <1>1, <1>3, <2>2, <2>7, <4>2, KeptStays
    <3>2. CASE ~skew /\ i > origin /\ i <= origin + e
      <4>1. i - origin \in 1..e /\ origin + (i - origin) = i
        BY <1>3, <3>2
      <4>2. st < i - origin
        BY <1>6, <2>9, <3>2, <4>1 DEF Utters
      <4>3. origin + st < i
        BY <1>3, <4>2
      <4> QED BY <2>8, <3>2, <4>3 DEF Kept
    <3>3. CASE ~skew /\ i > origin + e
      <4>1. i \in (origin + e + 1)..(origin + size)
        BY <1>3, <3>3
      <4> QED BY <2>2, <4>1 DEF Kept
    <3>4. CASE skew /\ i > origin
      <4>1. i \in (origin + 1)..(origin + size)
        BY <1>3, <3>4
      <4> QED BY <2>2, <3>4, <4>1 DEF Kept
    <3> QED BY <1>3, <3>1, <3>2, <3>3, <3>4
  <2>10. KeptOK'
    BY <1>1, <2>2, <2>9 DEF KeptOK
  <2> QED BY <2>3, <2>7, <2>10 DEF SessionInv
<1> QED BY <1>4, <1>5, <1>6

\* Steps that leave the audio alone.
LEMMA AudioStays ==
  ASSUME SessionInv, UNCHANGED audioVars, TurnsInv', CutsStay
  PROVE  SessionInv'
<1>1. AudioOK'
  BY DEF SessionInv, audioVars, AudioOK, Hears, Silent
<1>2. KeptOK'
  <2> SUFFICES ASSUME NEW i \in 1..origin, frames[i] PROVE Kept(i)'
    BY DEF KeptOK, audioVars
  <2>1. Kept(i) /\ Len(turns) \in Nat
    BY DEF SessionInv, KeptOK, TurnsInv, TurnShape
  <2> QED BY <2>1, KeptStays DEF audioVars
<1> QED BY <1>1, <1>2 DEF SessionInv

LEMMA SessionClears ==
  ASSUME SessionInv, AudioClear
  PROVE  SessionInv'
<1>1. /\ cleared' = cleared \cup ((origin + 1)..Len(frames)) /\ origin' = Len(frames) /\ vad' = FreshVad /\ start' = 0
      /\ skewed' = FALSE /\ UNCHANGED <<run, frames, trailing, garbled, turnVars>>
  BY DEF AudioClear, VadReset
<1>2. /\ frames \in Seq(BOOLEAN) /\ Len(frames) \in Nat /\ origin \in 0..Len(frames) /\ TurnsInv /\ KeptOK
      /\ Len(turns) \in Nat
  BY DEF SessionInv, AudioOK, TurnsInv, TurnShape
<1>3. AudioOK'
  BY <1>1, <1>2, AudioDropped
<1>4. TurnsInv' /\ CutsStay
  BY <1>1, <1>2, TurnsUnchanged
<1>5. ASSUME NEW i \in 1..Len(frames), frames[i] PROVE Kept(i)'
  <2>1. CASE i \in 1..origin
    <3>1. Kept(i)
      BY <1>2, <1>5, <2>1 DEF KeptOK
    <3> QED BY <1>1, <1>2, <1>4, <3>1, KeptStays
  <2>2. CASE i \in (origin + 1)..Len(frames)
    BY <1>1, <2>2 DEF Kept
  <2> QED BY <1>2, <2>1, <2>2
<1>6. KeptOK'
  BY <1>1, <1>5 DEF KeptOK
<1> QED BY <1>3, <1>4, <1>6 DEF SessionInv

\* response.cancel and teardown cancel the active turn, if it is under way.
LEMMA TurnsCancel ==
  ASSUME TurnsInv, CancelActive, UNCHANGED <<activeTask, drainers, talk, abandoned>>, run' = run \/ run' # "ended"
  PROVE  TurnsInv' /\ CutsStay
<1>1. CASE activeTask # 0 /\ turns[activeTask].st \in Under
  <2>1. turns' = CancelAndAbort(activeTask) /\ activeTask \in 1..Len(turns) /\ TurnShape
    BY <1>1 DEF CancelActive, TurnsInv, TurnShape
  <2> DEFINE req == IF turns[activeTask].req = "running" THEN "aborted" ELSE turns[activeTask].req
  <2>2. Changed(activeTask, "cancelled", req, turns[activeTask].held)
    BY <2>1, TurnSteps
  <2>3. req # "running"
    OBVIOUS
  <2> HIDE DEF req
  <2> QED BY <1>1, <2>1, <2>2, <2>3, TurnKeeps DEF Under
<1>2. CASE ~(activeTask # 0 /\ turns[activeTask].st \in Under)
  BY <1>2, TurnsUnchanged DEF CancelActive, turnVars
<1> QED BY <1>1, <1>2

\* The steps of a turn beside the receive loop.
LEMMA TurnsRun ==
  ASSUME TurnsInv, NEW i \in 1..Len(turns), Turn(i) \/ \E how \in {"finished", "failed"} : RequestEnds(i, how)
  PROVE  TurnsInv' /\ CutsStay
<1>1. TurnShape /\ TurnOK(i) /\ turns[i].req \in Requests
  <2>1. turns \in Seq(TurnRecs)
    BY DEF TurnsInv, TurnShape
  <2>2. turns[i] \in TurnRecs
    BY <2>1
  <2> QED BY <2>2 DEF TurnsInv, TurnRecs
<1>2. {"response", "transcription", "failed"} \subseteq TurnStates /\ {"running", "failed", "finished"} \subseteq Requests
  BY DEF TurnStates, Requests
<1>3. CASE TurnStarts(i)
  <2>1. Changed(i, "response", "running", turns[i].held)
    BY <1>1, <1>2, <1>3, TurnSteps DEF TurnStarts
  <2> QED BY <1>3, <2>1, TurnKeeps DEF TurnStarts, Under
<1>4. CASE ResponseEnds(i)
  <2>1. Changed(i, "transcription", "running", turns[i].held)
    BY <1>1, <1>2, <1>4, TurnSteps DEF ResponseEnds
  <2> QED BY <1>4, <2>1, TurnKeeps DEF ResponseEnds, Under
<1>5. CASE PassFails(i)
  <2>1. Changed(i, "failed", "failed", turns[i].held)
    BY <1>1, <1>2, <1>5, TurnSteps DEF PassFails
  <2> QED BY <1>5, <2>1, TurnKeeps DEF PassFails, Under
<1>6. CASE SendRaises(i)
  <2>1. Changed(i, "failed", turns[i].req, turns[i].held)
    BY <1>1, <1>2, <1>6, TurnSteps DEF SendRaises
  <2>2. abandoned \subseteq abandoned' /\ (turns[i].req = "running" => i \in abandoned')
    BY <1>6 DEF SendRaises
  <2> QED BY <1>6, <2>1, <2>2, TurnKeeps DEF SendRaises, Under
<1>7. ASSUME NEW how \in {"finished", "failed"}, RequestEnds(i, how) PROVE TurnsInv' /\ CutsStay
  <2>1. Changed(i, turns[i].st, how, turns[i].held)
    BY <1>1, <1>2, <1>7, TurnSteps DEF RequestEnds
  <2> QED BY <1>7, <2>1, TurnKeeps DEF RequestEnds
<1> QED BY <1>3, <1>4, <1>5, <1>6, <1>7, TurnsTake, TurnsReaped, TurnsSaid DEF Turn

LEMMA SessionStep ==
  ASSUME SessionInv, [SessionNext]_sessionVars
  PROVE  SessionInv'
<1>1. TurnsInv /\ DOMAIN turns = 1..Len(turns)
  BY DEF SessionInv, TurnsInv, TurnShape
<1>2. CASE UNCHANGED <<audioVars, turnVars>> /\ (run' = run \/ run' # "ended")
  BY <1>1, <1>2, TurnsUnchanged, AudioStays
<1>3. CASE \E audio \in Appends : AudioAppend(audio) \/ AudioOverflow(audio)
  <2>1. ASSUME NEW audio \in Appends, AudioOverflow(audio) PROVE SessionInv'
    BY <1>2, <2>1 DEF AudioOverflow
  <2> QED BY <1>3, <2>1, SessionHears
<1>4. CASE AudioClear
  BY <1>4, SessionClears
<1>5. CASE ResponseCancel \/ TeardownCancels
  <2>1. CancelActive /\ UNCHANGED <<audioVars, activeTask, drainers, talk, abandoned>> /\ (run' = run \/ run' # "ended")
    BY <1>5 DEF ResponseCancel, TeardownCancels
  <2> QED BY <1>1, <2>1, TurnsCancel, AudioStays
<1>6. CASE TeardownEnds
  BY <1>1, <1>6, TurnsLeft, AudioStays DEF TeardownEnds
<1>7. ASSUME NEW i \in DOMAIN turns, Turn(i) \/ \E how \in {"finished", "failed"} : RequestEnds(i, how)
      PROVE  SessionInv'
  <2>1. UNCHANGED audioVars
    BY <1>7 DEF Turn, RequestEnds, TakeTurn, TurnStarts, ResponseEnds, PassFails, SendRaises, TurnReaped,
                TranscriptionEnds
  <2>2. TurnsInv' /\ CutsStay
    BY <1>1, <1>7, TurnsRun
  <2> QED BY <2>1, <2>2, AudioStays
<1>8. CASE ClientDisconnects \/ (\E malformed \in BOOLEAN : LoopEnds(malformed)) \/ UNCHANGED sessionVars
  BY <1>2, <1>8 DEF ClientDisconnects, LoopEnds, sessionVars
<1> QED BY <1>3, <1>4, <1>5, <1>6, <1>7, <1>8 DEF SessionNext, ClientEvent

LEMMA SessionInvariant == SessionSpec => []SessionInv
<1>1. SessionInit => SessionInv
  <2> SUFFICES ASSUME SessionInit PROVE SessionInv
    OBVIOUS
  <2>1. /\ frames = <<>> /\ Len(frames) = 0 /\ turns = <<>> /\ Len(turns) = 0 /\ talk = <<>> /\ Len(talk) = 0
        /\ DOMAIN talk = {} /\ turns \in Seq(TurnRecs) /\ frames \in Seq(BOOLEAN) /\ talk \in Seq(Nat \X Roles)
    BY DEF SessionInit
  <2>2. FreshVad \in Vads /\ FreshVad.consumed = 0 /\ ~FreshVad.speech
    BY VadAssumption DEF FreshVad, Vads
  <2>3. AudioOK
    <3>1. origin = 0 /\ start = 0 /\ vad = FreshVad /\ skewed = FALSE
      BY DEF SessionInit
    <3>2. vad.consumed = Len(frames) - origin /\ origin \in 0..Len(frames) /\ Silent(frames, vad)
      BY <2>1, <2>2, <3>1 DEF Silent
    <3> QED BY <2>1, <2>2, <3>1, <3>2 DEF AudioOK
  <2>4. KeptOK
    BY DEF SessionInit, KeptOK
  <2>5. TurnsInv
    BY <2>1 DEF SessionInit, TurnsInv, TurnShape, TalkShape, HistoryInOrder
  <2> QED BY <2>3, <2>4, <2>5 DEF SessionInv
<1> QED BY <1>1, SessionStep, PTL DEF SessionSpec

\* handle_audio_append, auto_commit_utterance and StreamingVAD: however the
\* audio is cut into events that carry some, for any padding and length of
\* silence, the offsets of the detector and of the buffer stay in step and no
\* speech is lost; an event that carries none puts them out of step until the
\* buffer is dropped, and only the speech of that buffer is at risk.
THEOREM NoSpeechLost == SessionSpec => []SpeechCommitted
<1>1. SessionInv => SpeechCommitted
  <2> SUFFICES ASSUME SessionInv, NEW i \in DOMAIN frames, frames[i]
               PROVE  \/ \E t \in DOMAIN turns : turns[t].from < i /\ i <= turns[t].to
                      \/ i > origin /\ (vad.speech \/ skewed)
                      \/ i \in cleared \cup trailing \cup garbled
    BY DEF SpeechCommitted
  <2>1. /\ i \in 1..Len(frames) /\ origin \in 0..Len(frames) /\ Len(frames) \in Nat
        /\ DOMAIN turns = 1..Len(turns) /\ (~skewed => vad.consumed = Len(frames) - origin)
    BY DEF SessionInv, AudioOK, TurnsInv, TurnShape
  <2>2. CASE i <= origin
    <3>1. i \in 1..origin
      BY <2>1, <2>2
    <3> QED BY <2>1, <3>1 DEF SessionInv, KeptOK, Kept
  <2>3. CASE i > origin /\ ~skewed
    <3>1. i - origin \in 1..vad.consumed /\ origin + (i - origin) = i
      BY <2>1, <2>3
    <3> QED BY <2>3, <3>1 DEF SessionInv, AudioOK, Hears, Silent
  <2>4. CASE i > origin /\ skewed
    BY <2>4
  <2> QED BY <2>1, <2>2, <2>3, <2>4
<1> QED BY <1>1, SessionInvariant, PTL

\* drain_queue, run_turn: with any number of utterances, whatever is queued,
\* cancelled or fails, the conversation holds finished turns in their order.
THEOREM ConversationInOrder == SessionSpec => []HistoryInOrder
<1>1. SessionInv => HistoryInOrder
  BY DEF SessionInv, TurnsInv
<1> QED BY <1>1, SessionInvariant, PTL

\* teardown: the turn under way is the active task, so its cancellation
\* leaves none behind, and no request but those that died in a send.
THEOREM TeardownComplete == SessionSpec => []SessionLeavesNothing
<1>1. SessionInv => SessionLeavesNothing
  <2> SUFFICES ASSUME SessionInv, run = "ended", NEW i \in DOMAIN turns
               PROVE  turns[i].st \notin Under /\ (turns[i].req = "running" => i \in abandoned)
    BY DEF SessionLeavesNothing
  <2>1. TurnOK(i)
    BY DEF SessionInv, TurnsInv, TurnShape
  <2> QED BY <2>1 DEF TurnOK, Under
<1> QED BY <1>1, SessionInvariant, PTL
=============================================================================
