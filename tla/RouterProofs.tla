---------------------------- MODULE RouterProofs ----------------------------
(***************************************************************************)
(* The router's two halves, for any workers, requests and limits: the      *)
(* worker pool (RouterPool) under overlapping updates, probes and relays,  *)
(* and the data plane (RouterProxy), whose admission count and loads are   *)
(* exact.                                                                  *)
(*                                                                         *)
(* What makes the two counters inductive is where a relay is in its        *)
(* teardown: which of its two owners has entered _RelayCleanup, and that   *)
(* the other one then finds _done set.                                     *)
(***************************************************************************)
EXTENDS RouterPool, RouterProxy, FiniteSetTheorems, TLAPS

(***************************************************************************)
(* The worker pool.                                                        *)
(***************************************************************************)

(* Recording a result keeps the counters in range and the state a state.   *)

\* What a recorded success or failure does to one worker's health fields.
LEMMA RecordType ==
  ASSUME TypeOK, NEW w \in Workers, RecordSuccess(w) \/ RecordFailure(w)
  PROVE  /\ state' \in [Workers -> States]
         /\ failures' \in [Workers -> 0..FailureThreshold]
         /\ successes' \in [Workers -> 0..SuccessThreshold]
<1>1. /\ Bump(successes[w], SuccessThreshold) \in 0..SuccessThreshold
      /\ Bump(failures[w], FailureThreshold) \in 0..FailureThreshold
      /\ 0 \in 0..SuccessThreshold /\ 0 \in 0..FailureThreshold
  BY ThresholdAssumption DEF TypeOK, Bump
<1>2. CASE RecordSuccess(w)
  BY <1>1, <1>2 DEF TypeOK, RecordSuccess, States
<1>3. CASE RecordFailure(w)
  BY <1>1, <1>3 DEF TypeOK, RecordFailure, States
<1> QED BY <1>2, <1>3

\* Every step keeps the shape of the pool.
LEMMA PoolTypeStep ==
  ASSUME TypeOK, [Next]_vars
  PROVE  TypeOK'
<1> USE DEF TypeOK
<1>1. ASSUME NEW w \in Workers, StartProbe(w) PROVE TypeOK'
  BY <1>1, BoundAssumption DEF StartProbe, healthVars, flagVars, adminVars
<1>2. ASSUME NEW w \in Workers, NEW o \in {"ok", "failed", "raised"}, FinishProbe(w, o)
      PROVE  TypeOK'
  <2>1. /\ state' \in [Workers -> States]
        /\ failures' \in [Workers -> 0..FailureThreshold]
        /\ successes' \in [Workers -> 0..SuccessThreshold]
    BY <1>2, RecordType DEF FinishProbe
  <2>2. probes[w] - 1 \in 0..MaxProbes
    BY <1>2, BoundAssumption DEF FinishProbe
  <2>3. probes' \in [Workers -> 0..MaxProbes]
    BY <1>2, <2>2 DEF FinishProbe
  <2> QED BY <1>2, <2>1, <2>3 DEF FinishProbe, flagVars, adminVars
<1>3. ASSUME NEW w \in Workers, SelectWorker(w) \/ RelayEnds(w) PROVE TypeOK'
  <2>1. (SelectWorker(w) => relays[w] + 1 \in 0..MaxRelays) /\
        (RelayEnds(w) => relays[w] - 1 \in 0..MaxRelays)
    BY BoundAssumption DEF SelectWorker, RelayEnds
  <2>2. relays' \in [Workers -> 0..MaxRelays]
    BY <1>3, <2>1 DEF SelectWorker, RelayEnds
  <2>3. UNCHANGED <<pool, disabled, probes, healthVars, flagVars, adminVars>>
    BY <1>3 DEF SelectWorker, RelayEnds
  <2> QED BY <2>2, <2>3 DEF healthVars, flagVars, adminVars
<1>4. ASSUME NEW w \in Workers, RelayFails(w) PROVE TypeOK'
  <2>1. /\ state' \in [Workers -> States]
        /\ failures' \in [Workers -> 0..FailureThreshold]
        /\ successes' \in [Workers -> 0..SuccessThreshold]
    BY <1>4, RecordType DEF RelayFails
  <2>2. relays[w] - 1 \in 0..MaxRelays
    BY <1>4, BoundAssumption DEF RelayFails
  <2>3. relays' \in [Workers -> 0..MaxRelays]
    BY <1>4, <2>2 DEF RelayFails
  <2> QED BY <1>4, <2>1, <2>3 DEF RelayFails, flagVars, adminVars
<1>5. ASSUME NEW w \in Workers, CreateWorker(w) \/ DeleteWorker(w) PROVE TypeOK'
  <2>1. 0 \in 0..MaxProbes /\ 1 \in 0..MaxProbes /\ 0 \in 0..MaxRelays
    BY BoundAssumption
  <2>2. CASE CreateWorker(w)
    BY <2>1, <2>2 DEF CreateWorker, healthVars, flagVars, adminVars
  <2>3. CASE DeleteWorker(w)
    BY <2>1, <2>3 DEF DeleteWorker, healthVars, flagVars, adminVars
  <2> QED BY <1>5, <2>2, <2>3
<1>6. ASSUME NEW w \in Workers, NEW f \in Fields, NEW d \in Fields, UpdateWorker(w, f, d)
      PROVE  TypeOK'
  <2>1. /\ disabled' \in [Workers -> BOOLEAN]
        /\ asked' \in [Workers -> {"true", "false", "undone", "failed"}]
        /\ overridden' \in SUBSET Workers
    <3>2. PutDisabled(w, f)
      BY <1>6 DEF UpdateWorker
    <3>3. CASE f = "unset"
      BY <3>2, <3>3 DEF PutDisabled, flagVars
    <3>4. CASE f # "unset"
      <4>1. (f = "true") \in BOOLEAN /\ f \in {"true", "false"}
        BY <3>4 DEF Fields
      <4>2. disabled' \in [Workers -> BOOLEAN]
        BY <3>2, <3>4, <4>1 DEF PutDisabled
      <4>3. CASE Held(w)
        BY <3>2, <3>4, <4>2, <4>3 DEF PutDisabled
      <4>4. CASE ~Held(w)
        BY <3>2, <3>4, <4>1, <4>2, <4>4 DEF PutDisabled
      <4> QED BY <4>3, <4>4
    <3> QED BY <3>3, <3>4
  <2>2. /\ state' \in [Workers -> States]
        /\ failures' \in [Workers -> 0..FailureThreshold]
        /\ successes' \in [Workers -> 0..SuccessThreshold]
        /\ probes' \in [Workers -> 0..MaxProbes]
    <3>1. 0 \in 0..FailureThreshold /\ 0 \in 0..SuccessThreshold
      BY ThresholdAssumption
    <3>2. CASE d = "unset"
      BY <1>6, <3>2 DEF UpdateWorker, PutDead, healthVars
    <3>3. CASE d = "true"
      BY <1>6, <3>3 DEF UpdateWorker, PutDead, States
    <3>4. CASE d = "false"
      <4>1. probes[w] + 1 \in 0..MaxProbes
        BY <1>6, <3>4, BoundAssumption DEF UpdateWorker, PutDead
      <4>2. /\ state' = [state EXCEPT ![w] = IF @ = "dead" THEN "unknown" ELSE @]
            /\ failures' = [failures EXCEPT ![w] = 0]
            /\ successes' = [successes EXCEPT ![w] = 0]
            /\ probes' = [probes EXCEPT ![w] = probes[w] + 1]
        BY <1>6, <3>4 DEF UpdateWorker, PutDead
      <4>3. state' \in [Workers -> States]
        BY <4>2 DEF States
      <4> QED BY <3>1, <4>1, <4>2, <4>3
    <3> QED BY <3>2, <3>3, <3>4 DEF Fields
  <2> QED BY <1>6, <2>1, <2>2 DEF UpdateWorker, adminVars
<1>7. ASSUME NEW u \in Updates, NEW p \in {"init", "other"}, BeginUpdate(u, p)
      PROVE  TypeOK'
  BY <1>7 DEF BeginUpdate, LiveWorkers, workerVars, healthVars, flagVars
<1>8. ASSUME NEW u \in Updates, AcquireLock(u) \/ LockTimeout(u) \/ BodyLost(u)
      PROVE  TypeOK'
  <2>1. CASE AcquireLock(u)
    BY <2>1 DEF AcquireLock, workerVars, healthVars, flagVars
  <2>2. CASE LockTimeout(u)
    BY <2>2 DEF LockTimeout, EndUpdate, workerVars, healthVars, flagVars
  <2>3. CASE BodyLost(u)
    BY <2>3 DEF BodyLost, EndUpdate, workerVars, healthVars, flagVars
  <2> QED BY <1>8, <2>1, <2>2, <2>3
<1>9. ASSUME NEW u \in Updates, DisableTargets(u) PROVE TypeOK'
  BY <1>9 DEF DisableTargets, workerVars, healthVars, flagVars
<1>10. ASSUME NEW u \in Updates, NEW failed \in SUBSET Workers, FinishUpdate(u, failed)
       PROVE  TypeOK'
  BY <1>10 DEF FinishUpdate, EndUpdate, KeepDisabled, workerVars, healthVars
<1>11. CASE UNCHANGED vars
  BY <1>11 DEF vars, healthVars, flagVars, adminVars
<1> QED
  BY <1>1, <1>2, <1>3, <1>4, <1>5, <1>6, <1>7, <1>8, <1>9, <1>10, <1>11
     DEF Next, WorkerStep, UpdateStep

\* The pool's state always has the shape of the objects it stands for.
THEOREM PoolTypeCorrect == Spec => []TypeOK
<1>1. Init => TypeOK
  BY ThresholdAssumption, BoundAssumption DEF Init, TypeOK, States
<1> QED BY <1>1, PoolTypeStep, PTL DEF Spec
-----------------------------------------------------------------------------
\* Every step keeps health states and streaks in agreement.
LEMMA HealthStep ==
  ASSUME TypeOK, HealthMatchesCounters, [Next]_vars
  PROVE  HealthMatchesCounters'
<1> USE ThresholdAssumption DEF TypeOK, HealthMatchesCounters
<1>1. ASSUME NEW w \in Workers, RecordSuccess(w) \/ RecordFailure(w)
      PROVE  HealthMatchesCounters'
  BY <1>1 DEF RecordSuccess, RecordFailure, Bump, States
<1>2. ASSUME NEW w \in Workers, NEW o, FinishProbe(w, o) PROVE HealthMatchesCounters'
  BY <1>1, <1>2 DEF FinishProbe
<1>3. ASSUME NEW w \in Workers, RelayFails(w) PROVE HealthMatchesCounters'
  BY <1>1, <1>3 DEF RelayFails
<1>4. ASSUME NEW w \in Workers, NEW f, NEW d, UpdateWorker(w, f, d)
      PROVE  HealthMatchesCounters'
  BY <1>4 DEF UpdateWorker, PutDead, healthVars, States
<1>5. CASE UNCHANGED healthVars
  BY <1>5 DEF healthVars
<1>6. \/ \E w \in Workers :
           \/ \E o \in {"ok", "failed", "raised"} : FinishProbe(w, o)
           \/ RelayFails(w)
           \/ \E f \in Fields, d \in Fields : UpdateWorker(w, f, d)
      \/ UNCHANGED healthVars
  BY DEF Next, vars, WorkerStep, UpdateStep, StartProbe, SelectWorker, RelayEnds,
         CreateWorker, DeleteWorker, BeginUpdate, AcquireLock, LockTimeout, BodyLost,
         DisableTargets, FinishUpdate, workerVars
<1> QED BY <1>2, <1>3, <1>4, <1>5, <1>6

\* Whatever order probes, relay failures and operators write a worker's health
\* in, and whatever the thresholds, the state agrees with the streaks.
THEOREM HealthSafe == Spec => []HealthMatchesCounters
<1>1. Init => HealthMatchesCounters
  BY ThresholdAssumption DEF Init, HealthMatchesCounters
<1> QED BY <1>1, HealthStep, PoolTypeCorrect, PTL DEF Spec
-----------------------------------------------------------------------------
(* Steps that touch neither the flags nor the updates cannot disturb them. *)

\* The flags and the updates determine FlagInv.
LEMMA FlagFrame ==
  ASSUME FlagInv, UNCHANGED <<disabled, flagVars, adminVars>>
  PROVE  FlagInv'
BY DEF FlagInv, LockExclusive, FlagsRestored, AsAsked, Held, flagVars, adminVars

\* An operator's write is recorded as asked, or goes to a worker some update holds.
LEMMA FlagPut ==
  ASSUME TypeOK, FlagInv, NEW w \in Workers, NEW f \in Fields, PutDisabled(w, f),
         UNCHANGED adminVars
  PROVE  FlagInv'
<1>1. CASE f = "unset"
  BY <1>1, FlagFrame DEF PutDisabled
<1>2. CASE f # "unset"
  <2> DEFINE b == f = "true"
  <2>1. b \in BOOLEAN /\ (f = "true" => b) /\ (f = "false" => ~b) /\ f \in {"true", "false"}
    BY <1>2 DEF Fields
  <2>2. disabled' = [disabled EXCEPT ![w] = b]
    BY <1>2 DEF PutDisabled
  <2>3. \A x \in Workers : Held(x)' <=> Held(x)
    BY DEF Held, adminVars
  <2>4. LockExclusive'
    BY DEF FlagInv, LockExclusive, adminVars
  <2>5. CASE Held(w)
    <3>1. /\ asked' = [asked EXCEPT ![w] = IF @ = "failed" THEN @ ELSE "undone"]
          /\ overridden' = overridden \cup {w}
      BY <1>2, <2>5 DEF PutDisabled
    <3> HIDE DEF b
    <3>2. FlagsRestored'
      BY <2>2, <2>3, <2>5, <3>1 DEF TypeOK, FlagInv, FlagsRestored, AsAsked
    <3> QED
      BY <2>2, <2>3, <2>4, <2>5, <3>1, <3>2 DEF TypeOK, FlagInv, AsAsked, adminVars
  <2>6. CASE ~Held(w)
    <3>1. asked' = [asked EXCEPT ![w] = f] /\ UNCHANGED overridden
      BY <1>2, <2>6 DEF PutDisabled
    <3> HIDE DEF b
    <3>2. FlagsRestored'
      BY <2>1, <2>2, <2>3, <3>1 DEF TypeOK, FlagInv, FlagsRestored, AsAsked
    <3>3. \A u \in Updates : upc[u] = "broadcasting" => w \notin targets[u]
      BY <2>6 DEF Held
    <3> QED
      BY <2>2, <2>3, <2>4, <3>1, <3>2, <3>3 DEF TypeOK, FlagInv, AsAsked, adminVars
  <2> QED BY <2>5, <2>6
<1> QED BY <1>1, <1>2

\* Every step keeps the flags recoverable.
LEMMA FlagStep ==
  ASSUME TypeOK, FlagInv, [Next]_vars
  PROVE  FlagInv'
<1>1. ASSUME NEW w \in Workers, NEW f \in Fields, NEW d, UpdateWorker(w, f, d)
      PROVE  FlagInv'
  BY <1>1, FlagPut DEF UpdateWorker
<1>2. ASSUME NEW u \in Updates, NEW p, BeginUpdate(u, p) PROVE FlagInv'
  <2>1. \A v \in Updates : upc'[v] \in {"locked", "broadcasting"} =>
          upc'[v] = upc[v] /\ targets'[v] = targets[v]
    BY <1>2 DEF BeginUpdate, TypeOK
  <2>2. \A v \in Updates : upc[v] \in {"locked", "broadcasting"} =>
          upc'[v] = upc[v] /\ targets'[v] = targets[v]
    BY <1>2 DEF BeginUpdate, TypeOK
  <2>3. \A w \in Workers : Held(w)' <=> Held(w)
    BY <2>1, <2>2 DEF Held
  <2>4. UNCHANGED <<disabled, previous, lock, asked, overridden>>
    BY <1>2 DEF BeginUpdate, flagVars
  <2>5. LockExclusive'
    BY <2>1, <2>2, <2>4 DEF FlagInv, LockExclusive
  <2> QED BY <2>1, <2>3, <2>4, <2>5 DEF FlagInv, FlagsRestored, AsAsked, TypeOK
<1>3. ASSUME NEW u \in Updates, AcquireLock(u) PROVE FlagInv'
  <2>1. \A v \in Updates : upc'[v] = "broadcasting" <=> upc[v] = "broadcasting"
    BY <1>3 DEF AcquireLock, TypeOK
  <2>2. UNCHANGED <<disabled, targets, previous, asked, overridden>>
    BY <1>3 DEF AcquireLock, flagVars
  <2>3. LockExclusive'
    BY <1>3 DEF AcquireLock, FlagInv, LockExclusive, TypeOK
  <2>4. \A w \in Workers : Held(w)' <=> Held(w)
    BY <2>1, <2>2 DEF Held
  <2> QED BY <2>1, <2>2, <2>3, <2>4 DEF FlagInv, FlagsRestored, AsAsked, TypeOK
<1>4. ASSUME NEW u \in Updates, LockTimeout(u) \/ BodyLost(u) PROVE FlagInv'
  <2>1. /\ upc[u] \in {"waiting", "locked"}
        /\ EndUpdate(u)
        /\ lock' = lock \ {u} \/ (upc[u] = "waiting" /\ lock' = lock)
        /\ UNCHANGED <<disabled, asked, overridden>>
    BY <1>4 DEF LockTimeout, BodyLost, flagVars
  <2>2. \A v \in Updates : upc[v] = "broadcasting" <=> upc'[v] = "broadcasting"
    BY <2>1 DEF EndUpdate, TypeOK
  <2>3. \A v \in Updates : upc[v] = "broadcasting" =>
          targets'[v] = targets[v] /\ previous'[v] = previous[v]
    BY <2>1 DEF EndUpdate, TypeOK
  <2>4. LockExclusive'
    BY <2>1 DEF EndUpdate, FlagInv, LockExclusive, TypeOK
  <2>5. \A w \in Workers : Held(w)' <=> Held(w)
    BY <2>2, <2>3 DEF Held
  <2> QED BY <2>1, <2>2, <2>3, <2>4, <2>5 DEF FlagInv, FlagsRestored, AsAsked, TypeOK
<1>5. ASSUME NEW u \in Updates, DisableTargets(u) PROVE FlagInv'
  <2>1. \A v \in Updates : upc[v] # "broadcasting"
    BY <1>5 DEF DisableTargets, FlagInv, LockExclusive
  <2>2. \A w \in Workers : ~Held(w)
    BY <2>1 DEF Held
  <2>3. \A v \in Updates : upc'[v] = "broadcasting" <=> v = u
    BY <1>5, <2>1 DEF DisableTargets, TypeOK
  <2>4. \A w \in Workers : Held(w)' <=> w \in targets[u]
    BY <1>5, <2>3 DEF DisableTargets, Held
  <2>5. LockExclusive'
    BY <1>5 DEF DisableTargets, FlagInv, LockExclusive, TypeOK
  <2>6. FlagsRestored'
    BY <1>5, <2>2, <2>4 DEF DisableTargets, FlagInv, FlagsRestored, AsAsked, flagVars, TypeOK
  <2>7. \A w \in targets[u] : AsAsked(w, previous'[u][w])
    BY <1>5, <2>2 DEF DisableTargets, FlagInv, FlagsRestored, AsAsked, TypeOK
  <2> QED
    BY <1>5, <2>2, <2>3, <2>4, <2>5, <2>6, <2>7
       DEF DisableTargets, FlagInv, AsAsked, flagVars, TypeOK
<1>6. ASSUME NEW u \in Updates, NEW failed \in SUBSET Workers, FinishUpdate(u, failed)
      PROVE  FlagInv'
  <2>1. \A v \in Updates : upc[v] = "broadcasting" <=> v = u
    BY <1>6 DEF FinishUpdate, FlagInv, LockExclusive
  <2>2. \A v \in Updates : upc'[v] # "broadcasting"
    BY <1>6, <2>1 DEF FinishUpdate, EndUpdate, TypeOK
  <2>3. \A w \in Workers : Held(w) <=> w \in targets[u]
    BY <2>1 DEF Held
  <2>4. LockExclusive'
    BY <1>6 DEF FinishUpdate, EndUpdate, FlagInv, LockExclusive, TypeOK
  <2>5. \A w \in targets[u] : AsAsked(w, previous[u][w])
    BY <2>1 DEF FlagInv
  <2>6. FlagsRestored'
    <3>1. ASSUME NEW w \in Workers, w \in targets[u]
          PROVE  AsAsked(w, disabled[w])'
      BY <1>6, <2>5, <3>1 DEF FinishUpdate, KeepDisabled, AsAsked, TypeOK
    <3>2. ASSUME NEW w \in Workers, w \notin targets[u]
          PROVE  AsAsked(w, disabled[w])'
      BY <1>6, <2>3, <3>2 DEF FinishUpdate, FlagInv, FlagsRestored, AsAsked, TypeOK
    <3> QED BY <3>1, <3>2 DEF FlagsRestored
  <2>7. overridden' = {}
    BY <1>6, <2>3 DEF FinishUpdate, FlagInv, TypeOK
  <2> QED BY <2>2, <2>4, <2>6, <2>7 DEF FlagInv
<1>7. CASE UNCHANGED <<disabled, flagVars, adminVars>>
  BY <1>7, FlagFrame
<1>8. \/ \E w \in Workers, f \in Fields, d \in Fields : UpdateWorker(w, f, d)
      \/ \E u \in Updates : UpdateStep(u)
      \/ UNCHANGED <<disabled, flagVars, adminVars>>
  BY DEF Next, vars, WorkerStep, StartProbe, FinishProbe, SelectWorker, RelayEnds,
         RelayFails, CreateWorker, DeleteWorker
<1> QED BY <1>1, <1>2, <1>3, <1>4, <1>5, <1>6, <1>7, <1>8 DEF UpdateStep

\* For any interleaving of any number of updates with operators' requests, an
\* update leaves a worker's flag as an operator last asked, unless it asked
\* during a broadcast to the worker, and none brings back a worker whose
\* group initialisation failed.
THEOREM FlagsSafe == Spec => []FlagsRestored
<1>1. Init => FlagInv
  BY DEF Init, FlagInv, LockExclusive, FlagsRestored, AsAsked, Held
<1>2. FlagInv => FlagsRestored
  BY DEF FlagInv
<1> QED BY <1>1, <1>2, FlagStep, PoolTypeCorrect, PTL DEF Spec

\* No request is routed to a worker whose weights an update is changing,
\* unless an operator re-enabled it meanwhile.
THEOREM RoutingSafe == Spec => []UpdateExcludesRouting
<1>1. Init => FlagInv
  BY DEF Init, FlagInv, LockExclusive, FlagsRestored, AsAsked, Held
<1>2. FlagInv => UpdateExcludesRouting
  BY DEF FlagInv, UpdateExcludesRouting, Routable
<1> QED BY <1>1, <1>2, FlagStep, PoolTypeCorrect, PTL DEF Spec
-----------------------------------------------------------------------------
(***************************************************************************)
(* The data plane.                                                         *)
(***************************************************************************)

\* the requests that hold a slot, and those that count as load of worker w
Holders == {r \in Requests : slot[r]}
Load(w) == {r \in Requests : worker[r] = w /\ Serving(r)}

ShapeOK ==
  /\ inflight \in Nat
  /\ active \in [ListedWorkers -> Int]
  /\ pc \in [Requests -> Places]
  /\ iter \in [Requests -> {"unstarted", "open", "closing", "finished"}]
  /\ worker \in [Requests -> ListedWorkers \cup {NoWorker}]
  /\ slot \in [Requests -> BOOLEAN]
  /\ cleaned \in [Requests -> BOOLEAN]
  /\ drift \in [ListedWorkers -> Nat]

\* how far a request is and who has begun its cleanup
RequestOK(r) ==
  /\ pc[r] \in {"idle", "admitted"} => worker[r] = NoWorker
  /\ pc[r] \notin {"idle", "admitted"} => worker[r] \in ListedWorkers
  /\ pc[r] \in {"idle", "admitted", "sending", "returned"} =>
       iter[r] = "unstarted" /\ ~cleaned[r]
  /\ pc[r] = "relaying" => (cleaned[r] <=> iter[r] \in {"closing", "finished"})
  /\ pc[r] \in {"closing", "ended"} => cleaned[r] /\ iter[r] # "closing"
  /\ slot[r] <=> Serving(r)

ControlOK == ShapeOK /\ \A r \in Requests : RequestOK(r)

CountOK ==
  /\ IsFiniteSet(Holders) /\ inflight = Cardinality(Holders)
  /\ \A w \in ListedWorkers : active[w] = drift[w] + Cardinality(Load(w))

ProxyInv == ControlOK /\ CountOK
-----------------------------------------------------------------------------
\* Every relay that counts as load holds a slot, so the loads are finite sets
\* although nothing bounds the number of requests.
LEMMA LoadFinite ==
  ASSUME ProxyInv, NEW w \in ListedWorkers
  PROVE  IsFiniteSet(Load(w)) /\ Cardinality(Load(w)) \in Nat
<1>1. Load(w) \subseteq Holders
  BY DEF ProxyInv, ControlOK, RequestOK, Load, Holders
<1>2. IsFiniteSet(Load(w))
  BY <1>1, FS_Subset DEF ProxyInv, CountOK
<1> QED BY <1>2, FS_CardinalityType

\* A step that changes neither who holds a slot nor who counts as load, nor
\* the counters, keeps the counts.
LEMMA CountFrame ==
  ASSUME ProxyInv, Holders' = Holders, \A w \in ListedWorkers : Load(w)' = Load(w),
         UNCHANGED <<inflight, active, drift>>
  PROVE  CountOK'
BY DEF ProxyInv, CountOK

\* A request gives its slot back (_ReleaseOnce): the count goes down with it.
LEMMA CountRelease ==
  ASSUME ProxyInv, NEW r \in Requests, Serving(r), Release(r)
  PROVE  /\ IsFiniteSet(Holders') /\ inflight' = Cardinality(Holders')
         /\ inflight' \in Nat /\ slot' = [slot EXCEPT ![r] = FALSE]
<1>1. slot[r] /\ slot' = [slot EXCEPT ![r] = FALSE] /\ inflight' = inflight - 1
  BY DEF ProxyInv, ControlOK, RequestOK, Release
<1>2. r \in Holders /\ Holders' = Holders \ {r}
  BY <1>1 DEF Holders, ProxyInv, ControlOK, ShapeOK
<1>3. /\ IsFiniteSet(Holders \ {r})
      /\ Cardinality(Holders \ {r}) = Cardinality(Holders) - 1
      /\ Cardinality(Holders \ {r}) \in Nat
  BY <1>2, FS_RemoveElement, FS_CardinalityType DEF ProxyInv, CountOK
<1> QED BY <1>1, <1>2, <1>3 DEF ProxyInv, CountOK

\* The load of a worker loses the request whose relay is over: the count goes
\* down, or the increment is lost for good and the drift goes up.
LEMMA CountUnload ==
  ASSUME ProxyInv, NEW r \in Requests, Serving(r), worker[r] \in ListedWorkers,
         \A w \in ListedWorkers : Load(w)' = Load(w) \ {r},
         \/ DecrementActive(worker[r]) /\ UNCHANGED drift
         \/ Forget(worker[r])
  PROVE  \A w \in ListedWorkers : active'[w] = drift'[w] + Cardinality(Load(w)')
<1> SUFFICES ASSUME NEW w \in ListedWorkers
             PROVE  active'[w] = drift'[w] + Cardinality(Load(w)')
  OBVIOUS
<1>0. /\ IsFiniteSet(Load(w)) /\ Cardinality(Load(w)) \in Nat
      /\ active[w] = drift[w] + Cardinality(Load(w))
      /\ active[w] \in Int /\ drift[w] \in Nat
  BY LoadFinite DEF ProxyInv, CountOK, ControlOK, ShapeOK
<1>1. CASE w = worker[r]
  <2>1. r \in Load(w)
    BY <1>1 DEF Load
  <2>2. Cardinality(Load(w)') = Cardinality(Load(w)) - 1
    BY <1>0, <2>1, FS_RemoveElement
  <2>3. \/ active'[w] = active[w] - 1 /\ drift'[w] = drift[w]
        \/ active'[w] = active[w] /\ drift'[w] = drift[w] + 1
    BY <1>1 DEF DecrementActive, Forget, ProxyInv, ControlOK, ShapeOK
  <2> QED BY <1>0, <2>2, <2>3
<1>2. CASE w # worker[r]
  <2>1. Load(w)' = Load(w)
    BY <1>2 DEF Load
  <2>2. active'[w] = active[w] /\ drift'[w] = drift[w]
    BY <1>2 DEF DecrementActive, Forget, ProxyInv, ControlOK, ShapeOK
  <2> QED BY <1>0, <2>1, <2>2
<1> QED BY <1>1, <1>2
-----------------------------------------------------------------------------
\* A request that is refused before it was routed leaves nothing behind.
LEMMA StepRefuse ==
  ASSUME ProxyInv, NEW r \in Requests, RefuseAdmitted(r)
  PROVE  ProxyInv'
<1>1. Serving(r) /\ worker[r] = NoWorker
  BY DEF ProxyInv, ControlOK, RequestOK, RefuseAdmitted, Serving
<1>2. /\ IsFiniteSet(Holders') /\ inflight' = Cardinality(Holders')
      /\ inflight' \in Nat /\ slot' = [slot EXCEPT ![r] = FALSE]
  BY <1>1, CountRelease DEF RefuseAdmitted
<1>3. ControlOK'
  BY <1>2 DEF ProxyInv, ControlOK, ShapeOK, RequestOK, RefuseAdmitted, Finish, Serving, Places
<1>4. \A w \in ListedWorkers : Load(w)' = Load(w)
  BY <1>1, ListAssumption
  DEF Load, Serving, RefuseAdmitted, Finish, ProxyInv, ControlOK, ShapeOK, RequestOK
<1>5. CountOK'
  BY <1>2, <1>4 DEF RefuseAdmitted, ProxyInv, CountOK
<1> QED BY <1>3, <1>5 DEF ProxyInv

\* The five ways in which a routed request ends before its response is
\* called: the decrement happens or is lost, the slot comes back.
LEMMA StepUnrelayed ==
  ASSUME ProxyInv, NEW r \in Requests, pc[r] \in {"sending", "returned"},
         \/ DecrementActive(worker[r]) /\ UNCHANGED drift
         \/ Forget(worker[r]),
         Release(r), Finish(r)
  PROVE  ProxyInv'
<1>1. Serving(r) /\ worker[r] \in ListedWorkers
  BY DEF ProxyInv, ControlOK, RequestOK, Serving
<1>2. /\ IsFiniteSet(Holders') /\ inflight' = Cardinality(Holders')
      /\ inflight' \in Nat /\ slot' = [slot EXCEPT ![r] = FALSE]
  BY <1>1, CountRelease
<1>3. /\ active' \in [ListedWorkers -> Int] /\ drift' \in [ListedWorkers -> Nat]
  BY <1>1 DEF ProxyInv, ControlOK, ShapeOK, DecrementActive, Forget
<1>4. ControlOK'
  BY <1>2, <1>3 DEF ProxyInv, ControlOK, ShapeOK, RequestOK, Finish, Serving, Places
<1>5. \A w \in ListedWorkers : Load(w)' = Load(w) \ {r}
  BY <1>1, ListAssumption
  DEF Load, Serving, Finish, ProxyInv, ControlOK, ShapeOK, RequestOK
<1>6. CountOK'
  BY <1>1, <1>2, <1>5, CountUnload DEF CountOK
<1> QED BY <1>4, <1>6 DEF ProxyInv

\* The owner that entered _RelayCleanup ends it, the iterator or __call__:
\* the relay is counted off once.
LEMMA StepCleaned ==
  ASSUME ProxyInv, NEW r \in Requests, BodyCleaned(r) \/ CallCleaned(r)
  PROVE  ProxyInv'
<1>1. Serving(r) /\ worker[r] \in ListedWorkers
  BY DEF ProxyInv, ControlOK, RequestOK, ShapeOK, Serving, BodyCleaned, CallCleaned, Places
<1>2. /\ IsFiniteSet(Holders') /\ inflight' = Cardinality(Holders')
      /\ inflight' \in Nat /\ slot' = [slot EXCEPT ![r] = FALSE]
  BY <1>1, CountRelease DEF BodyCleaned, CallCleaned, EndCleanup
<1>3. active' \in [ListedWorkers -> Int]
  BY <1>1 DEF ProxyInv, ControlOK, ShapeOK, DecrementActive, BodyCleaned, CallCleaned, EndCleanup
<1>4. ControlOK'
  BY <1>2, <1>3
  DEF ProxyInv, ControlOK, ShapeOK, RequestOK, BodyCleaned, CallCleaned, Serving, Places
<1>5. \A w \in ListedWorkers : Load(w)' = Load(w) \ {r}
  BY <1>1 DEF Load, Serving, BodyCleaned, CallCleaned, ProxyInv, ControlOK, ShapeOK, RequestOK,
              Places
<1>6. CountOK'
  BY <1>1, <1>2, <1>5, CountUnload DEF CountOK, BodyCleaned, CallCleaned, EndCleanup
<1> QED BY <1>4, <1>6 DEF ProxyInv

\* Steps of a relay that take or give back nothing.
LEMMA StepQuiet ==
  ASSUME ProxyInv, NEW r \in Requests,
         \/ HeadersArrive(r) \/ CallResponse(r) \/ OpenBody(r) \/ BodyEnds(r) \/ CallEnds(r)
  PROVE  ProxyInv'
<1>0. ShapeOK'
  BY DEF ProxyInv, ControlOK, ShapeOK, HeadersArrive, CallResponse, OpenBody, BodyEnds,
         CallEnds, BeginCleanup, Places
<1>1. ASSUME NEW p \in Requests
      PROVE  RequestOK(p)'
  <2> RequestOK(p) /\ RequestOK(r) /\ ShapeOK
    BY DEF ProxyInv, ControlOK
  <2>1. CASE HeadersArrive(r) \/ CallResponse(r)
    BY <2>1 DEF ShapeOK, RequestOK, HeadersArrive, CallResponse, Serving, Places
  <2>2. CASE OpenBody(r)
    BY <2>2 DEF ShapeOK, RequestOK, OpenBody, Serving, Places
  <2>3. CASE BodyEnds(r)
    BY <2>3 DEF ShapeOK, RequestOK, BodyEnds, BeginCleanup, Serving, Places
  <2>4. CASE CallEnds(r)
    BY <2>4 DEF ShapeOK, RequestOK, CallEnds, BeginCleanup, Serving, Places
  <2> QED BY <2>1, <2>2, <2>3, <2>4
<1>2. UNCHANGED <<inflight, active, slot, worker, drift>>
  BY DEF HeadersArrive, CallResponse, OpenBody, BodyEnds, CallEnds
<1>3. \A p \in Requests : Serving(p)' <=> Serving(p)
  BY <1>1, <1>2 DEF ControlOK, RequestOK, ProxyInv
<1>4. Holders' = Holders /\ \A w \in ListedWorkers : Load(w)' = Load(w)
  BY <1>2, <1>3 DEF Holders, Load
<1> QED BY <1>0, <1>1, <1>2, <1>4, CountFrame DEF ProxyInv, ControlOK

\* The finalizer of a response that was torn down finds the slot given back.
LEMMA StepFinalize ==
  ASSUME ProxyInv, NEW r \in Requests, FinalizeResponse(r)
  PROVE  ProxyInv'
<1>1. ~Serving(r) /\ ~slot[r]
  BY DEF ProxyInv, ControlOK, RequestOK, FinalizeResponse, Serving
<1>2. UNCHANGED <<inflight, active, slot, drift>>
  BY <1>1 DEF FinalizeResponse, Release
<1>3. ControlOK'
  BY <1>1, <1>2
  DEF ProxyInv, ControlOK, ShapeOK, RequestOK, FinalizeResponse, Finish, Serving, Places
<1>4. Holders' = Holders /\ \A w \in ListedWorkers : Load(w)' = Load(w)
  BY <1>1, <1>2
  DEF Holders, Load, ProxyInv, ControlOK, ShapeOK, RequestOK, FinalizeResponse, Finish, Serving
<1> QED BY <1>2, <1>3, <1>4, CountFrame DEF ProxyInv

\* Admission: the count and the set of holders grow together.
LEMMA StepAcquire ==
  ASSUME ProxyInv, NEW r \in Requests, TryAcquire(r)
  PROVE  ProxyInv'
<1>1. ~Serving(r) /\ ~slot[r] /\ worker[r] = NoWorker
  BY DEF ProxyInv, ControlOK, RequestOK, TryAcquire, Serving
<1>2. r \notin Holders /\ Holders' = Holders \cup {r}
  BY <1>1 DEF Holders, TryAcquire, ProxyInv, ControlOK, ShapeOK
<1>3. IsFiniteSet(Holders') /\ inflight' = Cardinality(Holders')
  BY <1>2, FS_AddElement, FS_CardinalityType DEF TryAcquire, ProxyInv, CountOK
<1>4. ControlOK'
  BY <1>1 DEF ProxyInv, ControlOK, ShapeOK, RequestOK, TryAcquire, Serving, Places
<1>5. \A w \in ListedWorkers : Load(w)' = Load(w)
  BY <1>1, ListAssumption
  DEF Load, Serving, TryAcquire, ProxyInv, ControlOK, ShapeOK, RequestOK
<1> QED BY <1>3, <1>4, <1>5 DEF TryAcquire, ProxyInv, CountOK

\* Routing: the chosen worker's count and its set of relays grow together.
LEMMA StepSend ==
  ASSUME ProxyInv, NEW r \in Requests, NEW eligible, NEW w \in ListedWorkers,
         SendUpstream(r, eligible, w)
  PROVE  ProxyInv'
<1>1. Serving(r) /\ slot[r] /\ worker[r] = NoWorker
  BY DEF ProxyInv, ControlOK, RequestOK, SendUpstream, Serving
<1>2. ControlOK'
  BY <1>1 DEF ProxyInv, ControlOK, ShapeOK, RequestOK, SendUpstream, Serving, Places
<1>3. Holders' = Holders
  BY DEF Holders, SendUpstream
<1>4. ASSUME NEW v \in ListedWorkers
      PROVE  active'[v] = drift'[v] + Cardinality(Load(v)')
  <2>0. /\ IsFiniteSet(Load(v)) /\ Cardinality(Load(v)) \in Nat
        /\ active[v] = drift[v] + Cardinality(Load(v))
        /\ active[v] \in Int /\ drift[v] \in Nat
    BY LoadFinite DEF ProxyInv, CountOK, ControlOK, ShapeOK
  <2>1. CASE v = w
    <3>1. r \notin Load(v) /\ Load(v)' = Load(v) \cup {r}
      BY <1>1, <2>1, ListAssumption
      DEF Load, Serving, SendUpstream, ProxyInv, ControlOK, ShapeOK, RequestOK
    <3>2. Cardinality(Load(v)') = Cardinality(Load(v)) + 1
      BY <2>0, <3>1, FS_AddElement
    <3>3. active'[v] = active[v] + 1 /\ drift'[v] = drift[v]
      BY <2>1 DEF SendUpstream, ProxyInv, ControlOK, ShapeOK
    <3> QED BY <2>0, <3>2, <3>3
  <2>2. CASE v # w
    <3>1. Load(v)' = Load(v)
      BY <1>1, <2>2, ListAssumption
      DEF Load, Serving, SendUpstream, ProxyInv, ControlOK, ShapeOK, RequestOK
    <3>2. active'[v] = active[v] /\ drift'[v] = drift[v]
      BY <2>2 DEF SendUpstream, ProxyInv, ControlOK, ShapeOK
    <3> QED BY <2>0, <3>1, <3>2
  <2> QED BY <2>1, <2>2
<1> QED BY <1>2, <1>3, <1>4 DEF SendUpstream, ProxyInv, CountOK

\* Every step of every request keeps the counters and the control state.
LEMMA ProxyStep == ProxyInv /\ [ProxyNext]_proxyVars => ProxyInv'
<1> SUFFICES ASSUME ProxyInv, [ProxyNext]_proxyVars PROVE ProxyInv'
  OBVIOUS
<1>1. CASE UNCHANGED proxyVars
  <2>1. Holders' = Holders /\ \A w \in ListedWorkers : Load(w)' = Load(w)
    BY <1>1 DEF proxyVars, Holders, Load, Serving
  <2>2. ControlOK'
    BY <1>1 DEF proxyVars, ProxyInv, ControlOK, ShapeOK, RequestOK, Serving
  <2> QED BY <1>1, <2>1, <2>2, CountFrame DEF proxyVars, ProxyInv
<1>2. ASSUME NEW r \in Requests, Step(r)
      PROVE  ProxyInv'
  <2>1. CASE SendFails(r) \/ SendRaises(r) \/ ResponseDropped(r)
    BY <2>1, StepUnrelayed DEF SendFails, SendRaises, ResponseDropped
  <2>2. ASSUME NEW closed \in BOOLEAN, HeadersFail(r, closed)
        PROVE  ProxyInv'
    BY <2>2, StepUnrelayed DEF HeadersFail
  <2>3. CASE \/ HeadersArrive(r) \/ CallResponse(r) \/ OpenBody(r)
             \/ BodyEnds(r) \/ CallEnds(r)
    BY <2>3, StepQuiet
  <2> QED BY <1>2, <2>1, <2>2, <2>3, StepAcquire, StepRefuse, StepSend, StepCleaned,
             StepFinalize DEF Step
<1> QED BY <1>1, <1>2 DEF ProxyNext

\* The router starts with nothing admitted.
LEMMA ProxyInvInit == ProxyInit => ProxyInv
<1> SUFFICES ASSUME ProxyInit PROVE ProxyInv
  OBVIOUS
<1>1. ControlOK
  BY DEF ProxyInit, ControlOK, ShapeOK, RequestOK, Serving, Places
<1>2. Holders = {} /\ \A w \in ListedWorkers : Load(w) = {}
  BY DEF ProxyInit, Holders, Load, Serving
<1>3. CountOK
  BY <1>2, FS_EmptySet DEF ProxyInit, CountOK
<1> QED BY <1>1, <1>3 DEF ProxyInv

\* In every behaviour of the router the control state and both counters are
\* as ProxyInv describes.
LEMMA ProxyInvariant == ProxySpec => []ProxyInv
BY ProxyInvInit, ProxyStep, PTL DEF ProxySpec
-----------------------------------------------------------------------------
\* AdmissionController: the in-flight count is exactly the number of requests
\* being served, each with one slot, on every path of the teardown.
THEOREM AdmissionIsExact == ProxySpec => []AdmissionExact
<1>1. ProxyInv => AdmissionExact
  BY DEF ProxyInv, ControlOK, RequestOK, CountOK, Holders, AdmissionExact
<1> QED BY <1>1, ProxyInvariant, PTL

\* Worker.active_requests: the load of a worker is the number of its relays in
\* progress plus the increments that were lost; no relay is counted off twice.
THEOREM LoadIsAccountedFor == ProxySpec => []LoadAccountedFor
<1>1. ProxyInv => LoadAccountedFor
  BY DEF ProxyInv, CountOK, Load, LoadAccountedFor
<1> QED BY <1>1, ProxyInvariant, PTL

\* the count that a relay in progress will decrement is positive
DecrementsPositive ==
  \A r \in Requests : Serving(r) /\ worker[r] # NoWorker => active[worker[r]] > 0

\* decrement_active: the count it decrements is positive, so its assertion
\* never fails, whichever owner tears the relay down.
THEOREM NoUnderflow == ProxySpec => []DecrementsPositive
<1>1. ASSUME ProxyInv, NEW r \in Requests, Serving(r), worker[r] # NoWorker
      PROVE  active[worker[r]] > 0
  <2> DEFINE w == worker[r]
  <2>1. w \in ListedWorkers /\ drift[w] \in Nat
    BY <1>1 DEF ProxyInv, ControlOK, ShapeOK
  <2>2. r \in Load(w)
    BY <1>1 DEF Load
  <2>3. Cardinality(Load(w)) # 0
    BY <1>1, <2>1, <2>2, LoadFinite, FS_EmptySet
  <2> QED BY <1>1, <2>1, <2>3, LoadFinite DEF ProxyInv, CountOK
<1>2. ProxyInv => DecrementsPositive
  BY <1>1 DEF DecrementsPositive
<1> QED BY <1>2, ProxyInvariant, PTL
=============================================================================
