------------------------------ MODULE RouterPool ------------------------------
(***************************************************************************)
(* The worker pool of the external router (sglang_omni_router): health     *)
(* probes, failures reported by relayed requests, the operator's /workers  *)
(* endpoints and the admin broadcasts that take workers out of routing     *)
(* while weights change (worker.py, health.py, app.py).                    *)
(*                                                                         *)
(* Everything runs on one event loop.  A probe suspends between its check  *)
(* of is_dead and the recording of its result; an admin update suspends    *)
(* between its choice of targets and the lock, and between disabling its   *)
(* targets and restoring them.                                             *)
(*                                                                         *)
(* A Worker object enters the pool once and never comes back: registering  *)
(* a deleted URL again makes a new object.                                 *)
(***************************************************************************)
EXTENDS Naturals, FiniteSets

CONSTANTS
  Workers,           \* Worker objects
  Updates,           \* tasks serving the admin update routes, one call at a
                     \* time each
  FailureThreshold,  \* health_failure_threshold
  SuccessThreshold,  \* health_success_threshold
  MaxProbes,         \* bound: probes of one worker in flight at a time
  MaxRelays          \* bound: relayed requests of one worker at a time

ASSUME ThresholdAssumption ==
  FailureThreshold \in Nat \ {0} /\ SuccessThreshold \in Nat \ {0}
ASSUME BoundAssumption == MaxProbes \in Nat \ {0} /\ MaxRelays \in Nat

VARIABLES
  pool,        \* the workers list: "new", "member" or "deleted"
  state,       \* Worker.state
  disabled,    \* Worker.disabled
  failures,    \* consecutive_failures, saturated at the threshold
  successes,   \* consecutive_successes, saturated at the threshold
  probes,      \* health checks awaiting their response, per worker
  relays,      \* relayed requests that may still report a failure, per worker
  upc,         \* where each admin update is
  path,        \* "init" (/init_weights_update_group) or "other"
  targets,     \* target_workers
  previous,    \* previous_disabled
  lock,        \* admin_update_lock: the set of its holders
  asked,       \* history: the flag an operator last asked for ("true" or
               \* "false"), "undone" when it asked during a broadcast to the
               \* worker, whose end writes over it, and "failed" once group
               \* initialisation has failed on the worker, until an operator
               \* asks outside a broadcast
  overridden   \* history: workers whose flag an operator set during the
               \* broadcast in progress

flagVars   == <<asked, overridden>>
healthVars == <<state, failures, successes>>
adminVars  == <<upc, path, targets, previous, lock>>
vars == <<pool, disabled, probes, relays, healthVars, flagVars, adminVars>>

States == {"unknown", "healthy", "unhealthy", "dead"}

\* Every variable has the shape of the object it stands for.
TypeOK ==
  /\ pool \in [Workers -> {"new", "member", "deleted"}]
  /\ state \in [Workers -> States]
  /\ disabled \in [Workers -> BOOLEAN]
  /\ failures \in [Workers -> 0..FailureThreshold]
  /\ successes \in [Workers -> 0..SuccessThreshold]
  /\ probes \in [Workers -> 0..MaxProbes]
  /\ relays \in [Workers -> 0..MaxRelays]
  /\ upc \in [Updates -> {"idle", "waiting", "locked", "broadcasting"}]
  /\ path \in [Updates -> {"init", "other"}]
  /\ targets \in [Updates -> SUBSET Workers]
  /\ previous \in [Updates -> [Workers -> BOOLEAN]]
  /\ lock \in SUBSET Updates
  /\ asked \in [Workers -> {"true", "false", "undone", "failed"}]
  /\ overridden \in SUBSET Workers

Init ==
  /\ pool \in [Workers -> {"new", "member"}]  \* "member": in the configuration
  /\ \E w \in Workers : pool[w] = "member"
  /\ state = [w \in Workers |-> "unknown"]
  /\ disabled = [w \in Workers |-> FALSE]
  /\ failures = [w \in Workers |-> 0]
  /\ successes = [w \in Workers |-> 0]
  /\ probes = [w \in Workers |-> 0]
  /\ relays = [w \in Workers |-> 0]
  /\ upc = [u \in Updates |-> "idle"]
  /\ path = [u \in Updates |-> "other"]
  /\ targets = [u \in Updates |-> {}]
  /\ previous = [u \in Updates |-> [w \in Workers |-> FALSE]]
  /\ lock = {}
  /\ asked = [w \in Workers |-> "false"]
  /\ overridden = {}

Routable(w) == pool[w] = "member" /\ state[w] = "healthy" /\ ~disabled[w]

\* one more in a row, saturated: past the threshold only "at least" matters
Bump(n, cap) == IF n < cap THEN n + 1 ELSE n
-----------------------------------------------------------------------------
(* Worker: recording successes and failures.                               *)

\* mutant: a success leaves the failure count alone
RecordSuccessKeepingFailures(w) ==
  /\ successes' = [successes EXCEPT ![w] = Bump(@, SuccessThreshold)]
  /\ state' = [state EXCEPT ![w] =
                 IF successes'[w] >= SuccessThreshold THEN "healthy" ELSE @]
  /\ UNCHANGED failures

\* record_health_result(ok=True)
RecordSuccess(w) ==
  /\ successes' = [successes EXCEPT ![w] = Bump(@, SuccessThreshold)]
  /\ failures' = [failures EXCEPT ![w] = 0]
  /\ state' = [state EXCEPT ![w] =
                 IF successes'[w] >= SuccessThreshold THEN "healthy" ELSE @]

\* _record_failure
RecordFailure(w) ==
  /\ failures' = [failures EXCEPT ![w] = Bump(@, FailureThreshold)]
  /\ successes' = [successes EXCEPT ![w] = 0]
  /\ state' = [state EXCEPT ![w] =
                 IF failures'[w] >= FailureThreshold THEN "unhealthy" ELSE @]
-----------------------------------------------------------------------------
(* HealthChecker.                                                          *)

\* the health loop reaches a worker that is not dead and sends the probe
StartProbe(w) ==
  /\ pool[w] = "member"
  /\ state[w] # "dead"
  /\ probes[w] < MaxProbes
  /\ probes' = [probes EXCEPT ![w] = @ + 1]
  /\ UNCHANGED <<pool, disabled, relays, healthVars, flagVars, adminVars>>

\* the probe ends: its answer ("ok" or "failed", a timeout being a failure) is
\* recorded, or an exception outside httpx.HTTPError ends it unrecorded
FinishProbe(w, outcome) ==
  /\ probes[w] > 0
  /\ probes' = [probes EXCEPT ![w] = @ - 1]
  /\ \/ outcome = "ok" /\ RecordSuccess(w)
     \/ outcome = "failed" /\ RecordFailure(w)
     \/ outcome = "raised" /\ UNCHANGED <<state, failures, successes>>
  /\ UNCHANGED <<pool, disabled, relays, flagVars, adminVars>>
-----------------------------------------------------------------------------
(* Relayed requests, as far as the pool sees them.                         *)

\* the selector chooses the worker
SelectWorker(w) ==
  /\ Routable(w)
  /\ relays[w] < MaxRelays
  /\ relays' = [relays EXCEPT ![w] = @ + 1]
  /\ UNCHANGED <<pool, disabled, probes, healthVars, flagVars, adminVars>>

RelayEnds(w) ==
  /\ relays[w] > 0
  /\ relays' = [relays EXCEPT ![w] = @ - 1]
  /\ UNCHANGED <<pool, disabled, probes, healthVars, flagVars, adminVars>>

\* _record_worker_request_failure, at most once for a relay
RelayFails(w) ==
  /\ relays[w] > 0
  /\ relays' = [relays EXCEPT ![w] = @ - 1]
  /\ IF state[w] = "dead" THEN UNCHANGED <<state, failures, successes>>
                          ELSE RecordFailure(w)
  /\ UNCHANGED <<pool, disabled, probes, flagVars, adminVars>>
-----------------------------------------------------------------------------
(* The operator's endpoints.                                               *)

\* POST /workers appends the worker and probes it
CreateWorker(w) ==
  /\ pool[w] = "new"
  /\ pool' = [pool EXCEPT ![w] = "member"]
  /\ probes' = [probes EXCEPT ![w] = 1]
  /\ UNCHANGED <<disabled, relays, healthVars, flagVars, adminVars>>

\* DELETE /workers/{id}.  What probes, relays and requests still in flight
\* write to the removed object reaches nobody.
DeleteWorker(w) ==
  /\ pool[w] = "member"
  /\ pool' = [pool EXCEPT ![w] = "deleted"]
  /\ probes' = [probes EXCEPT ![w] = 0]
  /\ relays' = [relays EXCEPT ![w] = 0]
  /\ UNCHANGED <<disabled, healthVars, flagVars, adminVars>>

Held(w) == \E u \in Updates : upc[u] = "broadcasting" /\ w \in targets[u]

\* the field "disabled" of a PUT
PutDisabled(w, flag) ==
  IF flag = "unset" THEN UNCHANGED <<disabled, flagVars>>
  ELSE /\ disabled' = [disabled EXCEPT ![w] = (flag = "true")]
       /\ IF Held(w)
          THEN /\ asked' = [asked EXCEPT ![w] = IF @ = "failed" THEN @ ELSE "undone"]
               /\ overridden' = overridden \cup {w}
          ELSE asked' = [asked EXCEPT ![w] = flag] /\ UNCHANGED overridden

\* the field "is_dead": clearing it resets the counters and starts a probe
PutDead(w, flag) ==
  \/ flag = "unset" /\ UNCHANGED <<healthVars, probes>>
  \/ /\ flag = "true"
     /\ state' = [state EXCEPT ![w] = "dead"]
     /\ UNCHANGED <<failures, successes, probes>>
  \/ /\ flag = "false"
     /\ probes[w] < MaxProbes
     /\ state' = [state EXCEPT ![w] = IF @ = "dead" THEN "unknown" ELSE @]
     /\ failures' = [failures EXCEPT ![w] = 0]
     /\ successes' = [successes EXCEPT ![w] = 0]
     /\ probes' = [probes EXCEPT ![w] = @ + 1]

\* PUT /workers/{id}, once its fields have been validated
UpdateWorker(w, flag, dead) ==
  /\ pool[w] = "member"
  /\ PutDisabled(w, flag)
  /\ PutDead(w, dead)
  /\ UNCHANGED <<pool, relays, adminVars>>
-----------------------------------------------------------------------------
(* Admin updates: _broadcast_admin_request and ..._locked.                 *)

workerVars == <<pool, probes, relays, healthVars>>

LiveWorkers == {w \in Workers : pool[w] = "member" /\ state[w] # "dead"}

\* the update is over, successfully or not
EndUpdate(u) ==
  /\ upc' = [upc EXCEPT ![u] = "idle"]
  /\ path' = [path EXCEPT ![u] = "other"]
  /\ targets' = [targets EXCEPT ![u] = {}]
  /\ previous' = [previous EXCEPT ![u] = [w \in Workers |-> FALSE]]

\* a call of route p chooses its targets before it waits for the lock; it is
\* refused when there are none, or several to initialise a group on
BeginUpdate(u, p) ==
  /\ upc[u] = "idle"
  /\ LiveWorkers # {}
  /\ p = "init" => Cardinality(LiveWorkers) = 1
  /\ upc' = [upc EXCEPT ![u] = "waiting"]
  /\ path' = [path EXCEPT ![u] = p]
  /\ targets' = [targets EXCEPT ![u] = LiveWorkers]
  /\ UNCHANGED <<workerVars, disabled, previous, lock, flagVars>>

\* mutant: updates do not wait for each other
AcquireWithoutWaiting(u) ==
  /\ upc[u] = "waiting"
  /\ lock' = lock \cup {u}
  /\ upc' = [upc EXCEPT ![u] = "locked"]
  /\ UNCHANGED <<workerVars, disabled, path, targets, previous, flagVars>>

AcquireLock(u) ==
  /\ upc[u] = "waiting" /\ lock = {}
  /\ lock' = {u}
  /\ upc' = [upc EXCEPT ![u] = "locked"]
  /\ UNCHANGED <<workerVars, disabled, path, targets, previous, flagVars>>

\* no lock within _ADMIN_UPDATE_LOCK_TIMEOUT_S
LockTimeout(u) ==
  /\ upc[u] = "waiting"
  /\ EndUpdate(u)
  /\ UNCHANGED <<workerVars, disabled, lock, flagVars>>

\* the caller disconnects before its body is read
BodyLost(u) ==
  /\ upc[u] = "locked"
  /\ EndUpdate(u)
  /\ lock' = lock \ {u}
  /\ UNCHANGED <<workerVars, disabled, flagVars>>

\* the body has been read: remember the flags and disable the targets
DisableTargets(u) ==
  /\ upc[u] = "locked"
  /\ previous' = [previous EXCEPT ![u] =
                    [w \in Workers |-> w \in targets[u] /\ disabled[w]]]
  /\ disabled' = [w \in Workers |-> disabled[w] \/ w \in targets[u]]
  /\ upc' = [upc EXCEPT ![u] = "broadcasting"]
  /\ UNCHANGED <<workerVars, path, targets, lock, flagVars>>

\* mutant: the flags are restored whatever the outcome
KeepNone(u, failed) == {}

\* _restore_admin_disabled_state: which targets stay disabled
KeepDisabled(u, failed) == IF path[u] = "init" THEN failed ELSE {}

\* every answer is in (failed: the workers that did not succeed; all of
\* them when the broadcast itself raised or was cancelled), the flags are
\* restored, the lock is released.  When one send raises, gather raises at
\* once and the update ends here although other sends may still be running.
FinishUpdate(u, failed) ==
  /\ upc[u] = "broadcasting" /\ failed \subseteq targets[u]
  /\ disabled' = [w \in Workers |->
                    IF w \in targets[u]
                    THEN w \in KeepDisabled(u, failed) \/ previous[u][w]
                    ELSE disabled[w]]
  /\ asked' = [w \in Workers |->
                 IF path[u] = "init" /\ w \in failed THEN "failed" ELSE asked[w]]
  /\ overridden' = overridden \ targets[u]
  /\ EndUpdate(u)
  /\ lock' = lock \ {u}
  /\ UNCHANGED workerVars
-----------------------------------------------------------------------------
Fields == {"unset", "true", "false"}

WorkerStep(w) ==
  \/ StartProbe(w)
  \/ \E outcome \in {"ok", "failed", "raised"} : FinishProbe(w, outcome)
  \/ SelectWorker(w) \/ RelayEnds(w) \/ RelayFails(w)
  \/ CreateWorker(w) \/ DeleteWorker(w)
  \/ \E flag \in Fields, dead \in Fields : UpdateWorker(w, flag, dead)

UpdateStep(u) ==
  \/ \E p \in {"init", "other"} : BeginUpdate(u, p)
  \/ AcquireLock(u) \/ LockTimeout(u)
  \/ BodyLost(u) \/ DisableTargets(u)
  \/ \E failed \in SUBSET Workers : FinishUpdate(u, failed)

Next ==
  \/ \E w \in Workers : WorkerStep(w)
  \/ \E u \in Updates : UpdateStep(u)

Spec == Init /\ [][Next]_vars
-----------------------------------------------------------------------------
(* Properties.                                                             *)

\* The health state agrees with the streaks it was computed from: a worker
\* still in rotation has failed fewer times in a row than the threshold, one
\* out of it has not yet answered often enough, and no worker is on a streak
\* of both kinds.  Probes, late relay failures and operators all write these
\* fields (Worker.record_health_result, _record_failure, clear_dead).
HealthMatchesCounters ==
  \A w \in Workers :
    /\ failures[w] = FailureThreshold => state[w] \in {"unhealthy", "dead"}
    /\ successes[w] = SuccessThreshold => state[w] \in {"healthy", "dead"}
    /\ failures[w] = 0 \/ successes[w] = 0

\* While an update broadcasts, none of its targets can be selected, unless an
\* operator set the worker's flag during that very broadcast.  Overlapping
\* updates would re-enable each other's targets
\* (_broadcast_admin_request, _broadcast_admin_request_locked).
UpdateExcludesRouting ==
  \A u \in Updates : upc[u] = "broadcasting" =>
    \A w \in targets[u] \ overridden : ~Routable(w)

\* the flag is what the worker's history asks for, when it asks for one
AsAsked(w, flag) ==
  /\ asked[w] \in {"true", "failed"} => flag
  /\ asked[w] = "false" => ~flag

\* When no update holds a worker, its flag is the one an operator last asked
\* for, and a worker whose group initialisation failed is disabled until an
\* operator writes the flag: no sequence of updates leaves a worker disabled
\* by accident or brings a failed one back (_restore_admin_disabled_state).
\* The exception is an operator who asks while a broadcast holds the worker:
\* the end of the broadcast writes previous_disabled over it, whichever of
\* the two flags was asked for, until the operator asks again.
FlagsRestored ==
  \A w \in Workers : ~Held(w) => AsAsked(w, disabled[w])

\* The inductive strengthening of the two properties above: one update at a
\* time is past the lock, what it will restore is what operators asked for,
\* and its targets are disabled unless an operator interfered.
LockExclusive ==
  /\ lock = {u \in Updates : upc[u] \in {"locked", "broadcasting"}}
  /\ \A u, v \in lock : u = v

FlagInv ==
  /\ LockExclusive
  /\ FlagsRestored
  /\ \A w \in overridden : Held(w)
  /\ \A u \in Updates : upc[u] = "broadcasting" =>
       \A w \in targets[u] :
         /\ AsAsked(w, previous[u][w])
         /\ w \notin overridden => disabled[w]
=============================================================================
