-------------------------- MODULE ControllerProofs --------------------------
(***************************************************************************)
(* Proofs about Controller for every host, configuration and bound.  A     *)
(* step of the controller is a step, or a stutter, of the lease store and  *)
(* of the worker manager, whose own proofs carry their type invariants.    *)
(*                                                                         *)
(* The last part is about IdleHistory.  What makes SpawnLongAfterUse       *)
(* inductive is that a streak, with the dt of the next tick, never claims  *)
(* more time than has passed since the GPU was last seen in use, and that  *)
(* a GPU with a worker has no streak.                                      *)
(***************************************************************************)
EXTENDS IdleHistory, TLAPS

StoreProofs  == INSTANCE LeaseStoreProofs WITH up <- TRUE
WorkerProofs == INSTANCE WorkerManagerProofs

(* The lease store of the controller and the one of the proofs are one.    *)
LEMMA SameStore ==
  /\ Store!TypeOK <=> StoreProofs!TypeOK
  /\ Store!TypeOK' <=> StoreProofs!TypeOK'
  /\ [Store!Next]_(Store!vars) => [StoreProofs!Next]_(StoreProofs!vars)
<1>1. Store!TypeOK <=> StoreProofs!TypeOK
  BY DEF Store!TypeOK, StoreProofs!TypeOK, Store!Lease, StoreProofs!Lease
<1>2. Store!TypeOK' <=> StoreProofs!TypeOK'
  BY DEF Store!TypeOK, StoreProofs!TypeOK, Store!Lease, StoreProofs!Lease
<1>3. [Store!Next]_(Store!vars) => [StoreProofs!Next]_(StoreProofs!vars)
  BY Zenon DEF Store!Next, StoreProofs!Next, Store!vars, StoreProofs!vars,
     Store!Serve, StoreProofs!Serve, Store!Acquire, StoreProofs!Acquire,
     Store!Release, StoreProofs!Release, Store!Sweep, StoreProofs!Sweep,
     Store!Load, StoreProofs!Load, Store!Shutdown, StoreProofs!Shutdown,
     Store!Crash, StoreProofs!Crash, Store!Elapse, StoreProofs!Elapse,
     Store!Persist, StoreProofs!Persist, Store!Conflicts, StoreProofs!Conflicts,
     Store!Releasable, StoreProofs!Releasable,
     Store!LapsedGpus, StoreProofs!LapsedGpus, Store!IsLapsed, StoreProofs!IsLapsed,
     Store!Extended, StoreProofs!Extended, Store!Drop, StoreProofs!Drop,
     Store!Age, StoreProofs!Age, Store!IsActive, StoreProofs!IsActive,
     Store!Active, StoreProofs!Active, Store!Empty, StoreProofs!Empty
<1> QED
  BY <1>1, <1>2, <1>3

(* The leases keep their type in every step of the store.                  *)
LEMMA StoreTypeStep ==
  Store!TypeOK /\ [Store!Next]_(Store!vars) => Store!TypeOK'
<1>1. StoreProofs!TypeOK /\ [StoreProofs!Next]_(StoreProofs!vars) => StoreProofs!TypeOK'
  BY StoreProofs!TypeStep, StoreAssumption DEF StoreProofs!Lease
<1> QED
  BY <1>1, SameStore

(* The worker maps keep their type in every step of the manager.           *)
LEMMA WorkerTypeStep ==
  Workers!TypeOK /\ [Workers!Next]_(Workers!vars) => Workers!TypeOK'
<1>1. Workers!TypeOK <=> WorkerProofs!TypeOK
  BY DEF Workers!TypeOK, WorkerProofs!TypeOK, Workers!Counts, WorkerProofs!Counts
<1>2. [Workers!Next]_(Workers!vars) => [WorkerProofs!Next]_(WorkerProofs!vars)
  BY Zenon DEF Workers!Next, WorkerProofs!Next, Workers!Step, WorkerProofs!Step,
     Workers!vars, WorkerProofs!vars, Workers!mapVars, WorkerProofs!mapVars,
     Workers!stopVars, WorkerProofs!stopVars,
     Workers!Handler, WorkerProofs!Handler, Workers!Spawn, WorkerProofs!Spawn,
     Workers!ScheduleStop, WorkerProofs!ScheduleStop,
     Workers!Tracked, WorkerProofs!Tracked, Workers!FreeProcs, WorkerProofs!FreeProcs,
     Workers!NewProc, WorkerProofs!NewProc, Workers!OneMore, WorkerProofs!OneMore,
     Workers!Cleanup, WorkerProofs!Cleanup, Workers!StopBegin, WorkerProofs!StopBegin,
     Workers!StopReaped, WorkerProofs!StopReaped,
     Workers!StopTimeout, WorkerProofs!StopTimeout,
     Workers!StopKilled, WorkerProofs!StopKilled,
     Workers!WatchExit, WorkerProofs!WatchExit, Workers!ProcExit, WorkerProofs!ProcExit
<1>3. WorkerProofs!TypeOK /\ [WorkerProofs!Next]_(WorkerProofs!vars) => WorkerProofs!TypeOK'
  BY WorkerProofs!TypeStep, WorkerAssumption
<1>4. Workers!TypeOK' <=> WorkerProofs!TypeOK'
  BY DEF Workers!TypeOK, WorkerProofs!TypeOK, Workers!Counts, WorkerProofs!Counts
<1> QED
  BY <1>1, <1>2, <1>3, <1>4

-----------------------------------------------------------------------------
(* A sweep inside a handler is a sweep of the store, or nothing.           *)
LEMMA SweepIsStoreStep ==
  ASSUME NEW ok \in DiskOutcomes, SweepSome(ok)
  PROVE  [Store!Next]_(Store!vars)
  BY DEF SweepSome, storeVars, Store!Next, Store!Serve, Store!vars

(* Every step of the controller is a step of the store, or a stutter.      *)
LEMMA StoreSteps == [Next]_vars => [Store!Next]_(Store!vars)
<1> SUFFICES ASSUME [Next]_vars
             PROVE  [Store!Next]_(Store!vars)
  OBVIOUS
<1>1. CASE MonitorLoop
  BY <1>1, SweepIsStoreStep, StoreAssumption
     DEF MonitorLoop, Tick, TickSpawnFails, TickSweepFails, TickSweep
<1>2. ASSUME NEW ok \in DiskOutcomes, ExpiryLoop(ok)
      PROVE  [Store!Next]_(Store!vars)
  BY <1>2 DEF ExpiryLoop, Store!Next, Store!Serve
<1>3. ASSUME NEW u \in Uids, NEW S \in SUBSET Gpus, NEW ok \in DiskOutcomes,
             NEW d \in Durations, Pause(u, S, d, ok)
      PROVE  [Store!Next]_(Store!vars)
  BY <1>3 DEF Pause, Store!Next, Store!Serve
<1>4. ASSUME NEW u \in Uids, NEW S \in SUBSET Gpus, NEW ok \in DiskOutcomes,
             Resume(u, S, ok)
      PROVE  [Store!Next]_(Store!vars)
  BY <1>4 DEF Resume, Store!Next, Store!Serve
<1>5. CASE Elapse
  BY <1>5 DEF Elapse, Store!Next
<1>6. ASSUME UNCHANGED storeVars
      PROVE  [Store!Next]_(Store!vars)
  BY <1>6 DEF storeVars, Store!vars
<1>7. ASSUME NEW c \in Configs, Reload(c)
      PROVE  UNCHANGED storeVars
  BY <1>7 DEF Reload
<1> QED
  BY <1>1, <1>2, <1>3, <1>4, <1>5, <1>6, <1>7
     DEF Next, NotMonitor, Request, WorkerStep, vars

(* The GPUs a tick spawns on and the GPUs it schedules a stop() for.       *)
LEMMA VisitIsHandler ==
  ASSUME NEW s, NEW V \in SUBSET Gpus, NEW F, Visit(s, V, F)
  PROVE  \E S, T \in SUBSET V : /\ Workers!Handler(S, T)
                                /\ \A g \in S : leases'[g] = NoLease
<1> DEFINE S == {g \in V : SpawnDue(s, g)}
           T == {g \in V : /\ s[g] # "error" /\ leases'[g] # NoLease
                           /\ Workers!Tracked(g)}
<1>1. Workers!Handler(S, T)
  BY DEF Visit
<1>2. \A g \in S : leases'[g] = NoLease
  BY DEF SpawnDue
<1> QED
  BY <1>1, <1>2

(* Every step of the controller is a step of the manager, or a stutter.    *)
LEMMA WorkerSteps ==
  ASSUME watched \in SUBSET Gpus, [Next]_vars
  PROVE  [Workers!Next]_(Workers!vars)
<1> USE DEF Workers!Next
<1>1. ASSUME NEW s \in [watched -> Samples], Tick(s)
      PROVE  Workers!Next
  <2>1. \E S, T \in SUBSET watched : Workers!Handler(S, T)
    BY <1>1, VisitIsHandler DEF Tick
  <2> QED
    BY <2>1
<1>2. ASSUME NEW s \in [watched -> Samples], NEW g \in watched,
             NEW V \in SUBSET (watched \ {g}), TickSpawnFails(s, V, g)
      PROVE  Workers!Next
  <2>1. \E S, T \in SUBSET V : Workers!Handler(S, T)
    BY <1>2, VisitIsHandler DEF TickSpawnFails
  <2> QED
    BY <2>1
<1>3. ASSUME NEW u \in Uids, NEW S \in SUBSET Gpus, NEW ok \in DiskOutcomes,
             NEW d \in Durations, Pause(u, S, d, ok)
      PROVE  Workers!Next
  BY <1>3 DEF Pause
<1>4. CASE WorkerStep
  BY <1>4 DEF WorkerStep
<1>5. ASSUME UNCHANGED workerVars
      PROVE  [Workers!Next]_(Workers!vars)
  BY <1>5 DEF workerVars, Workers!vars, Workers!mapVars, Workers!stopVars
<1>6. ASSUME \/ TickSweepFails
             \/ \E ok \in DiskOutcomes : ExpiryLoop(ok)
             \/ \E u \in Uids, S \in SUBSET Gpus, ok \in DiskOutcomes : Resume(u, S, ok)
             \/ \E c \in Configs : Reload(c)
             \/ Elapse
             \/ UNCHANGED vars
      PROVE  UNCHANGED workerVars
  BY <1>6 DEF TickSweepFails, ExpiryLoop, Resume, Reload, Elapse, vars
<1> HIDE DEF Workers!Next
<1> QED
  BY <1>1, <1>2, <1>3, <1>4, <1>5, <1>6 DEF Next, NotMonitor, MonitorLoop, Request

-----------------------------------------------------------------------------
(* The variables of the controller itself have their types.                *)
ControlTypeOK == /\ cfg \in Configs
                 /\ watched \in SUBSET Gpus
                 /\ streak \in [Gpus -> Times]
                 /\ \A g \in Gpus \ watched : streak[g] = 0
                 /\ sinceTick \in Times \cup {NoTick}
                 /\ expiryAlive \in BOOLEAN

LEMMA TimeTypes ==
  /\ 0 \in Times /\ 1 \in Times
  /\ \A t, dt \in Times : Later(t, dt) \in Times
  BY DebounceAssumption DEF Times, Later

(* A visit gives every GPU it looks at a streak within bounds, and leaves  *)
(* the others alone.                                                       *)
LEMMA VisitTypes ==
  ASSUME ControlTypeOK, NEW s, NEW V \in SUBSET watched, NEW F \in SUBSET watched,
         Visit(s, V, F)
  PROVE  /\ streak' \in [Gpus -> Times]
         /\ \A g \in Gpus \ watched : streak'[g] = 0
<1> DEFINE S == {g \in V : SpawnDue(s, g)}
<1>1. Dt \in Times
  BY TimeTypes DEF Dt, ControlTypeOK
<1>2. \A g \in Gpus : NextStreak(s, g) \in Times
  BY <1>1, TimeTypes DEF NextStreak, ControlTypeOK
<1>3. streak' = [g \in Gpus |-> CASE g \in S -> 0
                                  [] g \in (V \ S) \cup F -> NextStreak(s, g)
                                  [] OTHER -> streak[g]]
  BY DEF Visit
<1> HIDE DEF S
<1>4. ASSUME NEW g \in Gpus
      PROVE  /\ streak'[g] \in Times
             /\ streak'[g] \in {0, NextStreak(s, g), streak[g]}
             /\ g \notin S \cup V \cup F => streak'[g] = streak[g]
  <2>1. streak'[g] = CASE g \in S -> 0
                       [] g \in (V \ S) \cup F -> NextStreak(s, g)
                       [] OTHER -> streak[g]
    BY <1>3
  <2>2. CASE g \in S /\ g \in (V \ S) \cup F
    <3>1. streak'[g] \in {0, NextStreak(s, g)}
      BY <2>1, <2>2
    <3> QED
      BY <1>2, <2>2, <3>1, TimeTypes
  <2>3. CASE g \in S /\ g \notin (V \ S) \cup F
    BY <2>1, <2>3, TimeTypes
  <2>4. CASE g \notin S /\ g \in (V \ S) \cup F
    BY <1>2, <2>1, <2>4
  <2>5. CASE g \notin S /\ g \notin (V \ S) \cup F
    BY <2>1, <2>5 DEF ControlTypeOK
  <2> QED
    BY <2>2, <2>3, <2>4, <2>5
<1>5. S \subseteq V
  BY DEF S
<1> QED
  BY <1>3, <1>4, <1>5 DEF ControlTypeOK

LEMMA ControlTypeStep == ControlTypeOK /\ [Next]_vars => ControlTypeOK'
<1> SUFFICES ASSUME ControlTypeOK, [Next]_vars
             PROVE  ControlTypeOK'
  OBVIOUS
<1> USE DEF ControlTypeOK
<1>1. ASSUME NEW s \in [watched -> Samples], Tick(s)
      PROVE  ControlTypeOK'
  BY <1>1, VisitTypes, TimeTypes DEF Tick
<1>2. ASSUME NEW s \in [watched -> Samples], NEW g \in watched,
             NEW V \in SUBSET (watched \ {g}), TickSpawnFails(s, V, g)
      PROVE  ControlTypeOK'
  BY <1>2, VisitTypes, TimeTypes DEF TickSpawnFails
<1>3. CASE TickSweepFails
  BY <1>3, TimeTypes DEF TickSweepFails
<1>4. ASSUME NEW ok \in DiskOutcomes, ExpiryLoop(ok)
      PROVE  ControlTypeOK'
  BY <1>4, StoreAssumption DEF ExpiryLoop
<1>5. ASSUME NEW c \in Configs, Reload(c)
      PROVE  ControlTypeOK'
  <2>1. Resolve(c) \in SUBSET Gpus
    BY VisibleAssumption, ConfigsAssumption DEF Resolve, ConfigType
  <2> QED
    BY <1>5, <2>1, TimeTypes DEF Reload, SetWatched
<1>6. CASE Elapse
  BY <1>6, TimeTypes, DebounceAssumption DEF Elapse
<1>7. ASSUME UNCHANGED controlVars
      PROVE  ControlTypeOK'
  BY <1>7 DEF controlVars
<1>8. ASSUME Request \/ WorkerStep \/ UNCHANGED vars
      PROVE  UNCHANGED controlVars
  BY <1>8 DEF Request, Pause, Resume, WorkerStep, vars
<1> QED
  BY <1>1, <1>2, <1>3, <1>4, <1>5, <1>6, <1>7, <1>8
     DEF Next, NotMonitor, MonitorLoop

LEMMA TypeInit == Init => TypeOK
<1> SUFFICES ASSUME Init
             PROVE  TypeOK
  OBVIOUS
<1>1. Store!TypeOK
  BY StoreAssumption DEF Init, Store!TypeOK, Store!Lease
<1>2. Workers!TypeOK
  BY WorkerAssumption DEF Init, Workers!Init, Workers!TypeOK, Workers!Counts
<1>3. watched \in SUBSET Gpus
  BY VisibleAssumption, ConfigsAssumption DEF Init, Resolve, ConfigType
<1> QED
  BY <1>1, <1>2, <1>3, TimeTypes DEF Init, TypeOK

LEMMA TypeStep == TypeOK /\ [Next]_vars => TypeOK'
<1> SUFFICES ASSUME TypeOK, [Next]_vars
             PROVE  TypeOK'
  OBVIOUS
<1>1. Store!TypeOK'
  BY StoreSteps, StoreTypeStep DEF TypeOK
<1>2. Workers!TypeOK'
  BY WorkerSteps, WorkerTypeStep DEF TypeOK
<1>3. ControlTypeOK'
  BY ControlTypeStep DEF TypeOK, ControlTypeOK
<1> QED
  BY <1>1, <1>2, <1>3 DEF TypeOK, ControlTypeOK

(* Leases, worker maps, streaks and timers have their types, and a GPU     *)
(* nobody watches has no streak.                                           *)
THEOREM TypeCorrect == Spec => []TypeOK
BY TypeInit, TypeStep, PTL DEF Spec

-----------------------------------------------------------------------------
(* What users see of the store is what they see of the one of the proofs.  *)
LEMMA SameReserved ==
  /\ StoreProofs!Reserved = Store!Active(leases)
  /\ StoreProofs!Reserved' = Store!Active(leases)'
  BY DEF StoreProofs!Reserved, StoreProofs!Active, Store!Active,
         StoreProofs!IsActive, Store!IsActive

(* A granted pause reserves all of its GPUs.                               *)
LEMMA PauseReserves ==
  ASSUME TypeOK, NEW ok \in DiskOutcomes, NEW u \in Uids, NEW S \in SUBSET Gpus,
         NEW d \in Durations, Pause(u, S, d, ok)
  PROVE  Promise!Reserve(u, S, d)
<1>1. StoreProofs!Acquire(u, S, d, ok)
  BY DEF Pause, Store!Acquire, StoreProofs!Acquire, Store!Persist,
         StoreProofs!Persist, Store!Conflicts, StoreProofs!Conflicts,
         Store!Extended, StoreProofs!Extended
<1>2. StoreProofs!TypeOK
  BY SameStore DEF TypeOK
<1>3. StoreProofs!Promise!Reserve(u, S, d)
  BY <1>1, <1>2, StoreProofs!AcquireKept, StoreAssumption DEF StoreProofs!Lease
<1> QED
  BY <1>3, SameReserved
     DEF StoreProofs!Promise!Reserve, Promise!Reserve,
         StoreProofs!Promise!Longer, Promise!Longer

(* A resume ends the reservations its user may end, and only those.        *)
LEMMA ResumeReleases ==
  ASSUME NEW ok \in DiskOutcomes, NEW u \in Uids, NEW S \in SUBSET Gpus,
         Resume(u, S, ok)
  PROVE  Promise!Release(u, {g \in S : /\ Store!IsActive(leases, g)
                                       /\ leases[g].uid = u \/ u = Root})
<1> DEFINE T == {g \in StoreProofs!Releasable(u, S) : StoreProofs!IsActive(leases, g)}
<1>1. StoreProofs!Release(u, S, ok)
  BY DEF Resume, Store!Release, StoreProofs!Release, Store!Persist,
         StoreProofs!Persist, Store!Releasable, StoreProofs!Releasable,
         Store!Drop, StoreProofs!Drop
<1>2. StoreProofs!Promise!Release(u, T)
  BY <1>1, StoreProofs!ReleaseKept, StoreAssumption DEF StoreProofs!Lease
<1>3. T = {g \in S : /\ Store!IsActive(leases, g)
                     /\ leases[g].uid = u \/ u = Root}
  BY DEF StoreProofs!Releasable, StoreProofs!IsActive, Store!IsActive
<1>4. Promise!Release(u, T)
  BY <1>2, SameReserved DEF StoreProofs!Promise!Release, Promise!Release
<1> QED
  BY <1>3, <1>4

(* A sweep of lapsed leases is invisible, whether it can persist or not.   *)
LEMMA SweepInvisible ==
  ASSUME NEW ok \in DiskOutcomes, Store!Sweep(ok) \/ SweepSome(ok)
  PROVE  UNCHANGED Store!Active(leases)
<1>1. CASE Store!Sweep(ok)
  <2>1. leases' = StoreProofs!Drop(leases, StoreProofs!LapsedGpus)
    BY <1>1 DEF Store!Sweep, Store!Drop, StoreProofs!Drop, Store!LapsedGpus,
                StoreProofs!LapsedGpus, Store!IsLapsed, StoreProofs!IsLapsed
  <2>2. StoreProofs!Active(leases') = StoreProofs!Active(leases)
    BY <2>1, StoreProofs!SweepKeepsActive, StoreAssumption DEF StoreProofs!Lease
  <2> QED
    BY <2>2 DEF Store!Active, StoreProofs!Active,
                Store!IsActive, StoreProofs!IsActive
<1>2. CASE UNCHANGED storeVars
  BY <1>2 DEF storeVars, Store!Active, Store!IsActive
<1> QED
  BY <1>1, <1>2 DEF SweepSome

(* The clock counts down reservations as it does leases.                   *)
LEMMA ElapseElapses == TypeOK /\ Elapse => Promise!Elapse
<1> SUFFICES ASSUME TypeOK, Elapse
             PROVE  Promise!Elapse
  OBVIOUS
<1>1. StoreProofs!Elapse
  BY DEF Elapse, Store!Elapse, StoreProofs!Elapse, Store!Age, StoreProofs!Age,
         Store!IsActive, StoreProofs!IsActive
<1>2. StoreProofs!TypeOK
  BY SameStore DEF TypeOK
<1>3. StoreProofs!Promise!Elapse
  BY <1>1, <1>2, StoreProofs!ElapseKept, StoreAssumption DEF StoreProofs!Lease
<1> QED
  BY <1>3, SameReserved DEF StoreProofs!Promise!Elapse, Promise!Elapse

(* While the daemon runs, each of its steps is the step of Reservation it  *)
(* should be - a whole reservation, a release, the clock - or invisible,   *)
(* on any disk.                                                            *)
THEOREM RunningDaemonKeepsPromise == Spec => KeepsPromise
<1> DEFINE Seen == Store!Active(leases)
<1>1. MonitorLoop => UNCHANGED Seen
  BY SweepInvisible, StoreAssumption
     DEF MonitorLoop, Tick, TickSpawnFails, TickSweepFails, TickSweep
<1>2. ASSUME UNCHANGED storeVars
      PROVE  UNCHANGED Seen
  BY <1>2 DEF storeVars, Store!Active, Store!IsActive
<1>3. WorkerStep => UNCHANGED Seen
  BY <1>2 DEF WorkerStep
<1>4. ASSUME NEW c \in Configs, Reload(c)
      PROVE  UNCHANGED Seen
  BY <1>2, <1>4 DEF Reload
<1>5. ASSUME NEW ok \in DiskOutcomes, ExpiryLoop(ok)
      PROVE  UNCHANGED Seen
  BY <1>5, SweepInvisible DEF ExpiryLoop
<1>6. TypeOK => StepKeepsPromise
  BY <1>1, <1>3, <1>4, <1>5, PauseReserves, ResumeReleases, ElapseElapses
     DEF StepKeepsPromise
<1> QED
  BY <1>6, TypeCorrect, PTL DEF KeepsPromise

-----------------------------------------------------------------------------
(* A step of a stop() task, a watcher or a process never makes a GPU gain  *)
(* a tracked worker, nor lose its last stop() while it keeps the worker.   *)
LEMMA WorkerStepKeeps ==
  ASSUME Workers!TypeOK, NEW h \in Gpus, Workers!Step(h), NEW g \in Gpus,
         Workers!Tracked(g)'
  PROVE  /\ Workers!Tracked(g)
         /\ Workers!StopPending(g) => Workers!StopPending(g)'
<1> USE DEF Workers!Tracked, Workers!StopPending, Workers!StopRunning
<1>0. /\ tracked[g] \in Procs \cup {NoProc}
      /\ scheduled[g] \in 0 .. MaxStops
      /\ \A p \in Procs : waiting[g][p] \in 0 .. MaxStops
      /\ \A p \in Procs : killing[g][p] \in 0 .. MaxStops
  BY DEF Workers!TypeOK, Workers!Counts
<1>1. ASSUME Workers!Cleanup(h)
      PROVE  h # g /\ tracked'[g] = tracked[g]
  BY <1>1 DEF Workers!Cleanup, Workers!TypeOK
<1>2. CASE Workers!StopBegin(h)
  <2>1. CASE tracked[h] \in alive[h]
    <3>1. tracked[g] = tracked'[g] /\ tracked[h] \in Procs
      BY <1>2, <2>1 DEF Workers!StopBegin, Workers!mapVars, Workers!TypeOK
    <3>2. CASE h = g
      <4>1. waiting'[g][tracked[g]] = Workers!OneMore(waiting[g][tracked[g]])
        BY <1>2, <2>1, <3>1, <3>2 DEF Workers!StopBegin, Workers!TypeOK, Workers!Counts
      <4>2. waiting'[g][tracked[g]] > 0
        BY <1>0, <3>1, <3>2, <4>1, WorkerAssumption DEF Workers!OneMore
      <4> QED
        BY <3>1, <3>2, <4>2
    <3>3. CASE h # g
      BY <1>2, <2>1, <3>1, <3>3 DEF Workers!StopBegin, Workers!TypeOK
    <3> QED
      BY <3>2, <3>3
  <2>2. CASE tracked[h] \notin alive[h]
    BY <1>1, <1>2, <2>2 DEF Workers!StopBegin, Workers!TypeOK
  <2> QED
    BY <2>1, <2>2
<1>3. ASSUME NEW p \in Procs, Workers!StopReaped(h, p)
      PROVE  /\ tracked'[g] = tracked[g] /\ scheduled'[g] = scheduled[g]
             /\ waiting'[g] = waiting[g] /\ killing'[g] = killing[g]
  BY <1>1, <1>3 DEF Workers!StopReaped, Workers!TypeOK
<1>4. ASSUME NEW p \in Procs, Workers!StopKilled(h, p)
      PROVE  /\ tracked'[g] = tracked[g] /\ scheduled'[g] = scheduled[g]
             /\ waiting'[g] = waiting[g] /\ killing'[g] = killing[g]
  BY <1>1, <1>4 DEF Workers!StopKilled, Workers!TypeOK
<1>5. ASSUME NEW p \in Procs, Workers!StopTimeout(h, p)
      PROVE  /\ Workers!Tracked(g)
             /\ Workers!StopPending(g) => Workers!StopPending(g)'
  <2>1. tracked' = tracked /\ scheduled' = scheduled
    BY <1>5 DEF Workers!StopTimeout, Workers!mapVars
  <2>2. CASE h = g
    <3>1. killing'[g][p] = Workers!OneMore(killing[g][p])
      BY <1>5, <2>2 DEF Workers!StopTimeout, Workers!TypeOK, Workers!Counts
    <3>2. killing'[g][p] > 0
      BY <1>0, <3>1, WorkerAssumption DEF Workers!OneMore
    <3> QED
      BY <2>1, <3>2
  <2>3. CASE h # g
    BY <1>5, <2>1, <2>3 DEF Workers!StopTimeout, Workers!TypeOK
  <2> QED
    BY <2>2, <2>3
<1>6. ASSUME NEW p \in Procs, Workers!WatchExit(h, p) \/ Workers!ProcExit(h, p)
      PROVE  /\ tracked'[g] = tracked[g] /\ scheduled'[g] = scheduled[g]
             /\ waiting'[g] = waiting[g] /\ killing'[g] = killing[g]
  BY <1>1, <1>6 DEF Workers!WatchExit, Workers!ProcExit, Workers!mapVars, Workers!stopVars
<1> QED
  BY <1>2, <1>3, <1>4, <1>5, <1>6 DEF Workers!Step

(* A handler that does not spawn on g leaves its worker, and every stop()  *)
(* of it; one that schedules a stop() leaves one pending.                  *)
LEMMA HandlerKeeps ==
  ASSUME Workers!TypeOK, NEW S, NEW T, Workers!Handler(S, T), NEW g \in Gpus \ S
  PROVE  /\ Workers!Tracked(g)' <=> Workers!Tracked(g)
         /\ Workers!StopPending(g) => Workers!StopPending(g)'
         /\ g \in T => Workers!StopPending(g)'
<1>1. tracked'[g] = tracked[g]
  BY DEF Workers!Handler, Workers!Spawn
<1>2. scheduled[g] \in 0 .. MaxStops
  BY DEF Workers!TypeOK
<1>3. /\ scheduled[g] > 0 => scheduled'[g] > 0
      /\ g \in T => scheduled'[g] > 0
  BY <1>2, WorkerAssumption DEF Workers!Handler, Workers!ScheduleStop, Workers!OneMore
<1>4. waiting' = waiting /\ killing' = killing
  BY DEF Workers!Handler
<1> QED
  BY <1>1, <1>3, <1>4
     DEF Workers!Tracked, Workers!StopPending, Workers!StopRunning

(* Only a pause puts a lease on a GPU that had none.                       *)
LEMMA NoNewLease ==
  ASSUME NEW ok, SweepSome(ok) \/ Store!Sweep(ok) \/ Store!Elapse
                 \/ \E u, S : Store!Release(u, S, ok)
  PROVE  \A g \in Gpus : leases'[g] # NoLease => leases[g] # NoLease
  BY DEF SweepSome, storeVars, Store!Sweep, Store!Elapse, Store!Release,
         Store!Drop, Store!Age, Store!IsActive

(* With a working disk, a tracked worker on a leased GPU has a stop()      *)
(* under way.                                                              *)
THEOREM LeasedWorkersAreStopped ==
  ASSUME DiskOutcomes = {TRUE}
  PROVE  Spec => []LeasedMeansStopping
<1>1. Init => LeasedMeansStopping
  BY DEF Init, Workers!Init, LeasedMeansStopping, Workers!Tracked
<1>2. TypeOK /\ LeasedMeansStopping /\ [Next]_vars => LeasedMeansStopping'
  <2> DEFINE Stopping(g) == Held(g) /\ Workers!Tracked(g) => Workers!StopPending(g)
  <2> SUFFICES ASSUME TypeOK, LeasedMeansStopping, [Next]_vars, NEW g \in Gpus
               PROVE  Stopping(g)'
    BY DEF LeasedMeansStopping
  <2>0. Stopping(g) /\ Workers!TypeOK /\ watched \in SUBSET Gpus
    BY DEF LeasedMeansStopping, TypeOK
  <2>1. ASSUME NEW s, NEW V \in SUBSET Gpus, NEW F, Visit(s, V, F), TickSweep
        PROVE  Stopping(g)'
    <3>1. PICK S \in SUBSET V, T \in SUBSET V :
                /\ Workers!Handler(S, T)
                /\ \A h \in S : leases'[h] = NoLease
      BY <2>1, VisitIsHandler
    <3>2. CASE g \in S
      BY <3>1, <3>2 DEF Held
    <3>3. CASE g \notin S
      <4>1. Held(g)' => Held(g)
        BY <2>1, NoNewLease DEF TickSweep, Held
      <4>2. /\ Workers!Tracked(g)' => Workers!Tracked(g)
            /\ Workers!StopPending(g) => Workers!StopPending(g)'
        BY <2>0, <3>1, <3>3, HandlerKeeps
      <4> QED
        BY <2>0, <4>1, <4>2
    <3> QED
      BY <3>2, <3>3
  <2>2. ASSUME NEW u \in Uids, NEW S \in SUBSET Gpus, NEW d \in Durations,
               Pause(u, S, d, TRUE)
        PROVE  Stopping(g)'
    <3> DEFINE T == {h \in S : Workers!Tracked(h)}
    <3>1. Workers!Handler({}, T)
      BY <2>2 DEF Pause
    <3>2. /\ Workers!Tracked(g)' <=> Workers!Tracked(g)
          /\ Workers!StopPending(g) => Workers!StopPending(g)'
          /\ g \in T => Workers!StopPending(g)'
      BY <2>0, <3>1, HandlerKeeps
    <3>3. g \notin S => (Held(g)' <=> Held(g))
      BY <2>2 DEF Pause, Store!Acquire, Held
    <3> QED
      BY <2>0, <3>2, <3>3
  <2>3. ASSUME Held(g)' => Held(g), UNCHANGED workerVars
        PROVE  Stopping(g)'
    BY <2>0, <2>3
       DEF workerVars, Workers!Tracked, Workers!StopPending, Workers!StopRunning
  <2>4. ASSUME NEW ok \in DiskOutcomes, ExpiryLoop(ok)
        PROVE  Stopping(g)'
    BY <2>3, <2>4, NoNewLease DEF ExpiryLoop, Held
  <2>5. ASSUME NEW u \in Uids, NEW S \in SUBSET Gpus, NEW ok \in DiskOutcomes,
               Resume(u, S, ok)
        PROVE  Stopping(g)'
    BY <2>3, <2>5, NoNewLease DEF Resume, Held
  <2>6. CASE Elapse
    BY <2>3, <2>6, NoNewLease DEF Elapse, Held
  <2>7. CASE TickSweepFails
    BY <2>3, <2>7, NoNewLease DEF TickSweepFails, Held
  <2>8. ASSUME (\E c \in Configs : Reload(c)) \/ UNCHANGED vars
        PROVE  Stopping(g)'
    BY <2>3, <2>8 DEF Reload, vars, storeVars, Held
  <2>9. CASE WorkerStep
    <3>1. PICK h \in Gpus : Workers!Step(h)
      BY <2>9 DEF WorkerStep
    <3>2. Held(g)' <=> Held(g)
      BY <2>9 DEF WorkerStep, storeVars, Held
    <3> QED
      BY <2>0, <3>1, <3>2, WorkerStepKeeps
  <2>10. CASE MonitorLoop
    BY <2>0, <2>1, <2>7, <2>10 DEF MonitorLoop, Tick, TickSpawnFails
  <2> QED
    BY <2>2, <2>4, <2>5, <2>6, <2>8, <2>9, <2>10 DEF Next, NotMonitor, Request
<1> QED
  BY <1>1, <1>2, TypeCorrect, PTL DEF Spec

(* No tick starts a process on a GPU whose lease has time left, whatever   *)
(* the disk and Popen do, and nothing else starts processes.               *)
THEOREM NoSpawnUnderLeaseEver == Spec => NoSpawnUnderLease
<1> DEFINE Grows(g) == ~(alive'[g] \subseteq alive[g])
           Safe == \A g \in Gpus : Grows(g) => ~Store!IsActive(leases, g)
<1>1. TypeOK /\ [Next]_vars => [Safe]_vars
  <2> SUFFICES ASSUME TypeOK, Next, NEW g \in Gpus, Grows(g)
               PROVE  ~Store!IsActive(leases, g)
    OBVIOUS
  <2>0. watched \in SUBSET Gpus /\ Workers!TypeOK
    BY DEF TypeOK
  <2>1. ASSUME NEW s, NEW V \in SUBSET Gpus, NEW F, Visit(s, V, F), TickSweep
        PROVE  ~Store!IsActive(leases, g)
    <3>1. PICK S \in SUBSET V, T \in SUBSET V :
                /\ Workers!Handler(S, T)
                /\ \A h \in S : leases'[h] = NoLease
      BY <2>1, VisitIsHandler
    <3>2. g \in S
      BY <3>1 DEF Workers!Handler, Workers!Spawn
    <3>3. leases'[g] = NoLease
      BY <3>1, <3>2
    <3>4. leases[g] = NoLease \/ g \in Store!LapsedGpus
      BY <2>1, <3>3 DEF TickSweep, SweepSome, storeVars, Store!Sweep, Store!Drop
    <3> QED
      BY <3>4 DEF Store!LapsedGpus, Store!IsLapsed, Store!IsActive
  <2>2. ~(UNCHANGED workerVars)
    BY DEF workerVars
  <2>3. ASSUME NEW u \in Uids, NEW S \in SUBSET Gpus, NEW ok \in DiskOutcomes,
               NEW d \in Durations, Pause(u, S, d, ok)
        PROVE  FALSE
    BY <2>3 DEF Pause, Workers!Handler, Workers!Spawn
  <2>4. ~WorkerStep
    BY <2>0 DEF WorkerStep, Workers!Step, Workers!StopBegin, Workers!StopReaped,
       Workers!StopTimeout, Workers!StopKilled, Workers!WatchExit, Workers!ProcExit,
       Workers!TypeOK
  <2>5. \/ TickSweepFails
        \/ \E ok \in DiskOutcomes : ExpiryLoop(ok)
        \/ \E u \in Uids, S \in SUBSET Gpus, ok \in DiskOutcomes : Resume(u, S, ok)
        \/ \E c \in Configs : Reload(c)
        \/ Elapse
        => UNCHANGED workerVars
    BY DEF TickSweepFails, ExpiryLoop, Resume, Reload, Elapse
  <2>6. CASE MonitorLoop
    BY <2>0, <2>1, <2>2, <2>5, <2>6 DEF MonitorLoop, Tick, TickSpawnFails
  <2> QED
    BY <2>2, <2>3, <2>4, <2>5, <2>6 DEF Next, NotMonitor, Request
<1> QED
  BY <1>1, TypeCorrect, PTL DEF Spec, NoSpawnUnderLease

-----------------------------------------------------------------------------
(* The history of the idle debounce.                                       *)

StreakIsIdleTime ==
  /\ sinceUse \in [Gpus -> Times]
  /\ \A g \in Gpus : Workers!Tracked(g) => streak[g] = 0
  /\ \A g \in watched : Later(streak[g], Dt) <= sinceUse[g]

IdleIInv == TypeOK /\ StreakIsIdleTime

(* A step of the history is a step of the controller.                      *)
LEMMA HistoryIsController == [HistoryNext]_historyVars => [Next]_vars
<1> SUFFICES ASSUME [HistoryNext]_historyVars
             PROVE  [Next]_vars
  OBVIOUS
<1>1. ASSUME HistoryTick
      PROVE  Next
  BY <1>1 DEF HistoryTick, Next, MonitorLoop
<1>2. ASSUME HistoryElapse \/ HistoryReload
      PROVE  Next
  BY <1>2 DEF HistoryElapse, HistoryReload, Next, NotMonitor
<1>3. ASSUME HistoryOther
      PROVE  Next
  BY <1>3 DEF HistoryOther, Next, NotMonitor
<1> QED
  BY <1>1, <1>2, <1>3 DEF HistoryNext, historyVars

(* A tick that looks at V, and at `failing` up to its spawn.               *)
LEMMA VisitKeepsIdleTime ==
  ASSUME IdleIInv, NEW s, NEW V \in SUBSET watched, NEW F \in SUBSET (watched \ V),
         Visit(s, V, F), \A g \in F : SpawnDue(s, g), sinceTick' = 0,
         UNCHANGED watched, Observe(s, V \cup F)
  PROVE  StreakIsIdleTime'
<1> DEFINE S == {g \in V : SpawnDue(s, g)}
           T == {g \in V : /\ s[g] # "error" /\ leases'[g] # NoLease
                           /\ Workers!Tracked(g)}
           InUse(g) == /\ g \in V \cup F /\ s[g] # "error"
                       /\ s[g] = "busy" \/ leases'[g] # NoLease \/ Workers!Tracked(g)
<1>0. TypeOK /\ watched \in SUBSET Gpus /\ streak \in [Gpus -> Times]
      /\ sinceUse \in [Gpus -> Times] /\ Dt \in Times
  BY TimeTypes DEF IdleIInv, TypeOK, StreakIsIdleTime, Dt
<1>1. sinceUse' = [g \in Gpus |-> IF InUse(g) THEN 0 ELSE sinceUse[g]]
  BY DEF Observe
<1>2. /\ Workers!Handler(S, T)
      /\ streak' = [g \in Gpus |-> CASE g \in S -> 0
                                     [] g \in (V \ S) \cup F -> NextStreak(s, g)
                                     [] OTHER -> streak[g]]
  BY DEF Visit
<1>3. Dt' = 0
  BY DebounceAssumption DEF Dt
<1>4. \A g \in S \cup F : ~Workers!Tracked(g) /\ s[g] = "quiet" /\ leases'[g] = NoLease
  BY DEF SpawnDue
<1>5. sinceUse' \in [Gpus -> Times]
  BY <1>0, <1>1, TimeTypes
<1> HIDE DEF S, T
<1>6. ASSUME NEW g \in Gpus
      PROVE  streak'[g] = IF g \in S THEN 0
                          ELSE IF g \in V \cup F THEN NextStreak(s, g)
                          ELSE streak[g]
  <2>1. g \in S => g \notin (V \ S) \cup F
    BY DEF S
  <2>2. streak'[g] = CASE g \in S -> 0
                       [] g \in (V \ S) \cup F -> NextStreak(s, g)
                       [] OTHER -> streak[g]
    BY <1>2
  <2> QED
    BY <2>1, <2>2
<1>7. ASSUME NEW g \in Gpus, Workers!Tracked(g)'
      PROVE  streak'[g] = 0
  <2>1. CASE g \in S
    BY <1>6, <2>1
  <2>2. CASE g \notin S
    <3>1. Workers!Tracked(g)
      BY <1>0, <1>2, <1>7, <2>2, HandlerKeeps DEF TypeOK
    <3>2. streak[g] = 0 /\ g \notin F
      BY <1>4, <3>1 DEF IdleIInv, StreakIsIdleTime
    <3>3. NextStreak(s, g) = 0
      BY <3>1, <3>2 DEF NextStreak
    <3> QED
      BY <1>6, <2>2, <3>2, <3>3
  <2> QED
    BY <2>1, <2>2
<1>8. ASSUME NEW g \in watched
      PROVE  Later(streak'[g], 0) <= sinceUse'[g]
  <2>0. /\ g \in Gpus /\ streak[g] \in Times /\ sinceUse[g] \in Times
        /\ Later(streak[g], Dt) <= sinceUse[g]
    BY <1>0 DEF IdleIInv, StreakIsIdleTime
  <2>1. streak'[g] \in {0, NextStreak(s, g), streak[g]}
    BY <1>6, <2>0
  <2>2. CASE InUse(g)
    <3>1. streak'[g] = 0
      <4>1. CASE Workers!Tracked(g)
        <5>1. streak[g] = 0
          BY <2>0, <4>1 DEF IdleIInv, StreakIsIdleTime
        <5> QED
          BY <2>1, <4>1, <5>1 DEF NextStreak
      <4>2. CASE ~Workers!Tracked(g)
        BY <1>6, <2>0, <2>2, <4>2 DEF NextStreak
      <4> QED
        BY <4>1, <4>2
    <3>2. sinceUse'[g] = 0
      BY <1>1, <2>0, <2>2
    <3> QED
      BY <3>1, <3>2, DebounceAssumption DEF Later
  <2>3. CASE ~InUse(g)
    <3>1. sinceUse'[g] = sinceUse[g]
      BY <1>1, <2>0, <2>3
    <3>2. streak[g] <= sinceUse[g] /\ Later(streak[g], Dt) \in Times
      BY <1>0, <2>0, TimeTypes, DebounceAssumption DEF Later, Times
    <3>3. streak'[g] = 0 \/ streak'[g] = streak[g] \/ streak'[g] = Later(streak[g], Dt)
      BY <2>1 DEF NextStreak
    <3>4. streak'[g] \in Times /\ streak'[g] <= sinceUse[g]
      <4>1. sinceUse[g] \in Times /\ 0 \in Times
        BY <2>0, TimeTypes
      <4>2. 0 <= sinceUse[g]
        BY <4>1, DebounceAssumption DEF Times
      <4> QED
        BY <2>0, <3>2, <3>3, <4>1, <4>2
    <3> QED
      BY <3>1, <3>4, DebounceAssumption DEF Later, Times
  <2> QED
    BY <2>2, <2>3
<1> QED
  BY <1>3, <1>5, <1>7, <1>8 DEF StreakIsIdleTime

(* Steps that leave the streaks, and do not push the next tick away.       *)
LEMMA OthersKeepIdleTime ==
  ASSUME IdleIInv, [Next]_vars,
         \/ HistoryElapse \/ HistoryReload \/ HistoryOther
         \/ (TickSweepFails \/ UNCHANGED vars) /\ UNCHANGED sinceUse
  PROVE  StreakIsIdleTime'
<1>0. /\ watched \in SUBSET Gpus /\ streak \in [Gpus -> Times]
      /\ sinceUse \in [Gpus -> Times] /\ Dt \in Times /\ Workers!TypeOK
      /\ sinceTick \in Times \cup {NoTick}
      /\ \A g \in Gpus \ watched : streak[g] = 0
      /\ \A g \in Gpus : Workers!Tracked(g) => streak[g] = 0
      /\ \A g \in watched : Later(streak[g], Dt) <= sinceUse[g]
  BY TimeTypes DEF IdleIInv, TypeOK, StreakIsIdleTime, Dt
<1>1. CASE HistoryElapse
  <2>1. sinceUse' = [g \in Gpus |-> Later(sinceUse[g], 1)]
        /\ UNCHANGED <<watched, streak, tracked>>
        /\ sinceTick' = IF sinceTick = NoTick THEN NoTick ELSE Later(sinceTick, 1)
    BY <1>1 DEF HistoryElapse, Elapse, workerVars
  <2>2. Dt' = IF sinceTick = NoTick THEN 0 ELSE Later(Dt, 1)
    <3>1. CASE sinceTick = NoTick
      BY <2>1, <3>1 DEF Dt
    <3>2. CASE sinceTick # NoTick
      <4>1. Dt = sinceTick /\ sinceTick' = Later(Dt, 1)
        BY <2>1, <3>2 DEF Dt
      <4>2. Later(Dt, 1) \in Times
        BY <1>0, TimeTypes
      <4>3. Later(Dt, 1) # NoTick
        BY <4>2, DebounceAssumption DEF Times
      <4> QED
        BY <3>2, <4>1, <4>3 DEF Dt
    <3> QED
      BY <3>1, <3>2
  <2>3. ASSUME NEW g \in watched
        PROVE  Later(streak[g], Dt') <= Later(sinceUse[g], 1)
    <3>1. streak[g] \in 0 .. MaxDebounce /\ sinceUse[g] \in 0 .. MaxDebounce
          /\ Dt \in 0 .. MaxDebounce /\ MaxDebounce \in Nat
          /\ Later(streak[g], Dt) <= sinceUse[g]
          /\ (Dt' = Later(Dt, 1) \/ (Dt' = 0 /\ Dt = 0))
      BY <1>0, <2>2, DebounceAssumption DEF Times, Dt
    <3> QED
      BY <3>1 DEF Later
  <2>4. sinceUse' \in [Gpus -> Times]
    BY <1>0, <2>1, TimeTypes
  <2> QED
    BY <1>0, <2>1, <2>3, <2>4 DEF StreakIsIdleTime, Workers!Tracked
<1>2. ASSUME NEW c \in Configs, Reload(c),
             sinceUse' = [g \in Gpus |-> IF g \in watched THEN sinceUse[g] ELSE Dt]
      PROVE  StreakIsIdleTime'
  <2>1. /\ watched' \in SUBSET Gpus /\ Dt' = Dt /\ tracked' = tracked
        /\ \A g \in Gpus : streak'[g] \in {0, streak[g]}
        /\ \A g \in watched' \ watched : streak'[g] = 0
        /\ sinceUse' \in [Gpus -> Times]
    BY <1>0, <1>2, ConfigsAssumption, VisibleAssumption
       DEF Reload, SetWatched, Resolve, ConfigType, Dt, workerVars
  <2>2. ASSUME NEW g \in watched'
        PROVE  Later(streak'[g], Dt) <= sinceUse'[g]
    <3>1. CASE g \in watched
      <4>1. sinceUse'[g] = sinceUse[g] /\ Later(streak[g], Dt) <= sinceUse[g]
            /\ streak[g] \in 0 .. MaxDebounce /\ Dt \in 0 .. MaxDebounce
            /\ sinceUse[g] \in 0 .. MaxDebounce /\ MaxDebounce \in Nat
            /\ streak'[g] \in {0, streak[g]}
        BY <1>0, <1>2, <2>1, <3>1, DebounceAssumption DEF Times
      <4> QED
        BY <4>1 DEF Later
    <3>2. CASE g \notin watched
      <4>1. sinceUse'[g] = Dt /\ streak'[g] = 0
        BY <1>2, <2>1, <3>2
      <4> QED
        BY <1>0, <4>1, DebounceAssumption DEF Later, Times
    <3> QED
      BY <3>1, <3>2
  <2> QED
    BY <1>0, <2>1, <2>2 DEF StreakIsIdleTime, Workers!Tracked
<1>3. ASSUME UNCHANGED <<watched, streak, sinceUse>>,
             \A g \in Gpus : Workers!Tracked(g)' => Workers!Tracked(g),
             sinceTick' \in {0, sinceTick}
      PROVE  StreakIsIdleTime'
  <2>1. Dt' \in {0, Dt}
    BY <1>3, DebounceAssumption DEF Dt
  <2>2. ASSUME NEW g \in watched
        PROVE  Later(streak[g], Dt') <= sinceUse[g]
    <3>1. streak[g] \in 0 .. MaxDebounce /\ Dt \in 0 .. MaxDebounce
          /\ sinceUse[g] \in 0 .. MaxDebounce /\ MaxDebounce \in Nat
          /\ Later(streak[g], Dt) <= sinceUse[g]
      BY <1>0, DebounceAssumption DEF Times
    <3> QED
      BY <2>1, <3>1 DEF Later
  <2> QED
    BY <1>0, <1>3, <2>2 DEF StreakIsIdleTime
<1>4. CASE HistoryOther
  <2>1. ASSUME NEW ok \in DiskOutcomes, ExpiryLoop(ok)
        PROVE  UNCHANGED <<watched, streak, tracked, sinceTick>>
    BY <2>1 DEF ExpiryLoop, workerVars
  <2>2. ASSUME NEW u \in Uids, NEW G \in SUBSET Gpus, NEW ok \in DiskOutcomes,
               (\E d \in Durations : Pause(u, G, d, ok)) \/ Resume(u, G, ok)
        PROVE  UNCHANGED <<watched, streak, tracked, sinceTick>>
    <3>1. ASSUME NEW d \in Durations, Pause(u, G, d, ok)
          PROVE  UNCHANGED <<watched, streak, tracked, sinceTick>>
      BY <1>0, <3>1 DEF Pause, controlVars, Workers!Handler, Workers!Spawn, Workers!TypeOK
    <3>2. ASSUME Resume(u, G, ok)
          PROVE  UNCHANGED <<watched, streak, tracked, sinceTick>>
      BY <3>2 DEF Resume, controlVars, workerVars
    <3> QED
      BY <2>2, <3>1, <3>2
  <2>3. ASSUME WorkerStep
        PROVE  /\ \A g \in Gpus : Workers!Tracked(g)' => Workers!Tracked(g)
               /\ UNCHANGED <<watched, streak, sinceTick>>
    BY <1>0, <2>3, WorkerStepKeeps DEF WorkerStep, controlVars
  <2> QED
    BY <1>3, <1>4, <2>1, <2>2, <2>3 DEF HistoryOther, Request, Workers!Tracked
<1>5. CASE UNCHANGED vars /\ UNCHANGED sinceUse
  BY <1>3, <1>5 DEF vars, workerVars, controlVars, Workers!Tracked
<1>6. CASE TickSweepFails /\ UNCHANGED sinceUse
  BY <1>3, <1>6 DEF TickSweepFails, workerVars, Workers!Tracked
<1> QED
  BY <1>1, <1>2, <1>4, <1>5, <1>6 DEF HistoryReload

LEMMA IdleStep == IdleIInv /\ [HistoryNext]_historyVars => IdleIInv'
<1> SUFFICES ASSUME IdleIInv, [HistoryNext]_historyVars
             PROVE  IdleIInv'
  OBVIOUS
<1>0. [Next]_vars
  BY HistoryIsController
<1>1. TypeOK'
  BY <1>0, TypeStep DEF IdleIInv
<1>2. ASSUME NEW s \in [watched -> Samples], Tick(s), Observe(s, watched)
      PROVE  StreakIsIdleTime'
  BY <1>2, VisitKeepsIdleTime DEF Tick
<1>3. ASSUME NEW s \in [watched -> Samples], NEW g \in watched,
             NEW V \in SUBSET (watched \ {g}), TickSpawnFails(s, V, g),
             Observe(s, V \cup {g})
      PROVE  StreakIsIdleTime'
  BY <1>3, VisitKeepsIdleTime DEF TickSpawnFails
<1>4. (\/ HistoryElapse \/ HistoryReload \/ HistoryOther
       \/ (TickSweepFails \/ UNCHANGED vars) /\ UNCHANGED sinceUse) => StreakIsIdleTime'
  BY <1>0, OthersKeepIdleTime
<1> QED
  BY <1>1, <1>2, <1>3, <1>4 DEF IdleIInv, HistoryNext, HistoryTick, historyVars

(* A handler starts processes on the GPUs it spawns on and nowhere else.   *)
LEMMA OnlySpawnsStart ==
  ASSUME NEW S, NEW T, Workers!Handler(S, T), NEW g \in Gpus,
         ~(alive'[g] \subseteq alive[g])
  PROVE  g \in S
  BY DEF Workers!Handler, Workers!Spawn

(* A spawn is due when streak and dt reach the debounce, and so that much  *)
(* time has passed.                                                        *)
LEMMA DueIsLongAfterUse ==
  ASSUME IdleIInv, NEW s, NEW g \in watched, SpawnDue(s, g)
  PROVE  sinceUse[g] >= cfg.debounce
<1>1. /\ streak[g] \in Times /\ sinceUse[g] \in Times /\ Dt \in Times
      /\ Later(streak[g], Dt) <= sinceUse[g]
      /\ cfg.debounce \in 1 .. MaxDebounce
  BY TimeTypes, ConfigsAssumption DEF IdleIInv, TypeOK, StreakIsIdleTime, Dt,
     ConfigType, ValidThresholds
<1>2. streak[g] + Dt >= cfg.debounce
  BY DEF SpawnDue
<1> QED
  BY <1>1, <1>2, DebounceAssumption DEF Later, Times

(* tick_once() and _apply(): no worker starts on a GPU before the debounce *)
(* has passed since a tick last saw it in use or did not watch it.         *)
THEOREM SpawnsLongAfterUse == HistorySpec => SpawnLongAfterUse
<1> DEFINE Due == \A g \in Gpus :
                    ~(alive'[g] \subseteq alive[g]) => sinceUse[g] >= cfg.debounce
<1>1. HistoryInit => IdleIInv
  <2> SUFFICES ASSUME HistoryInit
               PROVE  IdleIInv
    OBVIOUS
  <2>1. TypeOK
    BY TypeInit DEF HistoryInit
  <2>2. ASSUME NEW g \in Gpus
        PROVE  Later(0, 0) <= 0
    BY DebounceAssumption DEF Later
  <2> QED
    BY <2>1, <2>2, TimeTypes, DebounceAssumption
       DEF HistoryInit, Init, IdleIInv, TypeOK, StreakIsIdleTime, Dt, Workers!Init, Workers!Tracked
<1>2. IdleIInv /\ [HistoryNext]_historyVars => [Due]_historyVars
  <2> SUFFICES ASSUME IdleIInv, HistoryNext, NEW g \in Gpus,
                      ~(alive'[g] \subseteq alive[g])
               PROVE  sinceUse[g] >= cfg.debounce
    OBVIOUS
  <2>0. watched \in SUBSET Gpus /\ alive \in [Gpus -> SUBSET Procs]
    BY DEF IdleIInv, TypeOK, Workers!TypeOK
  <2>1. ASSUME NEW s, NEW V \in SUBSET watched, NEW F, Visit(s, V, F)
        PROVE  sinceUse[g] >= cfg.debounce
    <3>1. PICK T : Workers!Handler({h \in V : SpawnDue(s, h)}, T)
      BY <2>1 DEF Visit
    <3>2. g \in V /\ SpawnDue(s, g)
      BY <3>1, OnlySpawnsStart
    <3> QED
      BY <2>1, <3>2, DueIsLongAfterUse
  <2>2. TickSweepFails \/ ~HistoryTick => alive'[g] \subseteq alive[g]
    <3>1. ASSUME HistoryElapse \/ HistoryReload \/ TickSweepFails
                 \/ \E ok \in DiskOutcomes : ExpiryLoop(ok)
          PROVE  alive' = alive
      BY <3>1 DEF HistoryElapse, HistoryReload, TickSweepFails, ExpiryLoop, Elapse,
                  Reload, workerVars
    <3>2. ASSUME NEW u \in Uids, NEW G \in SUBSET Gpus, NEW ok \in DiskOutcomes,
                 (\E d \in Durations : Pause(u, G, d, ok)) \/ Resume(u, G, ok)
          PROVE  alive'[g] \subseteq alive[g]
      <4>1. ASSUME NEW d \in Durations, Pause(u, G, d, ok)
            PROVE  alive'[g] \subseteq alive[g]
        <5>1. PICK T : Workers!Handler({}, T)
          BY <4>1 DEF Pause
        <5> QED
          BY <5>1, OnlySpawnsStart
      <4>2. ASSUME Resume(u, G, ok)
            PROVE  alive'[g] \subseteq alive[g]
        BY <4>2 DEF Resume, workerVars
      <4> QED
        BY <3>2, <4>1, <4>2
    <3>3. ASSUME NEW h \in Gpus, Workers!Step(h)
          PROVE  alive'[g] \subseteq alive[g]
      BY <2>0, <3>3
         DEF Workers!Step, Workers!StopBegin, Workers!StopReaped, Workers!StopTimeout,
             Workers!StopKilled, Workers!WatchExit, Workers!ProcExit,
             Workers!mapVars, Workers!stopVars
    <3> QED
      BY <3>1, <3>2, <3>3 DEF HistoryNext, HistoryOther, Request, WorkerStep
  <2> QED
    BY <2>1, <2>2 DEF HistoryTick, Tick, TickSpawnFails
<1> QED
  BY <1>1, <1>2, IdleStep, PTL DEF HistorySpec, SpawnLongAfterUse

(* The history variable only watches: what is observed with it are         *)
(* behaviours of the controller, of which all that is proved above holds.  *)
THEOREM HistoryOnlyWatches == HistorySpec => Spec
<1>1. HistoryInit => Init
  BY DEF HistoryInit
<1>2. [HistoryNext]_historyVars => [Next]_vars
  BY HistoryIsController
<1> QED
  BY <1>1, <1>2, PTL DEF HistorySpec, Spec
=============================================================================
