----------------------------- MODULE Controller -----------------------------
(***************************************************************************)
(* A running ocpd between boot and shutdown: ocp.controller.Controller     *)
(* over the lease store and the worker manager, with the handlers and      *)
(* loops of ocp.daemon that call it.                                       *)
(*                                                                         *)
(* Nothing awaits while it holds Controller.lock, so a tick, a sweep, a    *)
(* pause, a resume and a reload are one step each.  The stop() tasks they  *)
(* create run outside the lock and interleave with all of them.            *)
(*                                                                         *)
(* A request that authorization or validation refuses changes nothing but  *)
(* the history file, which is not modelled here: it is no step.            *)
(***************************************************************************)
EXTENDS Naturals

CONSTANTS Gpus, Uids, Root, Durations, NoLease, DiskOutcomes, \* see LeaseStore
          Procs, NoProc, MaxStops,                            \* see WorkerManager
          Visible,        \* monitor.enumerate(): the GPUs NVML shows
          Samples,        \* what a sample may say of a GPU
          SpawnOutcomes,  \* {TRUE}: Popen succeeds; with FALSE it may fail
          Configs,        \* the configurations config.load() may return
          MaxDebounce,    \* bound: streaks and ticks are timed up to here
          NoTick          \* "self._last_tick_at is None"

ConfigType == [indices   : SUBSET Gpus,   \* gpu.indices, without repetition
               debounce  : 0 .. MaxDebounce,
               workloads : BOOLEAN,       \* worker.workloads is not empty
               whitelist : SUBSET Uids,
               minDur    : Nat,
               maxDur    : Nat,
               intMax    : BOOLEAN]       \* history.max_entries is an integer

(* What _validate() asks of these fields; a max_entries need not be an     *)
(* integer.                                                                *)
ValidThresholds(c) == c.debounce > 0
ValidPause(c)      == 0 < c.minDur /\ c.minDur <= c.maxDur

(* The assumptions of LeaseStore and WorkerManager, for their instances.   *)
ASSUME StoreAssumption ==
  /\ Root \in Uids
  /\ Durations \subseteq Nat \ {0}
  /\ NoLease \notin [uid : Uids, left : Nat]
  /\ TRUE \in DiskOutcomes /\ DiskOutcomes \subseteq BOOLEAN

ASSUME WorkerAssumption == NoProc \notin Procs /\ MaxStops \in Nat \ {0}

ASSUME VisibleAssumption  == Visible \subseteq Gpus
ASSUME SamplesAssumption  == Samples \subseteq {"quiet", "busy", "error"}
ASSUME SpawnAssumption    == TRUE \in SpawnOutcomes /\ SpawnOutcomes \subseteq BOOLEAN
ASSUME ConfigsAssumption  ==
  Configs \subseteq {c \in ConfigType : ValidThresholds(c) /\ ValidPause(c)}
ASSUME DebounceAssumption == MaxDebounce \in Nat \ {0} /\ NoTick \notin Nat

VARIABLES leases, disk,                        \* see LeaseStore
          tracked, watching, alive,            \* see WorkerManager
          scheduled, waiting, killing,
          cfg,         \* self.cfg, the same object in daemon and controller
          watched,     \* Controller._watched, as a set
          streak,      \* DeviceState.idle_streak_s of each GPU
          sinceTick,   \* time.monotonic() - _last_tick_at
          expiryAlive  \* the task of _lease_expiry_loop has not died

Store   == INSTANCE LeaseStore WITH up <- TRUE
Workers == INSTANCE WorkerManager

storeVars   == <<leases, disk>>
workerVars  == <<tracked, watching, alive, scheduled, waiting, killing>>
controlVars == <<cfg, watched, streak, sinceTick, expiryAlive>>
vars        == <<storeVars, workerVars, controlVars>>

Times == 0 .. MaxDebounce

TypeOK == /\ Store!TypeOK
          /\ Workers!TypeOK
          /\ cfg \in Configs
          /\ watched \in SUBSET Gpus
          /\ streak \in [Gpus -> Times]
          /\ \A g \in Gpus \ watched : streak[g] = 0
          /\ sinceTick \in Times \cup {NoTick}
          /\ expiryAlive \in BOOLEAN

-----------------------------------------------------------------------------
Held(g) == leases[g] # NoLease

(* _resolve_watched(): gpu.indices or, when that is empty, what NVML shows.*)
Resolve(c) == IF c.indices = {} THEN Visible ELSE c.indices

(* t plus dt, timed up to MaxDebounce.                                     *)
Later(t, dt) == IF t + dt < MaxDebounce THEN t + dt ELSE MaxDebounce

(* The dt of a tick: nothing on the first one.                             *)
Dt == IF sinceTick = NoTick THEN 0 ELSE sinceTick

(* Mutant: set_watched() that keeps the state of GPUs no longer watched.   *)
SetWatchedKeep(new) == watched' = new /\ UNCHANGED streak

(* set_watched(new): the state of GPUs no longer watched is dropped.       *)
SetWatched(new) ==
  /\ watched' = new
  /\ streak' = [g \in Gpus |-> IF g \in new THEN streak[g] ELSE 0]

(* run() up to the first tick; load() has restored what state.json holds.  *)
Init == /\ cfg \in Configs
        /\ watched = Resolve(cfg)
        /\ streak = [g \in Gpus |-> 0]
        /\ sinceTick = NoTick
        /\ expiryAlive = TRUE
        /\ leases \in [Gpus -> [uid : Uids, left : Durations] \cup {NoLease}]
        /\ disk = leases
        /\ Workers!Init

-----------------------------------------------------------------------------
(* sweep_expired() inside a handler: it may have nothing to persist.       *)
SweepSome(ok) == \/ Store!Sweep(ok)
                 \/ Store!LapsedGpus = {} /\ ok /\ UNCHANGED storeVars

(* Mutant: the tick leaves lapsed leases to the expiry loop.               *)
TickWithoutSweep == UNCHANGED storeVars

(* The sweep that opens a tick, when it succeeds.                          *)
TickSweep == SweepSome(TRUE)

(* Mutant: a tick that looks for a worker and not for a lease.             *)
SpawnDueLeased(s, g) ==
  /\ ~Workers!Tracked(g)
  /\ s[g] = "quiet"
  /\ streak[g] + Dt >= cfg.debounce
  /\ cfg.workloads

(* _apply() of g with sample s[g], after the sweep, calls spawn().         *)
SpawnDue(s, g) ==
  /\ leases'[g] = NoLease
  /\ ~Workers!Tracked(g)
  /\ s[g] = "quiet"
  /\ streak[g] + Dt >= cfg.debounce
  /\ cfg.workloads

(* Mutant: a lease does not reset the streak it interrupts.                *)
NextStreakLeased(s, g) ==
  IF s[g] = "error" \/ Workers!Tracked(g) THEN streak[g]
  ELSE IF s[g] = "busy" THEN 0
  ELSE Later(streak[g], Dt)

(* Mutant: every quiet sample starts a new streak.                         *)
NextStreakOne(s, g) == IF s[g] = "quiet" /\ leases'[g] = NoLease THEN Dt ELSE 0

(* The streak _apply() leaves g with when it does not spawn: kept by an    *)
(* error or a worker, reset by a lease or a busy sample, credited the      *)
(* whole dt by a quiet one.                                                *)
NextStreak(s, g) ==
  IF s[g] = "error" \/ (leases'[g] = NoLease /\ Workers!Tracked(g)) THEN streak[g]
  ELSE IF leases'[g] # NoLease \/ s[g] = "busy" THEN 0
  ELSE Later(streak[g], Dt)

(* _apply() of the GPUs of V, and of those of `failing` up to their spawn. *)
Visit(s, V, failing) ==
  LET spawned == {g \in V : SpawnDue(s, g)}
      leased  == {g \in V : /\ s[g] # "error" /\ leases'[g] # NoLease
                            /\ Workers!Tracked(g)}
  IN  /\ Workers!Handler(spawned, leased)
      /\ streak' = [g \in Gpus |-> CASE g \in spawned -> 0
                                     [] g \in (V \ spawned) \cup failing ->
                                          NextStreak(s, g)
                                     [] OTHER -> streak[g]]

(* tick_once(): a sweep and a look at every watched GPU.                   *)
Tick(s) ==
  /\ TickSweep
  /\ Visit(s, watched, {})
  /\ sinceTick' = 0
  /\ UNCHANGED <<cfg, watched, expiryAlive>>

(* tick_once() whose Popen of g fails: the GPUs V came before g in         *)
(* gpu.indices, those after g are not looked at.                           *)
TickSpawnFails(s, V, g) ==
  /\ FALSE \in SpawnOutcomes \/ Workers!FreeProcs(g) = {}
  /\ TickSweep
  /\ SpawnDue(s, g)
  /\ Visit(s, V, {g})
  /\ sinceTick' = 0
  /\ UNCHANGED <<cfg, watched, expiryAlive>>

(* tick_once() whose sweep cannot persist: no GPU is looked at.            *)
TickSweepFails ==
  /\ FALSE \in DiskOutcomes
  /\ SweepSome(FALSE)
  /\ sinceTick' = 0
  /\ UNCHANGED <<workerVars, cfg, watched, streak, expiryAlive>>

(* An iteration of _monitor_loop(), which survives any of them.            *)
MonitorLoop ==
  \E s \in [watched -> Samples] :
    \/ Tick(s)
    \/ \E g \in watched : \E V \in SUBSET (watched \ {g}) : TickSpawnFails(s, V, g)
    \/ TickSweepFails

(* An iteration of _lease_expiry_loop() that finds a lapsed lease.  When   *)
(* persist() raises, nothing catches it and the task is gone.              *)
ExpiryLoop(ok) ==
  /\ expiryAlive
  /\ Store!Sweep(ok)
  /\ expiryAlive' = ok
  /\ UNCHANGED <<workerVars, cfg, watched, streak, sinceTick>>

-----------------------------------------------------------------------------
(* _dispatch() and auth: root and the whitelist may pause and resume.      *)
Authorized(u) == u = Root \/ u \in cfg.whitelist

(* Mutant: pause() leaves the worker to the defensive stop of a tick.      *)
PauseOnly(u, S, d, ok) ==
  /\ Authorized(u)
  /\ S # {} /\ S \subseteq watched
  /\ cfg.minDur <= d /\ d <= cfg.maxDur
  /\ Store!Acquire(u, S, d, ok)
  /\ UNCHANGED <<workerVars, controlVars>>

(* PAUSE: leases for all of S, then a stop() for each of its workers.      *)
(* When persist() fails the leases stay, and no stop() is scheduled.       *)
Pause(u, S, d, ok) ==
  /\ Authorized(u)
  /\ S # {} /\ S \subseteq watched
  /\ cfg.minDur <= d /\ d <= cfg.maxDur
  /\ Store!Acquire(u, S, d, ok)
  /\ Workers!Handler({}, IF ok THEN {g \in S : Workers!Tracked(g)} ELSE {})
  /\ UNCHANGED controlVars

(* RESUME: of any GPUs, watched or not.                                    *)
Resume(u, S, ok) ==
  /\ Authorized(u)
  /\ Store!Release(u, S, ok)
  /\ UNCHANGED <<workerVars, controlVars>>

(* CONFIG_RELOAD or SIGHUP with a valid file.  After self.cfg is replaced, *)
(* set_max_entries() raises on a max_entries that is no integer, and       *)
(* enumerate(), asked when gpu.indices is empty, on an NVMLError: the new  *)
(* cfg stays, with the old watched set.                                    *)
Reload(c) ==
  /\ cfg' = c
  /\ \/ c.intMax /\ SetWatched(Resolve(c))
     \/ (~c.intMax \/ c.indices = {}) /\ UNCHANGED <<watched, streak>>
  /\ UNCHANGED <<storeVars, workerVars, sinceTick, expiryAlive>>

(* Time passes, for the leases and for the next dt.                        *)
Elapse ==
  /\ Store!Elapse
  /\ sinceTick' = IF sinceTick = NoTick THEN NoTick ELSE Later(sinceTick, 1)
  /\ UNCHANGED <<workerVars, cfg, watched, streak, expiryAlive>>

(* A step of a stop() task, a watcher or a worker process.                 *)
WorkerStep == /\ \E g \in Gpus : Workers!Step(g)
              /\ UNCHANGED <<storeVars, controlVars>>

Request == \E u \in Uids, S \in SUBSET Gpus, ok \in DiskOutcomes :
             \/ \E d \in Durations : Pause(u, S, d, ok)
             \/ Resume(u, S, ok)

NotMonitor == \/ \E ok \in DiskOutcomes : ExpiryLoop(ok)
              \/ Request
              \/ \E c \in Configs : Reload(c)
              \/ Elapse
              \/ WorkerStep

Next == MonitorLoop \/ NotMonitor

(* The loops keep running, time passes, and tasks run as WorkerManager     *)
(* says.  Nobody has to send a request.                                    *)
Fairness == /\ WF_vars(MonitorLoop)
            /\ WF_vars(\E ok \in DiskOutcomes : ExpiryLoop(ok))
            /\ WF_vars(Elapse)
            /\ Workers!Fairness

Spec == Init /\ [][Next]_vars /\ Fairness

-----------------------------------------------------------------------------
(* A worker the manager knows of is being torn down for as long as its GPU *)
(* is leased: pause() schedules a stop(), no tick spawns under a lease,    *)
(* and no end of an earlier stop() can leave a new worker behind.  Needs a *)
(* working disk: a pause whose persist() fails schedules nothing.          *)
LeasedMeansStopping ==
  \A g \in Gpus : Held(g) /\ Workers!Tracked(g) => Workers!StopPending(g)

(* No process starts on a GPU under a lease, whatever fails: "the daemon   *)
(* won't spawn another worker process" (README.md).                        *)
NoSpawnUnderLease ==
  [][\A g \in Gpus : ~(alive'[g] \subseteq alive[g]) =>
       ~Store!IsActive(leases, g)]_vars

Promise == INSTANCE Reservation WITH held <- Store!Active(leases)

(* This step is, for the users, the step of Reservation it should be: a    *)
(* pause that is granted reserves all of its GPUs and shortens nothing, a  *)
(* resume ends what its user may end and only that, and no tick, sweep,    *)
(* reload or worker makes a difference.                                    *)
StepKeepsPromise ==
  /\ MonitorLoop \/ WorkerStep => UNCHANGED Store!Active(leases)
  /\ \A c \in Configs : Reload(c) => UNCHANGED Store!Active(leases)
  /\ \A ok \in DiskOutcomes :
       /\ ExpiryLoop(ok) => UNCHANGED Store!Active(leases)
       /\ \A u \in Uids, S \in SUBSET Gpus :
            /\ \A d \in Durations : Pause(u, S, d, ok) => Promise!Reserve(u, S, d)
            /\ Resume(u, S, ok) =>
                 Promise!Release(u, {g \in S : /\ Store!IsActive(leases, g)
                                               /\ leases[g].uid = u \/ u = Root})
  /\ Elapse => Promise!Elapse

(* While the daemon runs, users see the reservations of module Reservation *)
(* (starting from those load() has restored), step by step, although file  *)
(* operations may fail and reloads change who may ask for what.            *)
KeepsPromise == [][StepKeepsPromise]_vars

(* A lapsed lease is swept, by a tick if the expiry loop has died.         *)
LapsedLeaseSwept ==
  \A g \in Gpus : Store!IsLapsed(leases, g) ~> ~Store!IsLapsed(leases, g)

(* A watched GPU that always samples quiet gets a worker, unless somebody  *)
(* holds it (tick_once, _apply).  Needs a Popen that succeeds, and a host  *)
(* not yet full of forgotten processes.                                    *)
IdleGpuGetsWorker ==
  \A g \in Gpus :
    (g \in watched /\ cfg.workloads) ~>
      (\/ Workers!Tracked(g) \/ Held(g) \/ Workers!FreeProcs(g) = {}
       \/ ~(g \in watched /\ cfg.workloads))
=============================================================================
