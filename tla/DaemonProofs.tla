---------------------------- MODULE DaemonProofs ----------------------------
(***************************************************************************)
(* Proofs about Daemon for any number of GPUs, processes and stop tasks.   *)
(* NoWorkerLeftBehind speaks of the ends of shutdowns; what leads there is *)
(* that at all times a living process is the one the manager knows of or a *)
(* stray, and that a stop() of stop_all() has nothing left to forget when  *)
(* it returns.                                                             *)
(***************************************************************************)
EXTENDS Daemon, TLAPS

WorkerProofs == INSTANCE WorkerManagerProofs

Known == \A g \in Gpus : alive[g] \subseteq stray[g] \cup {tracked[g]}

(* Nothing spawns once stop_all() has begun.                               *)
OwnKnows ==
  \A g \in Gpus : /\ own[g] \in {"term", "kill"} => tracked[g] \in {target[g], NoProc}
                  /\ own[g] = "returned" => tracked[g] = NoProc
                  /\ life = "closing" => tracked[g] = NoProc

IInv == TypeOK /\ Known /\ OwnKnows

-----------------------------------------------------------------------------
LEMMA InitIInv == Init => IInv
<1> SUFFICES ASSUME Init PROVE IInv
  OBVIOUS
<1>1. Workers!TypeOK
  BY WorkerAssumption DEF Init, Workers!Init, Workers!TypeOK, Workers!Counts
<1>2. TypeOK
  BY <1>1 DEF Init, TypeOK, Workers!Init, Clean, EmptyMap, NoTasks, Lives, Phases
<1> QED
  BY <1>2 DEF Init, IInv, Known, OwnKnows, Workers!Init

(* The worker maps keep their type in every step of the manager.           *)
LEMMA WorkerTypeStep ==
  Workers!TypeOK /\ [Workers!Next]_(Workers!vars) => Workers!TypeOK'
<1>1. Workers!TypeOK <=> WorkerProofs!TypeOK
  BY DEF Workers!TypeOK, WorkerProofs!TypeOK, Workers!Counts, WorkerProofs!Counts
<1>2. [Workers!Next]_(Workers!vars) => [WorkerProofs!Next]_(WorkerProofs!vars)
  BY Zenon DEF Workers!Next, WorkerProofs!Next, Workers!Step, WorkerProofs!Step,
     Workers!vars, WorkerProofs!vars, Workers!mapVars, WorkerProofs!mapVars,
     Workers!stopVars, WorkerProofs!stopVars,
     Workers!Handler, WorkerProofs!Handler, Workers!Spawn, WorkerProofs!Spawn,
     Workers!ScheduleStop, WorkerProofs!ScheduleStop,
     Workers!Tracked, WorkerProofs!Tracked, Workers!FreeProcs, WorkerProofs!FreeProcs,
     Workers!NewProc, WorkerProofs!NewProc, Workers!OneMore, WorkerProofs!OneMore,
     Workers!Cleanup, WorkerProofs!Cleanup, Workers!StopBegin, WorkerProofs!StopBegin,
     Workers!StopReaped, WorkerProofs!StopReaped,
     Workers!StopTimeout, WorkerProofs!StopTimeout,
     Workers!StopKilled, WorkerProofs!StopKilled,
     Workers!WatchExit, WorkerProofs!WatchExit, Workers!ProcExit, WorkerProofs!ProcExit
<1>3. WorkerProofs!TypeOK /\ [WorkerProofs!Next]_(WorkerProofs!vars) => WorkerProofs!TypeOK'
  BY WorkerProofs!TypeStep, WorkerAssumption
<1>4. Workers!TypeOK' <=> WorkerProofs!TypeOK'
  BY DEF Workers!TypeOK, WorkerProofs!TypeOK, Workers!Counts, WorkerProofs!Counts
<1> QED
  BY <1>1, <1>2, <1>3, <1>4

-----------------------------------------------------------------------------
(* A handler of the controller.                                            *)
LEMMA HandlerStep ==
  ASSUME IInv, NEW S \in SUBSET Gpus, NEW T \in SUBSET Gpus,
         Workers!Handler(S, T), UNCHANGED <<life, ownVars, stray>>,
         life # "off", S = {} \/ life = "serving"
  PROVE  IInv'
<1>1. Workers!TypeOK'
  BY WorkerTypeStep DEF Workers!Next, IInv, TypeOK
<1>2. ASSUME NEW g \in Gpus
      PROVE  \/ tracked'[g] = tracked[g] /\ alive'[g] = alive[g]
             \/ /\ g \in S /\ tracked[g] = NoProc
                /\ tracked'[g] = Workers!NewProc(g)
                /\ alive'[g] = alive[g] \cup {Workers!NewProc(g)}
  BY DEF Workers!Handler, Workers!Spawn, Workers!Tracked, IInv, TypeOK, Workers!TypeOK
<1>3. ASSUME NEW g \in Gpus PROVE alive[g] \subseteq alive'[g]
  BY <1>2, <1>3
<1>4. ASSUME NEW g \in Gpus, tracked[g] = NoProc
      PROVE  alive[g] \subseteq stray[g]
  BY <1>4, WorkerAssumption DEF IInv, TypeOK, Known, Workers!TypeOK
<1>5. TypeOK'
  BY <1>1, <1>3 DEF IInv, TypeOK, ownVars
<1>6. Known'
  BY <1>2, <1>4 DEF IInv, Known
<1>7. OwnKnows'
  <2>1. CASE S = {}
    BY <1>2, <2>1 DEF IInv, OwnKnows, ownVars
  <2>2. CASE life = "serving"
    BY <2>2 DEF IInv, TypeOK, OwnKnows, ownVars
  <2> QED
    BY <2>1, <2>2
<1> QED
  BY <1>5, <1>6, <1>7 DEF IInv

(* _cleanup() forgets one GPU, and only what the caller knows to be dead,  *)
(* or a process that becomes a stray.                                      *)
LEMMA CleanupStep ==
  ASSUME IInv, NEW g \in Gpus, Workers!Cleanup(g), TypeOK', UNCHANGED <<life, alive>>,
         \A h \in Gpus \ {g} : UNCHANGED <<own[h], target[h], stray[h]>>,
         own'[g] \in {own[g], "returned"}, UNCHANGED target[g] \/ own'[g] = "returned",
         stray[g] \subseteq stray'[g],
         tracked[g] \in alive[g] => tracked[g] \in stray'[g]
  PROVE  IInv'
<1>1. /\ tracked'[g] = NoProc
      /\ \A h \in Gpus \ {g} : tracked'[h] = tracked[h]
  BY DEF Workers!Cleanup, IInv, TypeOK, Workers!TypeOK
<1>2. Known'
  BY <1>1 DEF IInv, Known
<1>3. OwnKnows'
  BY <1>1 DEF IInv, OwnKnows
<1> QED
  BY <1>2, <1>3 DEF IInv

(* A step of a stop() task, a watcher or a process.                        *)
LEMMA TaskStep ==
  ASSUME IInv, NEW g \in Gpus, WorkerStep(g)
  PROVE  IInv'
<1>1. Workers!TypeOK'
  BY WorkerTypeStep DEF WorkerStep, Workers!Next, IInv, TypeOK
<1>2. /\ stray' = [stray EXCEPT ![g] = (@ \cap alive'[g]) \cup Robbed(g)]
      /\ Workers!Step(g) /\ UNCHANGED <<life, ownVars>>
  BY DEF WorkerStep
<1>3. TypeOK'
  <2>1. \A h \in Gpus \ {g} : alive'[h] = alive[h]
    BY <1>2 DEF Workers!Step, Workers!StopBegin, Workers!StopReaped, Workers!StopTimeout,
                Workers!StopKilled, Workers!WatchExit, Workers!ProcExit,
                IInv, TypeOK, Workers!TypeOK
  <2>2. Robbed(g) \subseteq alive'[g]
    BY DEF Robbed
  <2>3. stray' \in [Gpus -> SUBSET Procs] /\ \A h \in Gpus : stray'[h] \subseteq alive'[h]
    BY <1>1, <1>2, <2>1, <2>2 DEF IInv, TypeOK, Workers!TypeOK
  <2>4. life' = "off" => Clean'
    <3> SUFFICES ASSUME life = "off" PROVE Clean'
      BY <1>2
    <3>1. Clean /\ \E p \in Procs : Workers!ProcExit(g, p)
      BY <1>2, WorkerAssumption
         DEF IInv, TypeOK, Clean, NoTasks, EmptyMap, Workers!TypeOK, Workers!Step,
             Workers!StopBegin, Workers!StopReaped, Workers!StopTimeout,
             Workers!StopKilled, Workers!WatchExit
    <3> QED
      BY <3>1 DEF Workers!ProcExit, Workers!mapVars, Workers!stopVars, Clean
  <2> QED
    BY <1>1, <1>2, <2>3, <2>4 DEF IInv, TypeOK, ownVars
<1>4. stray'[g] = (stray[g] \cap alive'[g]) \cup Robbed(g)
      /\ \A h \in Gpus \ {g} : stray'[h] = stray[h]
  BY <1>2 DEF IInv, TypeOK
<1>5. CASE UNCHANGED tracked
  <2>1. \A h \in Gpus \ {g} : alive'[h] = alive[h]
    BY <1>2 DEF Workers!Step, Workers!StopBegin, Workers!StopReaped, Workers!StopTimeout,
                Workers!StopKilled, Workers!WatchExit, Workers!ProcExit,
                IInv, TypeOK, Workers!TypeOK
  <2>2. alive'[g] \subseteq alive[g]
    BY <1>2 DEF Workers!Step, Workers!StopBegin, Workers!StopReaped, Workers!StopTimeout,
                Workers!StopKilled, Workers!WatchExit, Workers!ProcExit,
                IInv, TypeOK, Workers!TypeOK
  <2>3. Known'
    BY <1>4, <1>5, <2>1, <2>2 DEF IInv, Known
  <2> QED
    BY <1>2, <1>3, <1>5, <2>3 DEF IInv, OwnKnows, ownVars
<1>6. ASSUME Workers!Cleanup(g), UNCHANGED alive,
             tracked[g] \in alive[g] => tracked[g] \in Robbed(g)
      PROVE  IInv'
  <2>1. stray[g] \subseteq stray'[g] /\ (tracked[g] \in alive[g] => tracked[g] \in stray'[g])
    BY <1>4, <1>6 DEF IInv, TypeOK
  <2> QED
    BY <1>2, <1>3, <1>4, <1>6, <2>1, CleanupStep DEF ownVars
<1>7. ASSUME NEW p \in Procs, Workers!Cleanup(g), UNCHANGED alive, p \notin alive[g],
             waiting'[g][p] < waiting[g][p] \/ killing'[g][p] < killing[g][p]
      PROVE  IInv'
  <2>1. tracked'[g] = NoProc
    BY <1>7 DEF Workers!Cleanup, IInv, TypeOK, Workers!TypeOK
  <2>2. tracked[g] \in alive[g] => tracked[g] \in Robbed(g)
    BY <1>7, <2>1, WorkerAssumption DEF Robbed, IInv, TypeOK, Workers!TypeOK
  <2> QED
    BY <1>6, <1>7, <2>2
<1>8. CASE Workers!StopBegin(g)
  BY <1>5, <1>6, <1>8 DEF Workers!StopBegin, Workers!mapVars
<1>9. ASSUME NEW p \in Procs, Workers!StopReaped(g, p)
      PROVE  IInv'
  <2>1. waiting'[g][p] < waiting[g][p]
    BY <1>9 DEF Workers!StopReaped, IInv, TypeOK, Workers!TypeOK, Workers!Counts
  <2> QED
    BY <1>7, <1>9, <2>1 DEF Workers!StopReaped
<1>10. ASSUME NEW p \in Procs, Workers!StopKilled(g, p)
       PROVE  IInv'
  <2>1. killing'[g][p] < killing[g][p]
    BY <1>10 DEF Workers!StopKilled, IInv, TypeOK, Workers!TypeOK, Workers!Counts
  <2> QED
    BY <1>7, <1>10, <2>1 DEF Workers!StopKilled
<1>11. ASSUME NEW p \in Procs, Workers!StopTimeout(g, p) \/ Workers!ProcExit(g, p)
       PROVE  IInv'
  BY <1>5, <1>11 DEF Workers!StopTimeout, Workers!ProcExit, Workers!mapVars
<1>12. ASSUME NEW p \in Procs, Workers!WatchExit(g, p)
       PROVE  IInv'
  BY <1>6, <1>12 DEF Workers!WatchExit
<1> QED
  BY <1>2, <1>8, <1>9, <1>10, <1>11, <1>12 DEF Workers!Step

-----------------------------------------------------------------------------
(* The steps of stop_all().                                                *)
LEMMA OwnStepStep ==
  ASSUME IInv, NEW g \in Gpus, OwnStep(g)
  PROVE  IInv'
<1>0. g \in Gpus /\ own[g] \in {"new", "term", "kill"} /\ life = "tearing" /\ life' = life
      /\ UNCHANGED <<alive, scheduled, waiting, killing, stray>>
      /\ \A h \in Gpus \ {g} : UNCHANGED <<own[h], target[h]>>
  BY DEF OwnStep, OwnBegin, OwnTimeout, OwnReaped, OwnMoves, IInv, TypeOK
<1>1. ASSUME NEW p \in Procs, own[g] = "new" => p = tracked[g],
             own[g] # "new" => p = target[g],
             UNCHANGED <<tracked, watching>>, OwnMoves(g, "term", p) \/ OwnMoves(g, "kill", p)
      PROVE  IInv'
  <2>1. Workers!TypeOK'
    BY <1>0, <1>1 DEF IInv, TypeOK, Workers!TypeOK
  <2>2. TypeOK'
    BY <1>0, <1>1, <2>1, WorkerAssumption DEF IInv, TypeOK, OwnMoves, Phases
  <2> QED
    BY <1>0, <1>1, <2>2 DEF IInv, TypeOK, Known, OwnKnows, OwnMoves
<1>2. ASSUME Workers!Cleanup(g), OwnMoves(g, "returned", NoProc), tracked[g] \notin alive[g]
      PROVE  IInv'
  <2>1. Workers!TypeOK'
    BY <1>0, <1>2 DEF IInv, TypeOK, Workers!TypeOK, Workers!Cleanup
  <2>2. TypeOK'
    BY <1>0, <1>2, <2>1 DEF IInv, TypeOK, OwnMoves, Phases
  <2> QED
    BY <1>0, <1>2, <2>2, CleanupStep DEF IInv, TypeOK, OwnMoves
<1>3. CASE OwnBegin(g)
  BY <1>1, <1>2, <1>3 DEF OwnBegin, IInv, TypeOK, Workers!TypeOK
<1>4. CASE OwnTimeout(g)
  <2>1. target[g] \in Procs /\ own[g] = "term"
    BY <1>4 DEF OwnTimeout, IInv, TypeOK
  <2> QED
    BY <1>1, <1>4, <2>1 DEF OwnTimeout
<1>5. CASE OwnReaped(g)
  <2>1. tracked[g] \notin alive[g]
    BY <1>5, WorkerAssumption
       DEF OwnReaped, IInv, TypeOK, OwnKnows, Workers!TypeOK
  <2> QED
    BY <1>2, <1>5, <2>1 DEF OwnReaped
<1> QED
  BY <1>3, <1>4, <1>5 DEF OwnStep

(* SIGTERM, and the phases of _shutdown().                                 *)
LEMMA PhaseStep ==
  ASSUME IInv, Boot \/ Sigterm \/ StopAll \/ TornDown
  PROVE  IInv'
<1>1. UNCHANGED <<workerVars, stray>>
  BY DEF Boot, Sigterm, StopAll, TornDown
<1>2. Workers!TypeOK' /\ Known'
  BY <1>1 DEF workerVars, IInv, TypeOK, Workers!TypeOK, Known
<1>3. CASE Boot \/ Sigterm
  BY <1>1, <1>2, <1>3 DEF Boot, Sigterm, IInv, TypeOK, OwnKnows, workerVars, ownVars, Lives
<1>4. CASE StopAll
  <2>1. TypeOK'
    BY <1>1, <1>2, <1>4 DEF StopAll, IInv, TypeOK, workerVars, Lives, Phases
  <2> QED
    BY <1>1, <1>2, <1>4, <2>1 DEF StopAll, IInv, OwnKnows, workerVars, Workers!Tracked
<1>5. CASE TornDown
  <2>1. TypeOK'
    BY <1>1, <1>2, <1>5 DEF TornDown, IInv, TypeOK, workerVars, Lives, Phases, EmptyMap
  <2> QED
    BY <1>1, <1>2, <1>5, <2>1 DEF TornDown, IInv, OwnKnows, workerVars
<1> QED
  BY <1>3, <1>4, <1>5

(* The end of the process.                                                 *)
LEMMA EndStep ==
  ASSUME IInv, Exit \/ Crash
  PROVE  IInv'
<1>1. ProcessEnds
  BY DEF Exit, Crash
<1>2. Workers!TypeOK' /\ Clean'
  <2>1. Clean'
    BY <1>1 DEF ProcessEnds, Clean
  <2>2. alive' \in [Gpus -> SUBSET Procs]
    BY <1>1 DEF ProcessEnds, IInv, TypeOK, Workers!TypeOK
  <2>3. NoTasks \in [Gpus -> [Procs -> 0 .. MaxStops]]
        /\ [g \in Gpus |-> 0] \in [Gpus -> 0 .. MaxStops]
    BY WorkerAssumption DEF NoTasks
  <2>4. watching' = [g \in Gpus |-> {tracked'[g]} \ {NoProc}]
    BY <1>1 DEF ProcessEnds, EmptyMap
  <2>5. tracked' \in [Gpus -> Procs \cup {NoProc}]
    BY <1>1 DEF ProcessEnds, EmptyMap
  <2> QED
    BY <1>1, <2>1, <2>2, <2>3, <2>4, <2>5 DEF ProcessEnds, Workers!TypeOK, Workers!Counts
<1>3. ASSUME NEW g \in Gpus PROVE alive[g] \subseteq stray'[g] /\ stray'[g] \subseteq alive[g]
  <2>1. CASE Crash
    BY <2>1 DEF Crash
  <2>2. CASE Exit
    BY <2>2, WorkerAssumption
       DEF Exit, IInv, TypeOK, Known, OwnKnows, Workers!TypeOK
  <2> QED
    BY <2>1, <2>2
<1>4. TypeOK'
  <2>1. stray' \in [Gpus -> SUBSET Procs]
    BY DEF Exit, Crash, IInv, TypeOK, Workers!TypeOK
  <2> QED
    BY <1>1, <1>2, <1>3, <2>1 DEF ProcessEnds, TypeOK, EmptyMap, Lives, Phases
<1>5. Known' /\ OwnKnows'
  BY <1>1, <1>3 DEF ProcessEnds, Known, OwnKnows, EmptyMap
<1> QED
  BY <1>4, <1>5 DEF IInv

-----------------------------------------------------------------------------
LEMMA NextIInv == IInv /\ [Next]_vars => IInv'
<1> SUFFICES ASSUME IInv, [Next]_vars PROVE IInv'
  OBVIOUS
<1>1. CASE UNCHANGED vars
  BY <1>1 DEF vars, workerVars, ownVars, IInv, TypeOK, Workers!TypeOK, Clean, Known, OwnKnows
<1>2. ASSUME NEW S \in SUBSET (Gpus \ TrackedGpus), NEW T \in SUBSET TrackedGpus, Serving(S, T)
      PROVE  IInv'
  BY <1>2, HandlerStep DEF Serving, TrackedGpus
<1>3. ASSUME NEW T \in SUBSET TrackedGpus, LatePause(T)
      PROVE  IInv'
  BY <1>3, HandlerStep DEF LatePause, TrackedGpus
<1> QED
  BY <1>1, <1>2, <1>3, PhaseStep, EndStep, TaskStep, OwnStepStep DEF Next

LEMMA IInvImpliesLeft == IInv => NoWorkerLeftBehind
<1> SUFFICES ASSUME IInv, life \in {"off", "closing"}, NEW g \in Gpus
             PROVE  alive[g] = stray[g]
  BY DEF NoWorkerLeftBehind
<1>1. tracked[g] = NoProc
  BY DEF IInv, TypeOK, OwnKnows, Clean, EmptyMap
<1>2. alive[g] \subseteq Procs /\ stray[g] \subseteq alive[g]
      /\ alive[g] \subseteq stray[g] \cup {NoProc}
  BY <1>1 DEF IInv, TypeOK, Known, Workers!TypeOK
<1> QED
  BY <1>2, WorkerAssumption

(* A daemon that is off holds nothing, stop_all() has one stop() per GPU   *)
(* that waits for one process, and strays are alive (Daemon, every action).*)
THEOREM TypeCorrect == Spec => []TypeOK
<1>1. Init => IInv
  BY InitIInv
<1>2. IInv /\ [Next]_vars => IInv'
  BY NextIInv
<1>3. IInv => TypeOK
  BY DEF IInv
<1> QED
  BY <1>1, <1>2, <1>3, PTL DEF Spec

(* However many GPUs, stop tasks and late pauses there are, a daemon that  *)
(* has stopped leaves no worker but those a crash or a stale stop() had    *)
(* left before (_shutdown, stop_all, stop).                                *)
THEOREM NoneLeftBehind == Spec => []NoWorkerLeftBehind
<1>1. Init => IInv
  BY InitIInv
<1>2. IInv /\ [Next]_vars => IInv'
  BY NextIInv
<1>3. IInv => NoWorkerLeftBehind
  BY IInvImpliesLeft
<1> QED
  BY <1>1, <1>2, <1>3, PTL DEF Spec

(* At any moment of any life, two workers share a GPU only when a crash or *)
(* a stale stop() has left one of them (spawn, stop, _watch).              *)
THEOREM OneWorkerPerGpu ==
  Spec => [](\A g \in Gpus : \A p, q \in alive[g] \ stray[g] : p = q)
<1>1. Init => IInv
  BY InitIInv
<1>2. IInv /\ [Next]_vars => IInv'
  BY NextIInv
<1>3. IInv => \A g \in Gpus : \A p, q \in alive[g] \ stray[g] : p = q
  BY DEF IInv, Known
<1> QED
  BY <1>1, <1>2, <1>3, PTL DEF Spec
=============================================================================
