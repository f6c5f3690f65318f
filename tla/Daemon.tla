------------------------------- MODULE Daemon -------------------------------
(***************************************************************************)
(* ocp.daemon.Daemon from start to end, for its workers: ticks and pauses, *)
(* the phases of _shutdown() with the tasks nothing cancels, crashes.      *)
(*                                                                         *)
(* SIGTERM cancels the monitor and the expiry loop, so nothing spawns any  *)
(* more.  The stop() tasks under way, the watchers and the handlers of     *)
(* open connections go on until the process ends.  stop_all() gathers one  *)
(* more stop() per process it finds.                                       *)
(***************************************************************************)
EXTENDS Naturals

CONSTANTS Gpus, Procs, NoProc, MaxStops  \* see WorkerManager

(* The assumptions of WorkerManager, for its instance.                     *)
ASSUME WorkerAssumption == NoProc \notin Procs /\ MaxStops \in Nat \ {0}

VARIABLES tracked, watching, alive,     \* see WorkerManager
          scheduled, waiting, killing,
          life,   \* where Daemon.run() is
          own,    \* how far the stop() of stop_all() for g is
          target, \* the process it has sent a signal to
          stray   \* history: living processes a crash or a stale stop() left

Workers == INSTANCE WorkerManager

workerVars == <<tracked, watching, alive, scheduled, waiting, killing>>
ownVars    == <<own, target>>
vars       == <<workerVars, life, ownVars, stray>>

(* "stopping": server.stop(); "tearing": stop_all(); "closing": the writer *)
(* of the history ends.                                                    *)
Lives == {"off", "serving", "stopping", "tearing", "closing"}

(* Not called, not started, waiting after terminate() or kill(), returned. *)
Phases == {"none", "new", "term", "kill", "returned"}

(* A manager that knows of no worker and runs no task.                     *)
EmptyMap == [g \in Gpus |-> NoProc]
NoTasks  == [g \in Gpus |-> [p \in Procs |-> 0]]

Clean == /\ tracked = EmptyMap
         /\ scheduled = [g \in Gpus |-> 0] /\ waiting = NoTasks /\ killing = NoTasks

TypeOK == /\ Workers!TypeOK
          /\ life \in Lives
          /\ own \in [Gpus -> Phases]
          /\ target \in [Gpus -> Procs \cup {NoProc}]
          /\ stray \in [Gpus -> SUBSET Procs]
          /\ \A g \in Gpus : /\ stray[g] \subseteq alive[g]
                             /\ target[g] # NoProc <=> own[g] \in {"term", "kill"}
                             /\ own[g] # "none" <=> life = "tearing"
          /\ life = "off" => Clean

Init == /\ Workers!Init
        /\ life = "off"
        /\ own = [g \in Gpus |-> "none"] /\ target = EmptyMap
        /\ stray = [g \in Gpus |-> {}]

-----------------------------------------------------------------------------
(* run() up to the first tick: the manager is new.                         *)
Boot == /\ life = "off" /\ life' = "serving"
        /\ UNCHANGED <<workerVars, ownVars, stray>>

TrackedGpus == {g \in Gpus : Workers!Tracked(g)}

(* A tick spawns and schedules stops, a pause schedules stops.             *)
Serving(S, T) ==
  /\ life = "serving"
  /\ Workers!Handler(S, T)
  /\ UNCHANGED <<life, ownVars, stray>>

(* Mutant: SIGTERM leaves the monitor loop running.                        *)
LatePauseOrTick(T) ==
  /\ life \in {"stopping", "tearing", "closing"}
  /\ \E S \in SUBSET (Gpus \ TrackedGpus) : Workers!Handler(S, T)
  /\ UNCHANGED <<life, ownVars, stray>>

(* A pause on a connection that was open when the daemon was told to stop. *)
LatePause(T) ==
  /\ life \in {"stopping", "tearing", "closing"}
  /\ Workers!Handler({}, T)
  /\ UNCHANGED <<life, ownVars, stray>>

(* The live process of g that a stop() of an earlier one forgets now.      *)
Robbed(g) ==
  {q \in alive'[g] : /\ q = tracked[g] /\ tracked'[g] # q
                     /\ \E p \in Procs \ {q} : \/ waiting'[g][p] < waiting[g][p]
                                               \/ killing'[g][p] < killing[g][p]}

(* A step of a stop() task, a watcher or a process, at any time.           *)
WorkerStep(g) ==
  /\ Workers!Step(g)
  /\ stray' = [stray EXCEPT ![g] = (@ \cap alive'[g]) \cup Robbed(g)]
  /\ UNCHANGED <<life, ownVars>>

-----------------------------------------------------------------------------
Sigterm == /\ life = "serving" /\ life' = "stopping"
           /\ UNCHANGED <<workerVars, ownVars, stray>>

(* server.stop() has returned: stop_all() takes list(self._procs).         *)
StopAll ==
  /\ life = "stopping" /\ life' = "tearing"
  /\ own' = [g \in Gpus |-> IF Workers!Tracked(g) THEN "new" ELSE "returned"]
  /\ UNCHANGED <<workerVars, target, stray>>

OwnMoves(g, phase, p) ==
  /\ own' = [own EXCEPT ![g] = phase] /\ target' = [target EXCEPT ![g] = p]
  /\ UNCHANGED <<alive, scheduled, waiting, killing, life, stray>>

(* stop(), as in module WorkerManager.                                     *)
OwnBegin(g) ==
  /\ own[g] = "new"
  /\ \/ /\ tracked[g] \in alive[g]
        /\ OwnMoves(g, "term", tracked[g])
        /\ UNCHANGED <<tracked, watching>>
     \/ /\ tracked[g] \notin alive[g]
        /\ OwnMoves(g, "returned", NoProc)
        /\ Workers!Cleanup(g)

(* Mutant: a stop_all() without a timeout.                                 *)
OwnWaitsOn(g) == own[g] = "term" /\ UNCHANGED vars

OwnTimeout(g) ==
  /\ own[g] = "term"
  /\ OwnMoves(g, "kill", target[g])
  /\ UNCHANGED <<tracked, watching>>

OwnReaped(g) ==
  /\ own[g] \in {"term", "kill"} /\ target[g] \notin alive[g]
  /\ OwnMoves(g, "returned", NoProc)
  /\ Workers!Cleanup(g)

(* gather() has returned, and persist() works.                             *)
TornDown ==
  /\ life = "tearing" /\ life' = "closing"
  /\ \A g \in Gpus : own[g] = "returned"
  /\ own' = [g \in Gpus |-> "none"] /\ target' = EmptyMap
  /\ UNCHANGED <<workerVars, stray>>

(* Tasks and maps end with the process, workers do not.                    *)
ProcessEnds == /\ life' = "off"
               /\ tracked' = EmptyMap /\ watching' = [g \in Gpus |-> {}]
               /\ scheduled' = [g \in Gpus |-> 0]
               /\ waiting' = NoTasks /\ killing' = NoTasks
               /\ UNCHANGED alive
               /\ own' = [g \in Gpus |-> "none"] /\ target' = EmptyMap

(* stop_writer() has returned, or persist() has raised after stop_all().   *)
Exit == /\ \/ life = "closing"
           \/ life = "tearing" /\ \A g \in Gpus : own[g] = "returned"
        /\ ProcessEnds
        /\ UNCHANGED stray

(* SIGKILL: the sessions of the workers are their own, they go on.         *)
Crash == /\ life # "off"
         /\ ProcessEnds
         /\ stray' = alive

(* SIGKILL ends the process stop_all() waits for.                          *)
ProcEnds(g) == WorkerStep(g) /\ target[g] \in alive[g] \ alive'[g]

OwnStep(g) == OwnBegin(g) \/ OwnTimeout(g) \/ OwnReaped(g)

Next == \/ Boot \/ Sigterm \/ StopAll \/ TornDown \/ Exit \/ Crash
        \/ \E S \in SUBSET (Gpus \ TrackedGpus), T \in SUBSET TrackedGpus : Serving(S, T)
        \/ \E T \in SUBSET TrackedGpus : LatePause(T)
        \/ \E g \in Gpus : WorkerStep(g) \/ OwnStep(g)

(* Every phase of _shutdown() goes on when what it awaits has come.  A     *)
(* client does not hold server.stop() up for ever: see module Ipc.         *)
Fairness == /\ Workers!Fairness
            /\ WF_vars(StopAll) /\ WF_vars(TornDown) /\ WF_vars(Exit)
            /\ \A g \in Gpus :
                 /\ WF_vars(OwnStep(g))
                 /\ WF_vars(own[g] = "kill" /\ ProcEnds(g))

Spec == Init /\ [][Next]_vars /\ Fairness

-----------------------------------------------------------------------------
(* A daemon that stops leaves no worker behind but those a crash or a      *)
(* stale stop() had left before: "SIGTERM, graceful - tears down workers"  *)
(* (README.md) - whatever stop() tasks and late pauses go on meanwhile,    *)
(* and even when persist() raises.                                         *)
NoWorkerLeftBehind ==
  life \in {"off", "closing"} => \A g \in Gpus : alive[g] = stray[g]

(* A SIGTERM ends the daemon, however workers take theirs.                 *)
ShutdownEnds == life = "stopping" ~> life = "off"
=============================================================================
