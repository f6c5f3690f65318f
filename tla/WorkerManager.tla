--------------------------- MODULE WorkerManager ---------------------------
(***************************************************************************)
(* ocp.worker.manager.WorkerManager: the map from GPUs to ocp-worker       *)
(* processes, the stop() tasks that tear processes down and the watchers   *)
(* that notice unrequested exits.                                          *)
(*                                                                         *)
(* Coroutines of one event loop interleave only where they await: a stop() *)
(* task runs from its start to _wait_proc(), and from the moment it sees   *)
(* the exit to its end.  Stop tasks have no identity; `scheduled` counts   *)
(* those not yet started, `waiting` those in the first _wait_proc(proc)    *)
(* (after SIGTERM) and `killing` those in the second one (after SIGKILL),  *)
(* per process they wait for.                                              *)
(*                                                                         *)
(* A member of Procs is a Popen object of one GPU.  It is used again for a *)
(* later process of that GPU once nothing refers to it.                    *)
(***************************************************************************)
EXTENDS Naturals

CONSTANTS Gpus,      \* GPU indices
          Procs,     \* bound: the processes a GPU may have around at once
          NoProc,    \* "gpu not in self._procs"
          MaxStops   \* bound: stop tasks of a kind counted exactly up to here

ASSUME NoProcAssumption   == NoProc \notin Procs
ASSUME MaxStopsAssumption == MaxStops \in Nat \ {0}

VARIABLES tracked,    \* self._procs[g] (and self._meta[g])
          watching,   \* the processes of g with a watcher: self._watchers[g]
          alive,      \* the processes of g the operating system runs
          scheduled,  \* stop tasks of g created and not yet started
          waiting,    \* stop tasks of g waiting for p after terminate()
          killing     \* stop tasks of g waiting for p after kill()

mapVars  == <<tracked, watching>>
stopVars == <<scheduled, waiting, killing>>
vars     == <<mapVars, alive, stopVars>>

Counts == [Procs -> 0 .. MaxStops]

(* The three dictionaries of the manager have the same keys.               *)
TypeOK == /\ tracked \in [Gpus -> Procs \cup {NoProc}]
          /\ watching = [g \in Gpus |-> {tracked[g]} \ {NoProc}]
          /\ alive \in [Gpus -> SUBSET Procs]
          /\ scheduled \in [Gpus -> 0 .. MaxStops]
          /\ waiting \in [Gpus -> Counts]
          /\ killing \in [Gpus -> Counts]

Init == /\ tracked = [g \in Gpus |-> NoProc]
        /\ watching = [g \in Gpus |-> {}]
        /\ alive = [g \in Gpus |-> {}]
        /\ scheduled = [g \in Gpus |-> 0]
        /\ waiting = [g \in Gpus |-> [p \in Procs |-> 0]]
        /\ killing = [g \in Gpus |-> [p \in Procs |-> 0]]

-----------------------------------------------------------------------------
OneMore(n) == IF n < MaxStops THEN n + 1 ELSE n

Tracked(g) == tracked[g] # NoProc

(* A stop() of g has started and has not returned.                         *)
StopRunning(g) == \E p \in Procs : waiting[g][p] > 0 \/ killing[g][p] > 0

(* A stop() of g will still run _cleanup(g), or find nothing to stop.      *)
StopPending(g) == scheduled[g] > 0 \/ StopRunning(g)

FreeProcs(g) == {p \in Procs : /\ p # tracked[g] /\ p \notin alive[g]
                               /\ waiting[g][p] = 0 /\ killing[g][p] = 0}

NewProc(g) == CHOOSE p \in FreeProcs(g) : TRUE

(* Mutant: the watcher is forgotten about instead of being cancelled.      *)
CleanupMaps(g) ==
  /\ tracked' = [tracked EXCEPT ![g] = NoProc]
  /\ UNCHANGED watching

(* _cleanup(gpu): forget the process of g, whichever it is by now, and     *)
(* cancel its watcher.                                                     *)
Cleanup(g) ==
  /\ tracked' = [tracked EXCEPT ![g] = NoProc]
  /\ watching' = [watching EXCEPT ![g] = @ \ {tracked[g]}]

-----------------------------------------------------------------------------
(* spawn() of every GPU of S: a running process, tracked and watched.      *)
Spawn(S) ==
  /\ \A g \in S : ~Tracked(g) /\ FreeProcs(g) # {}
  /\ tracked'  = [g \in Gpus |-> IF g \in S THEN NewProc(g) ELSE tracked[g]]
  /\ watching' = [g \in Gpus |-> IF g \in S THEN {NewProc(g)} ELSE watching[g]]
  /\ alive'    = [g \in Gpus |-> IF g \in S THEN alive[g] \cup {NewProc(g)}
                                            ELSE alive[g]]

(* The task create_task(stop(g)) makes, for every g of S.                  *)
ScheduleStop(S) ==
  scheduled' = [g \in Gpus |-> IF g \in S THEN OneMore(scheduled[g])
                                          ELSE scheduled[g]]

(* Mutant: stop() that does not wait for the process it has signalled.     *)
StopBeginNoWait(g) ==
  /\ scheduled[g] > 0
  /\ scheduled' = [scheduled EXCEPT ![g] = @ - 1]
  /\ Cleanup(g)
  /\ UNCHANGED <<alive, waiting, killing>>

(* stop() starts.  With no process it returns, with a dead one it cleans   *)
(* up, with a live one it sends SIGTERM and waits.                         *)
StopBegin(g) ==
  /\ scheduled[g] > 0
  /\ scheduled' = [scheduled EXCEPT ![g] = @ - 1]
  /\ IF tracked[g] \in alive[g]
       THEN /\ waiting' = [waiting EXCEPT ![g][tracked[g]] = OneMore(@)]
            /\ UNCHANGED mapVars
       ELSE Cleanup(g) /\ UNCHANGED waiting
  /\ UNCHANGED <<alive, killing>>

(* stop() sees that p has exited after SIGTERM, and cleans up g.           *)
StopReaped(g, p) ==
  /\ waiting[g][p] > 0
  /\ p \notin alive[g]
  /\ waiting' = [waiting EXCEPT ![g][p] = @ - 1]
  /\ Cleanup(g)
  /\ UNCHANGED <<alive, scheduled, killing>>

(* Mutant: the timeout repeats SIGTERM where the code sends SIGKILL.       *)
StopTimeoutAgain(g, p) ==
  /\ waiting[g][p] > 0
  /\ UNCHANGED vars

(* wait_for() times out: SIGKILL, and wait again.                          *)
StopTimeout(g, p) ==
  /\ waiting[g][p] > 0
  /\ waiting' = [waiting EXCEPT ![g][p] = @ - 1]
  /\ killing' = [killing EXCEPT ![g][p] = OneMore(@)]
  /\ UNCHANGED <<mapVars, alive, scheduled>>

(* stop() sees that p has exited after SIGKILL, and cleans up g.           *)
StopKilled(g, p) ==
  /\ killing[g][p] > 0
  /\ p \notin alive[g]
  /\ killing' = [killing EXCEPT ![g][p] = @ - 1]
  /\ Cleanup(g)
  /\ UNCHANGED <<alive, scheduled, waiting>>

(* Mutant: the watcher reports the exit and leaves the maps as they are.   *)
WatchExitReportOnly(g, p) ==
  /\ p \in watching[g] \ alive[g]
  /\ UNCHANGED vars

(* _watch() sees that p has exited.  p is still in the map, or _cleanup()  *)
(* would have cancelled the watcher: it cleans up and reports on_exit.     *)
WatchExit(g, p) ==
  /\ p \in watching[g] \ alive[g]
  /\ p = tracked[g]
  /\ Cleanup(g)
  /\ UNCHANGED <<alive, stopVars>>

(* A worker process ends: by itself, on SIGTERM or on SIGKILL.             *)
ProcExit(g, p) ==
  /\ p \in alive[g]
  /\ alive' = [alive EXCEPT ![g] = @ \ {p}]
  /\ UNCHANGED <<mapVars, stopVars>>

(* The steps of the tasks and processes of g.                              *)
Step(g) == \/ StopBegin(g)
           \/ \E p \in Procs : \/ StopReaped(g, p)
                               \/ StopTimeout(g, p)
                               \/ StopKilled(g, p)
                               \/ WatchExit(g, p)
                               \/ ProcExit(g, p)

(* A handler of the controller: it may spawn on some GPUs and schedule a   *)
(* stop() on others.                                                       *)
Handler(S, T) == Spawn(S) /\ ScheduleStop(T) /\ UNCHANGED <<waiting, killing>>

Next == \/ \E g \in Gpus : Step(g)
        \/ \E S, T \in SUBSET Gpus : Handler(S, T)

(* Tasks that can run do run, timers fire and SIGKILL ends a process; one  *)
(* that got no SIGKILL may go on for ever.                                 *)
StepFairness(g) ==
  /\ WF_vars(StopBegin(g))
  /\ \A p \in Procs : /\ WF_vars(StopReaped(g, p))
                      /\ WF_vars(StopTimeout(g, p))
                      /\ WF_vars(StopKilled(g, p))
                      /\ WF_vars(WatchExit(g, p))
                      /\ WF_vars(killing[g][p] > 0 /\ ProcExit(g, p))

Fairness == \A g \in Gpus : StepFairness(g)

Spec == Init /\ [][Next]_vars /\ Fairness

-----------------------------------------------------------------------------
(* stop() is never in vain: the process it waits for ends, by SIGTERM or   *)
(* after the timeout by SIGKILL (stop, _wait_proc).                        *)
StopEndsProcess ==
  \A g \in Gpus, p \in Procs : waiting[g][p] > 0 ~> p \notin alive[g]

(* A dead worker does not keep its GPU: some stop() or the watcher takes   *)
(* it out of the map, so that the controller can spawn again.              *)
DeadIsForgotten ==
  \A g \in Gpus, p \in Procs :
    (tracked[g] = p /\ p \notin alive[g]) ~> tracked[g] # p

(* A live worker is forgotten in one way only: by a stop() that began with *)
(* an earlier process of its GPU, ends now, and cleans up by GPU instead   *)
(* of by process.                                                          *)
LiveForgottenByStaleStop ==
  [][\A g \in Gpus :
       tracked[g] \in alive[g] /\ tracked'[g] # tracked[g] =>
         \E p \in Procs \ {tracked[g]} :
           waiting'[g][p] < waiting[g][p] \/ killing'[g][p] < killing[g][p]]_vars
=============================================================================
