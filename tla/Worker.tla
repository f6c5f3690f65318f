------------------------------- MODULE Worker -------------------------------
(***************************************************************************)
(* The ocp-worker process (ocp.worker.main, .memory, .compute): one event  *)
(* loop with the main task, the memory controller and the compute          *)
(* controller, and the SIGTERM of WorkerManager.stop().                    *)
(*                                                                         *)
(* One task runs at a time.  The compute controller holds the loop from    *)
(* the beginning of its gemm phase to the sleep of its duty cycle: while   *)
(* it is "working" nothing else of the process runs, the handler of the    *)
(* signal included, which the event loop calls between two tasks.          *)
(*                                                                         *)
(* The GPU memory the process can get changes at any time, as others take  *)
(* and free theirs; sizes are in units of which a GPU has Total.           *)
(***************************************************************************)
EXTENDS Integers

CONSTANTS UtilTargets,  \* the values worker.util_target takes
          Total,        \* the memory of the GPU
          MemTargets,   \* what mem_mb or mem_frac may ask for
          NoisePct      \* worker.mem_noise_frac, in percent

ASSUME UtilAssumption == UtilTargets \subseteq 0 .. 100
ASSUME MemAssumption ==
  Total \in Nat \ {0} /\ MemTargets \subseteq Nat \ {0} /\ NoisePct \in Nat

VARIABLES phase,      \* of the process
          util,       \* its --util-target
          mem, comp,  \* the two tasks; "done" also when not asked for
          signalled,  \* SIGTERM has arrived and waits for the loop
          stop,       \* the event `stop` is set
          target,     \* the memory the controller wants at least
          cap,        \* what it does not go beyond
          held,       \* the size of its tensor, 0 without one
          room        \* what the next allocation can get

tasks   == <<mem, comp>>
memVars == <<target, cap, held>>
control == <<phase, util, tasks, signalled, stop>>
vars    == <<control, memVars, room>>

TypeOK == /\ phase \in {"booting", "serving", "exited"}
          /\ util \in UtilTargets
          /\ mem \in {"ready", "waiting", "done"}
          /\ comp \in {"ready", "working", "sleeping", "idle", "done"}
          /\ signalled \in BOOLEAN /\ stop \in BOOLEAN
          /\ comp = "idle" => util = 0
          /\ cap \in 0 .. Total /\ target \in 0 .. cap /\ room \in 0 .. Total
          /\ held \in target .. cap \cup {0}

Least(a, b) == IF a < b THEN a ELSE b

(* _VRAM_CAP_FRAC.                                                         *)
VramCap == (Total * 95) \div 100

(* The target of a configuration that asks for t.                          *)
Clamped(t) == Least(t, VramCap)

(* --workloads is any subset of {mem, util}.                               *)
Init == /\ phase = "booting"
        /\ util \in UtilTargets
        /\ mem \in {"ready", "done"} /\ comp \in {"ready", "done"}
        /\ signalled = FALSE /\ stop = FALSE
        /\ target \in {Clamped(t) : t \in MemTargets}
        /\ cap = VramCap /\ held = 0
        /\ room \in 0 .. Total

-----------------------------------------------------------------------------
(* Mutant: an overshoot of 15 %.                                           *)
DutyOver15(u) == IF u * 115 > 10000 THEN 10000 ELSE IF u * 115 < 500 THEN 500 ELSE u * 115

(* The gemm phase in hundredths of a percent of the cycle, 5 % over the    *)
(* target and at most all of it: duty * 10000.                             *)
Duty(u) == IF u * 105 > 10000 THEN 10000 ELSE IF u * 105 < 500 THEN 500 ELSE u * 105

(* The loop is between two tasks.                                          *)
LoopFree == phase = "serving" /\ comp # "working"

(* The handlers are set, and the main task awaits stop; without workloads  *)
(* it returns at once.                                                     *)
Serve == /\ phase = "booting"
         /\ phase' = IF mem = "done" /\ comp = "done" THEN "exited" ELSE "serving"
         /\ UNCHANGED <<util, tasks, signalled, stop, memVars, room>>

(* _random_size(): from the target to a noise beyond it that the cap allows*)
Sizes == target .. Least((target * (100 + 2 * NoisePct)) \div 100, cap)
           \cup {Least(target, cap)}

(* Mutant: a failed allocation is retried under the same cap.              *)
ShrunkNever == cap

(* What an allocation that fails leaves of the cap.                        *)
Shrunk == IF (cap * 9) \div 10 > target THEN (cap * 9) \div 10 ELSE target

(* The tensor is replaced by one of another size, if the GPU can give it,  *)
(* and _wait() awaited.                                                    *)
Reallocate ==
  /\ mem' = "waiting"
  /\ \E size \in Sizes : IF size <= room THEN held' = size /\ UNCHANGED cap
                                            ELSE held' = 0 /\ cap' = Shrunk
  /\ UNCHANGED target

(* The task ends, without torch before its first turn.                     *)
MemEnds == mem' = "done" /\ held' = 0 /\ UNCHANGED <<target, cap>>

MemTurn == /\ LoopFree /\ mem = "ready"
           /\ (~stop /\ Reallocate) \/ MemEnds
           /\ UNCHANGED <<phase, util, comp, signalled, stop, room>>

MemWake == /\ LoopFree /\ mem = "waiting"
           /\ mem' = "ready"
           /\ UNCHANGED <<phase, util, comp, signalled, stop, memVars, room>>

(* Mutant: no load below the smallest duty.                                *)
CompTurnIdle == /\ LoopFree /\ comp = "ready"
                /\ IF stop THEN comp' = "done"
                   ELSE comp' \in {IF util < 5 THEN "idle" ELSE "working", "done"}
                /\ UNCHANGED <<phase, util, mem, signalled, stop, memVars, room>>

(* Up to the gemm phase; with a target of 0 the task only awaits stop, and *)
(* without torch or memory for the operands it returns.                    *)
CompTurn == /\ LoopFree /\ comp = "ready"
            /\ IF stop THEN comp' = "done"
               ELSE comp' \in {IF util = 0 THEN "idle" ELSE "working", "done"}
            /\ UNCHANGED <<phase, util, mem, signalled, stop, memVars, room>>

(* At full duty there is no sleep and the next gemm phase begins.          *)
WorkEnds == /\ phase = "serving" /\ comp = "working" /\ Duty(util) < 10000
            /\ comp' = "sleeping"
            /\ UNCHANGED <<phase, util, mem, signalled, stop, memVars, room>>

CompWake == /\ LoopFree
            /\ comp = "sleeping" \/ (comp = "idle" /\ stop)
            /\ comp' = "ready"
            /\ UNCHANGED <<phase, util, mem, signalled, stop, memVars, room>>

-----------------------------------------------------------------------------
(* Until the handlers are set SIGTERM ends the process.                    *)
Terminate == /\ phase # "exited"
             /\ signalled' = TRUE
             /\ phase' = IF phase = "booting" THEN "exited" ELSE phase
             /\ UNCHANGED <<util, tasks, stop, memVars, room>>

Deliver == /\ LoopFree /\ signalled /\ ~stop
           /\ stop' = TRUE
           /\ UNCHANGED <<phase, util, tasks, signalled, memVars, room>>

(* main goes on after stop.wait(): it cancels the tasks and awaits them.   *)
MainEnds == /\ LoopFree /\ stop
            /\ phase' = "exited" /\ mem' = "done" /\ comp' = "done" /\ held' = 0
            /\ UNCHANGED <<util, signalled, stop, target, cap, room>>

(* SIGKILL, a CUDA fault.                                                  *)
Die == /\ phase # "exited" /\ phase' = "exited" /\ held' = 0
       /\ UNCHANGED <<util, tasks, signalled, stop, target, cap, room>>

(* Others take or free memory, also while a tensor is being replaced.      *)
OthersMove == /\ phase # "exited"
              /\ \E r \in 0 .. Total : room' = r
              /\ UNCHANGED <<control, memVars>>

Next == \/ Serve \/ MemTurn \/ MemWake \/ CompTurn \/ WorkEnds \/ CompWake
        \/ Terminate \/ Deliver \/ MainEnds \/ Die \/ OthersMove

(* The operating system runs the process.  Every time the loop is free it  *)
(* polls once and runs what is ready, the handler of a signal that waits   *)
(* and the memory controller included, before the compute controller's     *)
(* next turn but one: strong fairness, as they wait while it works.        *)
Spec == /\ Init /\ [][Next]_vars
        /\ WF_vars(Serve) /\ WF_vars(WorkEnds) /\ WF_vars(MainEnds)
        /\ WF_vars(CompTurn) /\ WF_vars(CompWake)
        /\ SF_vars(Deliver) /\ SF_vars(MemWake) /\ SF_vars(MemTurn)

-----------------------------------------------------------------------------
(* main.py: "Both honor SIGTERM/SIGINT": a SIGTERM ends the worker, without*)
(* the SIGKILL that stop() sends five seconds later.                       *)
TermHonored == signalled ~> phase = "exited"

(* README.md: the memory controller "periodically reallocates": the        *)
(* compute controller does not keep it from its next turn.                 *)
MemoryGetsTurns == mem = "waiting" ~> mem # "waiting" \/ phase = "exited"

(* When the GPU can give the target for good, the controller comes to hold *)
(* it, and again after every reallocation, whatever failed before: the cap *)
(* gives way down to the target and no further (memory.py: the tensor is   *)
(* "sized above the mean target").                                         *)
MemoryIsHeld ==
  <>[](room >= target) =>
    []<>(held >= target \/ mem = "done" \/ phase = "exited")
=============================================================================
