---------------------------- MODULE IdleHistory ----------------------------
(***************************************************************************)
(* What the idle debounce of Controller means.  A history variable         *)
(* measures, beside the streak the code keeps, how long ago a tick last    *)
(* saw the GPU in use.                                                     *)
(***************************************************************************)
EXTENDS MCController

VARIABLE sinceUse  \* time since a tick saw g busy, leased or occupied by us,
                   \* or did not watch it

historyVars == <<vars, sinceUse>>

HistoryInit == Init /\ sinceUse = [g \in Gpus |-> 0]

(* What the samples s of a tick that visits V show.                        *)
Observe(s, V) ==
  sinceUse' = [g \in Gpus |->
    IF /\ g \in V /\ s[g] # "error"
       /\ s[g] = "busy" \/ leases'[g] # NoLease \/ Workers!Tracked(g)
    THEN 0 ELSE sinceUse[g]]

HistoryTick ==
  \E s \in [watched -> Samples] :
    \/ Tick(s) /\ Observe(s, watched)
    \/ \E g \in watched : \E V \in SUBSET (watched \ {g}) :
         TickSpawnFails(s, V, g) /\ Observe(s, V \cup {g})
    \/ TickSweepFails /\ UNCHANGED sinceUse

HistoryElapse ==
  Elapse /\ sinceUse' = [g \in Gpus |-> Later(sinceUse[g], 1)]

(* The last tick before a reload did not look at the GPUs that it adds.    *)
HistoryReload ==
  \E c \in Configs :
    /\ Reload(c)
    /\ sinceUse' = [g \in Gpus |-> IF g \in watched THEN sinceUse[g] ELSE Dt]

HistoryOther ==
  /\ \/ \E ok \in DiskOutcomes : ExpiryLoop(ok)
     \/ Request
     \/ WorkerStep
  /\ UNCHANGED sinceUse

HistoryNext == HistoryTick \/ HistoryElapse \/ HistoryReload \/ HistoryOther

HistorySpec == HistoryInit /\ [][HistoryNext]_historyVars /\ Fairness

-----------------------------------------------------------------------------
(* A worker starts only when idle_debounce_s have passed since the last    *)
(* tick that saw its GPU busy, leased or occupied, or did not watch it -   *)
(* sample errors, failed spawns and sweeps, worker crashes and reloads in  *)
(* between included.  That tick, and not the reload, is where the streak   *)
(* of a GPU a reload adds begins: the first dt it gets (_apply) reaches    *)
(* back to before the reload.                                              *)
SpawnLongAfterUse ==
  [][\A g \in Gpus :
       ~(alive'[g] \subseteq alive[g]) => sinceUse[g] >= cfg.debounce]_historyVars
=============================================================================
