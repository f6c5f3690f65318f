------------------------ MODULE WorkerManagerProofs ------------------------
(***************************************************************************)
(* Proofs about WorkerManager for every set of GPUs and every bound.       *)
(***************************************************************************)
EXTENDS WorkerManager, TLAPS

(* Counting one more stop task stays within the bound.                     *)
LEMMA OneMoreType == \A n \in 0 .. MaxStops : OneMore(n) \in 0 .. MaxStops
  BY MaxStopsAssumption DEF OneMore

(* A free process is a process.                                            *)
LEMMA NewProcType == \A g : FreeProcs(g) # {} => NewProc(g) \in FreeProcs(g)
<1> SUFFICES ASSUME NEW g, FreeProcs(g) # {}
             PROVE  NewProc(g) \in FreeProcs(g)
  OBVIOUS
<1>1. \E p \in FreeProcs(g) : TRUE
  OBVIOUS
<1> QED
  BY <1>1, Zenon DEF NewProc

(* _cleanup() keeps the three dictionaries in step.                        *)
LEMMA CleanupTypes ==
  ASSUME TypeOK, NEW g \in Gpus, Cleanup(g)
  PROVE  /\ tracked' \in [Gpus -> Procs \cup {NoProc}]
         /\ watching' = [h \in Gpus |-> {tracked'[h]} \ {NoProc}]
<1>1. tracked' \in [Gpus -> Procs \cup {NoProc}]
  BY DEF TypeOK, Cleanup
<1>2. ASSUME NEW h \in Gpus
      PROVE  watching'[h] = {tracked'[h]} \ {NoProc}
  BY DEF TypeOK, Cleanup
<1>3. watching' = [h \in Gpus |-> watching'[h]]
  BY DEF TypeOK, Cleanup
<1> QED
  BY <1>1, <1>2, <1>3

(* Every step keeps the type invariant.                                    *)
LEMMA TypeStep == TypeOK /\ [Next]_vars => TypeOK'
<1> SUFFICES ASSUME TypeOK, [Next]_vars
             PROVE  TypeOK'
  OBVIOUS
<1>1. ASSUME NEW g \in Gpus, StopBegin(g)
      PROVE  TypeOK'
  <2>1. scheduled' \in [Gpus -> 0 .. MaxStops]
    BY <1>1, MaxStopsAssumption DEF StopBegin, TypeOK
  <2>2. CASE tracked[g] \in alive[g]
    <3> DEFINE row == [waiting[g] EXCEPT ![tracked[g]] = OneMore(@)]
    <3>1. waiting[g] \in Counts /\ tracked[g] \in Procs
      BY <2>2 DEF TypeOK
    <3>2. row \in Counts
      BY <3>1, OneMoreType DEF Counts
    <3>3. waiting' = [waiting EXCEPT ![g] = row]
      BY <1>1, <2>2 DEF StopBegin
    <3>4. waiting' \in [Gpus -> Counts]
      BY <3>2, <3>3 DEF TypeOK
    <3> QED
      BY <1>1, <2>1, <2>2, <3>4 DEF StopBegin, TypeOK, mapVars
  <2>3. CASE tracked[g] \notin alive[g]
    BY <1>1, <2>1, <2>3, CleanupTypes DEF StopBegin, TypeOK
  <2> QED
    BY <2>2, <2>3
<1>2. ASSUME NEW g \in Gpus, NEW p \in Procs, StopReaped(g, p)
      PROVE  TypeOK'
  <2>1. waiting' \in [Gpus -> Counts]
    BY <1>2, MaxStopsAssumption DEF StopReaped, TypeOK, Counts
  <2> QED
    BY <1>2, <2>1, CleanupTypes DEF StopReaped, TypeOK
<1>3. ASSUME NEW g \in Gpus, NEW p \in Procs, StopTimeout(g, p)
      PROVE  TypeOK'
  <2>1. waiting' \in [Gpus -> Counts]
    BY <1>3, MaxStopsAssumption DEF StopTimeout, TypeOK, Counts
  <2>2. killing' \in [Gpus -> Counts]
    BY <1>3, OneMoreType DEF StopTimeout, TypeOK, Counts
  <2> QED
    BY <1>3, <2>1, <2>2 DEF StopTimeout, TypeOK, mapVars
<1>4. ASSUME NEW g \in Gpus, NEW p \in Procs, StopKilled(g, p)
      PROVE  TypeOK'
  <2>1. killing' \in [Gpus -> Counts]
    BY <1>4, MaxStopsAssumption DEF StopKilled, TypeOK, Counts
  <2> QED
    BY <1>4, <2>1, CleanupTypes DEF StopKilled, TypeOK
<1>5. ASSUME NEW g \in Gpus, NEW p \in Procs, WatchExit(g, p)
      PROVE  TypeOK'
  BY <1>5, CleanupTypes DEF WatchExit, TypeOK, stopVars
<1>6. ASSUME NEW g \in Gpus, NEW p \in Procs, ProcExit(g, p)
      PROVE  TypeOK'
  BY <1>6 DEF ProcExit, TypeOK, stopVars, mapVars
<1>7. ASSUME NEW S \in SUBSET Gpus, NEW T \in SUBSET Gpus, Handler(S, T)
      PROVE  TypeOK'
  <2>1. \A g \in S : NewProc(g) \in Procs
    BY <1>7, NewProcType DEF Handler, Spawn, FreeProcs
  <2>2. /\ tracked' \in [Gpus -> Procs \cup {NoProc}]
        /\ alive' \in [Gpus -> SUBSET Procs]
    BY <1>7, <2>1 DEF Handler, Spawn, TypeOK
  <2>3. watching' = [g \in Gpus |-> {tracked'[g]} \ {NoProc}]
    <3>1. \A g \in S : {NewProc(g)} = {NewProc(g)} \ {NoProc}
      BY <2>1, NoProcAssumption
    <3> QED
      BY <1>7, <3>1 DEF Handler, Spawn, TypeOK
  <2>4. scheduled' \in [Gpus -> 0 .. MaxStops]
    BY <1>7, OneMoreType DEF Handler, ScheduleStop, TypeOK
  <2> QED
    BY <1>7, <2>2, <2>3, <2>4 DEF Handler, TypeOK
<1>8. CASE UNCHANGED vars
  BY <1>8 DEF vars, stopVars, mapVars, TypeOK
<1> QED
  BY <1>1, <1>2, <1>3, <1>4, <1>5, <1>6, <1>7, <1>8 DEF Next, Step

(* The dictionaries agree on their keys and the counts are in bounds.      *)
THEOREM TypeCorrect == Spec => []TypeOK
<1>1. Init => TypeOK
  BY MaxStopsAssumption DEF Init, TypeOK, Counts
<1> QED
  BY <1>1, TypeStep, PTL DEF Spec

-----------------------------------------------------------------------------
(* A live worker leaves the map only at the end of a stop() that waited    *)
(* for another process of its GPU.                                         *)
THEOREM OnlyStaleStopsForget == Spec => LiveForgottenByStaleStop
<1> DEFINE Forgotten(g) == tracked[g] \in alive[g] /\ tracked'[g] # tracked[g]
           Stale(g) == \E p \in Procs \ {tracked[g]} :
                         waiting'[g][p] < waiting[g][p] \/ killing'[g][p] < killing[g][p]
           Excused == \A g \in Gpus : Forgotten(g) => Stale(g)
<1>1. TypeOK /\ [Next]_vars => [Excused]_vars
  <2> SUFFICES ASSUME TypeOK, Next, NEW g \in Gpus, Forgotten(g)
               PROVE  Stale(g)
    OBVIOUS
  <2>0. \A h \in Gpus, p \in Procs : waiting[h][p] \in Nat /\ killing[h][p] \in Nat
    BY DEF TypeOK, Counts
  <2>1. ASSUME NEW h \in Gpus, StopBegin(h)
        PROVE  FALSE
    BY <2>1 DEF StopBegin, Cleanup, mapVars, TypeOK
  <2>2. ASSUME NEW h \in Gpus, NEW p \in Procs, StopReaped(h, p)
        PROVE  Stale(g)
    <3>1. h = g /\ p # tracked[g]
      BY <2>2 DEF StopReaped, Cleanup, TypeOK
    <3>2. waiting'[g][p] = waiting[g][p] - 1
      BY <2>2, <3>1 DEF StopReaped, TypeOK, Counts
    <3> QED
      BY <2>0, <3>1, <3>2
  <2>3. ASSUME NEW h \in Gpus, NEW p \in Procs, StopKilled(h, p)
        PROVE  Stale(g)
    <3>1. h = g /\ p # tracked[g]
      BY <2>3 DEF StopKilled, Cleanup, TypeOK
    <3>2. killing'[g][p] = killing[g][p] - 1
      BY <2>3, <3>1 DEF StopKilled, TypeOK, Counts
    <3> QED
      BY <2>0, <3>1, <3>2
  <2>4. ASSUME NEW h \in Gpus, NEW p \in Procs, StopTimeout(h, p) \/ ProcExit(h, p)
        PROVE  FALSE
    BY <2>4 DEF StopTimeout, ProcExit, mapVars
  <2>5. ASSUME NEW h \in Gpus, NEW p \in Procs, WatchExit(h, p)
        PROVE  FALSE
    BY <2>5 DEF WatchExit, Cleanup, TypeOK
  <2>6. ASSUME NEW S \in SUBSET Gpus, NEW T \in SUBSET Gpus, Handler(S, T)
        PROVE  FALSE
    <3>1. g \in S
      BY <2>6 DEF Handler, Spawn, TypeOK
    <3>2. tracked[g] = NoProc
      BY <2>6, <3>1 DEF Handler, Spawn, Tracked
    <3> QED
      BY <3>2, NoProcAssumption DEF TypeOK
  <2> QED
    BY <2>1, <2>2, <2>3, <2>4, <2>5, <2>6 DEF Next, Step
<1> QED
  BY <1>1, TypeCorrect, PTL DEF Spec, LiveForgottenByStaleStop
=============================================================================
