----------------------------- MODULE IpcProofs -----------------------------
(***************************************************************************)
(* Proofs about Ipc for any number of GPUs, users and connections, and any *)
(* disk.  AnswersHold looks at the memory of a running daemon, and at the  *)
(* file while none runs; what makes it inductive is that, while a daemon   *)
(* runs, the file keeps its answers as well.                               *)
(***************************************************************************)
EXTENDS Ipc, TLAPS

StoreProofs == INSTANCE LeaseStoreProofs WITH up <- life # "off"

(* What a lease map has to say for an answer t to hold.                    *)
Keeps(l, t) == /\ t \in Store!Lease => l \in Store!Lease /\ l.uid = t.uid /\ l.left >= t.left
               /\ t = Free => l = NoLease

Typed == /\ TypeOK
         /\ \A g \in Gpus : told[g] \in Store!Lease => told[g].left > 0

DiskKeeps   == \A g \in Gpus : Keeps(disk[g], told[g])
MemoryKeeps == life # "off" => \A g \in Gpus : Keeps(leases[g], told[g])

IInv == Typed /\ DiskKeeps /\ MemoryKeeps

-----------------------------------------------------------------------------
(* The lease store behind the server and the one of the proofs are one.    *)
LEMMA SameStore ==
  /\ Store!TypeOK <=> StoreProofs!TypeOK
  /\ Store!TypeOK' <=> StoreProofs!TypeOK'
  /\ [Store!Next]_(Store!vars) => [StoreProofs!Next]_(StoreProofs!vars)
<1>1. Store!TypeOK <=> StoreProofs!TypeOK
  BY DEF Store!TypeOK, StoreProofs!TypeOK, Store!Lease, StoreProofs!Lease
<1>2. Store!TypeOK' <=> StoreProofs!TypeOK'
  BY DEF Store!TypeOK, StoreProofs!TypeOK, Store!Lease, StoreProofs!Lease
<1>3. [Store!Next]_(Store!vars) => [StoreProofs!Next]_(StoreProofs!vars)
  BY Zenon DEF Store!Next, StoreProofs!Next, Store!vars, StoreProofs!vars,
     Store!Serve, StoreProofs!Serve, Store!Acquire, StoreProofs!Acquire,
     Store!Release, StoreProofs!Release, Store!Sweep, StoreProofs!Sweep,
     Store!Load, StoreProofs!Load, Store!Shutdown, StoreProofs!Shutdown,
     Store!Crash, StoreProofs!Crash, Store!Elapse, StoreProofs!Elapse,
     Store!Persist, StoreProofs!Persist, Store!Conflicts, StoreProofs!Conflicts,
     Store!Releasable, StoreProofs!Releasable,
     Store!LapsedGpus, StoreProofs!LapsedGpus, Store!IsLapsed, StoreProofs!IsLapsed,
     Store!Extended, StoreProofs!Extended, Store!Drop, StoreProofs!Drop,
     Store!Age, StoreProofs!Age, Store!IsActive, StoreProofs!IsActive,
     Store!Active, StoreProofs!Active, Store!Empty, StoreProofs!Empty
<1> QED
  BY <1>1, <1>2, <1>3

LEMMA InitIInv == Init => IInv
BY StoreAssumption, ToldAssumption
   DEF Init, IInv, Typed, TypeOK, ConnsOK, Open, Carrying, DiskKeeps, MemoryKeeps, Keeps, Told, Store!Init,
       Store!TypeOK, Store!Empty, Store!Lease

(* A connection carries a request from its frame to its answer, and none   *)
(* is open to a daemon that does not run.                                  *)
LEMMA ConnsStep == TypeOK /\ [Next]_vars => ConnsOK'
<1> SUFFICES ASSUME TypeOK, [Next]_vars PROVE ConnsOK'
  OBVIOUS
<1> USE RequestAssumption DEF TypeOK, ConnsOK, Open, Carrying, Become
<1>1. CASE UNCHANGED connVars /\ (life = "off" \/ life' # "off")
  BY <1>1 DEF connVars
<1>2. ASSUME NEW k \in Conns, Client(k) \/ Malformed(k)
      PROVE  ConnsOK'
  BY <1>2 DEF Client, Malformed, Connect, Send, Leave, GiveUp
<1>3. ASSUME NEW k \in Conns, NEW ok \in DiskOutcomes, Serve(k, ok)
      PROVE  ConnsOK'
  BY <1>3 DEF Serve
<1>4. ASSUME NEW S \in SUBSET Conns, Disconnect(S),
             life' = "off" => OpenConns \subseteq S
      PROVE  ConnsOK'
  BY <1>4 DEF Disconnect, OpenConns
<1>5. OpenConns \in SUBSET Conns
  BY DEF OpenConns
<1>6. ASSUME NEW ok \in DiskOutcomes, NEW waits \in Waiting, Teardown(waits, ok)
      PROVE  ConnsOK'
  BY <1>1, <1>4, <1>5, <1>6 DEF Teardown
<1>7. CASE Sigterm \/ Exit \/ Crash
  BY <1>4, <1>5, <1>7 DEF Sigterm, Exit, Crash
<1>8. CASE Boot \/ Elapse \/ \E where \in BootFailures : BootFails(where)
  BY <1>1, <1>8 DEF Boot, Elapse, BootFails
<1>9. ASSUME NEW ok \in DiskOutcomes, Sweep(ok)
      PROVE  ConnsOK'
  BY <1>1, <1>9 DEF Sweep
<1>10. CASE UNCHANGED vars
  BY <1>1, <1>10 DEF vars
<1> QED
  BY <1>2, <1>3, <1>6, <1>7, <1>8, <1>9, <1>10 DEF Next, Daemon

(* The fields of a request.                                                *)
LEMMA PauseRequest ==
  ASSUME NEW r \in Requests, r.cmd = "pause"
  PROVE  r.uid \in Uids /\ r.gpus \in SUBSET Gpus /\ r.gpus # {} /\ r.dur \in Durations
<1>1. r \in Pauses
  BY DEF Requests, Resumes, Other
<1>2. r.uid \in Uids /\ r.gpus \in GpuSets /\ r.dur \in Durations
  BY <1>1 DEF Pauses
<1> QED
  BY <1>2 DEF GpuSets

LEMMA ResumeRequest ==
  ASSUME NEW r \in Requests, r.cmd = "resume"
  PROVE  r.uid \in Uids /\ r.gpus \in SUBSET Gpus
BY DEF Requests, Pauses, Resumes, Other, GpuSets

(* A lease that acquire() grants: of its user, with time left, and never   *)
(* with less than before.                                                  *)
LEMMA GrantedLease ==
  ASSUME TypeOK, NEW u \in Uids, NEW S \in SUBSET Gpus, NEW d \in Durations,
         NEW ok, Store!Acquire(u, S, d, ok), NEW g \in S
  PROVE  /\ leases'[g] \in Store!Lease /\ leases'[g] # NoLease
         /\ leases'[g].uid = u /\ leases'[g].left > 0
         /\ leases[g] \in Store!Lease => leases'[g].left >= leases[g].left
<1>1. d \in Nat /\ d > 0
  BY StoreAssumption
<1>2. leases'[g] = Store!Extended(g, u, d) /\ leases[g] \in Store!Lease \cup {NoLease}
  BY DEF TypeOK, Store!TypeOK, Store!Acquire
<1>3. CASE leases[g] # NoLease /\ leases[g].left > d
  BY <1>1, <1>2, <1>3, StoreAssumption DEF Store!Extended, Store!Lease
<1>4. CASE ~(leases[g] # NoLease /\ leases[g].left > d)
  BY <1>1, <1>2, <1>4, StoreAssumption DEF Store!Extended, Store!Lease
<1> QED
  BY <1>3, <1>4

(* A start that fails and a persist() at the end are no steps of the store *)
(* by themselves; every other step is one, or a stutter.                   *)
LEMMA StoreSteps ==
  ASSUME TypeOK, [Next]_vars
  PROVE  \/ [Store!Next]_(Store!vars)
         \/ \E where \in BootFailures : BootFails(where)
         \/ \E waits \in Waiting : Teardown(waits, TRUE)
<1>1. CASE UNCHANGED storeVars /\ (life = "off" <=> life' = "off")
  BY <1>1 DEF storeVars, Store!vars
<1>2. ASSUME NEW k \in Conns, Client(k) \/ Malformed(k)
      PROVE  UNCHANGED <<storeVars, life>>
  BY <1>2 DEF Client, Malformed, Connect, Send, Leave, GiveUp
<1>3. ASSUME NEW k \in Conns, NEW ok \in DiskOutcomes, Serve(k, ok)
      PROVE  [Store!Next]_(Store!vars)
  <2>1. req[k] \in Requests /\ UNCHANGED life /\ life # "off" /\ Handle(req[k], ok)
    BY <1>3 DEF Serve, TypeOK, ConnsOK
  <2>2. CASE req[k].cmd = "pause" /\ Store!Acquire(req[k].uid, req[k].gpus, req[k].dur, ok)
    BY <2>1, <2>2, PauseRequest DEF Store!Next, Store!Serve
  <2>3. CASE req[k].cmd = "resume" /\ Store!Release(req[k].uid, req[k].gpus, ok)
    BY <2>1, <2>3, ResumeRequest DEF Store!Next, Store!Serve
  <2>4. CASE UNCHANGED <<storeVars, told>>
    BY <2>1, <2>4 DEF storeVars, Store!vars
  <2>5. \/ req[k].cmd = "pause" /\ Store!Acquire(req[k].uid, req[k].gpus, req[k].dur, ok)
        \/ req[k].cmd = "resume" /\ Store!Release(req[k].uid, req[k].gpus, ok)
        \/ UNCHANGED <<storeVars, told>>
    BY <2>1 DEF Handle
  <2> QED
    BY <2>2, <2>3, <2>4, <2>5
<1>4. ASSUME NEW ok \in DiskOutcomes, Sweep(ok)
      PROVE  [Store!Next]_(Store!vars)
  BY <1>4 DEF Sweep, Store!Next, Store!Serve
<1>5. ASSUME NEW waits \in Waiting, NEW ok \in DiskOutcomes, Teardown(waits, ok)
      PROVE  Teardown(waits, TRUE) \/ [Store!Next]_(Store!vars)
  BY <1>5, StoreAssumption DEF Teardown, Store!Next
<1>6. CASE Boot \/ Exit \/ Crash \/ Elapse
  BY <1>6, StoreAssumption DEF Boot, Exit, Crash, Elapse, Store!Next
<1>7. CASE Sigterm \/ UNCHANGED vars
  BY <1>1, <1>7 DEF Sigterm, vars
<1> QED
  BY <1>1, <1>2, <1>3, <1>4, <1>5, <1>6, <1>7 DEF Next, Daemon

(* An answer has time left when it is given, and is forgotten when it has  *)
(* none.                                                                   *)
LEMMA ToldStep ==
  ASSUME Typed, [Next]_vars
  PROVE  /\ told' \in [Gpus -> Told]
         /\ \A g \in Gpus : told'[g] \in Store!Lease => told'[g].left > 0
<1> USE DEF Typed, TypeOK
<1>1. CASE UNCHANGED told
  BY <1>1
<1>2. ASSUME NEW k \in Conns, NEW ok \in DiskOutcomes, Serve(k, ok)
      PROVE  /\ told' \in [Gpus -> Told]
             /\ \A g \in Gpus : told'[g] \in Store!Lease => told'[g].left > 0
  <2>1. req[k] \in Requests /\ Handle(req[k], ok)
    BY <1>2 DEF Serve, ConnsOK
  <2>2. ASSUME NEW u \in Uids, NEW S \in SUBSET Gpus, NEW d \in Durations,
               Store!Acquire(u, S, d, ok), told' = ToldPause(S, ok)
        PROVE  /\ told' \in [Gpus -> Told]
               /\ \A g \in Gpus : told'[g] \in Store!Lease => told'[g].left > 0
    <3>1. \A g \in S : leases'[g] \in Store!Lease /\ leases'[g].left > 0
      BY <2>2, GrantedLease
    <3>2. ASSUME NEW g \in Gpus
          PROVE  told'[g] \in Told /\ (told'[g] \in Store!Lease => told'[g].left > 0)
      <4>1. told'[g] \in {told[g], Unknown} \/ (g \in S /\ told'[g] = leases'[g])
        BY <2>2 DEF ToldPause
      <4> QED
        BY <3>1, <4>1, ToldAssumption DEF Told, Store!Lease
    <3>3. told' = [g \in Gpus |-> told'[g]]
      BY <2>2 DEF ToldPause
    <3> QED
      BY <3>2, <3>3
  <2>3. ASSUME NEW S, told' = ToldResume(S, ok)
        PROVE  /\ told' \in [Gpus -> Told]
               /\ \A g \in Gpus : told'[g] \in Store!Lease => told'[g].left > 0
    BY <2>3, ToldAssumption DEF ToldResume, Told, Store!Lease
  <2>4. CASE req[k].cmd = "pause" /\ Store!Acquire(req[k].uid, req[k].gpus, req[k].dur, ok)
             /\ told' = ToldPause(req[k].gpus, ok)
    BY <2>1, <2>2, <2>4, PauseRequest
  <2> QED
    BY <1>1, <2>1, <2>3, <2>4 DEF Handle
<1>3. CASE Elapse
  <2>1. ASSUME NEW g \in Gpus
        PROVE  told'[g] \in Told /\ (told'[g] \in Store!Lease => told'[g].left > 0)
    <3>1. CASE told[g] \in {Unknown, Free}
      BY <1>3, <3>1, ToldAssumption DEF Elapse, Told, Store!Lease
    <3>2. CASE told[g] \in Store!Lease /\ told[g].left = 1
      BY <1>3, <3>2, ToldAssumption DEF Elapse, Told, Store!Lease
    <3>3. CASE told[g] \in Store!Lease /\ told[g].left # 1
      BY <1>3, <3>3, ToldAssumption DEF Elapse, Told, Store!Lease
    <3> QED
      BY <3>1, <3>2, <3>3 DEF Told
  <2>2. told' = [g \in Gpus |-> told'[g]]
    BY <1>3 DEF Elapse
  <2> QED
    BY <2>1, <2>2
<1>4. ASSUME NEW k \in Conns, Client(k) \/ Malformed(k)
      PROVE  UNCHANGED told
  BY <1>4 DEF Client, Malformed, Connect, Send, Leave, GiveUp
<1>5. CASE \/ \E ok \in DiskOutcomes : Sweep(ok) \/ \E waits \in Waiting : Teardown(waits, ok)
           \/ \E where \in BootFailures : BootFails(where)
           \/ Boot \/ Sigterm \/ Exit \/ Crash \/ UNCHANGED vars
  BY <1>1, <1>5 DEF Sweep, Teardown, BootFails, Boot, Sigterm, Exit, Crash, vars
<1> QED
  BY <1>1, <1>2, <1>3, <1>4, <1>5 DEF Next, Daemon

(* A process that is off holds nothing in memory.                          *)
LEMMA LifeStep ==
  ASSUME TypeOK, [Next]_vars
  PROVE  /\ life' \in {"off", "serving", "stopping", "ending"}
         /\ life' = "off" => leases' = Store!Empty
<1> USE DEF TypeOK
<1>1. CASE UNCHANGED <<leases, life>>
  BY <1>1
<1>2. ASSUME NEW k \in Conns, Client(k) \/ Malformed(k)
      PROVE  UNCHANGED <<leases, life>>
  BY <1>2 DEF Client, Malformed, Connect, Send, Leave, GiveUp, storeVars
<1>3. CASE \E ok \in DiskOutcomes : Daemon(ok)
  BY <1>3 DEF Daemon, Sweep, Serve, Teardown, Store!Shutdown
<1>4. CASE Elapse
  BY <1>4 DEF Elapse, Store!Elapse, Store!Empty, Store!Age, Store!IsActive
<1>5. CASE \/ \E where \in BootFailures : BootFails(where)
           \/ Boot \/ Sigterm \/ Exit \/ Crash
  BY <1>5 DEF BootFails, Boot, Sigterm, Exit, Crash, storeVars, Store!Crash
<1> QED
  BY <1>1, <1>2, <1>3, <1>4, <1>5 DEF Next, vars, storeVars

(* Types are kept by every step, wherever a start fails.                   *)
LEMMA TypedStep == Typed /\ [Next]_vars => Typed'
<1> SUFFICES ASSUME Typed, [Next]_vars PROVE Typed'
  OBVIOUS
<1>0. TypeOK
  BY DEF Typed
<1>1. Store!TypeOK'
  <2>1. CASE [Store!Next]_(Store!vars)
    BY <1>0, <2>1, SameStore, StoreProofs!TypeStep, StoreAssumption
       DEF TypeOK, StoreProofs!Lease
  <2>2. CASE \/ \E where \in BootFailures : BootFails(where)
             \/ \E waits \in Waiting : Teardown(waits, TRUE)
    <3>1. leases \in [Gpus -> Store!Lease \cup {NoLease}] /\ leases' = leases
      BY <1>0, <2>2 DEF TypeOK, Store!TypeOK, BootFails, Teardown
    <3>2. disk' \in {leases, Store!Active(disk), Store!Empty}
      BY <2>2, <3>1 DEF BootFails, Teardown, Store!Persist
    <3> QED
      BY <1>0, <3>1, <3>2 DEF TypeOK, Store!TypeOK, Store!Active, Store!Empty
  <2> QED
    BY <1>0, <2>1, <2>2, StoreSteps
<1> QED
  BY <1>0, <1>1, ConnsStep, ToldStep, LifeStep DEF Typed, TypeOK

(* The steps that change neither leases nor answers.                       *)
LEMMA QuietStep ==
  ASSUME IInv, Typed', UNCHANGED <<storeVars, told>>, life # "off"
  PROVE  IInv'
BY DEF IInv, DiskKeeps, MemoryKeeps, storeVars, Keeps, Store!Lease

(* Aging shortens a lease and an answer alike.                             *)
LEMMA AgeKeeps ==
  ASSUME NEW m \in [Gpus -> Store!Lease \cup {NoLease}], NEW g \in Gpus, Typed,
         Keeps(m[g], told[g]), Elapse
  PROVE  Keeps(Store!Age(m)[g], told'[g])
<1>1. told'[g] = IF told[g] \in {Unknown, Free} THEN told[g]
                 ELSE IF told[g].left = 1 THEN Unknown
                 ELSE [uid |-> told[g].uid, left |-> told[g].left - 1]
  BY DEF Elapse
<1>2. CASE told[g] \in {Unknown, Free}
  BY <1>1, <1>2, StoreAssumption, ToldAssumption
     DEF Keeps, Store!Age, Store!IsActive, Store!Lease
<1>3. CASE told[g] \in Store!Lease /\ told[g].left = 1
  BY <1>1, <1>3, ToldAssumption DEF Keeps, Store!Lease
<1>4. CASE told[g] \in Store!Lease /\ told[g].left # 1
  <2>1. /\ told[g] \in [uid : Uids, left : Nat] /\ told[g].left > 1
        /\ m[g] \in [uid : Uids, left : Nat] /\ m[g] # NoLease
        /\ m[g].left >= told[g].left /\ m[g].uid = told[g].uid
    BY <1>4, StoreAssumption DEF Keeps, Store!Lease, Typed, TypeOK
  <2>2. told'[g] = [uid |-> told[g].uid, left |-> told[g].left - 1]
    BY <1>1, <1>4, <2>1, ToldAssumption DEF Store!Lease
  <2>3. Store!Age(m)[g] = [uid |-> m[g].uid, left |-> m[g].left - 1]
    BY <2>1 DEF Store!Age, Store!IsActive
  <2> QED
    BY <2>1, <2>2, <2>3, ToldAssumption DEF Keeps, Store!Lease
<1> QED
  BY <1>2, <1>3, <1>4 DEF Typed, TypeOK, Told

LEMMA ElapseStep ==
  ASSUME IInv, Typed', Elapse
  PROVE  IInv'
<1>1. leases' = Store!Age(leases) /\ disk' = Store!Age(disk)
  BY DEF Elapse, Store!Elapse
<1>2. DiskKeeps'
  BY <1>1, AgeKeeps DEF IInv, DiskKeeps, Typed, TypeOK, Store!TypeOK
<1>3. MemoryKeeps'
  BY <1>1, AgeKeeps DEF IInv, MemoryKeeps, Typed, TypeOK, Store!TypeOK, Elapse
<1> QED
  BY <1>2, <1>3 DEF IInv

-----------------------------------------------------------------------------
(* A pause that is granted keeps to what was answered before: it prolongs  *)
(* leases of its user, and takes none from another.                        *)
LEMMA PauseStep ==
  ASSUME IInv, Typed', life # "off",
         NEW u \in Uids, NEW S \in SUBSET Gpus, NEW d \in Durations,
         NEW ok \in DiskOutcomes,
         Store!Acquire(u, S, d, ok), told' = ToldPause(S, ok)
  PROVE  IInv'
<1>1. /\ leases' = [g \in Gpus |-> IF g \in S THEN Store!Extended(g, u, d) ELSE leases[g]]
      /\ disk' = IF ok THEN leases' ELSE disk
      /\ \A g \in S : leases[g] = NoLease \/ leases[g].uid = u
  BY DEF Store!Acquire, Store!Persist, Store!Conflicts
<1>2. ASSUME NEW g \in S
      PROVE  /\ leases'[g] \in Store!Lease /\ leases'[g] # NoLease
             /\ leases'[g].uid = u
             /\ leases[g] \in Store!Lease => leases'[g].left >= leases[g].left
  BY GrantedLease DEF IInv, Typed
<1>3. ASSUME NEW g \in Gpus
      PROVE  Keeps(disk'[g], told'[g]) /\ Keeps(leases'[g], told'[g])
  <2>0. /\ Keeps(disk[g], told[g]) /\ Keeps(leases[g], told[g]) /\ told[g] \in Told
        /\ told[g] \in Store!Lease => told[g].left > 0
    BY DEF IInv, DiskKeeps, MemoryKeeps, Typed, TypeOK
  <2>1. CASE g \notin S
    BY <1>1, <2>0, <2>1 DEF ToldPause
  <2>2. CASE g \in S /\ ok
    <3>1. told'[g] = leases'[g] /\ disk'[g] = leases'[g]
      BY <1>1, <2>2 DEF ToldPause
    <3>2. leases'[g] # Free
      BY <1>2, <2>2, ToldAssumption DEF Store!Lease
    <3>3. leases'[g] \in Store!Lease
      BY <1>2, <2>2
    <3>4. leases'[g].left >= leases'[g].left
      BY <3>3 DEF Store!Lease
    <3> QED
      BY <3>1, <3>2, <3>3, <3>4 DEF Keeps, Told
  <2>3. CASE g \in S /\ ~ok
    <3>1. disk'[g] = disk[g] /\ told'[g] = IF told[g] = Free THEN Unknown ELSE told[g]
      BY <1>1, <2>3 DEF ToldPause
    <3>2. CASE told[g] \in {Free, Unknown}
      BY <3>1, <3>2, ToldAssumption DEF Keeps, Told, Store!Lease
    <3>3. CASE told[g] \in Store!Lease
      <4>1. told'[g] = told[g] /\ leases[g] \in Store!Lease /\ leases[g].uid = told[g].uid
            /\ leases[g].left >= told[g].left /\ told[g] # Free /\ leases[g] # NoLease
        BY <2>0, <3>1, <3>3, ToldAssumption, StoreAssumption DEF Keeps, Store!Lease
      <4> QED
        BY <1>1, <1>2, <2>0, <2>3, <3>1, <3>3, <4>1 DEF Keeps, Store!Lease
    <3> QED
      BY <2>0, <3>2, <3>3 DEF Told
  <2> QED
    BY <2>1, <2>2, <2>3
<1> QED
  BY <1>3 DEF IInv, DiskKeeps, MemoryKeeps

(* A release drops only what is answered to be free, or unknown.           *)
LEMMA ResumeStep ==
  ASSUME IInv, Typed', life # "off",
         NEW S \in SUBSET Gpus, NEW ok \in DiskOutcomes,
         leases' = Store!Drop(leases, S), Store!Persist(ok), told' = ToldResume(S, ok)
  PROVE  IInv'
<1>1. ASSUME NEW g \in Gpus
      PROVE  Keeps(disk'[g], told'[g]) /\ Keeps(leases'[g], told'[g])
  <2>0. /\ Keeps(disk[g], told[g]) /\ Keeps(leases[g], told[g]) /\ told[g] \in Told
        /\ told[g] \in Store!Lease => told[g].left > 0
    BY DEF IInv, DiskKeeps, MemoryKeeps, Typed, TypeOK
  <2>1. CASE g \notin S
    BY <2>0, <2>1 DEF ToldResume, Store!Drop, Store!Persist
  <2>2. CASE g \in S
    BY <2>2, ToldAssumption
       DEF ToldResume, Store!Drop, Store!Persist, Keeps, Told, Store!Lease
  <2> QED
    BY <2>1, <2>2
<1> QED
  BY <1>1 DEF IInv, DiskKeeps, MemoryKeeps

-----------------------------------------------------------------------------
LEMMA ServeStep ==
  ASSUME IInv, Typed', NEW k \in Conns, NEW ok \in DiskOutcomes, Serve(k, ok)
  PROVE  IInv'
<1>1. req[k] \in Requests /\ UNCHANGED life /\ life # "off" /\ Handle(req[k], ok)
  BY DEF Serve, IInv, Typed, TypeOK, ConnsOK
<1>2. CASE req[k].cmd = "pause" /\ Store!Acquire(req[k].uid, req[k].gpus, req[k].dur, ok)
           /\ told' = ToldPause(req[k].gpus, ok)
  BY <1>1, <1>2, PauseRequest, PauseStep
<1>3. CASE Store!Release(req[k].uid, req[k].gpus, ok)
           /\ told' = ToldResume(Store!Releasable(req[k].uid, req[k].gpus), ok)
           /\ req[k].cmd = "resume"
  <2>1. Store!Releasable(req[k].uid, req[k].gpus) \in SUBSET Gpus
    BY <1>1, <1>3, ResumeRequest DEF Store!Releasable
  <2> QED
    BY <1>1, <1>3, <2>1, ResumeStep DEF Store!Release
<1>4. CASE UNCHANGED <<storeVars, told>>
  BY <1>1, <1>4, QuietStep
<1> QED
  BY <1>1, <1>2, <1>3, <1>4 DEF Handle

(* A sweep drops leases that have no time left: no answer is about them.   *)
LEMMA SweepStep ==
  ASSUME IInv, Typed', NEW ok \in DiskOutcomes, Sweep(ok)
  PROVE  IInv'
<1>1. /\ leases' = Store!Drop(leases, Store!LapsedGpus) /\ Store!Persist(ok)
      /\ UNCHANGED <<life, req, told>> /\ life # "off"
  BY DEF Sweep, Store!Sweep, connVars
<1>2. ASSUME NEW g \in Gpus
      PROVE  Keeps(disk'[g], told'[g]) /\ Keeps(leases'[g], told'[g])
  <2>0. /\ Keeps(disk[g], told[g]) /\ Keeps(leases[g], told[g]) /\ told[g] \in Told
        /\ told[g] \in Store!Lease => told[g].left > 0
        /\ leases[g] \in Store!Lease \cup {NoLease}
    BY <1>1 DEF IInv, DiskKeeps, MemoryKeeps, Typed, TypeOK, Store!TypeOK
  <2>1. CASE g \notin Store!LapsedGpus
    BY <1>1, <2>0, <2>1 DEF Store!Drop, Store!Persist
  <2>2. CASE g \in Store!LapsedGpus
    <3>1. told[g] \notin Store!Lease
      BY <2>0, <2>2 DEF Store!LapsedGpus, Store!IsLapsed, Keeps, Store!Lease
    <3>2. leases'[g] = NoLease /\ (disk'[g] = NoLease \/ disk'[g] = disk[g])
      BY <1>1, <2>2 DEF Store!Drop, Store!Persist
    <3> QED
      BY <1>1, <2>0, <3>1, <3>2 DEF Keeps
  <2> QED
    BY <2>1, <2>2
<1> QED
  BY <1>2 DEF IInv, DiskKeeps, MemoryKeeps

(* Loading drops what has no time left.                                    *)
LEMMA ActiveKeeps ==
  ASSUME NEW m \in [Gpus -> Store!Lease \cup {NoLease}], NEW g \in Gpus, Typed,
         Keeps(m[g], told[g])
  PROVE  Keeps(Store!Active(m)[g], told[g])
BY StoreAssumption DEF Keeps, Store!Active, Store!IsActive, Store!Lease, Typed, TypeOK

LEMMA BootStep ==
  ASSUME IInv, Typed', "beforeLoad" \notin BootFailures,
         Boot \/ \E where \in BootFailures : BootFails(where)
  PROVE  IInv'
<1>0. disk \in [Gpus -> Store!Lease \cup {NoLease}]
  BY DEF IInv, Typed, TypeOK, Store!TypeOK
<1>1. CASE Boot
  <2>1. leases' = Store!Active(disk) /\ UNCHANGED <<disk, told>>
    BY <1>1 DEF Boot, Store!Load
  <2> QED
    BY <1>0, <2>1, ActiveKeeps DEF IInv, DiskKeeps, MemoryKeeps
<1>2. CASE \E where \in BootFailures : BootFails(where)
  <2>1. disk' = Store!Active(disk) /\ life' = "off" /\ UNCHANGED told
    BY <1>2, BootAssumption DEF BootFails
  <2> QED
    BY <1>0, <2>1, ActiveKeeps DEF IInv, DiskKeeps, MemoryKeeps
<1> QED
  BY <1>1, <1>2

(* The end of a daemon, in any way, leaves a file that keeps its answers.  *)
LEMMA StopStep ==
  ASSUME IInv, Typed',
         Exit \/ Crash \/ \E waits \in Waiting, ok \in DiskOutcomes : Teardown(waits, ok)
  PROVE  IInv'
<1>1. CASE Exit \/ Crash \/ \E waits \in Waiting : Teardown(waits, FALSE)
  <2>1. UNCHANGED <<disk, told>> /\ life' = "off"
    BY <1>1 DEF Exit, Crash, Teardown, Store!Crash, Store!Shutdown
  <2> QED
    BY <2>1 DEF IInv, DiskKeeps, MemoryKeeps
<1>2. CASE \E waits \in Waiting : Teardown(waits, TRUE)
  <2>1. disk' = leases /\ UNCHANGED <<leases, told>> /\ life # "off"
    BY <1>2 DEF Teardown, Store!Persist
  <2> QED
    BY <2>1 DEF IInv, DiskKeeps, MemoryKeeps
<1> QED
  BY <1>1, <1>2, StoreAssumption

LEMMA ClientStep ==
  ASSUME IInv, Typed', NEW k \in Conns, Client(k) \/ Malformed(k)
  PROVE  IInv'
<1>1. UNCHANGED <<storeVars, told, life>>
  BY DEF Client, Malformed, Connect, Send, Leave, GiveUp
<1> QED
  BY <1>1 DEF IInv, DiskKeeps, MemoryKeeps, storeVars, Keeps, Store!Lease

LEMMA SigtermStep ==
  ASSUME IInv, Typed', Sigterm
  PROVE  IInv'
BY QuietStep DEF Sigterm

-----------------------------------------------------------------------------
LEMMA NextIInv ==
  ASSUME "beforeLoad" \notin BootFailures
  PROVE  IInv /\ [Next]_vars => IInv'
<1> SUFFICES ASSUME IInv, [Next]_vars PROVE IInv'
  OBVIOUS
<1>0. Typed'
  BY TypedStep DEF IInv
<1>1. CASE UNCHANGED vars
  BY <1>0, <1>1 DEF vars, storeVars, IInv, DiskKeeps, MemoryKeeps, Keeps, Store!Lease
<1>2. CASE \E k \in Conns : Client(k) \/ Malformed(k)
  BY <1>0, <1>2, ClientStep
<1>3. CASE \E ok \in DiskOutcomes : Daemon(ok)
  BY <1>0, <1>3, SweepStep, StopStep, ServeStep DEF Daemon
<1>4. CASE Boot \/ \E where \in BootFailures : BootFails(where)
  BY <1>0, <1>4, BootStep
<1>5. CASE Sigterm \/ Exit \/ Crash \/ Elapse
  BY <1>0, <1>5, SigtermStep, StopStep, ElapseStep
<1> QED
  BY <1>1, <1>2, <1>3, <1>4, <1>5 DEF Next

LEMMA IInvImpliesHold == IInv => AnswersHold
<1> SUFFICES ASSUME IInv, NEW g \in Gpus
             PROVE  Keeps(Store!Reserved[g], told[g])
  BY DEF AnswersHold, Keeps
<1>1. CASE life # "off"
  BY <1>1, ActiveKeeps DEF IInv, MemoryKeeps, Typed, TypeOK, Store!TypeOK, Store!Reserved
<1>2. CASE life = "off"
  BY <1>2, ActiveKeeps DEF IInv, DiskKeeps, Typed, TypeOK, Store!TypeOK, Store!Reserved
<1> QED
  BY <1>1, <1>2

(* Connections carry requests as they should, nothing is open to, or held  *)
(* in the memory of, a daemon that is off; leases and answers are of their *)
(* types (Ipc, every action), wherever starts fail.                        *)
THEOREM TypeCorrect == Spec => []TypeOK
<1>1. Init => Typed
  BY InitIInv DEF IInv
<1>2. Typed /\ [Next]_vars => Typed'
  BY TypedStep
<1>3. Typed => TypeOK
  BY DEF Typed
<1> QED
  BY <1>1, <1>2, <1>3, PTL DEF Spec

(* When no start fails before leases.load(), what the daemon answered      *)
(* stays true until it carries out another request for that GPU, whatever  *)
(* clients, disk and process do (server.py, daemon.py, lease.py).          *)
THEOREM AnswersAlwaysHold ==
  ASSUME "beforeLoad" \notin BootFailures
  PROVE  Spec => []AnswersHold
<1>1. Init => IInv
  BY InitIInv
<1>2. IInv /\ [Next]_vars => IInv'
  BY NextIInv
<1>3. IInv => AnswersHold
  BY IInvImpliesHold
<1> QED
  BY <1>1, <1>2, <1>3, PTL DEF Spec

-----------------------------------------------------------------------------
(* What the lease store behind the server promises, it promises in the     *)
(* words of its own proofs.                                                *)
LEMMA SamePromise ==
  /\ Store!CrashSafe <=> StoreProofs!CrashSafe
  /\ Store!CrashSafe' <=> StoreProofs!CrashSafe'
  /\ [StoreProofs!Promise!Next]_(StoreProofs!Reserved) =>
       [Store!Promise!Next]_(Store!Reserved)
<1> USE DEF Store!Active, StoreProofs!Active, Store!IsActive, StoreProofs!IsActive
<1>1. Store!CrashSafe <=> StoreProofs!CrashSafe
  BY DEF Store!CrashSafe, StoreProofs!CrashSafe
<1>2. Store!CrashSafe' <=> StoreProofs!CrashSafe'
  BY DEF Store!CrashSafe, StoreProofs!CrashSafe
<1>3. StoreProofs!Reserved = Store!Reserved
  BY DEF StoreProofs!Reserved, Store!Reserved
<1>4. StoreProofs!Reserved' = Store!Reserved'
  BY DEF StoreProofs!Reserved, Store!Reserved
<1>5. ASSUME NEW u \in Uids, NEW S \in SUBSET Gpus, NEW d \in Durations,
             StoreProofs!Promise!Reserve(u, S, d)
      PROVE  Store!Promise!Reserve(u, S, d)
  BY <1>3, <1>4, <1>5
     DEF StoreProofs!Promise!Reserve, Store!Promise!Reserve,
         StoreProofs!Promise!Longer, Store!Promise!Longer
<1>6. ASSUME NEW u \in Uids, NEW S \in SUBSET Gpus,
             StoreProofs!Promise!Release(u, S)
      PROVE  Store!Promise!Release(u, S)
  BY <1>3, <1>4, <1>6 DEF StoreProofs!Promise!Release, Store!Promise!Release
<1>7. StoreProofs!Promise!Elapse => Store!Promise!Elapse
  BY <1>3, <1>4 DEF StoreProofs!Promise!Elapse, Store!Promise!Elapse
<1>8. StoreProofs!Promise!Next => Store!Promise!Next
  BY <1>5, <1>6, <1>7 DEF StoreProofs!Promise!Next, Store!Promise!Next
<1> QED
  BY <1>1, <1>2, <1>3, <1>4, <1>8

(* With a working disk, no step of a daemon's life - not a start that      *)
(* fails after the load, nor a request carried out after SIGTERM, after    *)
(* the last persist() or for a client that has gone - is more to users     *)
(* than a reservation, a release or the clock.                             *)
LEMMA PromiseStep ==
  ASSUME DiskOutcomes = {TRUE}, "beforeLoad" \notin BootFailures,
         TypeOK, Store!CrashSafe, [Next]_vars
  PROVE  Store!CrashSafe' /\ [Store!Promise!Next]_(Store!Reserved)
<1>1. CASE [Store!Next]_(Store!vars)
  <2>1. /\ StoreProofs!TypeOK /\ StoreProofs!CrashSafe
        /\ [StoreProofs!Next]_(StoreProofs!vars)
    BY <1>1, SameStore, SamePromise DEF TypeOK
  <2>2. StoreProofs!CrashSafe'
    BY <2>1, StoreProofs!CrashSafeStep, StoreAssumption DEF StoreProofs!Lease
  <2>3. [StoreProofs!Promise!Next]_(StoreProofs!Reserved)
    BY <2>1, StoreProofs!PromiseStep, StoreAssumption DEF StoreProofs!Lease
  <2> QED
    BY <2>2, <2>3, SamePromise
<1>2. CASE \E where \in BootFailures : BootFails(where)
  <2>1. disk' = Store!Active(disk) /\ life = "off" /\ life' = "off"
    BY <1>2, BootAssumption DEF BootFails
  <2>2. Store!Active(Store!Active(disk)) = Store!Active(disk)
    BY DEF Store!Active, Store!IsActive
  <2>3. Store!Reserved = Store!Active(disk) /\ Store!Reserved' = Store!Active(disk')
    BY <2>1 DEF Store!Reserved, Store!Active, Store!IsActive
  <2> QED
    BY <2>1, <2>2, <2>3 DEF Store!CrashSafe
<1>3. CASE \E waits \in Waiting : Teardown(waits, TRUE)
  <2>1. disk' = leases /\ leases' = leases /\ life = "stopping" /\ life' = "ending"
    BY <1>3 DEF Teardown, Store!Persist
  <2> QED
    BY <2>1 DEF Store!CrashSafe, Store!Reserved, Store!Active, Store!IsActive
<1> QED
  BY <1>1, <1>2, <1>3, StoreSteps

(* With a working disk and starts that get as far as leases.load(), what   *)
(* users see through sockets, over any number of starts, shutdowns and     *)
(* crashes, are the reservations of module Reservation.                    *)
THEOREM Refinement ==
  ASSUME DiskOutcomes = {TRUE}, "beforeLoad" \notin BootFailures
  PROVE  Spec => Store!ImplementsReservation
<1>1. Init => Store!CrashSafe /\ Store!Promise!Init
  BY DEF Init, Store!Init, Store!CrashSafe, Store!Empty, Store!Reserved,
         Store!Active, Store!IsActive, Store!Promise!Init
<1>2. TypeOK /\ Store!CrashSafe /\ [Next]_vars =>
        Store!CrashSafe' /\ [Store!Promise!Next]_(Store!Reserved)
  BY PromiseStep
<1> QED
  BY <1>1, <1>2, TypeCorrect, PTL
     DEF Spec, Store!ImplementsReservation, Store!Promise!Spec
=============================================================================
