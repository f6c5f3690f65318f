-------------------------- MODULE LeaseStoreProofs --------------------------
(***************************************************************************)
(* Proofs about LeaseStore for every set of GPUs, users and durations.     *)
(* CrashSafe and the refinement need file operations that succeed, which   *)
(* is the assumption of the theorems that state them; NoTakeover does not. *)
(***************************************************************************)
EXTENDS LeaseStore, TLAPS

(* What every action keeps of a lease map: its type.                       *)
LEMMA MapTypes ==
  ASSUME NEW m \in [Gpus -> Lease \cup {NoLease}]
  PROVE  /\ Active(m) \in [Gpus -> Lease \cup {NoLease}]
         /\ Age(m) \in [Gpus -> Lease \cup {NoLease}]
         /\ \A S : Drop(m, S) \in [Gpus -> Lease \cup {NoLease}]
<1>1. Active(m) \in [Gpus -> Lease \cup {NoLease}]
  BY DEF Active
<1>2. \A S : Drop(m, S) \in [Gpus -> Lease \cup {NoLease}]
  BY DEF Drop
<1>3. ASSUME NEW g \in Gpus, IsActive(m, g)
      PROVE  [uid |-> m[g].uid, left |-> m[g].left - 1] \in Lease
  BY <1>3 DEF IsActive, Lease
<1>4. Age(m) \in [Gpus -> Lease \cup {NoLease}]
  BY <1>3 DEF Age
<1> QED
  BY <1>1, <1>2, <1>4

(* Granting d to u on g gives a lease of u with d or more units left.      *)
LEMMA ExtendedLease ==
  ASSUME TypeOK, NEW g \in Gpus, NEW u \in Uids, NEW d \in Durations
  PROVE  /\ Extended(g, u, d) \in Lease
         /\ Extended(g, u, d).uid = u
         /\ Extended(g, u, d).left >= d
         /\ Extended(g, u, d).left > 0
         /\ leases[g] # NoLease => Extended(g, u, d).left >= leases[g].left
<1>1. d \in Nat \ {0}
  BY DurationsAssumption
<1>2. leases[g] # NoLease => leases[g].left \in Nat
  BY DEF TypeOK, Lease
<1> QED
  BY <1>1, <1>2 DEF Extended, Lease

(* Every step keeps the type invariant.                                    *)
LEMMA TypeStep == TypeOK /\ [Next]_vars => TypeOK'
<1> SUFFICES ASSUME TypeOK, [Next]_vars
             PROVE  TypeOK'
  OBVIOUS
<1>1. ASSUME NEW ok \in DiskOutcomes, NEW u \in Uids, NEW S \in SUBSET Gpus,
             NEW d \in Durations, up, UNCHANGED up,
             Acquire(u, S, d, ok)
      PROVE  TypeOK'
  <2>1. \A g \in Gpus : Extended(g, u, d) \in Lease
    BY ExtendedLease
  <2>2. leases' \in [Gpus -> Lease \cup {NoLease}]
    BY <1>1, <2>1 DEF Acquire, TypeOK
  <2> QED
    BY <1>1, <2>2 DEF Acquire, Persist, TypeOK
<1>2. ASSUME NEW ok \in DiskOutcomes, NEW u \in Uids, NEW S \in SUBSET Gpus,
             up, UNCHANGED up, Release(u, S, ok)
      PROVE  TypeOK'
  BY <1>2, MapTypes DEF Release, Persist, TypeOK
<1>3. ASSUME NEW ok \in DiskOutcomes, up, UNCHANGED up, Sweep(ok)
      PROVE  TypeOK'
  BY <1>3, MapTypes DEF Sweep, Persist, TypeOK
<1>4. ASSUME NEW ok \in DiskOutcomes, Load(ok)
      PROVE  TypeOK'
  BY <1>4, MapTypes DEF Load, TypeOK, Empty
<1>5. ASSUME NEW ok \in DiskOutcomes, Shutdown(ok)
      PROVE  TypeOK'
  BY <1>5 DEF Shutdown, TypeOK, Empty
<1>6. CASE Crash
  BY <1>6 DEF Crash, TypeOK, Empty
<1>7. CASE Elapse /\ UNCHANGED up
  BY <1>7, MapTypes DEF Elapse, TypeOK
<1>8. CASE UNCHANGED vars
  BY <1>8 DEF vars, TypeOK
<1> QED
  BY <1>1, <1>2, <1>3, <1>4, <1>5, <1>6, <1>7, <1>8 DEF Next, Serve

(* The maps hold leases of known users with a natural time left.           *)
THEOREM TypeCorrect == Spec => []TypeOK
<1>1. Init => TypeOK
  BY DEF Init, TypeOK, Empty
<1> QED
  BY <1>1, TypeStep, PTL DEF Spec

-----------------------------------------------------------------------------
(* Sweeping lapsed leases leaves the active ones as they are.              *)
LEMMA SweepKeepsActive == Active(Drop(leases, LapsedGpus)) = Active(leases)
  BY DEF Active, Drop, LapsedGpus, IsActive, IsLapsed

(* Reading the active leases twice is reading them once.                   *)
LEMMA ActiveIdempotent ==
  ASSUME NEW m \in [Gpus -> Lease \cup {NoLease}]
  PROVE  Active(Active(m)) = Active(m)
  BY DEF Active, IsActive

(* Leases that agree now agree when one more unit of time has passed.      *)
LEMMA AgingKeepsAgreement ==
  ASSUME NEW m \in [Gpus -> Lease \cup {NoLease}],
         NEW n \in [Gpus -> Lease \cup {NoLease}],
         Active(m) = Active(n)
  PROVE  Active(Age(m)) = Active(Age(n))
<1> SUFFICES ASSUME NEW g \in Gpus
             PROVE  Active(Age(m))[g] = Active(Age(n))[g]
  BY DEF Active
<1>1. Active(m)[g] = Active(n)[g]
  OBVIOUS
<1>2. CASE IsActive(m, g)
  <2>1. IsActive(n, g) /\ m[g] = n[g]
    BY <1>1, <1>2 DEF Active, IsActive
  <2>2. Age(m)[g] = Age(n)[g]
    BY <1>2, <2>1 DEF Age
  <2> QED
    BY <2>2 DEF Active, IsActive
<1>3. CASE ~IsActive(m, g)
  <2>1. ~IsActive(n, g)
    BY <1>1, <1>3 DEF Active, IsActive
  <2>2. Age(m)[g] = m[g] /\ Age(n)[g] = n[g]
    BY <1>3, <2>1 DEF Age
  <2>3. ~IsActive(Age(m), g) /\ ~IsActive(Age(n), g)
    BY <1>3, <2>1, <2>2 DEF IsActive
  <2> QED
    BY <2>3 DEF Active
<1> QED
  BY <1>2, <1>3

(* With a working disk, every step keeps memory and file in agreement.     *)
LEMMA CrashSafeStep ==
  ASSUME DiskOutcomes = {TRUE}, TypeOK, CrashSafe, [Next]_vars
  PROVE  CrashSafe'
<1>1. ASSUME NEW u \in Uids, NEW S \in SUBSET Gpus, NEW d \in Durations,
             up, UNCHANGED up, Acquire(u, S, d, TRUE)
      PROVE  CrashSafe'
  BY <1>1 DEF Acquire, Persist, CrashSafe, Active, IsActive
<1>2. ASSUME NEW u \in Uids, NEW S \in SUBSET Gpus,
             up, UNCHANGED up, Release(u, S, TRUE)
      PROVE  CrashSafe'
  BY <1>2 DEF Release, Persist, CrashSafe, Active, IsActive
<1>3. CASE up /\ UNCHANGED up /\ Sweep(TRUE)
  BY <1>3 DEF Sweep, Persist, CrashSafe, Active, IsActive
<1>4. CASE Load(TRUE)
  <2>1. Active(leases') = Active(disk)
    BY <1>4, ActiveIdempotent DEF Load, TypeOK
  <2> QED
    BY <1>4, <2>1 DEF Load, CrashSafe, Active, IsActive
<1>5. CASE Shutdown(TRUE)
  BY <1>5 DEF Shutdown, CrashSafe
<1>6. CASE Crash
  BY <1>6 DEF Crash, CrashSafe
<1>7. CASE Elapse /\ UNCHANGED up
  <2>1. up => Active(Age(leases)) = Active(Age(disk))
    BY AgingKeepsAgreement DEF CrashSafe, TypeOK
  <2> QED
    BY <1>7, <2>1 DEF Elapse, CrashSafe, Active, IsActive
<1>8. CASE UNCHANGED vars
  BY <1>8 DEF vars, CrashSafe, Active, IsActive
<1> QED
  BY <1>1, <1>2, <1>3, <1>4, <1>5, <1>6, <1>7, <1>8 DEF Next, Serve

(* With a working disk, a crash loses no running lease and revives none.   *)
THEOREM CrashSafety ==
  ASSUME DiskOutcomes = {TRUE}
  PROVE  Spec => []CrashSafe
<1>1. Init => CrashSafe
  BY DEF Init, CrashSafe
<1>2. TypeOK /\ CrashSafe /\ [Next]_vars => CrashSafe'
  BY CrashSafeStep
<1> QED
  BY <1>1, <1>2, TypeCorrect, PTL DEF Spec

-----------------------------------------------------------------------------
(* While one daemon runs, no lease changes hands and none is cut short,    *)
(* whatever the file operations do.                                        *)
THEOREM NoTakeoverEver == Spec => NoTakeover
<1> DEFINE Kept(g) == /\ leases'[g].uid = leases[g].uid
                      /\ \/ leases'[g].left >= leases[g].left
                         \/ leases' = Age(leases)
           Both(g) == leases[g] # NoLease /\ leases'[g] # NoLease
           Honest  == up /\ up' => \A g \in Gpus : Both(g) => Kept(g)
<1>1. TypeOK /\ [Next]_vars => [Honest]_vars
  <2> SUFFICES ASSUME TypeOK, Next, up, up', NEW g \in Gpus, Both(g)
               PROVE  Kept(g)
    OBVIOUS
  <2> USE DEF TypeOK
  <2>0. leases[g] \in Lease /\ leases[g].left \in Nat
    BY DEF Lease
  <2>1. ASSUME NEW ok \in DiskOutcomes, NEW u \in Uids, NEW S \in SUBSET Gpus,
               NEW d \in Durations, up, UNCHANGED up,
               Acquire(u, S, d, ok)
        PROVE  Kept(g)
    <3>1. CASE g \in S
      <4>1. leases[g].uid = u
        BY <2>1, <3>1 DEF Acquire, Conflicts
      <4>2. leases'[g] = Extended(g, u, d)
        BY <2>1, <3>1 DEF Acquire
      <4> QED
        BY <4>1, <4>2, ExtendedLease
    <3>2. CASE g \notin S
      BY <2>0, <2>1, <3>2 DEF Acquire
    <3> QED
      BY <3>1, <3>2
  <2>2. ASSUME NEW ok \in DiskOutcomes, NEW u \in Uids, NEW S \in SUBSET Gpus,
               up, UNCHANGED up, Release(u, S, ok)
        PROVE  Kept(g)
    BY <2>0, <2>2 DEF Release, Drop
  <2>3. ASSUME NEW ok \in DiskOutcomes, up, UNCHANGED up, Sweep(ok)
        PROVE  Kept(g)
    BY <2>0, <2>3 DEF Sweep, Drop
  <2>4. CASE Elapse /\ UNCHANGED up
    <3>1. leases'[g] = IF IsActive(leases, g)
                       THEN [uid |-> leases[g].uid, left |-> leases[g].left - 1]
                       ELSE leases[g]
      BY <2>4 DEF Elapse, Age
    <3> QED
      BY <2>4, <3>1 DEF Elapse
  <2>5. ASSUME NEW ok \in DiskOutcomes, Load(ok) \/ Shutdown(ok)
        PROVE  FALSE
    BY <2>5 DEF Load, Shutdown
  <2>6. ~Crash
    BY DEF Crash
  <2> QED
    BY <2>1, <2>2, <2>3, <2>4, <2>5, <2>6 DEF Next, Serve
<1> QED
  BY <1>1, TypeCorrect, PTL DEF Spec, NoTakeover

-----------------------------------------------------------------------------
(* Leases and reservations count down together.                            *)
LEMMA ElapseKept ==
  ASSUME TypeOK, Elapse, UNCHANGED up
  PROVE  Promise!Elapse
<1> DEFINE m == IF up THEN leases ELSE disk
<1>1. m \in [Gpus -> Lease \cup {NoLease}]
  BY DEF TypeOK
<1>2. Reserved = Active(m) /\ Reserved' = Active(Age(m))
  BY DEF Elapse, Reserved, Active, IsActive
<1> HIDE DEF m
<1>3. ASSUME NEW g \in Gpus
      PROVE  Active(Age(m))[g] =
               IF Active(m)[g] = NoLease \/ Active(m)[g].left = 1 THEN NoLease
               ELSE [Active(m)[g] EXCEPT !.left = @ - 1]
  <2>1. CASE IsActive(m, g)
    <3>1. /\ m[g] \in Lease /\ m[g].left \in Nat /\ m[g].left > 0
          /\ m[g] # NoLease
      BY <1>1, <2>1 DEF IsActive, Lease
    <3>2. Age(m)[g] = [uid |-> m[g].uid, left |-> m[g].left - 1]
      BY <2>1 DEF Age
    <3>3. Age(m)[g] \in Lease /\ Age(m)[g] # NoLease
      BY <3>1, <3>2, NoLeaseAssumption DEF Lease
    <3>4. Active(m)[g] = m[g]
      BY <2>1 DEF Active
    <3>5. [m[g] EXCEPT !.left = @ - 1] = Age(m)[g]
      BY <3>1, <3>2 DEF Lease
    <3>6. Age(m)[g].left = m[g].left - 1
      BY <3>2
    <3> QED
      BY <3>1, <3>3, <3>4, <3>5, <3>6 DEF Active, IsActive
  <2>2. CASE ~IsActive(m, g)
    BY <2>2 DEF Active, Age, IsActive
  <2> QED
    BY <2>1, <2>2
<1>4. Reserved' = [g \in Gpus |-> Active(Age(m))[g]]
  BY <1>2 DEF Active
<1> QED
  BY <1>2, <1>3, <1>4 DEF Promise!Elapse

(* A request the running daemon grants reserves all of its GPUs, for as    *)
(* long as was asked or longer; its memory is what users see.              *)
LEMMA AcquireKept ==
  ASSUME TypeOK, up, up', NEW ok \in DiskOutcomes, NEW u \in Uids,
         NEW S \in SUBSET Gpus, NEW d \in Durations, Acquire(u, S, d, ok)
  PROVE  Promise!Reserve(u, S, d)
<1>1. Reserved = Active(leases) /\ Reserved' = Active(leases')
  BY DEF Reserved, Active, IsActive
<1>2. \A g \in S : leases'[g] = Extended(g, u, d)
  BY DEF Acquire
<1>3. \A g \in S : /\ Extended(g, u, d) \in Lease
                   /\ Extended(g, u, d).left > 0
  BY ExtendedLease
<1>4. \A g \in S : Reserved'[g] = Extended(g, u, d)
  <2>1. \A g \in S : Extended(g, u, d) # NoLease
    BY <1>3, NoLeaseAssumption
  <2> QED
    BY <1>1, <1>2, <1>3, <2>1 DEF Active, IsActive
<1>5. \A g \in Gpus \ S : Reserved'[g] = Reserved[g]
  BY <1>1 DEF Acquire, Active, IsActive
<1>6. \A g \in S : Reserved[g] = NoLease \/ Reserved[g].uid = u
  BY <1>1 DEF Acquire, Conflicts, Active
<1>7. ASSUME NEW g \in S
      PROVE  Extended(g, u, d) = [uid |-> u, left |-> Promise!Longer(g, d)]
  <2>1. d \in Nat /\ d > 0
    BY DurationsAssumption
  <2>2. leases[g] # NoLease => leases[g].left \in Nat
    BY DEF TypeOK, Lease
  <2>3. Reserved[g] = IF IsActive(leases, g) THEN leases[g] ELSE NoLease
    BY <1>1 DEF Active
  <2> QED
    BY <2>1, <2>2, <2>3 DEF Extended, Promise!Longer, IsActive
<1>8. Reserved' = [g \in Gpus |-> Reserved'[g]]
  BY <1>1 DEF Active
<1> QED
  BY <1>4, <1>5, <1>6, <1>7, <1>8 DEF Promise!Reserve

(* A release ends the reservations its caller may end, and only those.     *)
LEMMA ReleaseKept ==
  ASSUME up, up', NEW ok \in DiskOutcomes, NEW u \in Uids,
         NEW S \in SUBSET Gpus, Release(u, S, ok)
  PROVE  Promise!Release(u, {g \in Releasable(u, S) : IsActive(leases, g)})
<1> DEFINE T == {g \in Releasable(u, S) : IsActive(leases, g)}
<1>1. Reserved = Active(leases) /\ Reserved' = Active(leases')
  BY DEF Reserved, Active, IsActive
<1>2. \A g \in T : Reserved[g] # NoLease /\ (Reserved[g].uid = u \/ u = Root)
  BY <1>1 DEF Releasable, Active, IsActive
<1>3. Reserved' = [g \in Gpus |-> IF g \in T THEN NoLease ELSE Reserved[g]]
  BY <1>1 DEF Release, Drop, Active, IsActive
<1> QED
  BY <1>2, <1>3 DEF Promise!Release

(* What a running daemon does to its leases is what users are promised,    *)
(* even when persist() fails.                                              *)
LEMMA RunningStep ==
  ASSUME TypeOK, up, up', [Next]_vars
  PROVE  [Promise!Next]_Reserved
<1>1. ASSUME NEW ok \in DiskOutcomes, NEW u \in Uids, NEW S \in SUBSET Gpus,
             NEW d \in Durations, Acquire(u, S, d, ok)
      PROVE  Promise!Next
  BY <1>1, AcquireKept DEF Promise!Next
<1>2. ASSUME NEW ok \in DiskOutcomes, NEW u \in Uids, NEW S \in SUBSET Gpus,
             Release(u, S, ok)
      PROVE  Promise!Next
  <2>1. {g \in Releasable(u, S) : IsActive(leases, g)} \in SUBSET Gpus
    BY DEF Releasable
  <2> QED
    BY <1>2, <2>1, ReleaseKept DEF Promise!Next
<1>3. ASSUME NEW ok \in DiskOutcomes, Sweep(ok)
      PROVE  UNCHANGED Reserved
  BY <1>3, SweepKeepsActive DEF Sweep, Reserved, Active, IsActive
<1>4. CASE Elapse
  BY <1>4, ElapseKept DEF Promise!Next
<1>5. CASE UNCHANGED vars
  BY <1>5 DEF vars, Reserved, Active, IsActive
<1>6. CASE \E ok \in DiskOutcomes : Serve(ok)
  BY <1>1, <1>2, <1>3, <1>6 DEF Serve
<1>7. \A ok : ~Load(ok) /\ ~Shutdown(ok) /\ ~Crash
  BY DEF Load, Shutdown, Crash
<1> QED
  BY <1>4, <1>5, <1>6, <1>7 DEF Next

(* With a working disk, a step of the daemon, its start and its end are    *)
(* what users are promised, or invisible to them.                          *)
LEMMA PromiseStep ==
  ASSUME DiskOutcomes = {TRUE}, TypeOK, CrashSafe, [Next]_vars
  PROVE  [Promise!Next]_Reserved
<1>1. CASE up /\ up'
  BY <1>1, RunningStep
<1>2. CASE Load(TRUE)
  <2>1. Reserved = Active(disk) /\ Reserved' = Active(leases')
    BY <1>2 DEF Load, Reserved, Active, IsActive
  <2> QED
    BY <1>2, <2>1, ActiveIdempotent DEF Load, TypeOK
<1>3. CASE Shutdown(TRUE)
  BY <1>3 DEF Shutdown, Reserved, Active, IsActive
<1>4. CASE Crash
  BY <1>4 DEF Crash, Reserved, CrashSafe, Active, IsActive
<1>5. CASE Elapse /\ UNCHANGED up
  BY <1>5, ElapseKept DEF Promise!Next
<1>6. CASE UNCHANGED vars
  BY <1>6 DEF vars, Reserved, Active, IsActive
<1>7. Serve(TRUE) => up /\ up'
  BY DEF Serve
<1> QED
  BY <1>1, <1>2, <1>3, <1>4, <1>5, <1>6, <1>7 DEF Next

(* With a working disk, the daemon's leases - kept through shutdowns,      *)
(* crashes and restarts - are the reservations of module Reservation.      *)
THEOREM Refinement ==
  ASSUME DiskOutcomes = {TRUE}
  PROVE  Spec => ImplementsReservation
<1>1. Init => Promise!Init
  BY DEF Init, Empty, Reserved, Active, IsActive, Promise!Init
<1>2. TypeOK /\ CrashSafe /\ [Next]_vars => [Promise!Next]_Reserved
  BY PromiseStep
<1> QED
  BY <1>1, <1>2, TypeCorrect, CrashSafety, PTL
     DEF Spec, ImplementsReservation, Promise!Spec

(* With a working disk, no step does anything to the reservations users    *)
(* see but what it should: a granted acquire() reserves all of its GPUs, a *)
(* release() ends what its caller may end, and a start, a shutdown, a crash*)
(* or a sweep is invisible.                                                *)
THEOREM PromiseKept ==
  ASSUME DiskOutcomes = {TRUE}
  PROVE  Spec => KeepsPromise
<1>1. ASSUME TypeOK, CrashSafe
      PROVE  StepKeepsPromise
  <2>1. ASSUME NEW u \in Uids, NEW S \in SUBSET Gpus, up, up', Release(u, S, TRUE)
        PROVE  Promise!Release(u, {g \in S : /\ Reserved[g] # NoLease
                                             /\ Reserved[g].uid = u \/ u = Root})
    <3>1. Reserved = Active(leases)
      BY <2>1 DEF Reserved, Active, IsActive
    <3>2. {g \in Releasable(u, S) : IsActive(leases, g)}
            = {g \in S : /\ Reserved[g] # NoLease
                         /\ Reserved[g].uid = u \/ u = Root}
      BY <3>1 DEF Releasable, Active, IsActive
    <3> QED
      BY <2>1, <3>2, ReleaseKept
  <2>2. ASSUME up, up', Sweep(TRUE)
        PROVE  UNCHANGED Reserved
    BY <2>2, SweepKeepsActive DEF Sweep, Reserved, Active, IsActive
  <2>3. ASSUME Load(TRUE)
        PROVE  UNCHANGED Reserved
    <3>1. Reserved = Active(disk) /\ Reserved' = Active(leases')
      BY <2>3 DEF Load, Reserved, Active, IsActive
    <3> QED
      BY <1>1, <2>3, <3>1, ActiveIdempotent DEF Load, TypeOK
  <2>4. ASSUME Shutdown(TRUE)
        PROVE  UNCHANGED Reserved
    BY <2>4 DEF Shutdown, Reserved, Active, IsActive
  <2>5. ASSUME Crash
        PROVE  UNCHANGED Reserved
    BY <1>1, <2>5 DEF Crash, Reserved, CrashSafe, Active, IsActive
  <2> QED
    BY <1>1, <2>1, <2>2, <2>3, <2>4, <2>5, AcquireKept, ElapseKept
       DEF StepKeepsPromise
<1> QED
  BY <1>1, TypeCorrect, CrashSafety, PTL DEF KeepsPromise
=============================================================================
