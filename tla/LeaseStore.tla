----------------------------- MODULE LeaseStore -----------------------------
(***************************************************************************)
(* ocp.lease.LeaseStore: the in-memory map of per-GPU pause leases, its    *)
(* copy in state.json, and the life of both across shutdowns and crashes   *)
(* of the daemon.                                                          *)
(*                                                                         *)
(* Time is relative.  The code keeps expires_at and compares it with       *)
(* time.time(); only the difference is ever used, so a lease carries       *)
(* `left` = max(0, expires_at - now), which Elapse counts down in memory   *)
(* and on disk alike.  A lease with left = 0 has lapsed: expires_at <= now *)
(* but nothing has swept it yet.                                           *)
(***************************************************************************)
EXTENDS Naturals

CONSTANTS Gpus,         \* GPU indices
          Uids,         \* uids of callers
          Root,         \* uid 0
          Durations,    \* durations a request may ask for, in time units
          NoLease,      \* "gpu not in self._leases"
          DiskOutcomes  \* {TRUE}: file operations succeed; with FALSE they may fail

Lease == [uid : Uids, left : Nat]

ASSUME RootAssumption      == Root \in Uids
ASSUME DurationsAssumption == Durations \subseteq Nat \ {0}
ASSUME NoLeaseAssumption   == NoLease \notin Lease
ASSUME DiskAssumption      == TRUE \in DiskOutcomes /\ DiskOutcomes \subseteq BOOLEAN

VARIABLES leases,  \* self._leases of the running daemon
          disk,    \* the "leases" of state.json
          up       \* a daemon process is running

vars == <<leases, disk, up>>

Empty == [g \in Gpus |-> NoLease]

TypeOK == /\ leases \in [Gpus -> Lease \cup {NoLease}]
          /\ disk \in [Gpus -> Lease \cup {NoLease}]
          /\ up \in BOOLEAN

Init == leases = Empty /\ disk = Empty /\ up = FALSE

-----------------------------------------------------------------------------
(* Operators on a lease map m.                                             *)

IsActive(m, g) == m[g] # NoLease /\ m[g].left > 0
IsLapsed(m, g) == m[g] # NoLease /\ m[g].left = 0

(* The leases of m that have not lapsed.                                   *)
Active(m) == [g \in Gpus |-> IF IsActive(m, g) THEN m[g] ELSE NoLease]

(* Mutant: remaining_s() without its max(0, ...).                           *)
AgeUnclamped(m) == [g \in Gpus |-> IF m[g] # NoLease
                                   THEN [uid |-> m[g].uid, left |-> m[g].left - 1]
                                   ELSE m[g]]

(* m when one more unit of time has passed.                                *)
Age(m) == [g \in Gpus |-> IF IsActive(m, g)
                          THEN [uid |-> m[g].uid, left |-> m[g].left - 1]
                          ELSE m[g]]

(* m without the leases of S.                                              *)
Drop(m, S) == [g \in Gpus |-> IF g \in S THEN NoLease ELSE m[g]]

(* Mutant: the new deadline replaces the old one even when it is earlier.  *)
ExtendedOrCut(g, u, d) == [uid |-> u, left |-> d]

(* The lease u holds on g once d has been granted: never shorter than now. *)
Extended(g, u, d) ==
  [uid  |-> u,
   left |-> IF leases[g] # NoLease /\ leases[g].left > d
            THEN leases[g].left ELSE d]

(* Mutant: refuses only when every GPU of the request is held by another.  *)
ConflictsOnAll(u, S) ==
  LET foreign == {g \in S : leases[g] # NoLease /\ leases[g].uid # u}
  IN  IF foreign = S THEN foreign ELSE {}

(* The GPUs of S another uid holds; a lapsed lease still counts.           *)
Conflicts(u, S) == {g \in S : leases[g] # NoLease /\ leases[g].uid # u}

Releasable(u, S) == {g \in S : /\ leases[g] # NoLease
                               /\ leases[g].uid = u \/ u = Root}

LapsedGpus == {g \in Gpus : IsLapsed(leases, g)}

-----------------------------------------------------------------------------
(* persist(): the temporary file replaces state.json, or OSError leaves    *)
(* the old one in place while memory has already changed.                  *)
Persist(ok) == disk' = IF ok THEN leases' ELSE disk

(* Mutant: acquire() grants what it can and skips what another uid holds.  *)
AcquireSome(u, S, d, ok) ==
  /\ ~(S \subseteq Conflicts(u, S))
  /\ leases' = [g \in Gpus |-> IF g \in S \ Conflicts(u, S) THEN Extended(g, u, d)
                               ELSE leases[g]]
  /\ Persist(ok)

(* acquire(): all of S or, when another uid holds any of it, PauseHeld and *)
(* no change.                                                              *)
Acquire(u, S, d, ok) ==
  /\ Conflicts(u, S) = {}
  /\ leases' = [g \in Gpus |-> IF g \in S THEN Extended(g, u, d) ELSE leases[g]]
  /\ Persist(ok)

(* Mutant: release() that forgets to persist.                              *)
ReleaseUnsaved(u, S, ok) ==
  /\ Releasable(u, S) # {}
  /\ leases' = Drop(leases, Releasable(u, S))
  /\ UNCHANGED disk

(* release(): drops what the caller may drop; persists if it dropped any.  *)
Release(u, S, ok) ==
  /\ Releasable(u, S) # {}
  /\ leases' = Drop(leases, Releasable(u, S))
  /\ Persist(ok)

(* sweep_expired(): drops every lapsed lease; persists if there was one.   *)
Sweep(ok) ==
  /\ LapsedGpus # {}
  /\ leases' = Drop(leases, LapsedGpus)
  /\ Persist(ok)

(* load() in a new process: unexpired entries only; an unreadable file     *)
(* counts as no leases.  The file itself is not rewritten.                 *)
Load(ok) ==
  /\ ~up
  /\ up' = TRUE
  /\ leases' = IF ok THEN Active(disk) ELSE Empty
  /\ UNCHANGED disk

(* _shutdown() persists once more before the process ends.                 *)
Shutdown(ok) ==
  /\ up
  /\ up' = FALSE
  /\ disk' = IF ok THEN leases ELSE disk
  /\ leases' = Empty

(* The process dies between two handlers: memory is gone, the file stays.  *)
Crash ==
  /\ up
  /\ up' = FALSE
  /\ leases' = Empty
  /\ UNCHANGED disk

(* Time passes whether or not the daemon runs.                             *)
Elapse ==
  /\ leases' = Age(leases)
  /\ disk' = Age(disk)

(* A handler of the running daemon calls the store.                        *)
Serve(ok) ==
  /\ up /\ UNCHANGED up
  /\ \/ \E u \in Uids, S \in SUBSET Gpus :
          \/ S # {} /\ \E d \in Durations : Acquire(u, S, d, ok)
          \/ Release(u, S, ok)
     \/ Sweep(ok)

Next == \/ \E ok \in DiskOutcomes : Serve(ok) \/ Load(ok) \/ Shutdown(ok)
        \/ Crash
        \/ Elapse /\ UNCHANGED up

Spec == Init /\ [][Next]_vars

-----------------------------------------------------------------------------
(* A crash at any moment loses no running lease and revives none: the file *)
(* and the memory of a running daemon agree on every lease that has time   *)
(* left.  It is what "persisted to state.json after every change and       *)
(* reloaded on startup" (README.md) is for, and needs file operations that *)
(* succeed.  Lapsed leases may differ: load() does not rewrite the file.   *)
CrashSafe == up => Active(leases) = Active(disk)

(* While one daemon runs, a lease passes from one uid to another only      *)
(* through a release or a sweep, and its time left shrinks by the clock    *)
(* only - whatever the file operations do.                                 *)
NoTakeover ==
  [][up /\ up' =>
       \A g \in Gpus : leases[g] # NoLease /\ leases'[g] # NoLease =>
         /\ leases'[g].uid = leases[g].uid
         /\ \/ leases'[g].left >= leases[g].left
            \/ leases' = Age(leases)]_vars

(* The reservations users have: those of the running daemon or, while none *)
(* runs, those the next one will load.                                     *)
Reserved == IF up THEN Active(leases) ELSE Active(disk)

Promise == INSTANCE Reservation WITH held <- Reserved

(* Users see the reservations of module Reservation, restarts included.    *)
ImplementsReservation == Promise!Spec

(* This step is, for the users, the step of Reservation it should be: an   *)
(* acquire() that is granted reserves all of its GPUs and shortens nothing,*)
(* a release() ends what its caller may end and only that, and no sweep,   *)
(* start, shutdown or crash makes a difference: nothing is lost in one, nor*)
(* comes back.                                                             *)
StepKeepsPromise ==
  /\ \A ok \in DiskOutcomes :
       /\ up /\ up' =>
            /\ \A u \in Uids, S \in SUBSET Gpus :
                 /\ \A d \in Durations : Acquire(u, S, d, ok) => Promise!Reserve(u, S, d)
                 /\ Release(u, S, ok) =>
                      Promise!Release(u, {g \in S : /\ Reserved[g] # NoLease
                                                    /\ Reserved[g].uid = u \/ u = Root})
            /\ Sweep(ok) => UNCHANGED Reserved
       /\ Load(ok) \/ Shutdown(ok) => UNCHANGED Reserved
  /\ Crash => UNCHANGED Reserved
  /\ Elapse /\ UNCHANGED up => Promise!Elapse

(* Users see the reservations of module Reservation step by step.  More    *)
(* than ImplementsReservation, where a loss passes for a release by root, a*)
(* revival for a reservation and a partial grant for a smaller request.    *)
(* Needs file operations that succeed.                                     *)
KeepsPromise == [][StepKeepsPromise]_vars
=============================================================================
