---------------------------- MODULE Reservation ----------------------------
(***************************************************************************)
(* What `ocp pause` and `ocp resume` promise to the users of a host: a GPU *)
(* is free, or reserved by one user for some time that only shrinks by     *)
(* waiting and only grows when that user asks again.  The promise does not *)
(* mention the daemon: a restart of ocpd, a sweep of lapsed leases or a    *)
(* reload from disk is invisible here (README.md, "What happens to my      *)
(* pause if the daemon restarts?").  LeaseStore is shown to implement it,  *)
(* the daemon of Ipc too, and the steps of Controller to keep it.          *)
(***************************************************************************)
EXTENDS Naturals

CONSTANTS Gpus,       \* the GPUs of the host
          Uids,       \* the users who may hold a reservation
          Root,       \* uid 0, which may release anyone's reservation
          Durations,  \* the durations a request may ask for
          NoLease     \* the value of a GPU nobody holds

VARIABLE held         \* held[g]: the reservation of g, or NoLease

Reservations == [uid : Uids, left : Nat \ {0}]

HeldTypeOK == held \in [Gpus -> Reservations \cup {NoLease}]

Init == held = [g \in Gpus |-> NoLease]

(* What is left of the reservation of g when d more is asked for: the      *)
(* later of the two deadlines counts.                                      *)
Longer(g, d) == IF held[g] # NoLease /\ held[g].left > d THEN held[g].left ELSE d

(* User u reserves, or extends its reservation of, every GPU of S.         *)
Reserve(u, S, d) ==
  /\ \A g \in S : held[g] = NoLease \/ held[g].uid = u
  /\ held' = [g \in Gpus |-> IF g \in S THEN [uid |-> u, left |-> Longer(g, d)]
                             ELSE held[g]]

(* User u gives up reservations: its own, or anybody's when u is root.     *)
Release(u, S) ==
  /\ \A g \in S : held[g] # NoLease /\ (held[g].uid = u \/ u = Root)
  /\ held' = [g \in Gpus |-> IF g \in S THEN NoLease ELSE held[g]]

(* One unit of time passes; a reservation ends when none of it is left.    *)
Elapse ==
  held' = [g \in Gpus |->
             IF held[g] = NoLease \/ held[g].left = 1 THEN NoLease
             ELSE [held[g] EXCEPT !.left = @ - 1]]

Next == \/ \E u \in Uids, S \in SUBSET Gpus :
             \/ \E d \in Durations : Reserve(u, S, d)
             \/ Release(u, S)
        \/ Elapse

Spec == Init /\ [][Next]_held
=============================================================================
