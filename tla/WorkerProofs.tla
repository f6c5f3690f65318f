---------------------------- MODULE WorkerProofs ----------------------------
(***************************************************************************)
(* Proofs about Worker for any GPU memory, targets and noise.              *)
(***************************************************************************)
EXTENDS Worker, TLAPS

LEMMA CapTypes ==
  /\ VramCap \in 0 .. Total
  /\ \A t \in MemTargets : Clamped(t) \in 0 .. VramCap
BY MemAssumption DEF VramCap, Clamped, Least

(* Every size _random_size() draws lies between the target and the cap.    *)
LEMMA SizeTypes ==
  ASSUME cap \in 0 .. Total, target \in 0 .. cap
  PROVE  Sizes \subseteq target .. cap
<1> DEFINE noisy == (target * (100 + 2 * NoisePct)) \div 100
<1>1. cap \in Nat /\ target \in Nat /\ target <= cap
  BY MemAssumption
<1>2. noisy \in Int
  <2>1. target * (100 + 2 * NoisePct) \in Int
    BY <1>1, MemAssumption
  <2> QED
    BY <2>1
<1>3. Sizes = target .. Least(noisy, cap) \cup {Least(target, cap)}
  BY DEF Sizes
<1> HIDE DEF noisy
<1> QED
  BY <1>1, <1>2, <1>3 DEF Least

(* A failed allocation takes of the cap what is over the target.           *)
LEMMA ShrunkTypes ==
  ASSUME cap \in 0 .. Total, target \in 0 .. cap
  PROVE  Shrunk \in target .. cap
BY MemAssumption DEF Shrunk

LEMMA TypeInit == Init => TypeOK
BY CapTypes, MemAssumption DEF Init, TypeOK

(* A reallocation leaves a tensor of a size the cap allows, or none and a  *)
(* cap that has given way.                                                 *)
LEMMA ReallocateTypes ==
  ASSUME TypeOK, Reallocate
  PROVE  /\ mem' = "waiting" /\ target' = target
         /\ cap' \in 0 .. Total /\ target' \in 0 .. cap'
         /\ held' \in target' .. cap' \cup {0}
<1>1. cap \in 0 .. Total /\ target \in 0 .. cap /\ mem' = "waiting" /\ target' = target
  BY DEF TypeOK, Reallocate
<1>2. PICK size \in Sizes : \/ held' = size /\ cap' = cap
                            \/ held' = 0 /\ cap' = Shrunk
  BY DEF Reallocate
<1> QED
  BY <1>1, <1>2, SizeTypes, ShrunkTypes, MemAssumption

LEMMA TypeStep == TypeOK /\ [Next]_vars => TypeOK'
<1> SUFFICES ASSUME TypeOK, [Next]_vars
             PROVE  TypeOK'
  OBVIOUS
<1>1. CASE MemTurn
  <2>1. CASE Reallocate
    BY <1>1, <2>1, ReallocateTypes DEF MemTurn, TypeOK
  <2>2. CASE MemEnds
    BY <1>1, <2>2 DEF MemTurn, MemEnds, TypeOK
  <2> QED
    BY <1>1, <2>1, <2>2 DEF MemTurn
<1>2. CASE Serve \/ Terminate \/ Deliver \/ OthersMove
  BY <1>2 DEF Serve, Terminate, Deliver, OthersMove, control, tasks, memVars, TypeOK
<1>3. CASE MemWake \/ CompTurn \/ WorkEnds \/ CompWake
  BY <1>3 DEF MemWake, CompTurn, WorkEnds, CompWake, memVars, TypeOK
<1>4. CASE MainEnds \/ Die
  BY <1>4 DEF MainEnds, Die, tasks, memVars, TypeOK
<1>5. CASE UNCHANGED vars
  BY <1>5 DEF vars, control, tasks, memVars, TypeOK
<1> QED
  BY <1>1, <1>2, <1>3, <1>4, <1>5 DEF Next

-----------------------------------------------------------------------------
(* memory.py: the tensor lies between the target and the cap, and the cap, *)
(* which failed allocations take down, never goes below the target.        *)
THEOREM TypeCorrect == Spec => []TypeOK
BY TypeInit, TypeStep, PTL DEF Spec
=============================================================================
