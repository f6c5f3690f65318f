----------------------------- MODULE CliProofs -----------------------------
(***************************************************************************)
(* Proofs about Pidfile and the commands over it, for any number of        *)
(* processes and files.                                                    *)
(*                                                                         *)
(* What makes RunningIsNamed inductive is that, while no release has       *)
(* robbed another ocpd, every open file is the one the path names, and     *)
(* that a lock is held from the flock() on.  A command does nothing to     *)
(* module Pidfile, and what a command has open, or has read, is the file,  *)
(* or the pid, of any ocpd that has run since it began.                    *)
(***************************************************************************)
EXTENDS Cli, FiniteSetTheorems, TLAPS

OpenIsNamed == ~robbed => \A p \in Pids : fd[p] # None => path = fd[p]
HoldsLock   == \A p \in Pids : at[p] \in Locking => locker[fd[p]] = p
WrotePid    == \A p \in Pids : at[p] = "running" => content[fd[p]] = p

IInv == TypeOK /\ OpenIsNamed /\ HoldsLock /\ WrotePid

-----------------------------------------------------------------------------
LEMMA InitIInv == Init => IInv
BY NoneAssumption
   DEF Init, IInv, TypeOK, OpenIsNamed, HoldsLock, WrotePid, Opened, Locking

(* Every step keeps the type, and which points have a file open.           *)
LEMMA TypeStep == TypeOK /\ [Next]_vars => TypeOK'
<1> SUFFICES ASSUME TypeOK, [Next]_vars PROVE TypeOK'
  OBVIOUS
<1> USE NoneAssumption DEF TypeOK, Opened
<1>1. ASSUME NEW p \in Pids, Open(p) PROVE TypeOK'
  BY <1>1 DEF Open
<1>2. ASSUME NEW p \in Pids, Lock(p) PROVE TypeOK'
  BY <1>2 DEF Lock
<1>3. ASSUME NEW p \in Pids, Truncate(p) \/ WritePid(p) PROVE TypeOK'
  BY <1>3 DEF Truncate, WritePid
<1>4. ASSUME NEW p \in Pids, Unlock(p) PROVE TypeOK'
  BY <1>4 DEF Unlock
<1>5. ASSUME NEW p \in Pids, Close(p) \/ Unlink(p) PROVE TypeOK'
  BY <1>5 DEF Close, Unlink, fileVars
<1>6. ASSUME NEW p \in Pids, Die(p) PROVE TypeOK'
  BY <1>6 DEF Die
<1>7. CASE UNCHANGED vars
  BY <1>7 DEF vars, procVars, fileVars
<1> QED
  BY <1>1, <1>2, <1>3, <1>4, <1>5, <1>6, <1>7 DEF Next

(* A new file is only made when the path names none, and so nothing is     *)
(* open; an unlink leaves an open file only by robbing it.                 *)
LEMMA NamedStep == IInv /\ [Next]_vars => OpenIsNamed'
<1> SUFFICES ASSUME IInv, [Next]_vars, ~robbed',
                    NEW q \in Pids, fd'[q] # None
             PROVE  path' = fd'[q]
  BY DEF OpenIsNamed
<1> USE NoneAssumption DEF IInv, TypeOK, OpenIsNamed, Opened
<1>1. ASSUME NEW p \in Pids, Open(p) PROVE path' = fd'[q]
  BY <1>1 DEF Open
<1>2. ASSUME NEW p \in Pids, Lock(p) PROVE path' = fd'[q]
  BY <1>2 DEF Lock
<1>3. ASSUME NEW p \in Pids, Truncate(p) \/ WritePid(p) \/ Unlock(p)
      PROVE  path' = fd'[q]
  BY <1>3 DEF Truncate, WritePid, Unlock
<1>4. ASSUME NEW p \in Pids, Close(p) PROVE path' = fd'[q]
  BY <1>4 DEF Close, fileVars
<1>5. ASSUME NEW p \in Pids, Unlink(p) PROVE path' = fd'[q]
  BY <1>5 DEF Unlink
<1>6. ASSUME NEW p \in Pids, Die(p) PROVE path' = fd'[q]
  BY <1>6 DEF Die
<1>7. CASE UNCHANGED vars
  BY <1>7 DEF vars, procVars, fileVars
<1> QED
  BY <1>1, <1>2, <1>3, <1>4, <1>5, <1>6, <1>7 DEF Next

(* Only the process that has a lock gives it up.                           *)
LEMMA LockStep == IInv /\ [Next]_vars => HoldsLock'
<1> SUFFICES ASSUME IInv, [Next]_vars,
                    NEW q \in Pids, at'[q] \in Locking
             PROVE  locker'[fd'[q]] = q
  BY DEF HoldsLock
<1> USE NoneAssumption DEF IInv, TypeOK, HoldsLock, Opened, Locking
<1>1. ASSUME NEW p \in Pids, Open(p) PROVE locker'[fd'[q]] = q
  BY <1>1 DEF Open
<1>2. ASSUME NEW p \in Pids, Lock(p) PROVE locker'[fd'[q]] = q
  BY <1>2 DEF Lock
<1>3. ASSUME NEW p \in Pids, Truncate(p) \/ WritePid(p)
      PROVE  locker'[fd'[q]] = q
  BY <1>3 DEF Truncate, WritePid
<1>4. ASSUME NEW p \in Pids, Unlock(p) PROVE locker'[fd'[q]] = q
  BY <1>4 DEF Unlock
<1>5. ASSUME NEW p \in Pids, Close(p) \/ Unlink(p) PROVE locker'[fd'[q]] = q
  BY <1>5 DEF Close, Unlink, fileVars
<1>6. ASSUME NEW p \in Pids, Die(p) PROVE locker'[fd'[q]] = q
  BY <1>6 DEF Die
<1>7. CASE UNCHANGED vars
  BY <1>7 DEF vars, procVars, fileVars
<1> QED
  BY <1>1, <1>2, <1>3, <1>4, <1>5, <1>6, <1>7 DEF Next

(* Whoever writes to a file has its lock, and a new file is not open.      *)
LEMMA PidStep == IInv /\ [Next]_vars => WrotePid'
<1> SUFFICES ASSUME IInv, [Next]_vars,
                    NEW q \in Pids, at'[q] = "running"
             PROVE  content'[fd'[q]] = q
  BY DEF WrotePid
<1> USE NoneAssumption DEF IInv, TypeOK, WrotePid, Opened
<1>1. ASSUME NEW p \in Pids, Open(p) PROVE content'[fd'[q]] = q
  BY <1>1 DEF Open, Free
<1>2. ASSUME NEW p \in Pids, Lock(p) PROVE content'[fd'[q]] = q
  BY <1>2 DEF Lock
<1>3. ASSUME NEW p \in Pids, Truncate(p) \/ WritePid(p)
      PROVE  content'[fd'[q]] = q
  BY <1>3 DEF Truncate, WritePid, HoldsLock, Locking
<1>4. ASSUME NEW p \in Pids, Unlock(p) PROVE content'[fd'[q]] = q
  BY <1>4 DEF Unlock
<1>5. ASSUME NEW p \in Pids, Close(p) \/ Unlink(p) PROVE content'[fd'[q]] = q
  BY <1>5 DEF Close, Unlink, fileVars
<1>6. ASSUME NEW p \in Pids, Die(p) PROVE content'[fd'[q]] = q
  BY <1>6 DEF Die
<1>7. CASE UNCHANGED vars
  BY <1>7 DEF vars, procVars, fileVars
<1> QED
  BY <1>1, <1>2, <1>3, <1>4, <1>5, <1>6, <1>7 DEF Next

-----------------------------------------------------------------------------
(* Pidfile.acquire() and release(): while no release has unlinked a file   *)
(* another ocpd had open, a running ocpd is the one its pidfile names.     *)
THEOREM NamedWhileNotRobbed == Spec => []RunningIsNamed
<1>1. IInv /\ [Next]_vars => IInv'
  BY TypeStep, NamedStep, LockStep, PidStep DEF IInv
<1>2. IInv => RunningIsNamed
  BY NoneAssumption DEF IInv, TypeOK, OpenIsNamed, WrotePid, RunningIsNamed, Opened
<1> QED
  BY InitIInv, <1>1, <1>2, PTL DEF Spec

(* Pidfile.acquire() and release(): two daemons on one host need a release *)
(* that unlinked a file another ocpd had open; refused starts, crashes and *)
(* files left behind never suffice.                                        *)
THEOREM OneDaemonWhileNotRobbed == Spec => [](~robbed => OneDaemon)
<1>1. ASSUME RunningIsNamed, ~robbed
      PROVE  OneDaemon
  <2> DEFINE running == {p \in Pids : at[p] = "running"}
  <2>1. \A p, q \in running : p = q
    BY <1>1 DEF RunningIsNamed
  <2>2. running = {} \/ \E p : running = {p}
    BY <2>1
  <2>3. Cardinality(running) \in {0, 1}
    BY <2>2, FS_EmptySet, FS_Singleton
  <2> QED
    BY <2>3 DEF OneDaemon
<1> QED
  BY <1>1, NamedWhileNotRobbed, PTL

-----------------------------------------------------------------------------
(* The commands.                                                           *)

OnItsTrack ==
  ~robbed =>
    \A p \in steady : /\ pc = "read" => file = fd[p]
                      /\ pc \notin {"open", "read"} => pid = p
                      /\ root => pc # "down" /\ cmd # "started"

CliIInv == CliTypeOK /\ IInv /\ OnItsTrack

LEMMA CliIsPidfile == [CliNext]_<<vars, cliVars, steady>> => [Next]_vars
BY DEF CliNext, Ocpd

(* Commands keep their types.                                              *)
LEMMA CommandTypes == CliTypeOK /\ Command /\ UNCHANGED vars => CliTypeOK'
<1> SUFFICES ASSUME CliTypeOK, Command, UNCHANGED vars
             PROVE  CliTypeOK'
  OBVIOUS
<1> USE NoneAssumption DEF CliTypeOK
<1>0. TypeOK' /\ at' = at
  BY DEF vars, procVars, fileVars, TypeOK
<1>1. ASSUME NEW c \in {"on", "off", "status"}, NEW r \in BOOLEAN, Begin(c, r)
      PROVE  CliTypeOK'
  BY <1>0, <1>1 DEF Begin, Ended
<1>2. CASE OpenFile
  BY <1>0, <1>2 DEF OpenFile, TypeOK, Ended
<1>3. CASE ReadFile
  BY <1>0, <1>3 DEF ReadFile, TypeOK, Ended
<1>4. CASE FoundAlive
  BY <1>0, <1>4 DEF FoundAlive, SaysAlive, Goto, Ended
<1>5. CASE FoundNone
  BY <1>0, <1>5 DEF FoundNone, Goto, Ended
<1>6. CASE Signal \/ Poll
  BY <1>0, <1>6 DEF Signal, Poll, Goto, Ended
<1> QED
  BY <1>1, <1>2, <1>3, <1>4, <1>5, <1>6 DEF Command

LEMMA CliTypeStep ==
  CliTypeOK /\ [CliNext]_<<vars, cliVars, steady>> => CliTypeOK'
<1> SUFFICES ASSUME CliTypeOK, [CliNext]_<<vars, cliVars, steady>>
             PROVE  CliTypeOK'
  OBVIOUS
<1>1. TypeOK'
  BY CliIsPidfile, TypeStep DEF CliTypeOK
<1>2. CASE Ocpd
  BY <1>1, <1>2 DEF Ocpd, cliVars, CliTypeOK
<1>3. CASE UNCHANGED <<vars, cliVars, steady>>
  BY <1>1, <1>3 DEF vars, procVars, cliVars, CliTypeOK
<1> QED
  BY <1>2, <1>3, CommandTypes DEF CliNext

(* An ocpd that goes on running keeps its file open.                       *)
LEMMA RunningKeepsFile ==
  ASSUME TypeOK, Next, NEW p \in Pids, at[p] = "running", at'[p] = "running"
  PROVE  fd'[p] = fd[p] /\ (robbed => robbed')
<1> USE DEF TypeOK
<1>1. ASSUME NEW q \in Pids, Open(q) \/ Lock(q) \/ Truncate(q) \/ WritePid(q)
      PROVE  fd'[p] = fd[p] /\ robbed' = robbed
  BY <1>1 DEF Open, Lock, Truncate, WritePid
<1>2. ASSUME NEW q \in Pids, Unlock(q) \/ Close(q) \/ Unlink(q) \/ Die(q)
      PROVE  fd'[p] = fd[p] /\ (robbed => robbed')
  BY <1>2 DEF Unlock, Close, Unlink, Die
<1> QED
  BY <1>1, <1>2 DEF Next

(* What a running ocpd has open is what the path names, and says its pid.  *)
LEMMA SteadyIsNamed ==
  ASSUME CliIInv, ~robbed, NEW p \in steady
  PROVE  p \in Pids /\ at[p] = "running" /\ path = fd[p] /\ content[fd[p]] = p
BY NoneAssumption
   DEF CliIInv, CliTypeOK, IInv, TypeOK, OpenIsNamed, WrotePid, Opened

LEMMA TrackStep ==
  CliIInv /\ [CliNext]_<<vars, cliVars, steady>> => OnItsTrack'
<1> SUFFICES ASSUME CliIInv, [CliNext]_<<vars, cliVars, steady>>, ~robbed',
                    NEW p \in steady'
             PROVE  /\ pc' = "read" => file' = fd'[p]
                    /\ pc' \notin {"open", "read"} => pid' = p
                    /\ root' => pc' # "down" /\ cmd' # "started"
  BY DEF OnItsTrack
<1> DEFINE Kept == /\ pc' = "read" => file' = fd'[p]
                   /\ pc' \notin {"open", "read"} => pid' = p
                   /\ root' => pc' # "down" /\ cmd' # "started"
<1>1. CASE Ocpd
  <2>1. p \in steady /\ p \in Pids /\ at[p] = "running" /\ at'[p] = "running"
    BY <1>1 DEF Ocpd, CliIInv, CliTypeOK
  <2>2. fd'[p] = fd[p] /\ ~robbed
    BY <1>1, <2>1, RunningKeepsFile DEF Ocpd, CliIInv, IInv
  <2> QED
    BY <1>1, <2>1, <2>2 DEF Ocpd, cliVars, CliIInv, OnItsTrack
<1>2. ASSUME NEW c, NEW r, Begin(c, r), c \in {"on", "off", "status"}
      PROVE  Kept
  BY <1>2 DEF Begin
<1>3. ASSUME UNCHANGED vars, p \in steady,
             OpenFile \/ ReadFile \/ FoundAlive \/ FoundNone \/ Signal \/ Poll
      PROVE  Kept
  <2>0. ~robbed /\ fd' = fd
    BY <1>3 DEF vars, procVars
  <2>1. p \in Pids /\ at[p] = "running" /\ path = fd[p] /\ content[fd[p]] = p
    BY <1>3, <2>0, SteadyIsNamed
  <2>2. /\ pc = "read" => file = fd[p]
        /\ pc \notin {"open", "read"} => pid = p
        /\ root => pc # "down" /\ cmd # "started"
    BY <1>3, <2>0 DEF CliIInv, OnItsTrack
  <2>3. fd[p] # None
    BY <2>1 DEF CliIInv, IInv, TypeOK, Opened
  <2>4. CASE OpenFile
    BY <2>0, <2>1, <2>2, <2>3, <2>4 DEF OpenFile
  <2>5. CASE ReadFile
    BY <2>0, <2>1, <2>2, <2>5 DEF ReadFile
  <2>6. CASE FoundAlive
    BY <2>2, <2>6 DEF FoundAlive, Goto
  <2>7. CASE FoundNone \/ Signal \/ Poll
    <3>1. pc \notin {"open", "read"} /\ pid = p
      BY <2>2, <2>7 DEF FoundNone, Signal, Poll
    <3>2. SaysDead => ~root
      BY <2>1, <3>1, NoneAssumption DEF SaysDead
    <3> QED
      BY <2>2, <2>7, <3>1, <3>2 DEF FoundNone, Signal, Poll, Goto
  <2> QED
    BY <1>3, <2>4, <2>5, <2>6, <2>7
<1>4. CASE UNCHANGED <<vars, cliVars, steady>>
  BY <1>4 DEF vars, procVars, cliVars, CliIInv, OnItsTrack
<1>5. ASSUME OpenFile \/ ReadFile \/ FoundAlive \/ FoundNone \/ Signal \/ Poll
      PROVE  steady' = steady
  BY <1>5 DEF OpenFile, ReadFile, FoundAlive, FoundNone, Signal, Poll, Goto
<1> QED
  BY <1>1, <1>2, <1>3, <1>4, <1>5 DEF CliNext, Command

LEMMA CliInvariant == CliSpec => []CliIInv
<1>1. CliInit => CliIInv
  BY InitIInv, NoneAssumption DEF CliInit, CliIInv, CliTypeOK, OnItsTrack, IInv, Ended
<1>2. CliIInv /\ [CliNext]_<<vars, cliVars, steady>> => CliIInv'
  <2> SUFFICES ASSUME CliIInv, [CliNext]_<<vars, cliVars, steady>>
               PROVE  CliIInv'
    OBVIOUS
  <2>1. IInv'
    BY CliIsPidfile, TypeStep, NamedStep, LockStep, PidStep DEF CliIInv, IInv
  <2> QED
    BY <2>1, CliTypeStep, TrackStep DEF CliIInv
<1> QED
  BY <1>1, <1>2, PTL DEF CliSpec

-----------------------------------------------------------------------------
(* The commands, and the pidfile under them, keep their types.             *)
THEOREM CliTypeCorrect == CliSpec => []CliTypeOK
<1>1. CliIInv => CliTypeOK
  BY DEF CliIInv
<1> QED
  BY <1>1, CliInvariant, PTL

(* daemon_on(), daemon_off(), daemon_status(): while an ocpd runs, every   *)
(* command of root finds that one.                                         *)
THEOREM CommandsFindDaemon == CliSpec => []CommandsSeeDaemon
<1>1. CliIInv => CommandsSeeDaemon
  BY DEF CliIInv, OnItsTrack, CommandsSeeDaemon
<1> QED
  BY <1>1, CliInvariant, PTL
=============================================================================
