------------------------------ MODULE History ------------------------------
(***************************************************************************)
(* ocp.history.HistoryStore: a queue the handlers put entries in, one      *)
(* writer task that moves them to a ring in memory and appends them to a   *)
(* file, and a compaction that rewrites the file from the ring.            *)
(*                                                                         *)
(* An entry is the number of its record() call.  A line of the file is an  *)
(* entry or Junk, what load() drops as malformed: an append that runs into *)
(* a full disk may leave a part of its line, and the next append goes on   *)
(* in that line.  The writer awaits only in queue.get(): "compacting" and  *)
(* "draining" are points inside one of its handlers, where no other task   *)
(* of the daemon runs but where the process may be killed.                 *)
(***************************************************************************)
EXTENDS Naturals, Sequences, FiniteSets, Functions

CONSTANTS Caps,        \* the values history.max_entries takes
          Earlier,     \* lines earlier runs of the daemon may have left
          MaxRecords,  \* bound: entries recorded, the earlier ones included
          MaxQueue,    \* bound: the queue when another entry is recorded
          MaxFaults    \* bound: file operations that fail

ASSUME CapsAssumption == Caps \subseteq Nat \ 0 .. 9
ASSUME BoundsAssumption == /\ Earlier \subseteq 0 .. MaxRecords
                           /\ {MaxRecords, MaxQueue, MaxFaults} \subseteq Nat

VARIABLES writer,    \* where self._writer_task is; "down": no ocpd runs
          queue,     \* self._queue
          ring,      \* self._ring
          max,       \* self._max
          counted,   \* self._lines_on_disk
          file,      \* the lines of the history file
          closed,    \* its last line ends in a newline
          recorded,  \* the entries handed to record() so far
          faults     \* the file operations that failed so far

volatile == <<queue, ring, max, counted>>
disk     == <<file, closed>>
vars     == <<writer, volatile, disk, recorded, faults>>

Stop == 0        \* the None that ends the writer
Junk == 0        \* a line load() cannot parse
Entries == 1 .. MaxRecords

TypeOK == /\ writer \in {"down", "waiting", "compacting", "draining", "ended"}
          /\ queue \in Seq(Entries \cup {Stop}) /\ ring \in Seq(Entries)
          /\ max \in Caps /\ Len(ring) <= max
          /\ counted \in Nat
          /\ file \in Seq(Entries \cup {Junk}) /\ closed \in BOOLEAN
          /\ recorded \in 0 .. MaxRecords /\ faults \in 0 .. MaxFaults

-----------------------------------------------------------------------------
(* int(self._max * COMPACT_OVERSHOOT)                                      *)
Overshoot(n) == (n * 12) \div 10

(* Mutant: the oldest entries are kept.                                    *)
Oldest(s, n) == IF Len(s) > n THEN SubSeq(s, 1, n) ELSE s

(* What a deque(maxlen=n) keeps of s.                                      *)
Newest(s, n) == IF Len(s) > n THEN SubSeq(s, Len(s) - n + 1, Len(s)) ELSE s

(* The lines that load() keeps, in their order: the n-th of them is the    *)
(* one with n - 1 of them before it.                                       *)
Readable(lines) ==
  LET kept == {i \in DOMAIN lines : lines[i] # Junk}
      before(i) == Cardinality({j \in kept : j < i})
  IN  [n \in 1 .. Cardinality(kept) |-> lines[CHOOSE i \in kept : before(i) = n - 1]]

(* The file after `line` was written at its end.                           *)
Written(line) == IF closed THEN Append(file, line)
                           ELSE [file EXCEPT ![Len(file)] = Junk]

Init == /\ writer = "down"
        /\ recorded \in Earlier
        /\ file = [i \in 1 .. recorded |-> i] /\ closed = TRUE
        /\ queue = <<>> /\ ring = <<>> /\ max \in Caps /\ counted = 0
        /\ faults = 0

-----------------------------------------------------------------------------
(* Mutant: load() counts the entries it kept, not the lines it read.       *)
BootCountsRing == /\ writer = "down" /\ recorded < MaxRecords
                  /\ writer' = "waiting"
                  /\ max' \in Caps
                  /\ ring' = Newest(Readable(file), max')
                  /\ counted' = Len(ring')
                  /\ recorded' = recorded + 1
                  /\ queue' = <<recorded'>>
                  /\ UNCHANGED <<disk, faults>>

(* load(), start_writer() and record("daemon_started").                    *)
Boot == /\ writer = "down" /\ recorded < MaxRecords
        /\ writer' = "waiting"
        /\ max' \in Caps
        /\ counted' = Len(Readable(file))
        /\ ring' = Newest(Readable(file), max')
        /\ recorded' = recorded + 1
        /\ queue' = <<recorded'>>
        /\ UNCHANGED <<disk, faults>>

(* An entry put after the writer has ended is never taken, and left out.   *)
Record == /\ writer = "waiting" /\ Len(queue) < MaxQueue
          /\ recorded < MaxRecords
          /\ recorded' = recorded + 1
          /\ queue' = Append(queue, recorded')
          /\ UNCHANGED <<writer, ring, max, counted, disk, faults>>

(* Mutant: the ring keeps its size.                                        *)
SetMaxOnly(n) == /\ writer \in {"waiting", "ended"}
                 /\ max' = n
                 /\ UNCHANGED <<writer, queue, ring, counted, disk, recorded, faults>>

SetMaxEntries(n) == /\ writer \in {"waiting", "ended"}
                    /\ max' = n /\ ring' = Newest(ring, n)
                    /\ UNCHANGED <<writer, queue, counted, disk, recorded, faults>>

StopWriter == /\ writer = "waiting" /\ Stop \notin Range(queue)
              /\ queue' = Append(queue, Stop)
              /\ UNCHANGED <<writer, ring, max, counted, disk, recorded, faults>>

(* A shutdown that fails before stop_writer() leaves the writer to the     *)
(* cancellation at the end of asyncio.run().                               *)
Cancel == /\ writer = "waiting"
          /\ writer' = "draining"
          /\ UNCHANGED <<volatile, disk, recorded, faults>>

-----------------------------------------------------------------------------
(* Mutant: the newline is forgotten.                                       *)
AppendUnended(e) == /\ file' = Written(e) /\ closed' = FALSE
                    /\ counted' = counted + 1
                    /\ UNCHANGED faults

AppendWorks(e) == /\ file' = Written(e) /\ closed' = TRUE
                  /\ counted' = counted + 1
                  /\ UNCHANGED faults

(* An OSError: nothing, a part of the line, or all but its newline is in   *)
(* the file.                                                               *)
AppendFails(e) == /\ faults < MaxFaults /\ faults' = faults + 1
                  /\ \/ UNCHANGED disk
                     \/ file' \in {Written(Junk), Written(e)} /\ closed' = FALSE
                  /\ UNCHANGED counted

(* The part of both loops that handles an entry.                           *)
TakeEntry == LET e == Head(queue)
             IN  /\ e # Stop
                 /\ queue' = Tail(queue)
                 /\ ring' = Newest(Append(ring, e), max)
                 /\ AppendWorks(e) \/ AppendFails(e)
                 /\ UNCHANGED <<max, recorded>>

Write == /\ writer = "waiting" /\ queue # <<>>
         /\ TakeEntry
         /\ writer' = IF counted' > Overshoot(max) THEN "compacting" ELSE writer

(* Mutant: the ring is added to the file instead of replacing it.          *)
CompactAppends == /\ file' = file \o ring /\ closed' = TRUE
                  /\ counted' = Len(ring)
                  /\ UNCHANGED faults

CompactWorks == /\ file' = ring /\ closed' = TRUE
                /\ counted' = Len(ring)
                /\ UNCHANGED faults

CompactFails == /\ faults < MaxFaults /\ faults' = faults + 1
                /\ UNCHANGED <<disk, counted>>

Compact == /\ writer = "compacting" /\ writer' = "waiting"
           /\ CompactWorks \/ CompactFails
           /\ UNCHANGED <<queue, ring, max, recorded>>

(* Mutant: the None is skipped.                                            *)
TakeStopOn == /\ writer = "waiting" /\ queue # <<>> /\ Head(queue) = Stop
              /\ queue' = Tail(queue)
              /\ UNCHANGED <<writer, ring, max, counted, disk, recorded, faults>>

(* The None ends the loop; what was put behind it is left to the drain.    *)
TakeStop == /\ writer = "waiting" /\ queue # <<>> /\ Head(queue) = Stop
            /\ queue' = Tail(queue)
            /\ writer' = "draining"
            /\ UNCHANGED <<ring, max, counted, disk, recorded, faults>>

DrainStop == /\ writer = "draining" /\ queue # <<>> /\ Head(queue) = Stop
             /\ queue' = Tail(queue)
             /\ UNCHANGED <<writer, ring, max, counted, disk, recorded, faults>>

DrainEntry == writer = "draining" /\ queue # <<>> /\ TakeEntry /\ UNCHANGED writer

DrainEnd == /\ writer = "draining" /\ queue = <<>>
            /\ writer' = "ended"
            /\ UNCHANGED <<volatile, disk, recorded, faults>>

Writer == Write \/ Compact \/ TakeStop \/ DrainStop \/ DrainEntry \/ DrainEnd

-----------------------------------------------------------------------------
Handled == recorded - Cardinality(Range(queue) \ {Stop})

Forget == queue' = <<>> /\ ring' = <<>> /\ counted' = 0 /\ UNCHANGED max

Exit == /\ writer = "ended" /\ writer' = "down"
        /\ Forget
        /\ UNCHANGED <<disk, recorded, faults>>

(* What was still in the queue is gone; its numbers are given out again.   *)
Crash == /\ writer # "down" /\ writer' = "down"
         /\ Forget
         /\ recorded' = Handled
         /\ UNCHANGED <<disk, faults>>

Next == \/ Boot \/ Record \/ StopWriter \/ Cancel \/ Exit \/ Crash
        \/ Write \/ Compact \/ TakeStop \/ DrainStop \/ DrainEntry \/ DrainEnd
        \/ \E n \in Caps : SetMaxEntries(n)

Spec == Init /\ [][Next]_vars /\ WF_vars(Writer)

-----------------------------------------------------------------------------
(* Without failing file operations the file holds, after any crashes,      *)
(* restarts, compactions and changes of max_entries, the newest entries    *)
(* that were handled: every one of the last 10, in order and once, and     *)
(* nothing that was recorded before a graceful stop is missing.            *)
KeepsNewest ==
  faults = 0 =>
    /\ \A i \in 1 .. Len(file) : file[i] = Handled - Len(file) + i
    /\ Len(file) >= 10 \/ Len(file) = Handled

(* A failed append costs the file at most two of the entries the ring      *)
(* shows: its own, and the one whose line joins the torn one.              *)
FewLinesLost == Cardinality(Range(ring) \ Range(file)) <= 2 * faults

(* Failing file operations never reorder or repeat entries: what load()    *)
(* reads is in the order of the record() calls.                            *)
InOrder == \A i, j \in DOMAIN file :
             i < j /\ file[i] # Junk /\ file[j] # Junk => file[i] < file[j]

(* The loop leaves no more than max_entries * 1.2 lines behind an entry it *)
(* wrote, whatever load() found; each failure before adds at most one line *)
(* that _lines_on_disk does not know of.                                   *)
BoundedFile ==
  [][(Write \/ Compact) /\ writer' = "waiting" /\ faults' = faults
       => Len(file') <= Overshoot(max) + faults]_vars

(* The stop_writer() of the shutdown returns.                              *)
StopReturns == Stop \in Range(queue) ~> writer \in {"ended", "down"}
=============================================================================
