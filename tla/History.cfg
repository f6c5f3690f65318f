\* The writer, its compaction, full disks, crashes and restarts.
SPECIFICATION Spec
CONSTANTS
  Caps = {10, 12}
  Earlier = {0, 12}
  MaxRecords = 16
  MaxQueue = 2
  MaxFaults = 2
INVARIANTS TypeOK KeepsNewest FewLinesLost InOrder
PROPERTIES BoundedFile StopReturns
\* MaxRecords ends every behaviour.
CHECK_DEADLOCK FALSE
