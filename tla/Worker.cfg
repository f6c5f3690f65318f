\* Every util_target that leaves the duty cycle a sleep; memory targets below and
\* beyond the cap of 9 of 10 units.
SPECIFICATION Spec
CONSTANTS
  UtilTargets = {0, 1, 90, 95}
  Total = 10
  MemTargets = {4, 8, 15}
  NoisePct = 25
INVARIANT TypeOK
PROPERTIES TermHonored MemoryGetsTurns MemoryIsHeld
\* The process ends.
CHECK_DEADLOCK FALSE
