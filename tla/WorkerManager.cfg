\* One GPU, its current worker and an earlier one, up to two stop tasks of
\* each kind.
CONSTANTS
  Gpus = {g0}
  Procs = {1, 2}
  NoProc = NoProc
  MaxStops = 2
SPECIFICATION Spec
INVARIANT TypeOK
PROPERTIES StopEndsProcess DeadIsForgotten LiveForgottenByStaleStop
