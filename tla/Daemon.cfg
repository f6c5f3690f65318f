\* One GPU, a worker and an earlier one, up to two stop tasks of each kind.
SPECIFICATION Spec
CONSTANTS
  Gpus = {g0}
  Procs = {1, 2}
  NoProc = NoProc
  MaxStops = 2
INVARIANTS TypeOK NoWorkerLeftBehind
PROPERTY ShutdownEnds
