\* One GPU that always looks quiet, working disk and Popen: requests, ticks,
\* expiry and the stop tasks of a worker and its predecessor in every order.
CONSTANTS
  g0 = g0
  g1 = g1
  alice = alice
  Gpus = {g0}
  Uids = {root, alice}
  Root = root
  Durations = {1}
  NoLease = NoLease
  DiskOutcomes = {TRUE}
  Procs = {1, 2}
  NoProc = NoProc
  MaxStops = 2
  Visible = {g0}
  Samples <- QuietAlways
  SpawnOutcomes = {TRUE}
  Configs <- Patient
  MaxDebounce = 2
  NoTick = NoTick
SPECIFICATION Spec
INVARIANT LeasedMeansStopping
PROPERTY IdleGpuGetsWorker
