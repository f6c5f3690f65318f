\* One GPU, a debounce of two time units; file operations, Popen and samples may
\* fail, reloads change what is watched or stop half-way: does a lapsed lease go
\* away when the expiry loop may have died, does a failed pause still hold off
\* spawns, and what does the debounce count?
CONSTANTS
  g0 = g0
  g1 = g1
  alice = alice
  Gpus = {g0}
  Uids = {root, alice}
  Root = root
  Durations = {1}
  NoLease = NoLease
  DiskOutcomes = {TRUE, FALSE}
  Procs = {1}
  NoProc = NoProc
  MaxStops = 1
  Visible = {}
  Samples <- AllSamples
  SpawnOutcomes = {TRUE, FALSE}
  Configs <- SomeConfigs
  MaxDebounce = 2
  NoTick = NoTick
SPECIFICATION HistorySpec
INVARIANT TypeOK
PROPERTIES LapsedLeaseSwept NoSpawnUnderLease SpawnLongAfterUse
