\* Two GPUs, root and two users, leases of one or two units, working disk.
CONSTANTS
  Gpus = {g0, g1}
  Uids = {root, alice, bob}
  Root = root
  Durations = {1, 2}
  NoLease = NoLease
  DiskOutcomes = {TRUE}
SPECIFICATION Spec
INVARIANTS TypeOK CrashSafe
PROPERTIES NoTakeover ImplementsReservation KeepsPromise
