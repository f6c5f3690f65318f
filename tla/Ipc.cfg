\* One GPU, two connections at once, root and a user.
SPECIFICATION Spec
CONSTANTS
  Gpus = {g0}
  Uids = {root, alice}
  Root = root
  Durations = {1, 2}
  NoLease = NoLease
  DiskOutcomes = {TRUE, FALSE}
  Conns = {k1, k2}
  NoRequest = NoRequest
  Unknown = Unknown
  Free = Free
  Waiting = {TRUE, FALSE}
  BootFailures = {"afterLoad"}
INVARIANTS TypeOK AnswersHold
 
