\* One ocpd: does `status` tell every user that it runs?
SPECIFICATION CliSpec
CONSTANTS
  Pids = {p1, p2}
  Inodes = {i1, i2}
  None = None
INVARIANT StatusForAnyone
SYMMETRY Symmetry
