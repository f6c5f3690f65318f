\* Three ocpd starting, stopping and dying in every order while commands look
\* for them.
SPECIFICATION CliSpec
CONSTANTS
  Pids = {p1, p2, p3}
  Inodes = {i1, i2, i3}
  None = None
INVARIANTS CliTypeOK RunningIsNamed CommandsSeeDaemon
SYMMETRY Symmetry
