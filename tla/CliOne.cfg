\* The same three: are there never two?
SPECIFICATION CliSpec
CONSTANTS
  Pids = {p1, p2, p3}
  Inodes = {i1, i2, i3}
  None = None
INVARIANT OneDaemon
SYMMETRY Symmetry
