\* Three daemons in a row, of which two serve at once.
CONSTANTS
  Daemons = {d1, d2, d3}
  Clients = {c1, c2}
  Upgraded = {}
  VersionOf <- MCVersionOf
  Versions = {1, 2}
  Pids = {p1, p2, p3}
  Reusable = {}
  MaxInodes = 4
  MaxCalls = 3
  MaxCrashes = 0
  Slow = FALSE
  Other = Other
  None = None
SPECIFICATION Spec
SYMMETRY Symmetry
CHECK_DEADLOCK FALSE
INVARIANTS
  OneDaemonPerProject
