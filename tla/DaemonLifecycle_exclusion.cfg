\* Two clients of different executables spawn, restart and stop daemons, of which one crashes anywhere.
CONSTANTS
  Daemons = {d1, d2}
  Clients = {c1, c2}
  Upgraded = {c2}
  VersionOf <- MCVersionOf
  Versions = {1, 2}
  Pids = {p1, p2}
  Reusable = {}
  MaxInodes = 4
  MaxCalls = 2
  MaxCrashes = 1
  Slow = FALSE
  Other = Other
  None = None
SPECIFICATION Spec
SYMMETRY Numbers
CHECK_DEADLOCK FALSE
INVARIANTS
  OneDaemonUntilUnlinked
  ServerIsIdentified
