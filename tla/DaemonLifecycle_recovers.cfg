\* One client calls three times; a daemon crashes anywhere or stops; another program may get its number.
CONSTANTS
  Daemons = {d1, d2, d3}
  Clients = {c1}
  Upgraded = {}
  VersionOf <- MCVersionOf
  Versions = {1, 2}
  Pids = {p1, p2}
  Reusable = {p1}
  MaxInodes = 4
  MaxCalls = 3
  MaxCrashes = 1
  Slow = FALSE
  Other = Other
  None = None
SPECIFICATION FairSpec
CHECK_DEADLOCK FALSE
INVARIANTS
  FailureHasCause
  NoStrangerSignalled
PROPERTIES
  EveryCallEnds
