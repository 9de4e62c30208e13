\* An external command whose effect is Exec, beside atomic ones.
CONSTANTS
  Ids = {r1}
  Loads = {a, x}
  AtomicLoads = {a}
  LaunchLoads = {}
  ClassOf <- MCClassOf
  ExecLoads = {x}
  Workers = {w1, w2}
  MaxInstances = 1
  MaxAttempts = 2
  MaxFaults = 0
  AdmissionLimit = 2
  LegacyIds = {}
  Draining = FALSE
  None = None
SPECIFICATION Spec
SYMMETRY Symmetry
CHECK_DEADLOCK FALSE
INVARIANTS
  WatchersSeeEveryWrite
