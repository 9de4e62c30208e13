\* The recovery of an atomic request that its first worker still executes.
CONSTANTS
  Ids = {r1}
  Loads = {a}
  AtomicLoads = {a}
  LaunchLoads = {}
  ClassOf <- MCClassOf
  ExecLoads = {}
  Workers = {w1, w2}
  MaxInstances = 2
  MaxAttempts = 3
  MaxFaults = 0
  AdmissionLimit = 2
  LegacyIds = {}
  Draining = TRUE
  None = None
SPECIFICATION Spec
SYMMETRY Symmetry
CHECK_DEADLOCK FALSE
INVARIANTS
  AbsenceIsProof
