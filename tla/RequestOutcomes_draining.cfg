\* Two atomic payloads and an external one under one id, a daemon whose workers
\* run on beside its successor, and a reservation without a recovery class.
CONSTANTS
  Ids = {r1, r2}
  Loads = {a1, a2, e}
  AtomicLoads = {a1, a2}
  LaunchLoads = {}
  ClassOf <- MCClassOf
  ExecLoads = {}
  Workers = {w1, w2}
  MaxInstances = 2
  MaxAttempts = 3
  MaxFaults = 0
  AdmissionLimit = 2
  LegacyIds = {r2}
  Draining = TRUE
  None = None
SPECIFICATION Spec
SYMMETRY Symmetry
CHECK_DEADLOCK FALSE
INVARIANTS
  OnePayloadPerId
  SuccessIsReal
  LegacyStaysIndeterminate
