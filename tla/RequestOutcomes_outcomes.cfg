\* One id sent as an atomic command or as a workbench launch, through crashes,
\* two failures of the ledger, the database or finalization, and both retentions.
CONSTANTS
  Ids = {r1}
  Loads = {a, l}
  AtomicLoads = {a}
  LaunchLoads = {l}
  ClassOf <- MCClassOf
  ExecLoads = {}
  Workers = {w1, w2}
  MaxInstances = 2
  MaxAttempts = 3
  MaxFaults = 2
  AdmissionLimit = 2
  LegacyIds = {}
  Draining = FALSE
  None = None
SPECIFICATION FairSpec
CHECK_DEADLOCK FALSE
INVARIANTS
  AtMostOnce
  ReservationHasOwner
  MarkerAfterRetention
  StoredOutcomesAreTrue
  ApprovalIsHeard
  RevisionCoversWrites
PROPERTIES
  PromiseKept
  EveryRequestAnswered
