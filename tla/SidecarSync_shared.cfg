\* A machine writes and syncs without the gate, the other merges and pushes after every gated write; one command or fetch fails anywhere, or goes on without the lock.
CONSTANTS
  Machines = {m1, m2}
  m1 = m1
  m2 = m2
  Rows = {r1, r2}
  Workers = {a1, s1, b1, b2}
  a1 = a1
  a2 = a2
  b1 = b1
  b2 = b2
  c1 = c1
  e1 = e1
  p1 = p1
  s1 = s1
  MachineOf <- MCMachineOf
  KindOf <- MCKindOf
  Deleters = {a1, b1, b2}
  AutoPush = {m2}
  Fragile <- Anywhere
  MaxFaults = 1
  Old = Old
  Absent = Absent
  None = None
SPECIFICATION Spec
SYMMETRY Symmetry
CHECK_DEADLOCK FALSE
INVARIANTS
  TypeOK
  MergesKeepBothSides
  OnlyImportsLoseWrites
  QuietMachinesAreCommitted
PROPERTIES
  ConflictNeedsTwoChanges
  PublishedRowsNeverRevert
