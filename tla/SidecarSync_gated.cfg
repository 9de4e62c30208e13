\* Every command that merges is under the gate: a machine commits and pushes by hand, the other merges after every write; one fault.
CONSTANTS
  Machines = {m1, m2}
  m1 = m1
  m2 = m2
  Rows = {r1, r2}
  Workers = {e1, p1, b1, b2}
  a1 = a1
  a2 = a2
  b1 = b1
  b2 = b2
  c1 = c1
  e1 = e1
  p1 = p1
  s1 = s1
  MachineOf <- MCMachineOf
  KindOf <- MCKindOf
  Deleters = {e1, b1, b2}
  AutoPush = {m2}
  Fragile <- Anywhere
  MaxFaults = 1
  Old = Old
  Absent = Absent
  None = None
SPECIFICATION Spec
SYMMETRY Symmetry
CHECK_DEADLOCK FALSE
INVARIANTS
  SuccessIsCheckpointed
