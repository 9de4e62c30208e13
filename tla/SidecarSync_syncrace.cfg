\* A write and a sync of one machine, beside a machine that publishes a change.
CONSTANTS
  Machines = {m1, m2}
  m1 = m1
  m2 = m2
  Rows = {r1, r2}
  Workers = {a1, s1, b1}
  a1 = a1
  a2 = a2
  b1 = b1
  b2 = b2
  c1 = c1
  e1 = e1
  p1 = p1
  s1 = s1
  MachineOf <- MCMachineOf
  KindOf <- MCKindOf
  Deleters = {a1, b1}
  AutoPush = {m2}
  Fragile <- Anywhere
  MaxFaults = 0
  Old = Old
  Absent = Absent
  None = None
SPECIFICATION Spec
CHECK_DEADLOCK FALSE
INVARIANT
  SuccessIsCheckpointed
