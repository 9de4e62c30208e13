\* One worktree removes an epoch in which another has claimed a phase.
CONSTANTS
  e1 = e1
  gone = gone
  g1 = g1
  p1 = p1
  w1 = w1
  w2 = w2
  Procs = {w1, w2}
  DirectProcs = {w1}
  Workspaces = {w1, w2}
  At <- MCAt
  Owners = {w1, w2, gone}
  OwnerOf <- MCOwnerOf
  Stale = {gone}
  Epochs = {e1, e2}
  Phases = {p1, p2}
  EpochOf <- MCEpochOf
  Lanes = {l1}
  LaneIn <- MCLaneIn
  Goals = {g1, g2}
  Strikes = {g2}
  Tasks = {t1}
  TaskIn <- MCTaskIn
  Arguments = {"completed"}
  MaxCommands = 4
  None = None
SPECIFICATION Spec
CHECK_DEADLOCK FALSE
INVARIANT OwnersDecide
