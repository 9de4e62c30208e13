\* Two processes, two worktrees, a published RFC and a new one.
CONSTANTS
  Worktrees = {w1, w2}
  Branches = {main, topic}
  main = main
  Procs = {p1, p2}
  p1 = p1
  p2 = p2
  Resident = {p1}
  KindsOf <- MCKindsOf
  Anchors = {e, n, x}
  e = e
  x = x
  Places = {0, 1}
  Retired = 9
  Texts = {t1, t2}
  t1 = t1
  t2 = t2
  Template = t1
  Broken = Broken
  Marked <- MCMarked
  Features = {f1}
  None = None
  FirstTree <- MCFirstTree
  FirstRows <- MCFirstRows
  FirstBranch <- MCFirstBranch
  MaxCommits = 2
  MaxCommands = 1
  MaxEvents = 2
SPECIFICATION Spec
SYMMETRY Symmetry
CHECK_DEADLOCK FALSE
INVARIANTS
  TypeOK
  SharedIsPublished
  ReadersSeeTheCommit
  FeaturesAreTheOnesGiven
PROPERTIES
  PublishedRowsStay
  ListsFollowTheCheckout
