\* A parent table and a child table, two connections and a client that keeps
\* a result.
SPECIFICATION Spec
CONSTANTS
  parent = parent
  child = child
  k1 = k1
  k2 = k2
  k3 = k3
  None = None
  Absent = Absent
  Tables = {parent, child}
  Rows = {r1, r2}
  Keys <- MCKeys
  Parent <- MCParent
  Conns = {writer, reader}
  Writers = {writer}
  Readers = {reader}
  Shown = {parent}
  Clients = {cockpit}
  MaxCounter <- MCMaxCounter
SYMMETRY Symmetry
INVARIANTS
  RevisionsMatch
  YesIsTrue
  CountersPinDigests
PROPERTIES
  ChangesAreCounted
