------------------------- MODULE RowRevisionsProofs -------------------------
(***************************************************************************)
(* That the revisions of the reactive tables stand for their rows, and     *)
(* that a trace found valid was true, for any tables, rows and connections.*)
(***************************************************************************)
EXTENDS RowRevisions, FiniteSetTheorems, TLAPS

Data == [Tables -> Content]

\* The digests a transaction would leave are those of its rows.
Matches(w) == w.rev = w.data

\* From w to v no counter falls, and a table whose rows differ is counted.
Follows(w, v) ==
  \A t \in Tables : /\ v.counter[t] >= w.counter[t]
                    /\ v.counter[t] = w.counter[t] => v.data[t] = w.data[t]

\* Rows are only taken away from a table.
Thinner(before, after, u) == \A q \in Rows : after[u][q] \in {before[u][q], Absent}

(***************************************************************************)
(* What the statements do to data and revisions.                           *)
(***************************************************************************)
\* A table a cascade thinned and that kept its number of rows kept its rows.
LEMMA CountsShowCascades ==
  ASSUME NEW before \in Data, NEW after \in Data, NEW t \in Tables,
         NEW u \in Tables \ {t}, u \notin Shrunk(before, after, t),
         Thinner(before, after, u)
  PROVE  after[u] = before[u]
<1>1. Present(after[u]) \subseteq Present(before[u])
  BY DEF Present, Thinner
<1>2. IsFiniteSet(Present(before[u]))
  BY RevisionConstants, FS_Subset DEF Present
<1>3. Cardinality(Present(before[u])) = Cardinality(Present(after[u]))
  BY DEF Shrunk
<1>4. Present(after[u]) = Present(before[u])
  BY <1>1, <1>2, <1>3, FS_Subset
<1>5. \A q \in Rows : after[u][q] = before[u][q]
  BY <1>4 DEF Present, Thinner
<1> QED
  BY <1>5 DEF Data, Content

LEMMA PutIsData ==
  ASSUME NEW data \in Data, NEW t \in Tables, NEW r \in Rows, NEW row \in Row
  PROVE  Put(data, t, r, row) \in Data
BY DEF Data, Put, Content

LEMMA WithoutThins ==
  ASSUME NEW data \in Data, NEW gone
  PROVE  /\ Without(data, gone) \in Data
         /\ \A u \in Tables : Thinner(data, Without(data, gone), u)
<1>1. Without(data, gone) \in Data
  BY DEF Data, Without, Content
<1>2. \A u \in Tables : Thinner(data, Without(data, gone), u)
  BY DEF Data, Without, Thinner
<1> QED
  BY <1>1, <1>2

LEMMA RefreshedIsData ==
  ASSUME NEW rev \in Data, NEW data \in Data, NEW t \in Tables, NEW r \in Rows
  PROVE  Refreshed(rev, data, t, r) \in Data
BY DEF Data, Refreshed, Content

LEMMA ClearedMatches ==
  ASSUME NEW rev \in Data, NEW data \in Data, NEW ts
  PROVE  /\ Cleared(rev, data, ts) \in Data
         /\ \A u \in Tables \ ts : Cleared(rev, data, ts)[u] = rev[u]
         /\ \A u \in Tables \intersect ts : \A q \in Rows :
              Cleared(rev, data, ts)[u][q] = IF data[u][q] = Absent THEN Absent ELSE rev[u][q]
<1>1. Cleared(rev, data, ts) \in Data
  BY DEF Data, Cleared, Content
<1>2. \A u \in Tables \ ts : Cleared(rev, data, ts)[u] = rev[u]
  BY DEF Data, Cleared
<1>3. \A u \in Tables \intersect ts : \A q \in Rows :
        Cleared(rev, data, ts)[u][q] = IF data[u][q] = Absent THEN Absent ELSE rev[u][q]
  BY DEF Cleared
<1> QED
  BY <1>1, <1>2, <1>3

LEMMA BumpedCounts ==
  ASSUME NEW counter \in [Tables -> Nat], NEW ts
  PROVE  /\ Bumped(counter, ts) \in [Tables -> Nat]
         /\ \A u \in Tables : /\ Bumped(counter, ts)[u] >= counter[u]
                              /\ Bumped(counter, ts)[u] = counter[u] => u \notin ts
BY DEF Bumped

LEMMA SameRows ==
  ASSUME NEW f \in Content, NEW g \in Content, \A q \in Rows : f[q] = g[q]
  PROVE  f = g
BY DEF Content

LEMMA SameTables ==
  ASSUME NEW f \in Data, NEW g \in Data, \A u \in Tables : \A q \in Rows : f[u][q] = g[u][q]
  PROVE  f = g
<1>1. \A u \in Tables : f[u] = g[u]
  BY SameRows DEF Data
<1> QED
  BY <1>1 DEF Data

\* INSERT and UPDATE.
LEMMA PlainWriteFollows ==
  ASSUME NEW w \in Store, Matches(w), NEW t \in Tables, NEW r \in Rows, NEW row \in Row
  PROVE  LET v == PlainWrite(w, Put(w.data, t, r, row), t, r)
         IN  v \in Store /\ Matches(v) /\ Follows(w, v)
<1> DEFINE data == Put(w.data, t, r, row)
           v == PlainWrite(w, data, t, r)
<1>1. w.data \in Data /\ w.rev \in Data /\ w.counter \in [Tables -> Nat] /\ w.rev = w.data
  BY DEF Store, Data, Matches
<1>2. data \in Data
  BY <1>1, PutIsData
<1>3. \A u \in Tables, q \in Rows : data[u][q] = IF u = t /\ q = r THEN row ELSE w.data[u][q]
  BY <1>1 DEF Put, Data, Content
<1>4. v.rev \in Data /\ \A u \in Tables, q \in Rows : v.rev[u][q] = data[u][q]
  <2> HIDE DEF data
  <2>1. v.rev = Refreshed(w.rev, data, t, r)
    BY DEF PlainWrite
  <2>2. Refreshed(w.rev, data, t, r) \in Data
    BY <1>1, <1>2, RefreshedIsData
  <2>3. \A u \in Tables, q \in Rows :
          Refreshed(w.rev, data, t, r)[u][q] = IF u = t /\ q = r THEN data[t][r] ELSE w.data[u][q]
    BY <1>1, <1>2 DEF Refreshed, Data, Content
  <2> QED
    BY <1>3, <2>1, <2>2, <2>3
<1>5. v.rev = data
  BY <1>2, <1>4, SameTables
<1>6. v.counter \in [Tables -> Nat] /\ v.data = data
  BY <1>1, BumpedCounts DEF PlainWrite
<1>7. v \in Store
  BY <1>2, <1>4, <1>6 DEF PlainWrite, Store, Data
<1>8. ASSUME NEW u \in Tables
      PROVE  v.counter[u] >= w.counter[u] /\ (v.counter[u] = w.counter[u] => v.data[u] = w.data[u])
  <2>1. v.counter[u] >= w.counter[u] /\ (v.counter[u] = w.counter[u] => u # t)
    BY <1>1, BumpedCounts DEF PlainWrite
  <2>2. u # t => data[u] = w.data[u]
    BY <1>1, <1>2, <1>3, SameRows DEF Data
  <2> QED
    BY <2>1, <2>2, <1>6
<1> QED
  BY <1>5, <1>6, <1>7, <1>8 DEF Matches, Follows

\* The tables a statement thinned beside its own: their digests are cleared
\* and their counters moved.
LEMMA CascadesAreCounted ==
  ASSUME NEW w \in Store, Matches(w), NEW after \in Data, NEW t \in Tables,
         NEW r \in Rows, NEW extra \in SUBSET {t},
         \A u \in Tables \ {t} : Thinner(w.data, after, u),
         \A q \in Rows \ {r} : after[t][q] = w.data[t][q] \/ (after[t][q] = Absent /\ t \in extra)
  PROVE  LET shrunk == Shrunk(w.data, after, t)
             v == [data    |-> after,
                   rev     |-> Cleared(Refreshed(w.rev, after, t, r), after, shrunk \union extra),
                   counter |-> Bumped(w.counter, shrunk \union {t})]
         IN  v \in Store /\ Matches(v) /\ Follows(w, v)
<1> DEFINE shrunk == Shrunk(w.data, after, t)
           fresh == Refreshed(w.rev, after, t, r)
           rev == Cleared(fresh, after, shrunk \union extra)
           counter == Bumped(w.counter, shrunk \union {t})
           v == [data |-> after, rev |-> rev, counter |-> counter]
<1>1. w.data \in Data /\ w.rev \in Data /\ w.counter \in [Tables -> Nat] /\ w.rev = w.data
  BY DEF Store, Data, Matches
<1>2. /\ fresh \in Data /\ rev \in Data
      /\ \A u \in Tables, q \in Rows : fresh[u][q] = IF u = t /\ q = r THEN after[t][r] ELSE w.data[u][q]
  <2>1. fresh \in Data
    BY <1>1, RefreshedIsData
  <2>2. \A u \in Tables, q \in Rows : fresh[u][q] = IF u = t /\ q = r THEN after[t][r] ELSE w.data[u][q]
    BY <1>1 DEF Refreshed, Data, Content
  <2> HIDE DEF fresh
  <2>3. rev \in Data
    BY <2>1, ClearedMatches
  <2> QED
    BY <2>1, <2>2, <2>3
<1>3. counter \in [Tables -> Nat]
  BY <1>1, BumpedCounts
<1>4. \A u \in Tables \ {t} : u \notin shrunk => after[u] = w.data[u]
  BY <1>1, CountsShowCascades
<1>5. ASSUME NEW u \in Tables, NEW q \in Rows
      PROVE  rev[u][q] = after[u][q]
  <2>1. CASE u = t
    <3>1. t \notin shrunk
      BY DEF Shrunk
    <3>2. fresh[t][q] = IF q = r THEN after[t][r] ELSE w.data[t][q]
      BY <1>2
    <3>3. CASE t \in extra
      <4>1. rev[t][q] = IF after[t][q] = Absent THEN Absent ELSE fresh[t][q]
        BY <1>2, <3>3, ClearedMatches
      <4> QED
        BY <2>1, <3>2, <4>1
    <3>4. CASE t \notin extra
      <4>1. rev[t] = fresh[t]
        BY <1>2, <3>1, <3>4, ClearedMatches
      <4> QED
        BY <2>1, <3>2, <3>4, <4>1
    <3> QED
      BY <3>3, <3>4
  <2>2. CASE u # t /\ u \in shrunk
    <3>1. fresh[u][q] = w.data[u][q]
      BY <1>2, <2>2
    <3>2. rev[u][q] = IF after[u][q] = Absent THEN Absent ELSE fresh[u][q]
      BY <1>2, <2>2, ClearedMatches
    <3>3. after[u][q] \in {w.data[u][q], Absent}
      BY <2>2 DEF Thinner
    <3> QED
      BY <3>1, <3>2, <3>3
  <2>3. CASE u # t /\ u \notin shrunk
    <3>1. fresh[u][q] = w.data[u][q]
      BY <1>2, <2>3
    <3>2. rev[u] = fresh[u]
      BY <1>2, <2>3, ClearedMatches
    <3>3. after[u] = w.data[u]
      BY <1>4, <2>3
    <3> QED
      BY <3>1, <3>2, <3>3
  <2> QED
    BY <2>1, <2>2, <2>3
<1>6. rev = after
  BY <1>2, <1>5, SameTables
<1>7. \A u \in Tables : /\ counter[u] >= w.counter[u]
                        /\ counter[u] = w.counter[u] => u \notin shrunk /\ u # t
  BY <1>1, BumpedCounts
<1>8. v \in Store
  BY <1>2, <1>3 DEF Store, Data
<1> QED
  BY <1>4, <1>6, <1>7, <1>8 DEF Matches, Follows

LEMMA ReplacingWriteFollows ==
  ASSUME NEW w \in Store, Matches(w), NEW t \in Tables, NEW r \in Rows, NEW row \in Row,
         NEW gone
  PROVE  LET v == ReplacingWrite(w, Put(Without(w.data, gone), t, r, row), t, r)
         IN  v \in Store /\ Matches(v) /\ Follows(w, v)
<1> DEFINE thin == Without(w.data, gone)
           after == Put(thin, t, r, row)
<1>1. w.data \in Data
  BY DEF Store, Data
<1>2. thin \in Data /\ \A u \in Tables : Thinner(w.data, thin, u)
  BY <1>1, WithoutThins
<1>3. after \in Data
  BY <1>2, PutIsData
<1>4. \A u \in Tables, q \in Rows : after[u][q] = IF u = t /\ q = r THEN row ELSE thin[u][q]
  BY <1>2 DEF Put, Data, Content
<1>5. \A u \in Tables \ {t} : Thinner(w.data, after, u)
  BY <1>2, <1>4 DEF Thinner
<1>6. \A q \in Rows \ {r} : after[t][q] = w.data[t][q] \/ after[t][q] = Absent
  BY <1>2, <1>4 DEF Thinner
<1> HIDE DEF after
<1>7. LET v == ReplacingWrite(w, after, t, r)
      IN  v \in Store /\ Matches(v) /\ Follows(w, v)
  <2>1. {t} \in SUBSET {t}
    OBVIOUS
  <2> QED
    BY <1>3, <1>5, <1>6, <2>1, CascadesAreCounted DEF ReplacingWrite
<1> QED
  BY <1>7 DEF after

\* What a delete takes from its own table is the row it names.
LEMMA DeleteTakesOne ==
  ASSUME NEW data \in Data, NEW t \in Tables, NEW r \in Rows, data[t][r] # Absent
  PROVE  /\ <<t, r>> \in Falls(data, {<<t, r>>})
         /\ \A q \in Rows \ {r} : <<t, q>> \notin Falls(data, {<<t, r>>})
<1>1. PICK rank \in [Tables -> 0 .. Cardinality(Tables)] :
        \A u \in Tables : Parent[u] # None => rank[Parent[u]] < rank[u]
  BY ParentsComeFirst
<1> DEFINE there == {p \in Tables \X Rows : data[p[1]][p[2]] # Absent}
           below == {p \in there : rank[p[1]] > rank[t]} \union {<<t, r>>}
<1>2. below \in SUBSET there /\ {<<t, r>>} \subseteq below
  OBVIOUS
<1>3. Spreads(data, below)
  <2> SUFFICES ASSUME NEW u \in Tables, NEW q \in Present(data[u]), Parent[u] # None,
                      <<Parent[u], data[u][q].up>> \in below
               PROVE  <<u, q>> \in below
    BY DEF Spreads
  <2>1. Parent[u] \in Tables /\ rank[Parent[u]] < rank[u]
    BY <1>1, RevisionConstants
  <2>2. rank[Parent[u]] >= rank[t]
    <3>1. CASE <<Parent[u], data[u][q].up>> = <<t, r>>
      BY <3>1, <1>1
    <3>2. CASE rank[Parent[u]] > rank[t]
      BY <3>2, <1>1, <2>1
    <3> QED
      BY <3>1, <3>2
  <2>3. rank[u] \in Int /\ rank[t] \in Int /\ rank[Parent[u]] \in Int
    BY <1>1, <2>1
  <2>4. rank[u] > rank[t]
    BY <2>1, <2>2, <2>3
  <2>5. <<u, q>> \in there
    BY DEF Present
  <2> QED
    BY <2>4, <2>5
<1>4. \A q \in Rows \ {r} : <<t, q>> \notin below
  BY <1>1
<1> QED
  BY <1>2, <1>3, <1>4 DEF Falls

LEMMA DeletingWriteFollows ==
  ASSUME NEW w \in Store, Matches(w), NEW t \in Tables, NEW r \in Rows,
         w.data[t][r] # Absent
  PROVE  LET v == DeletingWrite(w, Without(w.data, Falls(w.data, {<<t, r>>})), t, r)
         IN  v \in Store /\ Matches(v) /\ Follows(w, v)
<1> DEFINE gone == Falls(w.data, {<<t, r>>})
           after == Without(w.data, gone)
<1>1. w.data \in Data
  BY DEF Store, Data
<1>2. after \in Data /\ \A u \in Tables : Thinner(w.data, after, u)
  BY <1>1, WithoutThins
<1>3. \A q \in Rows \ {r} : after[t][q] = w.data[t][q]
  BY <1>1, DeleteTakesOne DEF Without
<1>4. \A ts : ts \union {} = ts
  OBVIOUS
<1> HIDE DEF after
<1>5. LET v == [data    |-> after,
               rev     |-> Cleared(Refreshed(w.rev, after, t, r), after, Shrunk(w.data, after, t) \union {}),
               counter |-> Bumped(w.counter, Shrunk(w.data, after, t) \union {t})]
      IN  v \in Store /\ Matches(v) /\ Follows(w, v)
  <2>1. {} \in SUBSET {t}
    OBVIOUS
  <2> QED
    BY <1>2, <1>3, <2>1, CascadesAreCounted
<1>6. LET v == DeletingWrite(w, after, t, r)
      IN  v \in Store /\ Matches(v) /\ Follows(w, v)
  BY <1>4, <1>5 DEF DeletingWrite
<1> QED
  BY <1>6 DEF after

(***************************************************************************)
(* The inductive invariant.                                                *)
(***************************************************************************)
\* A transaction's rows have their digests, and what it changed is counted.
WorksFollow == \A c \in Conns : work[c] # None => Matches(work[c]) /\ Follows(db, work[c])

ScansAreOpen == \A c \in Conns : scan[c] # None => Open(c)

\* While the counter an observation has is the table's, so are its digests.
Pinned(o) == /\ o.count <= db.counter[o.table]
             /\ o.count = db.counter[o.table] => db.rev[o.table] = o.rows

KeptArePinned == \A k \in Clients : \A o \in kept[k] : Pinned(o)

SeenArePinned == \A c \in Conns : scan[c] # None => \A o \in scan[c].seen : Pinned(o)

NotesComeBefore ==
  \A c \in Conns : scan[c] # None /\ scan[c].noted # None =>
    scan[c].noted.count <= db.counter[scan[c].noted.table]

\* A validation of a result that was stale will come to a counter that moved.
Doubted(e) == e.row = None /\ e.count < db.counter[e.table]

StaleAreDoubted ==
  \A c \in Conns : check[c] # None /\ ~check[c].true => \E e \in check[c].left : Doubted(e)

IInv == /\ TypeOK
        /\ RevisionsMatch
        /\ WorksFollow
        /\ ScansAreOpen
        /\ KeptArePinned
        /\ SeenArePinned
        /\ NotesComeBefore
        /\ StaleAreDoubted

Statement(c) ==
  \E t \in Tables : \E r \in Rows :
    \/ Deletes(c, t, r)
    \/ \E row \in RowsOf(t) : Writes(c, t, r, row) \/ Replaces(c, t, r, row)

\* What a statement leaves its transaction with.
LEMMA StatementFollows ==
  ASSUME TypeOK, WorksFollow, NEW c \in Conns, Statement(c)
  PROVE  /\ work[c] # None
         /\ \E v \in Store : /\ Matches(v)
                             /\ Follows(work[c], v)
                             /\ work' = [work EXCEPT ![c] = v]
         /\ UNCHANGED <<db, sweep, scan, kept, check>>
<1>1. PICK t \in Tables, r \in Rows :
        \/ Deletes(c, t, r)
        \/ \E row \in RowsOf(t) : Writes(c, t, r, row) \/ Replaces(c, t, r, row)
  BY DEF Statement
<1>2. work[c] # None
  BY <1>1 DEF Deletes, Writes, Replaces, MayChange
<1>3. work[c] \in Store /\ Matches(work[c])
  BY <1>2 DEF TypeOK, WorksFollow
<1>4. RowsOf(t) \subseteq Row
  BY DEF RowsOf
<1>5. CASE Deletes(c, t, r)
  <2> DEFINE v == DeletingWrite(work[c], Without(work[c].data, Falls(work[c].data, {<<t, r>>})), t, r)
  <2>1. work[c].data[t][r] # Absent /\ Executes(c, v)
    BY <1>5 DEF Deletes
  <2>2. v \in Store /\ Matches(v) /\ Follows(work[c], v)
    BY <1>3, <2>1, DeletingWriteFollows
  <2> QED
    BY <1>2, <2>1, <2>2 DEF Executes
<1>6. ASSUME NEW row \in RowsOf(t), Writes(c, t, r, row)
      PROVE  \E v \in Store : Matches(v) /\ Follows(work[c], v) /\ Executes(c, v)
  <2> DEFINE v == PlainWrite(work[c], Put(work[c].data, t, r, row), t, r)
  <2>1. Executes(c, v)
    BY <1>6 DEF Writes
  <2>2. v \in Store /\ Matches(v) /\ Follows(work[c], v)
    BY <1>3, <1>4, PlainWriteFollows
  <2> QED
    BY <2>1, <2>2
<1>7. ASSUME NEW row \in RowsOf(t), Replaces(c, t, r, row)
      PROVE  \E v \in Store : Matches(v) /\ Follows(work[c], v) /\ Executes(c, v)
  <2>1. PICK gone : Executes(c, ReplacingWrite(work[c], Put(Without(work[c].data, gone), t, r, row), t, r))
    BY <1>7 DEF Replaces
  <2> DEFINE v == ReplacingWrite(work[c], Put(Without(work[c].data, gone), t, r, row), t, r)
  <2>2. v \in Store /\ Matches(v) /\ Follows(work[c], v)
    BY <1>3, <1>4, ReplacingWriteFollows
  <2> QED
    BY <2>1, <2>2
<1> QED
  BY <1>1, <1>2, <1>5, <1>6, <1>7 DEF Executes

\* The cases of a step.
LEMMA Cases ==
  ASSUME Next
  PROVE  \/ Imports
         \/ \E c \in Conns :
              \/ Opens(c) \/ Closes(c) \/ Begins(c) \/ Commits(c) \/ RollsBack(c)
              \/ BeginsScan(c) \/ Fetches(c) \/ Answers(c) \/ Statement(c)
              \/ \E t \in Tables : Sweeps(c, t) \/ Counts(c, t)
              \/ \E k \in Clients : EndsScan(c, k) \/ BeginsCheck(c, k)
              \/ \E e \in check[c].left : Compares(c, e)
BY DEF Next, Statement

LEMMA ContentsAreData == Contents \subseteq Data
<1>1. \A t \in Tables : RowsOf(t) \subseteq Row
  BY DEF RowsOf
<1>2. \A t \in Tables : [Rows -> RowsOf(t) \union {Absent}] \subseteq Content
  BY <1>1 DEF Content
<1>3. UNION {[Rows -> RowsOf(t) \union {Absent}] : t \in Tables} \subseteq Content
  BY <1>2
<1> QED
  BY <1>3 DEF Contents, Data

LEMMA InitIInv == ASSUME Init PROVE IInv
<1>1. PICK data \in Contents : db = [data |-> data, rev |-> data, counter |-> [t \in Tables |-> 0]]
  BY DEF Init
<1>2. data \in Data
  BY ContentsAreData
<1>3. db \in Store /\ db.rev = db.data
  BY <1>1, <1>2 DEF Store, Data
<1>4. TypeOK
  <2>1. \A c \in Conns : work[c] = None
    BY DEF Init
  <2>4. work \in [Conns -> Store \union {None}] /\ work = [c \in Conns |-> None]
    BY DEF Init
  <2>5. check \in [Conns -> [left : SUBSET Entry, true : BOOLEAN] \union {None}]
    BY DEF Init
  <2>2. /\ sweep \in [Conns -> (SUBSET Tables) \union {None}]
        /\ kept \in [Clients -> SUBSET Observation]
    BY DEF Init
  <2>3. scan \in [Conns -> [seen : SUBSET Observation,
                         noted : [table : Tables, count : Nat] \union {None}] \union {None}]
    BY DEF Init
  <2> QED
    BY <1>3, <2>1, <2>2, <2>3, <2>4, <2>5 DEF TypeOK
<1> QED
  BY <1>3, <1>4 DEF Init, IInv, RevisionsMatch, WorksFollow, ScansAreOpen, KeptArePinned,
     SeenArePinned, NotesComeBefore, StaleAreDoubted

(***************************************************************************)
(* Steps.                                                                  *)
(***************************************************************************)
\* A sweep leaves the table's digests those of its rows, and counts.
LEMMA SweptCounts ==
  ASSUME db \in Store, NEW t \in Tables
  PROVE  /\ Swept(db, t) \in Store
         /\ Swept(db, t).data = db.data
         /\ Swept(db, t).rev[t] = db.data[t]
         /\ \A u \in Tables \ {t} : /\ Swept(db, t).rev[u] = db.rev[u]
                                    /\ Swept(db, t).counter[u] = db.counter[u]
         /\ Swept(db, t).counter[t] >= db.counter[t]
         /\ Swept(db, t).counter[t] = db.counter[t] => Swept(db, t).rev[t] = db.rev[t]
<1>1. CASE db.rev[t] = db.data[t]
  BY <1>1 DEF Swept, Store
<1>2. CASE db.rev[t] # db.data[t]
  <2>1. Swept(db, t) = [db EXCEPT !.rev[t] = db.data[t], !.counter[t] = @ + 1]
    BY <1>2 DEF Swept
  <2>2. db.rev \in [Tables -> Content] /\ db.data \in [Tables -> Content] /\ db.counter \in [Tables -> Nat]
    BY DEF Store
  <2>3. /\ Swept(db, t).data = db.data
        /\ Swept(db, t).rev = [db.rev EXCEPT ![t] = db.data[t]]
        /\ Swept(db, t).counter = [db.counter EXCEPT ![t] = db.counter[t] + 1]
    BY <2>1, <2>2 DEF Store
  <2>4. Swept(db, t) = [data |-> db.data, rev |-> [db.rev EXCEPT ![t] = db.data[t]],
                        counter |-> [db.counter EXCEPT ![t] = db.counter[t] + 1]]
    BY <2>1, <2>2 DEF Store
  <2>5. Swept(db, t) \in Store
    BY <2>2, <2>4 DEF Store
  <2> QED
    BY <2>2, <2>3, <2>5
<1> QED
  BY <1>1, <1>2

LEMMA TypeStep ==
  ASSUME IInv, [Next]_vars
  PROVE  TypeOK'
<1> USE DEF IInv
<1>1. CASE UNCHANGED vars
  BY <1>1 DEF vars, TypeOK, Open
<1>2. CASE Imports
  <2>1. PICK data \in Data : db' = [db EXCEPT !.data = data]
    BY <1>2, ContentsAreData DEF Imports
  <2>2. db' \in Store
    BY <2>1 DEF TypeOK, Store, Data
  <2> QED
    BY <1>2, <2>2 DEF Imports, TypeOK, Open
<1> SUFFICES ASSUME NEW c \in Conns,
                    \/ Opens(c) \/ Closes(c) \/ Begins(c) \/ Commits(c) \/ RollsBack(c)
                    \/ BeginsScan(c) \/ Fetches(c) \/ Answers(c) \/ Statement(c)
                    \/ \E t \in Tables : Sweeps(c, t) \/ Counts(c, t)
                    \/ \E k \in Clients : EndsScan(c, k) \/ BeginsCheck(c, k)
                    \/ \E e \in check[c].left : Compares(c, e)
             PROVE  TypeOK'
  BY <1>1, <1>2, Cases
<1>3. CASE Opens(c)
  BY <1>3, RevisionConstants DEF Opens, TypeOK, Open
<1>4. CASE Closes(c)
  BY <1>4, RevisionConstants DEF Closes, TypeOK, Open
<1>5. CASE Begins(c)
  BY <1>5 DEF Begins, Idle, Unlocked, TypeOK, Open
<1>6. CASE Commits(c)
  BY <1>6 DEF Commits, TypeOK, Open
<1>7. CASE RollsBack(c)
  BY <1>7 DEF RollsBack, TypeOK, Open
<1>8. CASE BeginsScan(c)
  BY <1>8 DEF BeginsScan, TypeOK, Open
<1>9. CASE Fetches(c)
  <2>1. scan[c] # None /\ scan[c].noted # None
    BY <1>9 DEF Fetches
  <2>2. scan[c].seen \in SUBSET Observation /\ scan[c].noted \in [table : Tables, count : Nat]
    BY <2>1 DEF TypeOK
  <2>3. [table |-> scan[c].noted.table, count |-> scan[c].noted.count,
         rows |-> db.data[scan[c].noted.table]] \in Observation
    BY <2>2 DEF TypeOK, Store, Observation
  <2> QED
    BY <1>9, <2>2, <2>3 DEF Fetches, TypeOK, Open
<1>10. CASE Answers(c)
  BY <1>10 DEF Answers, TypeOK, Open
<1>11. CASE Statement(c)
  BY <1>11, StatementFollows DEF TypeOK, Open
<1>12. ASSUME NEW t \in Tables, Sweeps(c, t) PROVE TypeOK'
  <2>1. db' \in Store
    BY <1>12, SweptCounts DEF Sweeps, TypeOK
  <2>2. \A d \in Conns : work[d] = None
    BY <1>12 DEF Sweeps, Unlocked
  <2> QED
    BY <1>12, <2>1, <2>2 DEF Sweeps, TypeOK, Open
<1>13. ASSUME NEW t \in Tables, Counts(c, t) PROVE TypeOK'
  <2>1. scan[c].seen \in SUBSET Observation /\ db.counter[t] \in Nat
    BY <1>13 DEF Counts, TypeOK, Store
  <2> QED
    BY <1>13, <2>1 DEF Counts, TypeOK, Open
<1>14. ASSUME NEW k \in Clients, EndsScan(c, k) PROVE TypeOK'
  BY <1>14 DEF EndsScan, TypeOK, Open
<1>15. ASSUME NEW k \in Clients, BeginsCheck(c, k) PROVE TypeOK'
  <2>1. ASSUME NEW o \in Observation PROVE Entries(o) \subseteq Entry
    <3>1. /\ o.table \in Tables /\ o.count \in Nat
          /\ \A r \in Rows : o.rows[r] \in Row \union {Absent}
      BY DEF Observation, Content
    <3> QED
      BY <3>1 DEF Entries, Entry, Present
  <2>2. UNION {Entries(o) : o \in kept[k]} \subseteq Entry
    BY <2>1 DEF TypeOK
  <2>3. (\A o \in kept[k] : Current(o)) \in BOOLEAN
    OBVIOUS
  <2> QED
    BY <1>15, <2>2, <2>3 DEF BeginsCheck, TypeOK, Open
<1>16. ASSUME NEW e \in check[c].left, Compares(c, e) PROVE TypeOK'
  BY <1>16 DEF Compares, TypeOK, Open
<1> QED
  BY <1>3, <1>4, <1>5, <1>6, <1>7, <1>8, <1>9, <1>10, <1>11, <1>12, <1>13, <1>14, <1>15, <1>16

\* No step takes a counter back, and none changes a table's digests and
\* leaves its counter.
Grows == \A t \in Tables : /\ db'.counter[t] >= db.counter[t]
                           /\ db'.counter[t] = db.counter[t] => db'.rev[t] = db.rev[t]

\* What a transaction commits.
LEMMA CommitCounts ==
  ASSUME IInv, NEW c \in Conns, Commits(c)
  PROVE  /\ db' \in Store /\ db'.rev = db'.data
         /\ db.rev = db.data
         /\ \A t \in Tables : /\ db'.counter[t] >= db.counter[t]
                              /\ db'.counter[t] = db.counter[t] => db'.data[t] = db.data[t]
<1>1. work[c] # None /\ db' = work[c]
  BY DEF Commits
<1>2. work[c] \in Store /\ Matches(work[c]) /\ Follows(db, work[c]) /\ db \in Store
  BY <1>1 DEF IInv, TypeOK, WorksFollow
<1>3. sweep[c] = {}
  BY <1>1 DEF IInv, TypeOK, Open
<1>4. \A t \in Tables : db.rev[t] = db.data[t]
  BY <1>3, RevisionConstants DEF IInv, RevisionsMatch
<1>5. db.rev = db.data
  BY <1>2, <1>4 DEF Store
<1> QED
  BY <1>1, <1>2, <1>5 DEF Matches, Follows

LEMMA GrowsStep == ASSUME IInv, [Next]_vars PROVE Grows
<1> USE DEF IInv, Grows
<1>1. db \in Store /\ \A t \in Tables : db.counter[t] \in Nat
  BY DEF TypeOK, Store
<1>2. CASE db' = db
  BY <1>1, <1>2
<1>3. CASE Imports
  BY <1>1, <1>3 DEF Imports, Store
<1>4. ASSUME NEW c \in Conns, Commits(c) PROVE Grows
  BY <1>4, CommitCounts
<1>5. ASSUME NEW c \in Conns, NEW t \in Tables, Sweeps(c, t) PROVE Grows
  BY <1>1, <1>5, SweptCounts DEF Sweeps
<1>6. ASSUME NEW c \in Conns, Statement(c) PROVE db' = db
  BY <1>6, StatementFollows
<1> QED
  BY <1>2, <1>3, <1>4, <1>5, <1>6, Cases
  DEF vars, Opens, Closes, Begins, RollsBack, BeginsScan, Fetches, Answers, Counts, EndsScan,
      BeginsCheck, Compares

LEMMA RevisionsStep == ASSUME IInv, [Next]_vars PROVE RevisionsMatch'
<1> USE DEF IInv, RevisionsMatch
<1>1. CASE UNCHANGED <<db, sweep>>
  BY <1>1
<1>2. CASE Imports
  BY <1>2 DEF Imports, MayImport
<1>3. ASSUME NEW c \in Conns, Opens(c) PROVE RevisionsMatch'
  BY <1>3 DEF Opens, TypeOK
<1>4. ASSUME NEW c \in Conns, Closes(c) PROVE RevisionsMatch'
  BY <1>4 DEF Closes, TypeOK
<1>5. ASSUME NEW c \in Conns, Commits(c) PROVE RevisionsMatch'
  BY <1>5, CommitCounts DEF Commits
<1>6. ASSUME NEW c \in Conns, NEW t \in Tables, Sweeps(c, t) PROVE RevisionsMatch'
  <2>1. /\ db'.data = db.data /\ db'.rev[t] = db.data[t]
        /\ \A u \in Tables \ {t} : db'.rev[u] = db.rev[u]
    BY <1>6, SweptCounts DEF Sweeps, TypeOK
  <2>2. sweep' = [sweep EXCEPT ![c] = @ \ {t}] /\ sweep[c] # None
    BY <1>6 DEF Sweeps
  <2> QED
    BY <2>1, <2>2 DEF TypeOK
<1>7. ASSUME NEW c \in Conns, Statement(c) PROVE UNCHANGED <<db, sweep>>
  BY <1>7, StatementFollows
<1> QED
  BY <1>1, <1>2, <1>3, <1>4, <1>5, <1>6, <1>7, Cases
  DEF vars, Begins, RollsBack, BeginsScan, Fetches, Answers, Counts, EndsScan, BeginsCheck, Compares

LEMMA FollowsOn ==
  ASSUME NEW u, NEW v \in Store, NEW w \in Store, u \in Store, Follows(u, v), Follows(v, w)
  PROVE  Follows(u, w)
BY DEF Follows, Store

LEMMA WorksStep == ASSUME IInv, [Next]_vars PROVE WorksFollow'
<1> USE DEF IInv, WorksFollow
<1>1. CASE UNCHANGED <<db, work>>
  BY <1>1
<1>2. CASE Imports
  BY <1>2, RevisionConstants DEF Imports, MayImport, TypeOK, Open
<1>3. ASSUME NEW c \in Conns, Closes(c) \/ RollsBack(c) PROVE WorksFollow'
  BY <1>3 DEF Closes, RollsBack, TypeOK
<1>4. ASSUME NEW c \in Conns, Begins(c) PROVE WorksFollow'
  <2>1. db \in Store /\ \A t \in Tables : db.rev[t] = db.data[t]
    BY <1>4, RevisionConstants DEF Begins, Idle, Open, RevisionsMatch, TypeOK
  <2>2. Matches(db)
    BY <2>1 DEF Matches, Store
  <2>3. Follows(db, db)
    BY <2>1 DEF Follows, Store
  <2> QED
    BY <1>4, <2>2, <2>3 DEF Begins, TypeOK
<1>5. ASSUME NEW c \in Conns, Commits(c) PROVE WorksFollow'
  <2>1. \A d \in Conns : work'[d] = None
    BY <1>5 DEF Commits, TypeOK
  <2> QED
    BY <2>1
<1>6. ASSUME NEW c \in Conns, NEW t \in Tables, Sweeps(c, t) PROVE WorksFollow'
  BY <1>6 DEF Sweeps, Unlocked
<1>7. ASSUME NEW c \in Conns, Statement(c) PROVE WorksFollow'
  <2>1. work[c] # None /\ db' = db
    BY <1>7, StatementFollows
  <2>2. PICK v \in Store : Matches(v) /\ Follows(work[c], v) /\ work' = [work EXCEPT ![c] = v]
    BY <1>7, StatementFollows
  <2>3. Follows(db, v)
    <3>1. Follows(db, work[c]) /\ work[c] \in Store /\ db \in Store
      BY <2>1 DEF TypeOK
    <3> QED
      BY <2>2, <3>1, FollowsOn
  <2> QED
    BY <2>1, <2>2, <2>3 DEF TypeOK
<1> QED
  BY <1>1, <1>2, <1>3, <1>4, <1>5, <1>6, <1>7, Cases
  DEF vars, Opens, BeginsScan, Fetches, Answers, Counts, EndsScan, BeginsCheck, Compares

LEMMA ScansStep == ASSUME IInv, [Next]_vars PROVE ScansAreOpen'
<1> USE DEF IInv, ScansAreOpen, Open
<1>1. CASE UNCHANGED <<sweep, scan>>
  BY <1>1
<1>2. ASSUME NEW c \in Conns, Opens(c) \/ Closes(c) PROVE ScansAreOpen'
  BY <1>2, RevisionConstants DEF Opens, Closes, TypeOK
<1>3. ASSUME NEW c \in Conns, NEW t \in Tables, Sweeps(c, t) PROVE ScansAreOpen'
  BY <1>3 DEF Sweeps, TypeOK
<1>4. ASSUME NEW c \in Conns,
             BeginsScan(c) \/ Fetches(c) \/ (\E t \in Tables : Counts(c, t))
               \/ (\E k \in Clients : EndsScan(c, k))
      PROVE  ScansAreOpen'
  BY <1>4 DEF BeginsScan, Fetches, Counts, EndsScan, Idle, TypeOK
<1>5. ASSUME NEW c \in Conns, Statement(c) PROVE UNCHANGED <<sweep, scan>>
  BY <1>5, StatementFollows
<1> QED
  BY <1>1, <1>2, <1>3, <1>4, <1>5, Cases
  DEF vars, Imports, Begins, Commits, RollsBack, Answers, BeginsCheck, Compares

LEMMA PinnedStays ==
  ASSUME db \in Store, db' \in Store, Grows, NEW o \in Observation, Pinned(o)
  PROVE  Pinned(o)'
<1>1. /\ o.table \in Tables /\ o.count \in Nat
      /\ db.counter[o.table] \in Nat /\ db'.counter[o.table] \in Nat
  BY DEF Observation, Store
<1>2. /\ db'.counter[o.table] >= db.counter[o.table]
      /\ db'.counter[o.table] = db.counter[o.table] => db'.rev[o.table] = db.rev[o.table]
  BY <1>1 DEF Grows
<1> QED
  BY <1>1, <1>2 DEF Pinned

LEMMA PinnedStep == ASSUME IInv, [Next]_vars PROVE KeptArePinned' /\ SeenArePinned'
<1> USE DEF IInv, KeptArePinned, SeenArePinned
<1>1. Grows /\ db \in Store /\ db' \in Store
  BY GrowsStep, TypeStep DEF TypeOK
<1>2. /\ \A k \in Clients : \A o \in kept[k] : Pinned(o)'
      /\ \A c \in Conns : scan[c] # None => \A o \in scan[c].seen : Pinned(o)'
  <2>1. /\ \A k \in Clients : \A o \in kept[k] : o \in Observation
        /\ \A c \in Conns : scan[c] # None => \A o \in scan[c].seen : o \in Observation
    BY DEF TypeOK
  <2> QED
    BY <1>1, <2>1, PinnedStays
<1>3. CASE UNCHANGED <<scan, kept>>
  BY <1>2, <1>3
<1>4. ASSUME NEW c \in Conns, NEW k \in Clients, EndsScan(c, k)
      PROVE  KeptArePinned' /\ SeenArePinned'
  BY <1>2, <1>4 DEF EndsScan, TypeOK
<1>5. ASSUME NEW c \in Conns, Closes(c) \/ BeginsScan(c) \/ (\E t \in Tables : Counts(c, t))
      PROVE  KeptArePinned' /\ SeenArePinned'
  BY <1>2, <1>5 DEF Closes, BeginsScan, Counts, TypeOK
<1>6. ASSUME NEW c \in Conns, Fetches(c) PROVE KeptArePinned' /\ SeenArePinned'
  <2> DEFINE note == scan[c].noted
             seen == [table |-> note.table, count |-> note.count, rows |-> db.data[note.table]]
  <2>1. /\ scan[c] # None /\ note # None /\ UNCHANGED <<db, kept>>
        /\ scan' = [scan EXCEPT ![c] = [seen |-> @.seen \union {seen}, noted |-> None]]
    BY <1>6 DEF Fetches
  <2>2. note \in [table : Tables, count : Nat]
    BY <2>1 DEF TypeOK
  <2>3. db.rev[note.table] = db.data[note.table]
    BY <2>1, <2>2, RevisionConstants DEF ScansAreOpen, Open, RevisionsMatch
  <2>4. note.count <= db.counter[note.table]
    BY <2>1 DEF NotesComeBefore
  <2>5. PICK o : o = seen
    OBVIOUS
  <2>6. Pinned(o)'
    BY <2>1, <2>3, <2>4, <2>5 DEF Pinned
  <2> HIDE DEF seen, note
  <2>7. scan'[c].seen = scan[c].seen \union {o} /\ \A d \in Conns \ {c} : scan'[d] = scan[d]
    BY <2>1, <2>5 DEF TypeOK
  <2> QED
    BY <1>2, <2>1, <2>6, <2>7
<1>7. ASSUME NEW c \in Conns, Statement(c) PROVE UNCHANGED <<scan, kept>>
  BY <1>7, StatementFollows
<1> QED
  BY <1>3, <1>4, <1>5, <1>6, <1>7, Cases
  DEF vars, Imports, Opens, Begins, Commits, RollsBack, Answers, Sweeps, BeginsCheck, Compares

LEMMA NotesStep == ASSUME IInv, [Next]_vars PROVE NotesComeBefore'
<1> USE DEF IInv, NotesComeBefore
<1>1. Grows /\ db \in Store /\ db' \in Store
  BY GrowsStep, TypeStep DEF TypeOK
<1>2. \A c \in Conns : scan[c] # None /\ scan[c].noted # None =>
        scan[c].noted.count <= db'.counter[scan[c].noted.table]
  <2> SUFFICES ASSUME NEW c \in Conns, scan[c] # None, scan[c].noted # None
               PROVE  scan[c].noted.count <= db'.counter[scan[c].noted.table]
    OBVIOUS
  <2>1. scan[c].noted.table \in Tables /\ scan[c].noted.count \in Nat
    BY DEF TypeOK
  <2>2. /\ db.counter[scan[c].noted.table] \in Nat /\ db'.counter[scan[c].noted.table] \in Nat
        /\ db'.counter[scan[c].noted.table] >= db.counter[scan[c].noted.table]
    BY <1>1, <2>1 DEF Grows, Store
  <2> QED
    BY <2>1, <2>2
<1>3. CASE UNCHANGED scan
  BY <1>2, <1>3
<1>4. ASSUME NEW c \in Conns, NEW t \in Tables, Counts(c, t) PROVE NotesComeBefore'
  <2>1. db.counter[t] \in Nat
    BY <1>1 DEF Store
  <2> QED
    BY <1>4, <2>1 DEF Counts, TypeOK
<1>5. ASSUME NEW c \in Conns,
             Closes(c) \/ BeginsScan(c) \/ Fetches(c) \/ (\E k \in Clients : EndsScan(c, k))
      PROVE  NotesComeBefore'
  BY <1>2, <1>5 DEF Closes, BeginsScan, Fetches, EndsScan, TypeOK
<1>6. ASSUME NEW c \in Conns, Statement(c) PROVE UNCHANGED scan
  BY <1>6, StatementFollows
<1> QED
  BY <1>3, <1>4, <1>5, <1>6, Cases
  DEF vars, Imports, Opens, Begins, Commits, RollsBack, Answers, Sweeps, BeginsCheck, Compares

LEMMA StaleStep == ASSUME IInv, [Next]_vars PROVE StaleAreDoubted'
<1> USE DEF IInv, StaleAreDoubted
<1>1. Grows /\ db \in Store /\ db' \in Store
  BY GrowsStep, TypeStep DEF TypeOK
<1>2. \A c \in Conns : check[c] # None => \A e \in check[c].left : Doubted(e) => Doubted(e)'
  <2> SUFFICES ASSUME NEW c \in Conns, check[c] # None, NEW e \in check[c].left, Doubted(e)
               PROVE  Doubted(e)'
    OBVIOUS
  <2>1. e.table \in Tables /\ e.count \in Nat
    BY DEF TypeOK, Entry
  <2>2. /\ db.counter[e.table] \in Nat /\ db'.counter[e.table] \in Nat
        /\ db'.counter[e.table] >= db.counter[e.table]
    BY <1>1, <2>1 DEF Grows, Store
  <2> QED
    BY <2>1, <2>2 DEF Doubted
<1>3. CASE UNCHANGED check
  BY <1>2, <1>3
<1>4. ASSUME NEW c \in Conns, Closes(c) \/ Answers(c) PROVE StaleAreDoubted'
  BY <1>2, <1>4 DEF Closes, Answers, TypeOK
<1>5. ASSUME NEW c \in Conns, NEW k \in Clients, BeginsCheck(c, k) PROVE StaleAreDoubted'
  <2> DEFINE left == UNION {Entries(o) : o \in kept[k]}
             true == \A o \in kept[k] : Current(o)
  <2>1. check' = [check EXCEPT ![c] = [left |-> left, true |-> true]] /\ UNCHANGED db /\ Open(c)
    BY <1>5 DEF BeginsCheck, Idle
  <2>2. ASSUME ~true PROVE \E e \in left : Doubted(e)
    <3>1. PICK o \in kept[k] : ~Current(o)
      BY <2>2
    <3>2. o.table \in Tables /\ o.count \in Nat /\ db.counter[o.table] \in Nat
      BY <1>1 DEF TypeOK, Observation, Store
    <3>3. db.rev[o.table] = db.data[o.table]
      BY <2>1, <3>2, RevisionConstants DEF Open, RevisionsMatch
    <3>4. o.count < db.counter[o.table]
      BY <3>1, <3>2, <3>3 DEF KeptArePinned, Pinned, Current
    <3> DEFINE e == [table |-> o.table, row |-> None, count |-> o.count, digest |-> Absent]
    <3>5. e \in left
      BY <3>1 DEF Entries
    <3>6. Doubted(e)
      BY <3>4 DEF Doubted
    <3> QED
      BY <3>5, <3>6
  <2> HIDE DEF left, true
  <2>3. check'[c] = [left |-> left, true |-> true] /\ \A d \in Conns \ {c} : check'[d] = check[d]
    BY <2>1 DEF TypeOK
  <2>4. \A e : Doubted(e) => Doubted(e)'
    BY <2>1 DEF Doubted
  <2> QED
    BY <1>2, <2>2, <2>3, <2>4
<1>6. ASSUME NEW c \in Conns, NEW e \in check[c].left, Compares(c, e) PROVE StaleAreDoubted'
  <2>1. CASE ~Stands(e)
    BY <1>2, <1>6, <2>1 DEF Compares, TypeOK
  <2>2. CASE Stands(e)
    <3>1. check[c] # None /\ check' = [check EXCEPT ![c].left = @ \ {e}] /\ UNCHANGED db
      BY <1>6, <2>2 DEF Compares
    <3>2. check[c] \in [left : SUBSET Entry, true : BOOLEAN]
      BY <3>1 DEF TypeOK
    <3>3. /\ check'[c].left = check[c].left \ {e} /\ check'[c].true = check[c].true
          /\ \A d \in Conns \ {c} : check'[d] = check[d]
      BY <3>1, <3>2 DEF TypeOK
    <3>4. ~Doubted(e)
      <4>1. e.table \in Tables /\ e.count \in Nat /\ db.counter[e.table] \in Nat
        BY <1>1, <3>2 DEF Entry, Store
      <4> QED
        BY <2>2, <4>1 DEF Stands, Doubted
    <3> QED
      BY <1>2, <3>1, <3>3, <3>4
  <2> QED
    BY <2>1, <2>2
<1>7. ASSUME NEW c \in Conns, Statement(c) PROVE UNCHANGED check
  BY <1>7, StatementFollows
<1> QED
  BY <1>3, <1>4, <1>5, <1>6, <1>7, Cases
  DEF vars, Imports, Opens, Begins, Commits, RollsBack, Sweeps, BeginsScan, Fetches, Counts, EndsScan

LEMMA IInvStep == ASSUME IInv, [Next]_vars PROVE IInv'
BY TypeStep, RevisionsStep, WorksStep, ScansStep, PinnedStep, NotesStep, StaleStep DEF IInv

LEMMA IInvAlways == Spec => []IInv
<1>1. Init => IInv
  BY InitIInv
<1>2. IInv /\ [Next]_vars => IInv'
  BY IInvStep
<1> QED
  BY <1>1, <1>2, PTL DEF Spec

(***************************************************************************)
(* The theorems.                                                           *)
(***************************************************************************)
\* The variables have their types, and the write lock is one open
\* connection's.
THEOREM RevisionsTypeCorrect == Spec => []TypeOK
<1>1. IInv => TypeOK
  BY DEF IInv
<1> QED
  BY <1>1, IInvAlways, PTL

\* While a connection is open, the digests of the tables it swept are those
\* of their rows (backfill_row_digests, reactive.rs).
THEOREM DigestsAreOfTheRows == Spec => []RevisionsMatch
<1>1. IInv => RevisionsMatch
  BY DEF IInv
<1> QED
  BY <1>1, IInvAlways, PTL

\* What validate-trace vouches for was the database's content when it began.
THEOREM ValidTracesAreTrue == Spec => []YesIsTrue
<1>1. IInv => YesIsTrue
  BY DEF IInv, StaleAreDoubted, YesIsTrue, SaysYes
<1> QED
  BY <1>1, IInvAlways, PTL

\* An observed counter that still stands pins the observed digests.
THEOREM CountersSuffice == Spec => []CountersPinDigests
<1>1. IInv => CountersPinDigests
  BY DEF IInv, KeptArePinned, Pinned, CountersPinDigests
<1> QED
  BY <1>1, IInvAlways, PTL

\* Every change a connection commits moves the counter of the table changed.
THEOREM NoChangeIsUncounted == Spec => ChangesAreCounted
<1> DEFINE Counted == \A t \in Tables :
       /\ db'.counter[t] >= db.counter[t]
       /\ ~MayImport /\ db'.data[t] # db.data[t] => db'.counter[t] > db.counter[t]
<1>1. IInv /\ [Next]_vars => [Counted]_vars
  <2> SUFFICES ASSUME IInv, [Next]_vars PROVE Counted
    OBVIOUS
  <2>1. Grows /\ db \in Store /\ db' \in Store
    BY GrowsStep, TypeStep DEF IInv, TypeOK
  <2>2. CASE db'.data = db.data
    BY <2>1, <2>2 DEF Grows
  <2>3. ASSUME NEW c \in Conns, Commits(c) PROVE Counted
    <3>1. \A t \in Tables : db.counter[t] \in Nat /\ db'.counter[t] \in Nat
      BY <2>1 DEF Store
    <3> QED
      BY <2>3, <3>1, CommitCounts
  <2>4. ASSUME Imports PROVE Counted
    BY <2>1, <2>4 DEF Imports, Grows
  <2>5. ASSUME NEW c \in Conns, NEW t \in Tables, Sweeps(c, t) PROVE db'.data = db.data
    BY <2>1, <2>5, SweptCounts DEF Sweeps
  <2>6. ASSUME NEW c \in Conns, Statement(c) PROVE db' = db
    BY <2>6, StatementFollows DEF IInv
  <2> QED
    BY <2>2, <2>3, <2>4, <2>5, <2>6, Cases
    DEF vars, Opens, Closes, Begins, RollsBack, BeginsScan, Fetches, Answers, Counts, EndsScan,
        BeginsCheck, Compares
<1> QED
  BY <1>1, IInvAlways, PTL DEF Spec, ChangesAreCounted
=============================================================================
