---------------------------- MODULE RowRevisions ----------------------------
(***************************************************************************)
(* The reactive tables of exosuit-storage.  A table's rows lie in a shadow *)
(* table; beside them the database keeps a digest of each row and a        *)
(* counter of the table's changes.  A command that reads through the       *)
(* virtual tables collects a trace, the counters and digests it observed,  *)
(* and a client that kept the result asks later whether the trace is still *)
(* valid.  Connections of several processes read, write and check at once; *)
(* an import rewrites the shadow tables behind the virtual ones.           *)
(*                                                                         *)
(* A digest is modelled by the row it is computed from.                    *)
(***************************************************************************)
EXTENDS Naturals, FiniteSets

CONSTANTS
  Tables,
  Rows,        \* rowids
  Keys,        \* a table's values of the column that is unique in it
  Parent,      \* the table a table's rows refer to, deleted with what they refer to
  Conns,       \* connections, of any process
  Writers,     \* those whose commands write
  Readers,     \* those whose commands read, or validate a trace
  Shown,       \* the tables whose columns commands read, not only their rowids
  Clients,     \* who keeps results, one at a time
  MaxCounter,  \* bound: changes counted, per table
  None,
  Absent

ASSUME RevisionConstants ==
  /\ IsFiniteSet(Rows)
  /\ Shown \subseteq Tables
  /\ None \notin Tables \union Rows
  /\ \A open \in SUBSET Tables : open # None
  /\ Parent \in [Tables -> Tables \union {None}]
  /\ MaxCounter \in [Tables -> Nat]

\* No table refers to itself, directly or through others.
ASSUME ParentsComeFirst ==
  \E rank \in [Tables -> 0 .. Cardinality(Tables)] :
    \A t \in Tables : Parent[t] # None => rank[Parent[t]] < rank[t]

Row == [key : UNION {Keys[t] : t \in Tables}, up : Rows \union {None}]

ASSUME AbsentIsNoRow == Absent \notin Row

RowsOf(t) == {row \in Row : row.key \in Keys[t] /\ (row.up = None <=> Parent[t] = None)}

Content == [Rows -> Row \union {Absent}]

Store == [data    : [Tables -> Content],   \* the shadow tables
          rev     : [Tables -> Content],   \* the stored digests
          counter : [Tables -> Nat]]

VARIABLES
  db,     \* what is committed
  work,   \* a connection's uncommitted copy; one at most holds the write lock
  sweep,  \* the tables an opening connection has yet to sweep; None: not open
  scan,   \* the command a connection traces
  kept,   \* the observations of a client's cached result
  check   \* the validation a connection runs

vars == <<db, work, sweep, scan, kept, check>>

Open(c) == sweep[c] = {}
Idle(c) == Open(c) /\ work[c] = None /\ scan[c] = None /\ check[c] = None
Unlocked == \A c \in Conns : work[c] = None

Present(rows) == {r \in Rows : rows[r] # Absent}

\* The constraints of the shadow tables, which SQLite enforces.
Sound(data) ==
  \A t \in Tables : \A r \in Present(data[t]) :
    /\ data[t][r] \in RowsOf(t)
    /\ \A q \in Present(data[t]) : data[t][q].key = data[t][r].key => q = r
    /\ Parent[t] # None => data[Parent[t]][data[t][r].up] # Absent

Contents ==
  {data \in [Tables -> UNION {[Rows -> RowsOf(t) \union {Absent}] : t \in Tables}] : Sound(data)}

\* A database whose revisions an earlier connection brought up to date.
Init ==
  /\ \E data \in Contents :
       db = [data |-> data, rev |-> data, counter |-> [t \in Tables |-> 0]]
  /\ work = [c \in Conns |-> None]
  /\ sweep = [c \in Conns |-> None]
  /\ scan = [c \in Conns |-> None]
  /\ kept = [k \in Clients |-> {}]
  /\ check = [c \in Conns |-> None]

(***************************************************************************)
(* Foreign keys: what goes with the rows deleted.                          *)
(***************************************************************************)
Spreads(data, gone) ==
  \A u \in Tables : \A q \in Present(data[u]) :
    Parent[u] # None /\ <<Parent[u], data[u][q].up>> \in gone => <<u, q>> \in gone

Falls(data, first) ==
  LET there == {p \in Tables \X Rows : data[p[1]][p[2]] # Absent}
  IN  {p \in there :
         \A gone \in SUBSET there : first \subseteq gone /\ Spreads(data, gone) => p \in gone}

Without(data, gone) ==
  [t \in Tables |-> [r \in Rows |-> IF <<t, r>> \in gone THEN Absent ELSE data[t][r]]]

Put(data, t, r, row) == [data EXCEPT ![t][r] = row]

(***************************************************************************)
(* The revisions after a statement changed the shadow tables to data.      *)
(***************************************************************************)
\* refresh_row_revision: the row's digest, or none when the row is gone.
Refreshed(rev, data, t, r) == [rev EXCEPT ![t][r] = data[t][r]]

\* clear_stale_row_revisions of the tables ts.
Cleared(rev, data, ts) ==
  [u \in Tables |-> IF u \in ts
                    THEN [r \in Rows |-> IF data[u][r] = Absent THEN Absent ELSE rev[u][r]]
                    ELSE rev[u]]

Bumped(counter, ts) == [u \in Tables |-> IF u \in ts THEN counter[u] + 1 ELSE counter[u]]

\* Faulty: the tables a cascade reached are not looked for.
Shrunk_Own(before, after, t) == {}

\* The other tables whose number of rows changed.
Shrunk(before, after, t) ==
  {u \in Tables \ {t} : Cardinality(Present(before[u])) # Cardinality(Present(after[u]))}

\* Faulty: an update moves no counter.
PlainWrite_Uncounted(w, data, t, r) ==
  [data |-> data, rev |-> Refreshed(w.rev, data, t, r), counter |-> w.counter]

PlainWrite(w, data, t, r) ==
  [data |-> data, rev |-> Refreshed(w.rev, data, t, r), counter |-> Bumped(w.counter, {t})]

\* Faulty: the row another one replaced keeps its digest.
ReplacingWrite_Unswept(w, data, t, r) ==
  LET shrunk == Shrunk(w.data, data, t)
  IN  [data    |-> data,
       rev     |-> Cleared(Refreshed(w.rev, data, t, r), data, shrunk),
       counter |-> Bumped(w.counter, shrunk \union {t})]

ReplacingWrite(w, data, t, r) ==
  LET shrunk == Shrunk(w.data, data, t)
  IN  [data    |-> data,
       rev     |-> Cleared(Refreshed(w.rev, data, t, r), data, shrunk \union {t}),
       counter |-> Bumped(w.counter, shrunk \union {t})]

DeletingWrite(w, data, t, r) ==
  LET shrunk == Shrunk(w.data, data, t)
  IN  [data    |-> data,
       rev     |-> Cleared(Refreshed(w.rev, data, t, r), data, shrunk),
       counter |-> Bumped(w.counter, shrunk \union {t})]

(***************************************************************************)
(* A connection.                                                           *)
(***************************************************************************)
Opens(c) ==
  /\ sweep[c] = None
  /\ sweep' = [sweep EXCEPT ![c] = Tables]
  /\ UNCHANGED <<db, work, scan, kept, check>>

\* Faulty: the rows found changed are not counted as a change.
Swept_Silently(s, t) == [s EXCEPT !.rev[t] = s.data[t]]

Swept(s, t) ==
  IF s.rev[t] = s.data[t] THEN s ELSE [s EXCEPT !.rev[t] = s.data[t], !.counter[t] = @ + 1]

\* backfill_row_digests, a transaction per table, in the order of
\* REACTIVE_TABLES: a table after the one it refers to.
Sweeps(c, t) ==
  /\ sweep[c] # None /\ t \in sweep[c]
  /\ Parent[t] \notin sweep[c]
  /\ Unlocked
  /\ db.rev[t] # db.data[t] => db.counter[t] < MaxCounter[t]
  /\ db' = Swept(db, t)
  /\ sweep' = [sweep EXCEPT ![c] = @ \ {t}]
  /\ UNCHANGED <<work, scan, kept, check>>

\* The request ends, or its process dies: what is not committed is lost.
Closes(c) ==
  /\ sweep[c] # None
  /\ sweep' = [sweep EXCEPT ![c] = None]
  /\ work' = [work EXCEPT ![c] = None]
  /\ scan' = [scan EXCEPT ![c] = None]
  /\ check' = [check EXCEPT ![c] = None]
  /\ UNCHANGED <<db, kept>>

\* The exclusive compatibility lease: no connection is open.
MayImport == \A c \in Conns : sweep[c] = None

\* Trusted code rewrites the shadow tables and none of the revisions.
Imports ==
  /\ MayImport
  /\ \E data \in Contents : db' = [db EXCEPT !.data = data]
  /\ UNCHANGED <<work, sweep, scan, kept, check>>

(***************************************************************************)
(* Writes through the virtual tables.  A statement that fails changes      *)
(* nothing: it runs in a savepoint of the transaction.                     *)
(***************************************************************************)
Begins(c) ==
  /\ c \in Writers
  /\ Idle(c)
  /\ Unlocked
  /\ work' = [work EXCEPT ![c] = db]
  /\ UNCHANGED <<db, sweep, scan, kept, check>>

MayChange(c, t) == work[c] # None /\ work[c].counter[t] < MaxCounter[t]

Executes(c, w) ==
  /\ \A t \in Tables : w.counter[t] <= MaxCounter[t]
  /\ work' = [work EXCEPT ![c] = w]
  /\ UNCHANGED <<db, sweep, scan, kept, check>>

\* INSERT of a new row and UPDATE of one that is there.
Writes(c, t, r, row) ==
  /\ MayChange(c, t)
  /\ LET data == Put(work[c].data, t, r, row)
     IN  Sound(data) /\ Executes(c, PlainWrite(work[c], data, t, r))

\* INSERT OR REPLACE and UPDATE OR REPLACE: the rows with this key give way,
\* and for an insert the row at this place does.
Replaces(c, t, r, row) ==
  /\ MayChange(c, t)
  /\ \E own \in SUBSET ({r} \intersect Present(work[c].data[t])) :
       LET rivals == {q \in Present(work[c].data[t]) : q # r /\ work[c].data[t][q].key = row.key}
           gone   == Falls(work[c].data, {<<t, q>> : q \in rivals \union own})
           data   == Put(Without(work[c].data, gone), t, r, row)
       IN  Sound(data) /\ Executes(c, ReplacingWrite(work[c], data, t, r))

Deletes(c, t, r) ==
  /\ MayChange(c, t)
  /\ work[c].data[t][r] # Absent
  /\ LET data == Without(work[c].data, Falls(work[c].data, {<<t, r>>}))
     IN  Executes(c, DeletingWrite(work[c], data, t, r))

Commits(c) ==
  /\ work[c] # None
  /\ db' = work[c]
  /\ work' = [work EXCEPT ![c] = None]
  /\ UNCHANGED <<sweep, scan, kept, check>>

RollsBack(c) ==
  /\ work[c] # None
  /\ work' = [work EXCEPT ![c] = None]
  /\ UNCHANGED <<db, sweep, scan, kept, check>>

(***************************************************************************)
(* A traced command reads tables through a connection, one after another.  *)
(* Its trace has the counter of each table it read, and the digests of the *)
(* rows when it read their columns.                                        *)
(***************************************************************************)
Observation == [table : Tables, count : Nat, rows : Content]

BeginsScan(c) ==
  /\ c \in Readers
  /\ Idle(c)
  /\ scan' = [scan EXCEPT ![c] = [seen |-> {}, noted |-> None]]
  /\ UNCHANGED <<db, work, sweep, kept, check>>

\* xFilter: the counter first ...
Counts(c, t) ==
  /\ scan[c] # None
  /\ scan[c].noted = None
  /\ \A o \in scan[c].seen : o.table # t
  /\ scan' = [scan EXCEPT ![c].noted = [table |-> t, count |-> db.counter[t]]]
  /\ UNCHANGED <<db, work, sweep, kept, check>>

\* ... then the rows; another connection may commit between the two.
Fetches(c) ==
  /\ scan[c] # None
  /\ scan[c].noted # None
  /\ LET note == scan[c].noted
         seen == [table |-> note.table, count |-> note.count, rows |-> db.data[note.table]]
     IN  scan' = [scan EXCEPT ![c] = [seen |-> @.seen \union {seen}, noted |-> None]]
  /\ UNCHANGED <<db, work, sweep, kept, check>>

\* The response carries the trace, and the client keeps both.
EndsScan(c, k) ==
  /\ scan[c] # None
  /\ scan[c].noted = None
  /\ scan[c].seen # {}
  /\ kept' = [kept EXCEPT ![k] = scan[c].seen]
  /\ scan' = [scan EXCEPT ![c] = None]
  /\ UNCHANGED <<db, work, sweep, check>>

(***************************************************************************)
(* context validate-trace: Trace::validate over the entries, each read by  *)
(* a query of its own.                                                     *)
(***************************************************************************)
\* An entry for the table's counter, and one for each row read.
Entries(o) ==
  {[table |-> o.table, row |-> None, count |-> o.count, digest |-> Absent]}
    \union {[table |-> o.table, row |-> r, count |-> 0, digest |-> o.rows[r]] :
               r \in IF o.table \in Shown THEN Present(o.rows) ELSE {}}

Entry == [table : Tables, row : Rows \union {None}, count : Nat, digest : Row \union {Absent}]

Stands(e) == IF e.row = None THEN db.counter[e.table] = e.count
             ELSE db.rev[e.table][e.row] = e.digest

Current(o) == db.data[o.table] = o.rows

\* true is a history: whether the client's rows are the database's right now.
BeginsCheck(c, k) ==
  /\ c \in Readers
  /\ Idle(c)
  /\ kept[k] # {}
  /\ check' = [check EXCEPT ![c] = [left |-> UNION {Entries(o) : o \in kept[k]},
                                    true |-> \A o \in kept[k] : Current(o)]]
  /\ UNCHANGED <<db, work, sweep, scan, kept>>

\* The entries come table by table, the counter of a table before its rows.
IsNext(left, e) ==
  LET begun == {f.table : f \in left} \ {f.table : f \in {g \in left : g.row = None}}
  IN  IF e.row = None THEN begun = {} ELSE e.table \in begun

\* The answer is no at the first entry that does not stand, and yes when
\* none is left.
Compares(c, e) ==
  /\ check[c] # None
  /\ e \in check[c].left
  /\ IsNext(check[c].left, e)
  /\ check' = IF Stands(e) THEN [check EXCEPT ![c].left = @ \ {e}]
              ELSE [check EXCEPT ![c] = None]
  /\ UNCHANGED <<db, work, sweep, scan, kept>>

SaysYes(c) == check[c] # None /\ check[c].left = {}

Answers(c) ==
  /\ SaysYes(c)
  /\ check' = [check EXCEPT ![c] = None]
  /\ UNCHANGED <<db, work, sweep, scan, kept>>

Next ==
  \/ Imports
  \/ \E c \in Conns :
       \/ Opens(c) \/ Closes(c) \/ Begins(c) \/ Commits(c) \/ RollsBack(c)
       \/ BeginsScan(c) \/ Fetches(c) \/ Answers(c)
       \/ \E t \in Tables : Sweeps(c, t) \/ Counts(c, t)
       \/ \E t \in Tables, r \in Rows : Deletes(c, t, r)
       \/ \E t \in Tables : \E r \in Rows, row \in RowsOf(t) :
            Writes(c, t, r, row) \/ Replaces(c, t, r, row)
       \/ \E k \in Clients : EndsScan(c, k) \/ BeginsCheck(c, k)
       \/ check[c] # None /\ \E e \in check[c].left : Compares(c, e)

Spec == Init /\ [][Next]_vars

(***************************************************************************)
(* What must hold.                                                         *)
(***************************************************************************)
\* The variables have their types; one connection at most holds the write
\* lock, and it is open (BEGIN IMMEDIATE takes it, a dropped connection
\* frees it): a lock that outlives its connection stops every writer.
TypeOK ==
  /\ db \in Store
  /\ work \in [Conns -> Store \union {None}]
  /\ sweep \in [Conns -> (SUBSET Tables) \union {None}]
  /\ scan \in [Conns -> [seen : SUBSET Observation,
                         noted : [table : Tables, count : Nat] \union {None}] \union {None}]
  /\ kept \in [Clients -> SUBSET Observation]
  /\ check \in [Conns -> [left : SUBSET Entry, true : BOOLEAN] \union {None}]
  /\ \A c \in Conns : work[c] # None => Open(c)
  /\ \A c, d \in Conns : work[c] # None /\ work[d] # None => c = d

\* The digests of a table some open connection swept are those of its rows,
\* whatever statements, cascades, rollbacks and other connections did since.
RevisionsMatch ==
  \A c \in Conns, t \in Tables : sweep[c] # None /\ t \notin sweep[c] => db.rev[t] = db.data[t]

\* validate-trace never vouches for a result that was stale when the
\* validation began: not after a cascade, an import behind the tables, a
\* rolled-back write, a change and its reversal, or a read that overlapped a
\* write.
YesIsTrue == \A c \in Conns : SaysYes(c) => check[c].true

\* While a table's counter is the observed one, so are its digests: a trace
\* whose counters match is never refused for a row.
CountersPinDigests ==
  \A k \in Clients : \A o \in kept[k] :
    o.count = db.counter[o.table] => db.rev[o.table] = o.rows

\* A commit that changes a table's rows moves its counter, also when the rows
\* went by a cascade; and no counter ever goes back.
ChangesAreCounted ==
  [][\A t \in Tables :
       /\ db'.counter[t] >= db.counter[t]
       /\ ~MayImport /\ db'.data[t] # db.data[t] => db'.counter[t] > db.counter[t]]_vars
=============================================================================
