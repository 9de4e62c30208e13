------------------------------ MODULE RfcViews ------------------------------
(***************************************************************************)
(* The metadata of the RFC documents.  Every worktree of a project has its *)
(* own documents, on its own branch; one database holds the shared rows,   *)
(* which follow the default branch, and for each worktree a snapshot of    *)
(* the documents it was last seen to have.  A request sees the snapshot of *)
(* its worktree laid over the shared rows.                                 *)
(*                                                                         *)
(* An RFC is named by its anchor.  Of a document the model keeps where it  *)
(* lies (a stage's directory, or that of retired RFCs), what it says, and  *)
(* whether it declares a feature, which stands for the optional fields: a  *)
(* document that does not declare one leaves it to the database.           *)
(***************************************************************************)
EXTENDS Naturals, Sequences, FiniteSets

CONSTANTS
  Worktrees,
  Branches,
  Procs,          \* processes: a daemon, commands run without one
  Resident,       \* the daemons among them: the others end with their request
  KindsOf,        \* the requests a process may be sent
  Anchors,        \* RFCs
  Places,         \* the stages of active RFCs, 0 .. n
  Retired,        \* the directories of withdrawn and archived RFCs
  Texts,
  Template,       \* what a new document says
  Broken,         \* the text of a document that cannot be used
  Marked,         \* a text with the lifecycle lines of a retired document put in
  Features,
  None,
  FirstTree,      \* the documents of the first commit
  FirstRows,      \* the rows of a database no canonical pass has seen
  FirstBranch,    \* the branch a worktree starts on
  MaxCommits,     \* bounds: of commits on the default branch,
  MaxCommands,    \* of commands that change a document,
  MaxEvents       \* of merges, edits by hand, branches checked out, processes
                  \* killed and times the default branch becomes ambiguous or clear

Kinds == {"list", "show", "edit", "feature", "promote", "retire", "create"}

Documents == [place : Places \union {Retired}, text : Texts \union {Broken},
              feature : Features \union {None}]
Rows      == [place : Places \union {Retired}, text : Texts, feature : Features \union {None}]
Trees     == [Anchors -> Documents \union {None}]
\* What a worktree was seen to have, and what that was taken of.
Observations == [place : Places \union {Retired}, text : Texts,
                 feature : Features \union {None}, declared : BOOLEAN]
Takes        == [branch : Branches, digest : Trees, source : 0..MaxCommits]

ASSUME RfcConstants ==
  /\ MaxCommits \in Nat \ {0} /\ MaxCommands \in Nat /\ MaxEvents \in Nat
  /\ KindsOf \in [Procs -> SUBSET Kinds] /\ Resident \subseteq Procs
  /\ 0 \in Places /\ Retired \notin Places
  /\ Template \in Texts /\ Broken \notin Texts
  /\ Marked \in [Texts -> Texts]
  /\ None \notin Features \union Worktrees \union Branches \union Procs \union Anchors
  /\ None \notin Documents /\ None \notin Rows /\ None \notin Observations /\ None \notin Takes
  /\ FirstTree \in Trees
  /\ FirstRows \subseteq [Anchors -> Rows \union {None}]
  /\ FirstBranch \in [Worktrees -> Branches]

VARIABLES
  commits,     \* the default branch, as far as this machine knows it
  resolves,    \* whether one reference names that branch
  docs,        \* a worktree's documents
  branch,      \* and its branch
  shared,      \* rows of the database
  baseline,    \* whether a canonical pass has been made
  quarantine,  \* anchors whose rows were set aside
  snap,        \* what a worktree's snapshot was taken of
  obs,         \* its observations
  cache,       \* (process, worktree, commit) a process has reconciled
  lock,        \* who holds the reconcile lock
  work,        \* what a process is doing
  origin,      \* the commit a shared row was taken from (history)
  asked,       \* features given to an RFC on a branch (history)
  wish,        \* the feature last given by a command (history)
  raced,       \* worktrees where a command overlapped a change (history)
  count        \* what the bounds count

git     == <<commits, resolves>>
rows    == <<shared, baseline, quarantine, origin>>
views   == <<snap, obs>>
history == <<asked, wish, raced>>
vars == <<git, docs, branch, rows, views, cache, lock, work, history, count>>

Tip       == Len(commits)
Source    == IF resolves THEN Tip ELSE 0
Usable(d) == d # None /\ d.text # Broken
Face(d)   == <<d.place, d.text>>
SameFace(d, o) == IF d = None \/ o = None THEN d = o ELSE Face(d) = Face(o)

Free == [at |-> "idle", tree |-> None, kind |-> None, anchor |-> None, feature |-> None,
         doc |-> None, row |-> None, branch |-> None, source |-> 0]

InPass     == {"reconciling", "observing"}
Unfinished == {"loaded"}

Init ==
  /\ commits = <<FirstTree>>
  /\ resolves = TRUE
  /\ docs = [w \in Worktrees |-> FirstTree]
  /\ branch = FirstBranch
  /\ shared \in FirstRows
  /\ baseline = FALSE
  /\ quarantine = {}
  /\ snap = [w \in Worktrees |-> None]
  /\ obs = [w \in Worktrees |-> [a \in Anchors |-> None]]
  /\ cache = {}
  /\ lock = None
  /\ work = [p \in Procs |-> Free]
  /\ origin = [a \in Anchors |-> 0]
  /\ asked = {<<w, FirstBranch[w], a, FirstTree[a].feature>> : w \in Worktrees,
                a \in {b \in Anchors : FirstTree[b] # None /\ FirstTree[b].feature # None}}
  /\ wish = [w \in Worktrees |-> [a \in Anchors |-> None]]
  /\ raced = {}
  /\ count = [events |-> 0, commands |-> 0]

Counts(what, max) == count[what] < max /\ count' = [count EXCEPT ![what] = @ + 1]
Becomes(p, to)    == work' = [work EXCEPT ![p].at = to]
Ends(p)           == work' = [work EXCEPT ![p] = Free]

(***************************************************************************)
(* Histories.  Worktrees become raced when somebody changes, at ws, what a *)
(* command of another process has read and not used yet.  A feature given  *)
(* by a command is to be seen until the document declares one itself, is   *)
(* broken or gone, leaves the branch, or the shared row agrees.            *)
(***************************************************************************)
Overlapped(p, ws, busy) ==
  {w \in ws : \E q \in Procs \ {p} : work[q].tree = w /\ work[q].at \in busy}

Declared(w, d) ==
  {<<w, branch'[w], a, d[a].feature>> : a \in {b \in Anchors : d[b] # None /\ d[b].feature # None}}

Remembers(w, busy, p) ==
  /\ asked' = asked \union Declared(w, docs'[w])
  /\ wish' = [wish EXCEPT ![w] = [a \in Anchors |->
       IF Usable(docs'[w][a]) /\ docs'[w][a].feature = None /\ branch'[w] = branch[w]
       THEN @[a] ELSE None]]
  /\ raced' = raced \union Overlapped(p, {w}, busy)

(***************************************************************************)
(* The canonical rows after a pass over a commit: every usable document    *)
(* gives its row, with the feature the row had if it declares none; a row  *)
(* whose anchor the commit lacks is set aside when this is the first pass  *)
(* or no earlier commit ever had it.                                       *)
(***************************************************************************)
CanonicalRow(d, old) ==
  [place |-> d.place, text |-> d.text,
   feature |-> IF d.feature = None /\ old # None THEN old.feature ELSE d.feature]

InHistory_TipOnly(a, c) == commits[c][a] # None
InHistory(a, c) == \E i \in 1..c : commits[i][a] # None

SetAside_Never(c) == {}
SetAside(c) ==
  {a \in Anchors : shared[a] # None /\ commits[c][a] = None /\ (~baseline \/ ~InHistory(a, c))}

RowsAfter(c) ==
  [a \in Anchors |->
     IF Usable(commits[c][a]) THEN CanonicalRow(commits[c][a], shared[a])
     ELSE IF a \in SetAside(c) THEN None ELSE shared[a]]

Reconciles(c) ==
  /\ shared' = RowsAfter(c)
  /\ quarantine' = (quarantine \ {a \in Anchors : Usable(commits[c][a])}) \union SetAside(c)
  /\ baseline' = TRUE
  /\ origin' = [a \in Anchors |-> IF Usable(commits[c][a]) THEN c ELSE origin[a]]

(***************************************************************************)
(* A worktree's snapshot is kept when nothing it was taken of has changed. *)
(* Otherwise it is replaced, and the features the old one had beyond the   *)
(* documents are carried over if the branch is the same.                   *)
(***************************************************************************)
IsCurrent_AnyDocuments(w, b, c) ==
  snap[w] # None /\ snap[w].branch = b /\ snap[w].source = c
IsCurrent(w, b, c) == snap[w] = [branch |-> b, digest |-> docs[w], source |-> c]

SameBranch_Unchecked(w, b) == snap[w] # None
SameBranch(w, b) == snap[w] # None /\ snap[w].branch = b

Observation(w, a, b, given) ==
  LET d == docs[w][a]
      old == obs[w][a]
      kept == /\ d.feature = None /\ SameBranch(w, b)
              /\ old # None /\ old.declared
              /\ old.feature # (IF given[a] = None THEN None ELSE given[a].feature)
  IN [place |-> d.place, text |-> d.text,
      feature |-> IF kept THEN old.feature ELSE d.feature,
      declared |-> kept \/ d.feature # None]

Seen(w, b, given) == [a \in Anchors |-> IF Usable(docs[w][a]) THEN Observation(w, a, b, given) ELSE None]

Refreshed(w, b, c, given) == IF IsCurrent(w, b, c) THEN obs[w] ELSE Seen(w, b, given)

Snapshots(w, b, c, observed) ==
  /\ snap' = [snap EXCEPT ![w] = [branch |-> b, digest |-> docs[w], source |-> c]]
  /\ obs' = [obs EXCEPT ![w] = observed]

(***************************************************************************)
(* The view: observations first, an undeclared feature from the shared     *)
(* row, and the shared rows the worktree has no usable document of.        *)
(***************************************************************************)
ViewOf(observed, given) ==
  [a \in Anchors |->
     IF observed[a] = None THEN given[a]
     ELSE [place |-> observed[a].place, text |-> observed[a].text,
           feature |-> IF observed[a].declared THEN observed[a].feature
                       ELSE IF given[a] = None THEN None ELSE given[a].feature]]

View(w) == ViewOf(obs[w], shared)

(***************************************************************************)
(* A pass holds the reconcile lock.  It first asks git for the default     *)
(* branch's commit; the worktree's branch is read after the canonical rows *)
(* are written and before the documents are.                               *)
(***************************************************************************)
Locks_NotTaken(p, w, to, job) ==
  /\ lock' = lock
  /\ work' = [work EXCEPT ![p] =
       [job EXCEPT !.at = to, !.tree = w, !.source = Source, !.branch = branch[w]]]

Locks(p, w, to, job) ==
  /\ lock = None
  /\ lock' = p
  /\ work' = [work EXCEPT ![p] =
       [job EXCEPT !.at = to, !.tree = w, !.source = Source, !.branch = branch[w]]]

IsDue(p, w, c) == c # 0 /\ <<p, w, c>> \notin cache
Kept(p)        == {k \in cache : k[1] # p}

\* Shared rows change: commands that have loaded a record are overlapped.
Disturbs(p) ==
  /\ raced' = raced \union (IF shared' = shared THEN {} ELSE Overlapped(p, Worktrees, Unfinished))
  /\ wish' = [w \in Worktrees |-> [a \in Anchors |->
       IF shared'[a] # None /\ shared'[a].feature = wish[w][a] THEN None ELSE wish[w][a]]]

\* `rfc list`, `rfc status` and every command that loads the project's context.
ListBegins(p, w) ==
  /\ work[p].at = "idle" /\ "list" \in KindsOf[p]
  /\ Locks(p, w, IF IsDue(p, w, Source) THEN "reconciling" ELSE "observing", Free)
  /\ UNCHANGED <<git, docs, branch, rows, views, cache, history, count>>

Reconcile(p) ==
  LET w == work[p].tree IN
  /\ work[p].at = "reconciling"
  /\ Reconciles(work[p].source)
  /\ work' = [work EXCEPT ![p].at = "observing", ![p].branch = branch[w]]
  /\ Disturbs(p)
  /\ UNCHANGED <<git, docs, branch, views, cache, lock, asked, count>>

ListEnds(p) ==
  LET j == work[p] IN
  /\ j.at = "observing"
  /\ Snapshots(j.tree, j.branch, j.source, Refreshed(j.tree, j.branch, j.source, shared))
  /\ cache' = IF j.source = 0 \/ p \notin Resident THEN cache
              ELSE cache \union {<<p, j.tree, j.source>>}
  /\ lock' = None
  /\ Ends(p)
  /\ UNCHANGED <<git, docs, branch, rows, history, count>>

(***************************************************************************)
(* `rfc show` makes its pass in a transaction of its own, committed only   *)
(* if the RFC is found, and for that reason records nothing as reconciled. *)
(* It is one step, and so are the passes of the commands below: what may   *)
(* change between the reads of a pass does so while a list is made.        *)
(***************************************************************************)
Remembered_AtOnce(p, w) == IF Source = 0 THEN cache ELSE cache \union {<<p, w, Source>>}
Remembered(p, w) == cache

Shows(p, w) ==
  LET due   == IsDue(p, w, Source)
      given == IF due THEN RowsAfter(Source) ELSE shared
      seen  == Refreshed(w, branch[w], Source, given)
      found == {a \in Anchors : ViewOf(seen, given)[a] # None}
  IN /\ work[p].at = "idle" /\ "show" \in KindsOf[p]
     /\ lock = None
     /\ cache' = Remembered(p, w)
     /\ \/ /\ found # {}
           /\ IF due THEN Reconciles(Source) ELSE UNCHANGED rows
           /\ Snapshots(w, branch[w], Source, seen)
           /\ Disturbs(p)
        \/ found # Anchors /\ UNCHANGED <<rows, views, raced, wish>>
     /\ UNCHANGED <<git, docs, branch, lock, work, asked, count>>

(***************************************************************************)
(* Commands that change a document.  What they write is made from what     *)
(* they read, without the lock: `edit` and a promotion whose document      *)
(* names its stage write back the rest of it as it was; a file put where   *)
(* the document no longer lies makes two files with one anchor.            *)
(***************************************************************************)
Begins(p, w, kind, a, f) ==
  /\ work[p].at = "idle" /\ kind \in KindsOf[p]
  /\ Usable(docs[w][a])
  /\ kind = "promote" => docs[w][a].place + 1 \in Places
  /\ Counts("commands", MaxCommands)
  /\ work' = [work EXCEPT ![p] =
       [Free EXCEPT !.at = IF kind = "feature" THEN "written" ELSE "read",
                    !.tree = w, !.kind = kind, !.anchor = a, !.feature = f, !.doc = docs[w][a]]]
  /\ UNCHANGED <<git, docs, branch, rows, views, cache, lock, history>>

Writes(p, w, a, new) ==
  /\ docs' = [docs EXCEPT ![w][a] =
       IF @ # None /\ @.place # new.place THEN [@ EXCEPT !.text = Broken] ELSE new]
  /\ Becomes(p, "written")

Edits(p) ==
  LET j == work[p] IN
  /\ j.at = "read" /\ j.kind = "edit"
  /\ \E t \in Texts \ {j.doc.text} : Writes(p, j.tree, j.anchor, [j.doc EXCEPT !.text = t])
  /\ UNCHANGED branch
  /\ Remembers(j.tree, Unfinished, p)
  /\ UNCHANGED <<git, rows, views, cache, lock, count>>

MovesTo(p, place, to) ==
  LET j == work[p]
      d == docs[j.tree][j.anchor]
  IN /\ j.at = "read"
     /\ UNCHANGED branch
     /\ IF d # None /\ d.place = j.doc.place
        THEN docs' = [docs EXCEPT ![j.tree][j.anchor].place = place] /\ Becomes(p, to)
        ELSE UNCHANGED docs /\ Ends(p)
     /\ Remembers(j.tree, Unfinished, p)
     /\ UNCHANGED <<git, rows, views, cache, lock, count>>

PromotionMoves(p) ==
  work[p].kind = "promote" /\ MovesTo(p, work[p].doc.place + 1, "moved")

PromotionWrites(p) ==
  LET j == work[p] IN
  /\ j.at = "moved" /\ j.kind = "promote"
  /\ UNCHANGED branch
  /\ \/ UNCHANGED docs /\ Becomes(p, "written")
     \/ Writes(p, j.tree, j.anchor, [j.doc EXCEPT !.place = @ + 1])
  /\ Remembers(j.tree, Unfinished, p)
  /\ UNCHANGED <<git, rows, views, cache, lock, count>>

Retires(p) == work[p].kind = "retire" /\ MovesTo(p, Retired, "moved")

\* The lifecycle lines go into the file that lies there by then.  One that is
\* gone becomes a file of these lines alone, which has no anchor: the command
\* ends there, as no document of the RFC.
RetirementWrites(p) ==
  LET j == work[p]
      d == docs[j.tree][j.anchor]
  IN /\ j.at = "moved" /\ j.kind = "retire"
     /\ UNCHANGED branch
     /\ IF d # None /\ d.place = Retired
        THEN /\ docs' = [docs EXCEPT ![j.tree][j.anchor].text =
                  IF @ = Broken THEN Broken ELSE Marked[@]]
             /\ Becomes(p, "written")
        ELSE UNCHANGED docs /\ Ends(p)
     /\ Remembers(j.tree, Unfinished, p)
     /\ UNCHANGED <<git, rows, views, cache, lock, count>>

(***************************************************************************)
(* A new RFC: its number is chosen from a view, then the file is written.  *)
(***************************************************************************)
Chooses(p, w, a, f) ==
  /\ work[p].at = "idle" /\ "create" \in KindsOf[p]
  /\ shared[a] = None /\ a \notin quarantine
  /\ \A v \in Worktrees : docs[v][a] = None
  /\ \A i \in 1..Tip : commits[i][a] = None
  /\ \A q \in Procs : work[q].kind = "create" => work[q].anchor # a
  /\ lock = None
  /\ Counts("commands", MaxCommands)
  /\ Snapshots(w, branch[w], Source, Refreshed(w, branch[w], Source, shared))
  /\ work' = [work EXCEPT ![p] =
       [Free EXCEPT !.at = "chosen", !.tree = w, !.kind = "create", !.anchor = a, !.feature = f]]
  /\ UNCHANGED <<git, docs, branch, rows, cache, lock, history>>

Creates(p) ==
  LET j == work[p] IN
  /\ j.at = "chosen"
  /\ UNCHANGED branch
  /\ docs' = [docs EXCEPT ![j.tree][j.anchor] = [place |-> 0, text |-> Template, feature |-> None]]
  /\ work' = [work EXCEPT ![p].at = "loaded",
       ![p].row = [place |-> 0, text |-> Template, feature |-> j.feature]]
  /\ Remembers(j.tree, Unfinished, p)
  /\ UNCHANGED <<git, rows, views, cache, lock, count>>

(***************************************************************************)
(* The command then records its document in the worktree's snapshot: the   *)
(* file is parsed, a record is made of it and of the view a pass loads,    *)
(* and another pass puts the record over the observation of that time.     *)
(***************************************************************************)
Loads(p) ==
  LET j == work[p]
      w == j.tree
      d == docs[w][j.anchor]
      seen == Refreshed(w, branch[w], Source, shared)
      v == ViewOf(seen, shared)[j.anchor]
      f == CASE j.kind = "feature" -> j.feature
             [] j.kind # "feature" /\ v = None -> None
             [] OTHER -> v.feature
  IN /\ j.at = "written"
     /\ IF Usable(d)
        THEN /\ lock = None
             /\ Snapshots(w, branch[w], Source, seen)
             /\ work' = [work EXCEPT ![p].at = "loaded", ![p].doc = None,
                  ![p].row = [place |-> d.place, text |-> d.text, feature |-> f]]
        ELSE UNCHANGED views /\ Ends(p)
     /\ UNCHANGED <<git, docs, branch, rows, cache, lock, history, count>>

Overridden(o, r, given) ==
  LET differs == o.declared \/ r.feature # (IF given = None THEN None ELSE given.feature)
  IN [place |-> r.place, text |-> r.text,
      feature |-> IF differs THEN r.feature ELSE o.feature, declared |-> differs]

Persists(p) ==
  LET j == work[p]
      w == j.tree
      a == j.anchor
      seen == Refreshed(w, branch[w], Source, shared)
      gives == j.kind \in {"feature", "create"} /\ seen[a] # None
  IN /\ j.at = "loaded"
     /\ lock = None
     /\ Snapshots(w, branch[w], Source,
          IF seen[a] = None THEN seen
          ELSE [seen EXCEPT ![a] = Overridden(@, j.row, shared[a])])
     /\ Ends(p)
     /\ raced' = raced \union Overlapped(p, {w}, Unfinished)
     /\ asked' = IF gives THEN asked \union {<<w, branch[w], a, j.feature>>} ELSE asked
     /\ wish' = IF gives /\ Usable(docs[w][a]) /\ docs[w][a].feature = None
                THEN [wish EXCEPT ![w][a] =
                       IF shared[a] # None /\ shared[a].feature = j.feature THEN None ELSE j.feature]
                ELSE wish
     /\ UNCHANGED <<git, docs, branch, rows, cache, lock, count>>

\* The lock stays taken for five seconds: the command fails, what it wrote stays.
GivesUp(p) ==
  /\ work[p].at \in {"written", "loaded"}
  /\ lock # None
  /\ Ends(p)
  /\ UNCHANGED <<git, docs, branch, rows, views, cache, lock, history, count>>

\* A process is killed: its lock is free, what it had reconciled forgotten.
Dies(p) ==
  /\ Counts("events", MaxEvents)
  /\ work[p].at # "idle"
  /\ Ends(p)
  /\ lock' = IF lock = p THEN None ELSE lock
  /\ cache' = Kept(p)
  /\ UNCHANGED <<git, docs, branch, rows, views, history>>

(***************************************************************************)
(* The people: documents edited by hand, branches checked out, documents   *)
(* merged, a second default branch fetched.  None of them takes the lock.  *)
(***************************************************************************)
HandEdits(w, a) ==
  /\ Counts("events", MaxEvents)
  /\ docs[w][a] # None
  /\ \/ \E t \in (Texts \union {Broken}) \ {docs[w][a].text} : docs' = [docs EXCEPT ![w][a].text = t]
     \/ \E f \in (Features \union {None}) \ {docs[w][a].feature} :
          docs' = [docs EXCEPT ![w][a].feature = f]
     \/ docs' = [docs EXCEPT ![w][a] = None]
  /\ UNCHANGED branch
  /\ Remembers(w, Unfinished, None)
  /\ UNCHANGED <<git, rows, views, cache, lock, work>>

ChecksOut(w, b) ==
  /\ Counts("events", MaxEvents)
  /\ b # branch[w] \/ docs[w] # commits[Tip]
  /\ docs' = [docs EXCEPT ![w] = commits[Tip]]
  /\ branch' = [branch EXCEPT ![w] = b]
  /\ Remembers(w, Unfinished \union InPass, None)
  /\ UNCHANGED <<git, rows, views, cache, lock, work>>

Merges(w, a) ==
  /\ Tip < MaxCommits /\ Counts("events", MaxEvents)
  /\ docs[w][a] # commits[Tip][a]
  /\ commits' = Append(commits, [commits[Tip] EXCEPT ![a] = docs[w][a]])
  /\ UNCHANGED <<resolves, docs, branch, rows, views, cache, lock, work, history>>

RefsChange ==
  /\ Counts("events", MaxEvents)
  /\ resolves' = ~resolves
  /\ UNCHANGED <<commits, docs, branch, rows, views, cache, lock, work, history>>

Next ==
  \/ \E p \in Procs, w \in Worktrees :
       \/ ListBegins(p, w) \/ Shows(p, w)
       \/ \E a \in Anchors :
            \/ \E kind \in {"edit", "promote", "retire"} : Begins(p, w, kind, a, None)
            \/ \E f \in Features : Begins(p, w, "feature", a, f) \/ Chooses(p, w, a, f)
  \/ \E p \in Procs :
       \/ Reconcile(p) \/ ListEnds(p)
       \/ Edits(p) \/ PromotionMoves(p) \/ PromotionWrites(p)
       \/ Retires(p) \/ RetirementWrites(p)
       \/ Creates(p) \/ Loads(p) \/ Persists(p)
       \/ GivesUp(p) \/ Dies(p)
  \/ \E w \in Worktrees :
       \/ \E a \in Anchors : HandEdits(w, a) \/ Merges(w, a)
       \/ \E b \in Branches : ChecksOut(w, b)
  \/ RefsChange

Spec == Init /\ [][Next]_vars

-----------------------------------------------------------------------------
(***************************************************************************)
(* Types.                                                                  *)
(***************************************************************************)
Stages == {"idle", "read", "moved", "written", "loaded", "chosen"} \union InPass

TypeOK ==
  /\ \A i \in 1..Tip : commits[i] \in Trees
  /\ Tip \in 1..MaxCommits /\ resolves \in BOOLEAN
  /\ docs \in [Worktrees -> Trees] /\ branch \in [Worktrees -> Branches]
  /\ shared \in [Anchors -> Rows \union {None}]
  /\ baseline \in BOOLEAN /\ quarantine \subseteq Anchors
  /\ DOMAIN snap = Worktrees /\ \A w \in Worktrees : snap[w] # None =>
       /\ DOMAIN snap[w] = {"branch", "digest", "source"} /\ snap[w].branch \in Branches
       /\ snap[w].digest \in Trees /\ snap[w].source \in 0..Tip
  /\ obs \in [Worktrees -> [Anchors -> Observations \union {None}]]
  /\ cache \subseteq Procs \X Worktrees \X (1..Tip)
  /\ lock \in Procs \union {None}
  /\ \A p \in Procs : work[p].at \in Stages /\ (work[p].at \in InPass <=> lock = p)
  /\ \A a \in quarantine : shared[a] = None

(***************************************************************************)
(* Nothing reaches the shared rows but by the default branch: once a       *)
(* canonical pass has been made, every row says what some commit of it     *)
(* says of that RFC, whatever the worktrees hold and whoever wrote the     *)
(* rows of the database it began with.  Of these only one may be left that *)
(* no commit agrees with: the row, as it was, of an RFC whose document on  *)
(* the default branch could not be used                                    *)
(* (reconcile_canonical_rfcs, persist_rfc_record).                         *)
(***************************************************************************)
LeftAsItWas(a, d) == origin[a] = 0 /\ d.text = Broken /\ \E r \in FirstRows : shared[a] = r[a]

SharedIsPublished ==
  baseline => \A a \in Anchors : shared[a] # None =>
    \E i \in 1..Tip :
      /\ commits[i][a] # None
      /\ Face(shared[a]) = Face(commits[i][a]) \/ LeftAsItWas(a, commits[i][a])

(***************************************************************************)
(* What has been published stays.  No pass restores what a later commit    *)
(* has replaced: the commit a row was taken from never gets older, because *)
(* canonical_reconcile_source is asked under the lock.  And the row of an  *)
(* RFC the default branch ever had stays, even when its document was       *)
(* deleted there or is absent from every worktree                          *)
(* (canonical_history_contains_anchor).                                    *)
(***************************************************************************)
PublishedRowsStay ==
  [][\A a \in Anchors :
       /\ origin'[a] >= origin[a]
       /\ baseline /\ shared[a] # None /\ (\E i \in 1..Tip : commits[i][a] # None)
            => shared'[a] # None]_vars

(***************************************************************************)
(* What a list shows: the documents that lie in its own worktree at that   *)
(* moment, and for the others the shared row, also when the snapshot was   *)
(* not replaced (refresh_workspace_rfc_snapshot_with_documents,            *)
(* compose_effective_rfc_view_locked).  Only a command that recorded a     *)
(* document somebody changed meanwhile can break it.                       *)
(***************************************************************************)
RightOf(w, a) == IF Usable(docs[w][a]) THEN docs[w][a] ELSE shared'[a]

ListsFollowTheCheckout ==
  [][\A p \in Procs :
       /\ work[p].at = "observing" /\ work'[p].at = "idle" /\ count' = count
       /\ work[p].tree \notin raced
       => LET w == work[p].tree
              shown == ViewOf(obs'[w], shared')
          IN \A a \in Anchors : SameFace(shown[a], RightOf(w, a))]_vars

(***************************************************************************)
(* A reader sees the canonical rows of the commit its pass found, also     *)
(* when it skips the work because its process has done it before: during a *)
(* pass, and for as long as a process remembers one, every usable document *)
(* of the commit has its row (RECONCILED_RFC_KEYS,                         *)
(* can_publish_reconciled_key).                                            *)
(***************************************************************************)
Reflects(c) == \A a \in Anchors : Usable(commits[c][a]) => SameFace(shared[a], commits[c][a])

ReadersSeeTheCommit ==
  /\ \A p \in Procs : work[p].at = "observing" /\ work[p].source # 0 => Reflects(work[p].source)
  /\ \A k \in cache : k[3] = Tip => Reflects(Tip)

(***************************************************************************)
(* The feature shown for a document that declares none.  It is the shared  *)
(* one, or was given to that RFC on that branch of that worktree: nothing  *)
(* leaks from another branch or worktree, nothing is pinned that nobody    *)
(* asked for.  And one given by a command is shown until the document or   *)
(* the shared row takes it over, however often the snapshot is replaced    *)
(* meanwhile (preserve_workspace_optional_override,                        *)
(* apply_workspace_optional_override).                                     *)
(***************************************************************************)
FeaturesAreTheOnesGiven ==
  \A w \in Worktrees \ raced, a \in Anchors : obs[w][a] # None =>
    LET f == View(w)[a].feature
    IN /\ snap[w].branch = branch[w] =>
            \/ f = IF shared[a] = None THEN None ELSE shared[a].feature
            \/ <<w, branch[w], a, f>> \in asked
       /\ wish[w][a] # None => f = wish[w][a]
=============================================================================
