--------------------------- MODULE RfcViewsProofs ---------------------------
(***************************************************************************)
(* What holds of the RFC metadata for every number of worktrees,           *)
(* processes, RFCs and commits.  First the types and what a process has in *)
(* hand at each of its steps (TypeInv).  Then the canonical rows: no pass  *)
(* under way is older than anything taken from the default branch before   *)
(* (Passing), from which what was published stays and readers see the      *)
(* commit, and where a row that no pass wrote is from (FirstInv).  Last    *)
(* the view of a worktree in which no command overlapped a change          *)
(* (ViewInv): its snapshot is of the documents it was taken of, what it    *)
(* declares somebody gave, and a record in a command's hands still agrees  *)
(* with what it was made of.                                               *)
(***************************************************************************)
EXTENDS RfcViews, TLAPS

-----------------------------------------------------------------------------
(* Types                                                                   *)

RowSets   == [Anchors -> Rows \union {None}]
Observeds == [Anchors -> Observations \union {None}]

\* The steps at which a process has an RFC in hand.
Acting == {"read", "moved", "written", "chosen", "loaded"}

Jobs == [at : Stages, tree : Worktrees \union {None}, kind : Kinds \union {None},
         anchor : Anchors \union {None}, feature : Features \union {None},
         doc : Documents \union {None}, row : Rows \union {None},
         branch : Branches \union {None}, source : 0..MaxCommits]

\* What a process holds at each of its steps.
JobOK(p) ==
  LET j == work[p]
  IN  /\ j.at \in InPass <=> lock = p
      /\ j.at # "idle" => j.tree # None
      /\ j.at \in InPass => j.branch # None /\ j.source <= Tip
      /\ j.at = "reconciling" => j.source # 0
      /\ j.at \in Acting => j.anchor # None
      /\ j.at \in {"read", "moved"} =>
           /\ j.doc # None /\ j.doc.text # Broken
           /\ j.kind = "promote" => j.doc.place + 1 \in Places
      /\ j.at = "loaded" => j.row # None

GitOK == commits \in Seq(Trees) /\ Tip \in 1..MaxCommits /\ resolves \in BOOLEAN
DocsOK == docs \in [Worktrees -> Trees] /\ branch \in [Worktrees -> Branches]
RowsOK ==
  /\ shared \in RowSets /\ baseline \in BOOLEAN /\ quarantine \subseteq Anchors
  /\ \A a \in quarantine : shared[a] = None
ViewsOK ==
  /\ snap \in [Worktrees -> Takes \union {None}]
  /\ \A w \in Worktrees : snap[w] # None => snap[w].source <= Tip
  /\ obs \in [Worktrees -> Observeds]
PassOK == cache \subseteq Procs \X Worktrees \X (1..Tip) /\ lock \in Procs \union {None}
JobsOK == work \in [Procs -> Jobs] /\ \A p \in Procs : JobOK(p)

TypeInv == GitOK /\ DocsOK /\ RowsOK /\ ViewsOK /\ PassOK /\ JobsOK

LEMMA TypeInvSuffices == TypeInv => TypeOK
<1> SUFFICES ASSUME TypeInv PROVE TypeOK
  OBVIOUS
<1> USE DEF TypeInv
<1>1. \A i \in 1..Tip : commits[i] \in Trees
  BY DEF GitOK, Tip
<1>2. Tip \in 1..MaxCommits /\ resolves \in BOOLEAN
  BY DEF GitOK
<1>3. /\ docs \in [Worktrees -> Trees] /\ branch \in [Worktrees -> Branches]
      /\ shared \in [Anchors -> Rows \union {None}]
      /\ baseline \in BOOLEAN /\ quarantine \subseteq Anchors
      /\ \A a \in quarantine : shared[a] = None
  BY DEF DocsOK, RowsOK, RowSets
<1>4. DOMAIN snap = Worktrees /\ \A w \in Worktrees : snap[w] # None =>
       /\ DOMAIN snap[w] = {"branch", "digest", "source"} /\ snap[w].branch \in Branches
       /\ snap[w].digest \in Trees /\ snap[w].source \in 0..Tip
  <2>1. DOMAIN snap = Worktrees
    BY DEF ViewsOK
  <2>2. ASSUME NEW w \in Worktrees, snap[w] # None
        PROVE  /\ DOMAIN snap[w] = {"branch", "digest", "source"} /\ snap[w].branch \in Branches
               /\ snap[w].digest \in Trees /\ snap[w].source \in 0..Tip
    <3>1. snap[w] \in Takes /\ snap[w].source <= Tip
      BY <2>2 DEF ViewsOK
    <3> QED
      BY <1>2, <3>1 DEF Takes
  <2> QED
    BY <2>1, <2>2
<1>5. obs \in [Worktrees -> [Anchors -> Observations \union {None}]]
  BY DEF ViewsOK, Observeds
<1>6. cache \subseteq Procs \X Worktrees \X (1..Tip) /\ lock \in Procs \union {None}
  BY DEF PassOK
<1>7. \A p \in Procs : work[p].at \in Stages /\ (work[p].at \in InPass <=> lock = p)
  BY DEF JobsOK, JobOK, Jobs
<1> QED
  BY <1>1, <1>2, <1>3, <1>4, <1>5, <1>6, <1>7 DEF TypeOK

LEMMA FreeTypes == Free \in Jobs
BY RfcConstants DEF Free, Jobs, Stages

LEMMA TypeInit == Init => TypeInv
<1> SUFFICES ASSUME Init PROVE TypeInv
  OBVIOUS
<1> USE RfcConstants DEF Init
<1>1. Tip = 1 /\ commits \in Seq(Trees)
  BY DEF Tip
<1>2. GitOK /\ DocsOK /\ PassOK
  BY <1>1 DEF GitOK, DocsOK, PassOK
<1>3. RowsOK /\ ViewsOK
  BY DEF RowsOK, RowSets, ViewsOK, Observeds
<1>4. JobsOK
  BY FreeTypes DEF JobsOK, JobOK, Free, InPass, Acting
<1> QED
  BY <1>2, <1>3, <1>4 DEF TypeInv

\* The operators of the passes.
LEMMA SourceTypes ==
  ASSUME TypeInv
  PROVE  /\ Source \in 0..Tip /\ Tip \in 1..MaxCommits /\ MaxCommits \in Nat
         /\ Source \in 0..MaxCommits
BY RfcConstants DEF TypeInv, GitOK, Source

LEMMA CommitTypes ==
  ASSUME TypeInv, NEW c \in 1..Tip
  PROVE  commits[c] \in Trees
BY DEF TypeInv, GitOK, Tip

LEMMA UsableTypes ==
  ASSUME NEW d \in Documents \union {None}, Usable(d)
  PROVE  /\ d \in Documents
         /\ d.place \in Places \union {Retired} /\ d.text \in Texts
         /\ d.feature \in Features \union {None}
BY DEF Usable, Documents

LEMMA RowsAfterTypes ==
  ASSUME TypeInv, NEW c \in 1..Tip
  PROVE  RowsAfter(c) \in RowSets
<1> SUFFICES ASSUME NEW a \in Anchors, Usable(commits[c][a])
             PROVE  CanonicalRow(commits[c][a], shared[a]) \in Rows
  BY DEF RowsAfter, RowSets, TypeInv, RowsOK
<1>1. commits[c][a] \in Documents \union {None}
  BY CommitTypes DEF Trees
<1>2. shared[a] # None => shared[a] \in Rows
  BY DEF TypeInv, RowsOK, RowSets
<1> QED
  BY <1>1, <1>2, UsableTypes DEF CanonicalRow, Rows

LEMMA SeenTypes ==
  ASSUME TypeInv, NEW w \in Worktrees, NEW b, NEW given
  PROVE  Seen(w, b, given) \in Observeds
<1> SUFFICES ASSUME NEW a \in Anchors, Usable(docs[w][a])
             PROVE  Observation(w, a, b, given) \in Observations
  BY DEF Seen, Observeds
<1>1. docs[w][a] \in Documents \union {None}
  BY DEF TypeInv, DocsOK, Trees
<1>2. obs[w][a] # None => obs[w][a] \in Observations
  BY DEF TypeInv, ViewsOK, Observeds
<1> QED
  BY <1>1, <1>2, UsableTypes DEF Observation, Observations

LEMMA RefreshedTypes ==
  ASSUME TypeInv, NEW w \in Worktrees, NEW b, NEW c, NEW given
  PROVE  Refreshed(w, b, c, given) \in Observeds
BY SeenTypes DEF Refreshed, TypeInv, ViewsOK

LEMMA ViewTypes ==
  ASSUME NEW observed \in Observeds, NEW given \in RowSets, NEW a \in Anchors
  PROVE  ViewOf(observed, given)[a] \in Rows \union {None}
BY DEF ViewOf, Observeds, RowSets, Observations, Rows

LEMMA SnapshotsTypes ==
  ASSUME TypeInv, NEW w \in Worktrees, NEW b \in Branches, NEW c \in 0..Tip,
         NEW observed \in Observeds, Snapshots(w, b, c, observed), Tip' = Tip
  PROVE  ViewsOK'
<1>1. c \in 0..MaxCommits /\ c <= Tip
  BY SourceTypes
<1>2. [branch |-> b, digest |-> docs[w], source |-> c] \in Takes
  BY <1>1 DEF Takes, TypeInv, DocsOK
<1> QED
  BY <1>1, <1>2 DEF Snapshots, TypeInv, ViewsOK

LEMMA ReconcilesTypes ==
  ASSUME TypeInv, NEW c \in 1..Tip, Reconciles(c)
  PROVE  RowsOK'
<1>1. shared' \in RowSets
  BY RowsAfterTypes DEF Reconciles
<1>2. SetAside(c) \subseteq Anchors
  BY DEF SetAside
<1>3. baseline' \in BOOLEAN /\ quarantine' \subseteq Anchors
  BY <1>2 DEF Reconciles, TypeInv, RowsOK
<1>4. \A a \in quarantine' : shared'[a] = None
  <2> SUFFICES ASSUME NEW a \in Anchors, a \in quarantine' PROVE shared'[a] = None
    BY <1>3
  <2>1. shared'[a] = IF Usable(commits[c][a]) THEN CanonicalRow(commits[c][a], shared[a])
                     ELSE IF a \in SetAside(c) THEN None ELSE shared[a]
    BY DEF Reconciles, RowsAfter
  <2>2. CASE a \in SetAside(c)
    BY <2>1, <2>2 DEF SetAside, Usable
  <2>3. CASE a \notin SetAside(c)
    BY <2>1, <2>3 DEF Reconciles, TypeInv, RowsOK
  <2> QED
    BY <2>2, <2>3
<1> QED
  BY <1>1, <1>3, <1>4 DEF RowsOK

\* One process has a new job; the others keep theirs.
JobBecomes(p, j) ==
  /\ work' = [work EXCEPT ![p] = j]
  /\ j \in Jobs
  /\ \A q \in Procs \ {p} : lock' = q <=> lock = q

LEMMA JobsTypes ==
  ASSUME TypeInv, NEW p \in Procs, NEW j, JobBecomes(p, j), Tip' \in Nat, Tip <= Tip',
         JobOK(p)'
  PROVE  JobsOK'
<1>1. work \in [Procs -> Jobs] /\ \A q \in Procs : JobOK(q)
  BY DEF TypeInv, JobsOK
<1>2. work' \in [Procs -> Jobs]
  BY <1>1 DEF JobBecomes
<1>3. ASSUME NEW q \in Procs \ {p} PROVE JobOK(q)'
  <2>1. work'[q] = work[q] /\ (lock' = q <=> lock = q)
    BY <1>1 DEF JobBecomes
  <2>2. Tip \in Nat /\ work[q].source \in Nat
    BY <1>1, SourceTypes DEF Jobs
  <2>3. JobOK(q)
    BY <1>1
  <2> QED
    BY <2>1, <2>2, <2>3 DEF JobOK
<1> QED
  BY <1>2, <1>3 DEF JobsOK

\* Nobody's job changes.
LEMMA JobsKept ==
  ASSUME TypeInv, UNCHANGED <<work, lock>>, Tip' \in Nat, Tip <= Tip'
  PROVE  JobsOK'
<1>1. work \in [Procs -> Jobs] /\ \A q \in Procs : JobOK(q)
  BY DEF TypeInv, JobsOK
<1>2. ASSUME NEW q \in Procs PROVE JobOK(q)'
  <2>2. Tip \in Nat /\ work[q].source \in Nat
    BY <1>1, SourceTypes DEF Jobs
  <2>3. JobOK(q)
    BY <1>1
  <2> QED
    BY <2>2, <2>3 DEF JobOK
<1> QED
  BY <1>1, <1>2 DEF JobsOK

\* A process that ends has nothing in hand, and not the lock.
LEMMA EndsTypes ==
  ASSUME TypeInv, NEW p \in Procs, Ends(p), Tip' = Tip,
         \/ UNCHANGED lock /\ work[p].at \notin InPass
         \/ lock' = None /\ lock = p
  PROVE  JobsOK'
<1>1. work \in [Procs -> Jobs] /\ lock \in Procs \union {None} /\ JobOK(p)
  BY DEF TypeInv, JobsOK, PassOK
<1>2. JobBecomes(p, Free)
  BY <1>1, FreeTypes, RfcConstants DEF Ends, JobBecomes
<1>3. JobOK(p)'
  <2>1. work'[p] = Free
    BY <1>1, <1>2 DEF JobBecomes
  <2>2. lock' # p
    BY <1>1, RfcConstants DEF JobOK
  <2> QED
    BY <2>1, <2>2 DEF JobOK, Free, InPass, Acting
<1> QED
  BY <1>2, <1>3, JobsTypes, SourceTypes

LEMMA DocsTypes ==
  ASSUME TypeInv, NEW w \in Worktrees, NEW a \in Anchors,
         NEW d \in Documents \union {None}, docs' = [docs EXCEPT ![w][a] = d]
  PROVE  docs' \in [Worktrees -> Trees]
BY DEF TypeInv, DocsOK, Trees

\* What an action leaves alone keeps its type.
LEMMA PartsKept ==
  ASSUME TypeInv, Tip' = Tip
  PROVE  /\ UNCHANGED git => GitOK'
         /\ UNCHANGED <<docs, branch>> => DocsOK'
         /\ UNCHANGED rows => RowsOK'
         /\ UNCHANGED views => ViewsOK'
         /\ cache' \subseteq Procs \X Worktrees \X (1..Tip) /\ lock' \in Procs \union {None}
              => PassOK'
BY DEF TypeInv, GitOK, DocsOK, RowsOK, ViewsOK, PassOK, git, rows, views

-----------------------------------------------------------------------------

LEMMA TypeListBegins ==
  ASSUME TypeInv, NEW p \in Procs, NEW w \in Worktrees, ListBegins(p, w)
  PROVE  TypeInv'
<1> DEFINE to == IF IsDue(p, w, Source) THEN "reconciling" ELSE "observing"
           j == [Free EXCEPT !.at = to, !.tree = w, !.source = Source, !.branch = branch[w]]
<1>1. Source \in 0..Tip /\ Source \in 0..MaxCommits /\ Tip \in Nat /\ Tip' = Tip
      /\ branch[w] \in Branches
  BY SourceTypes DEF ListBegins, git, Tip, TypeInv, DocsOK
<1>2. /\ work' = [work EXCEPT ![p] = j] /\ lock = None /\ lock' = p
      /\ UNCHANGED <<git, docs, branch, rows, views, cache>>
  BY DEF ListBegins, Locks, Becomes
<1>3. j \in Jobs
  <2>1. to \in Stages
    BY DEF Stages, InPass
  <2> QED
    BY <1>1, <2>1, FreeTypes, RfcConstants DEF Jobs
<1>4. j.at = to /\ j.tree = w /\ j.source = Source /\ j.branch = branch[w]
  BY DEF Free
<1>5. to \in InPass /\ (to = "reconciling" => Source # 0)
  BY DEF InPass, IsDue
<1> HIDE DEF to, j
<1>7. JobBecomes(p, j)
  BY <1>2, <1>3, RfcConstants DEF JobBecomes
<1>8. work'[p] = j
  BY <1>2 DEF TypeInv, JobsOK
<1>9. JobOK(p)'
  BY <1>1, <1>2, <1>4, <1>5, <1>8, RfcConstants DEF JobOK, InPass, Acting
<1>10. JobsOK'
  BY <1>1, <1>7, <1>9, JobsTypes
<1>11. PassOK'
  BY <1>2, <1>1, PartsKept DEF TypeInv, PassOK
<1> QED
  BY <1>1, <1>2, <1>10, <1>11, PartsKept DEF TypeInv

\* What a job is made of.
LEMMA JobTypes ==
  ASSUME TypeInv, NEW p \in Procs
  PROVE  /\ work \in [Procs -> Jobs] /\ work[p] \in Jobs /\ JobOK(p)
         /\ work[p].tree \in Worktrees \union {None}
         /\ work[p].anchor \in Anchors \union {None}
         /\ work[p].feature \in Features \union {None}
         /\ work[p].doc \in Documents \union {None}
         /\ work[p].row \in Rows \union {None}
         /\ work[p].branch \in Branches \union {None}
         /\ work[p].source \in 0..MaxCommits
BY DEF TypeInv, JobsOK, Jobs

LEMMA TypeReconcile ==
  ASSUME TypeInv, NEW p \in Procs, Reconcile(p)
  PROVE  TypeInv'
<1> DEFINE w == work[p].tree
           j == [work[p] EXCEPT !.at = "observing", !.branch = branch[w]]
<1>1. /\ work[p] \in Jobs /\ JobOK(p) /\ lock = p /\ work[p].at = "reconciling"
      /\ w \in Worktrees /\ work[p].source \in 1..Tip
  BY JobTypes, SourceTypes DEF JobOK, Reconcile, InPass
<1>2. /\ work' = [work EXCEPT ![p] = j] /\ Tip' = Tip /\ Reconciles(work[p].source)
      /\ UNCHANGED <<git, docs, branch, views, cache, lock>>
  BY DEF Reconcile, git, Tip
<1>3. j \in Jobs /\ j.at = "observing" /\ j.branch = branch[w] /\ j.tree = w
      /\ j.source = work[p].source /\ branch[w] \in Branches
  BY <1>1 DEF Jobs, Stages, InPass, TypeInv, DocsOK
<1> HIDE DEF w, j
<1>4. work'[p] = j
  BY <1>2, JobTypes
<1>5. JobOK(p)'
  BY <1>1, <1>2, <1>3, <1>4, RfcConstants DEF JobOK, InPass, Acting
<1>6. JobsOK'
  <2>1. JobBecomes(p, j)
    BY <1>2, <1>3 DEF JobBecomes
  <2>2. Tip' \in Nat /\ Tip <= Tip'
    BY <1>2, SourceTypes
  <2> QED
    BY <1>5, <2>1, <2>2, JobsTypes
<1>7. RowsOK'
  BY <1>1, <1>2, ReconcilesTypes
<1>8. PassOK'
  BY <1>2, PartsKept DEF TypeInv, PassOK
<1> QED
  BY <1>2, <1>6, <1>7, <1>8, PartsKept DEF TypeInv

LEMMA TypeListEnds ==
  ASSUME TypeInv, NEW p \in Procs, ListEnds(p)
  PROVE  TypeInv'
<1> DEFINE j == work[p]
<1>1. /\ lock = p /\ j.at = "observing" /\ j.tree \in Worktrees
      /\ j.branch \in Branches /\ j.source \in 0..Tip
  BY JobTypes, SourceTypes DEF JobOK, ListEnds, InPass
<1>2. Tip' = Tip /\ lock' = None /\ Ends(p) /\ UNCHANGED <<git, docs, branch, rows>>
  BY DEF ListEnds, git, Tip
<1>3. ViewsOK'
  BY <1>1, <1>2, RefreshedTypes, SnapshotsTypes DEF ListEnds
<1>4. j.source # 0 => <<p, j.tree, j.source>> \in Procs \X Worktrees \X (1..Tip)
  BY <1>1, SourceTypes
<1>5. cache' \subseteq Procs \X Worktrees \X (1..Tip)
  BY <1>4 DEF ListEnds, TypeInv, PassOK
<1>6. PassOK'
  BY <1>2, <1>5, PartsKept
<1>7. JobsOK'
  BY <1>1, <1>2, EndsTypes
<1> QED
  BY <1>2, <1>3, <1>6, <1>7, PartsKept DEF TypeInv

LEMMA TypeShows ==
  ASSUME TypeInv, NEW p \in Procs, NEW w \in Worktrees, Shows(p, w)
  PROVE  TypeInv'
<1> DEFINE due   == IsDue(p, w, Source)
           given == IF due THEN RowsAfter(Source) ELSE shared
           seen  == Refreshed(w, branch[w], Source, given)
<1>1. /\ Tip' = Tip /\ UNCHANGED <<git, docs, branch, lock, work>>
      /\ cache' = cache
  BY DEF Shows, Remembered, git, Tip
<1>2. \/ UNCHANGED <<rows, views>>
      \/ /\ IF due THEN Reconciles(Source) ELSE UNCHANGED rows
         /\ Snapshots(w, branch[w], Source, seen)
  BY DEF Shows
<1>3. due => Source \in 1..Tip
  BY SourceTypes DEF IsDue
<1>4. seen \in Observeds
  BY RefreshedTypes
<1> HIDE DEF due, given, seen
<1>5. branch[w] \in Branches /\ Source \in 0..Tip /\ Tip \in Nat
  BY SourceTypes DEF TypeInv, DocsOK
<1>6. RowsOK' /\ ViewsOK'
  BY <1>1, <1>2, <1>3, <1>4, <1>5, ReconcilesTypes, SnapshotsTypes, PartsKept
<1>7. PassOK' /\ JobsOK'
  BY <1>1, <1>5, PartsKept, JobsKept DEF TypeInv, PassOK
<1> QED
  BY <1>1, <1>6, <1>7, PartsKept DEF TypeInv

\* A command's steps: its job changes, and at most a document does.
LEMMA TypeCommand ==
  ASSUME TypeInv, NEW p \in Procs, NEW j \in Jobs, work' = [work EXCEPT ![p] = j],
         j.at \notin InPass, work[p].at \notin InPass,
         j.at \in Acting => j.anchor # None,
         j.at # "idle" => j.tree # None,
         j.at \in {"read", "moved"} =>
           /\ j.doc # None /\ j.doc.text # Broken
           /\ j.kind = "promote" => j.doc.place + 1 \in Places,
         j.at = "loaded" => j.row # None,
         UNCHANGED <<git, rows, cache, lock, branch>>,
         docs' \in [Worktrees -> Trees], ViewsOK'
  PROVE  TypeInv'
<1>1. Tip' = Tip /\ Tip \in Nat
  BY SourceTypes DEF git, Tip
<1>2. JobBecomes(p, j) /\ work'[p] = j /\ lock # p /\ lock' # p
  BY JobTypes DEF JobBecomes, JobOK
<1>3. JobOK(p)'
  BY <1>2 DEF JobOK, InPass
<1>4. JobsOK'
  BY <1>1, <1>2, <1>3, JobsTypes
<1>5. DocsOK' /\ PassOK'
  BY <1>1, PartsKept DEF TypeInv, DocsOK, PassOK
<1> QED
  BY <1>1, <1>4, <1>5, PartsKept DEF TypeInv

LEMMA TypeCommandEnds ==
  ASSUME TypeInv, NEW p \in Procs, work[p].at \notin InPass, Ends(p),
         UNCHANGED <<git, rows, cache, lock, branch>>,
         docs' \in [Worktrees -> Trees], ViewsOK'
  PROVE  TypeInv'
BY TypeCommand, FreeTypes, RfcConstants DEF Ends, Free, InPass, Acting

LEMMA ViewsKept == ASSUME TypeInv, UNCHANGED <<git, views>> PROVE ViewsOK'
BY DEF TypeInv, ViewsOK, git, views, Tip

LEMMA TypeBegins ==
  ASSUME TypeInv, NEW p \in Procs, NEW w \in Worktrees, NEW a \in Anchors,
         NEW kind \in Kinds, NEW f \in Features \union {None},
         Begins(p, w, kind, a, f)
  PROVE  TypeInv'
<1> DEFINE j == [Free EXCEPT !.at = IF kind = "feature" THEN "written" ELSE "read",
                             !.tree = w, !.kind = kind, !.anchor = a, !.feature = f,
                             !.doc = docs[w][a]]
<1>1. docs[w][a] \in Documents /\ docs[w][a].text # Broken /\ docs[w][a] # None
  BY UsableTypes DEF Begins, TypeInv, DocsOK, Trees, Usable
<1>2. j \in Jobs
  BY <1>1, FreeTypes DEF Jobs, Stages, InPass
<1>3. /\ j.at \in {"read", "written"} /\ j.tree = w /\ j.kind = kind /\ j.anchor = a
      /\ j.doc = docs[w][a]
  BY DEF Free
<1>4. /\ work' = [work EXCEPT ![p] = j] /\ work[p].at = "idle"
      /\ kind = "promote" => docs[w][a].place + 1 \in Places
      /\ UNCHANGED <<git, docs, branch, rows, views, cache, lock>>
  BY DEF Begins
<1>5. docs \in [Worktrees -> Trees] /\ ViewsOK'
  BY <1>4, ViewsKept DEF TypeInv, DocsOK
<1> HIDE DEF j
<1> QED
  BY <1>1, <1>2, <1>3, <1>4, <1>5, TypeCommand, RfcConstants DEF InPass, Acting

\* The same job at another step.
LEMMA MovedJob ==
  ASSUME TypeInv, NEW p \in Procs, NEW s \in Stages
  PROVE  /\ [work[p] EXCEPT !.at = s] \in Jobs
         /\ [work[p] EXCEPT !.at = s].at = s
         /\ \A x \in {"tree", "kind", "anchor", "feature", "doc", "row", "branch", "source"} :
              [work[p] EXCEPT !.at = s][x] = work[p][x]
<1>1. work[p] \in Jobs
  BY JobTypes
<1> QED
  BY <1>1 DEF Jobs

LEMMA TypeBecomes ==
  ASSUME TypeInv, NEW p \in Procs, NEW s \in {"moved", "written"}, Becomes(p, s),
         work[p].at \in {"read", "moved"},
         UNCHANGED <<git, rows, cache, lock, branch, views>>,
         docs' \in [Worktrees -> Trees]
  PROVE  TypeInv'
<1> DEFINE j == [work[p] EXCEPT !.at = s]
<1>1. s \in Stages
  BY DEF Stages
<1>2. /\ j \in Jobs /\ j.at = s
      /\ j.tree = work[p].tree /\ j.kind = work[p].kind /\ j.anchor = work[p].anchor
      /\ j.doc = work[p].doc
  BY <1>1, MovedJob
<1>3. work' = [work EXCEPT ![p] = j]
  BY DEF Becomes
<1>4. ViewsOK' /\ JobOK(p)
  BY ViewsKept, JobTypes
<1> HIDE DEF j
<1> QED
  BY <1>2, <1>3, <1>4, TypeCommand DEF JobOK, InPass, Acting

LEMMA WritesTypes ==
  ASSUME TypeInv, NEW p \in Procs, NEW w \in Worktrees, NEW a \in Anchors,
         NEW new \in Documents, Writes(p, w, a, new)
  PROVE  docs' \in [Worktrees -> Trees] /\ Becomes(p, "written")
<1> DEFINE d == IF docs[w][a] # None /\ docs[w][a].place # new.place
                  THEN [docs[w][a] EXCEPT !.text = Broken] ELSE new
<1>1. docs[w][a] \in Documents \union {None}
  BY DEF TypeInv, DocsOK, Trees
<1>2. d \in Documents
  BY <1>1 DEF Documents
<1>3. docs' = [docs EXCEPT ![w][a] = d]
  BY DEF Writes
<1> QED
  BY <1>2, <1>3, DocsTypes DEF Writes

LEMMA TypeEdits ==
  ASSUME TypeInv, NEW p \in Procs, Edits(p)
  PROVE  TypeInv'
<1> DEFINE j == work[p]
<1>1. j.tree \in Worktrees /\ j.anchor \in Anchors /\ j.doc \in Documents /\ j.at = "read"
  BY JobTypes DEF JobOK, Edits, Acting
<1>2. PICK t \in Texts : Writes(p, j.tree, j.anchor, [j.doc EXCEPT !.text = t])
  BY DEF Edits
<1>3. [j.doc EXCEPT !.text = t] \in Documents
  BY <1>1 DEF Documents
<1>4. docs' \in [Worktrees -> Trees] /\ Becomes(p, "written")
  BY <1>1, <1>2, <1>3, WritesTypes
<1> QED
  BY <1>1, <1>4, TypeBecomes DEF Edits

LEMMA TypeMovesTo ==
  ASSUME TypeInv, NEW p \in Procs, NEW place \in Places \union {Retired},
         NEW to \in {"moved", "written"},
         MovesTo(p, place, to)
  PROVE  TypeInv'
<1> DEFINE j == work[p]
           d == docs[j.tree][j.anchor]
<1>1. j.tree \in Worktrees /\ j.anchor \in Anchors /\ j.at = "read"
  BY JobTypes DEF JobOK, MovesTo, Acting
<1>2. d \in Documents \union {None} /\ docs \in [Worktrees -> Trees]
  BY <1>1 DEF TypeInv, DocsOK, Trees
<1>3. UNCHANGED <<branch, git, rows, views, cache, lock>>
  BY DEF MovesTo
<1>4. CASE d # None /\ d.place = j.doc.place
  <2>1. [d EXCEPT !.place = place] \in Documents
    BY <1>2, <1>4 DEF Documents
  <2>2. docs' = [docs EXCEPT ![j.tree][j.anchor] = [d EXCEPT !.place = place]]
        /\ Becomes(p, to)
    BY <1>4 DEF MovesTo
  <2>3. docs' \in [Worktrees -> Trees]
    BY <1>1, <2>1, <2>2, DocsTypes
  <2> QED
    BY <1>1, <1>3, <2>2, <2>3, TypeBecomes
<1>5. CASE ~(d # None /\ d.place = j.doc.place)
  <2>1. UNCHANGED docs /\ Ends(p)
    BY <1>5 DEF MovesTo
  <2>2. work[p].at \notin InPass
    BY <1>1 DEF InPass
  <2> QED
    BY <1>2, <1>3, <2>1, <2>2, TypeCommandEnds, ViewsKept
<1> QED
  BY <1>4, <1>5

LEMMA TypeRetirementWrites ==
  ASSUME TypeInv, NEW p \in Procs, RetirementWrites(p)
  PROVE  TypeInv'
<1> DEFINE j == work[p]
           d == docs[j.tree][j.anchor]
<1>1. j.tree \in Worktrees /\ j.anchor \in Anchors /\ j.at = "moved"
  BY JobTypes DEF JobOK, RetirementWrites, Acting
<1>2. d \in Documents \union {None} /\ docs \in [Worktrees -> Trees]
  BY <1>1 DEF TypeInv, DocsOK, Trees
<1>3. UNCHANGED <<branch, git, rows, views, cache, lock>>
  BY DEF RetirementWrites
<1>4. CASE d # None /\ d.place = Retired
  <2> DEFINE t == IF d.text = Broken THEN Broken ELSE Marked[d.text]
  <2>1. t \in Texts \union {Broken}
    BY <1>2, <1>4, RfcConstants DEF Documents
  <2>2. docs' = [docs EXCEPT ![j.tree][j.anchor] = [d EXCEPT !.text = t]] /\ Becomes(p, "written")
    BY <1>4 DEF RetirementWrites
  <2> HIDE DEF t
  <2>3. [d EXCEPT !.text = t] \in Documents
    BY <1>2, <1>4, <2>1 DEF Documents
  <2>4. docs' \in [Worktrees -> Trees]
    BY <1>1, <2>2, <2>3, DocsTypes
  <2> QED
    BY <1>1, <1>3, <2>2, <2>4, TypeBecomes
<1>5. CASE ~(d # None /\ d.place = Retired)
  <2>1. UNCHANGED docs /\ Ends(p)
    BY <1>5 DEF RetirementWrites
  <2>2. work[p].at \notin InPass
    BY <1>1 DEF InPass
  <2> QED
    BY <1>2, <1>3, <2>1, <2>2, TypeCommandEnds, ViewsKept
<1> QED
  BY <1>4, <1>5

LEMMA TypePromotion ==
  ASSUME TypeInv, NEW p \in Procs, PromotionMoves(p) \/ PromotionWrites(p) \/ Retires(p)
  PROVE  TypeInv'
<1> DEFINE j == work[p]
<1>0. j.kind = "promote" /\ j.at \in {"read", "moved"} =>
        j.doc \in Documents /\ j.doc.place + 1 \in Places
  BY JobTypes DEF JobOK
<1>1. CASE PromotionMoves(p)
  <2>1. j.kind = "promote" /\ j.at = "read" /\ MovesTo(p, j.doc.place + 1, "moved")
    BY <1>1 DEF PromotionMoves, MovesTo
  <2> QED
    BY <1>0, <2>1, TypeMovesTo
<1>2. CASE PromotionWrites(p)
  <2>1. j.at = "moved" /\ j.kind = "promote" /\ j.tree \in Worktrees /\ j.anchor \in Anchors
    BY <1>2, JobTypes DEF JobOK, PromotionWrites, Acting
  <2>2. [j.doc EXCEPT !.place = @ + 1] \in Documents
    BY <1>0, <2>1 DEF Documents
  <2>3. docs' \in [Worktrees -> Trees] /\ Becomes(p, "written")
    <3>1. CASE UNCHANGED docs /\ Becomes(p, "written")
      BY <3>1 DEF TypeInv, DocsOK
    <3>2. CASE Writes(p, j.tree, j.anchor, [j.doc EXCEPT !.place = @ + 1])
      BY <2>1, <2>2, <3>2, WritesTypes
    <3> QED
      BY <1>2, <3>1, <3>2 DEF PromotionWrites
  <2> QED
    BY <1>2, <2>1, <2>3, TypeBecomes DEF PromotionWrites
<1>3. CASE Retires(p)
  BY <1>3, TypeMovesTo DEF Retires
<1> QED
  BY <1>1, <1>2, <1>3

LEMMA TypeChooses ==
  ASSUME TypeInv, NEW p \in Procs, NEW w \in Worktrees, NEW a \in Anchors,
         NEW f \in Features, Chooses(p, w, a, f)
  PROVE  TypeInv'
<1> DEFINE j == [Free EXCEPT !.at = "chosen", !.tree = w, !.kind = "create",
                             !.anchor = a, !.feature = f]
<1>1. j \in Jobs /\ j.at = "chosen" /\ j.tree = w /\ j.anchor = a /\ j.kind = "create"
  BY FreeTypes DEF Jobs, Stages, Kinds, Free
<1>2. /\ work' = [work EXCEPT ![p] = j] /\ work[p].at = "idle" /\ Tip' = Tip
      /\ UNCHANGED <<git, docs, branch, rows, cache, lock>>
  BY DEF Chooses, git, Tip
<1> HIDE DEF j
<1>3. branch[w] \in Branches /\ Source \in 0..Tip /\ docs \in [Worktrees -> Trees]
  BY SourceTypes DEF TypeInv, DocsOK
<1>4. ViewsOK'
  BY <1>2, <1>3, RefreshedTypes, SnapshotsTypes DEF Chooses
<1> QED
  BY <1>1, <1>2, <1>3, <1>4, TypeCommand, RfcConstants DEF InPass, Acting

LEMMA TypeCreates ==
  ASSUME TypeInv, NEW p \in Procs, Creates(p)
  PROVE  TypeInv'
<1> DEFINE d == [place |-> 0, text |-> Template, feature |-> None]
           r == [place |-> 0, text |-> Template, feature |-> work[p].feature]
           j == [work[p] EXCEPT !.at = "loaded", !.row = r]
<1>1. work[p].tree \in Worktrees /\ work[p].anchor \in Anchors /\ work[p].at = "chosen"
  BY JobTypes DEF JobOK, Creates, Acting
<1>2. d \in Documents /\ r \in Rows /\ r # None
  BY JobTypes, RfcConstants DEF Documents, Rows
<1>3. /\ work' = [work EXCEPT ![p] = j] /\ docs' = [docs EXCEPT ![work[p].tree][work[p].anchor] = d]
      /\ UNCHANGED <<git, branch, rows, views, cache, lock>>
  BY DEF Creates
<1>4. docs' \in [Worktrees -> Trees] /\ ViewsOK'
  BY <1>1, <1>2, <1>3, DocsTypes, ViewsKept
<1> HIDE DEF d, r
<1>5. /\ j \in Jobs /\ j.at = "loaded" /\ j.row = r
      /\ j.tree = work[p].tree /\ j.anchor = work[p].anchor
  BY <1>2, JobTypes DEF Jobs, Stages
<1> HIDE DEF j
<1> QED
  BY <1>1, <1>2, <1>3, <1>4, <1>5, TypeCommand, RfcConstants DEF InPass, Acting

\* What a command records of a document: what it says and where it lies, with
\* the feature it was given or the one the view shows.
LEMMA RecordedTypes ==
  ASSUME TypeInv, NEW p \in Procs, NEW d \in Documents, d.text \in Texts,
         NEW v \in Rows \union {None}
  PROVE  [place |-> d.place, text |-> d.text,
          feature |-> CASE work[p].kind = "feature" -> work[p].feature
                        [] work[p].kind # "feature" /\ v = None -> None
                        [] OTHER -> v.feature] \in Rows
<1>1. work[p].feature \in Features \union {None} /\ d.place \in Places \union {Retired}
  BY JobTypes DEF Documents
<1>2. v # None => v.feature \in Features \union {None}
  BY DEF Rows
<1> QED
  BY <1>1, <1>2 DEF Rows

LEMMA TypeLoads ==
  ASSUME TypeInv, NEW p \in Procs, Loads(p)
  PROVE  TypeInv'
<1> DEFINE w == work[p].tree
           a == work[p].anchor
           d == docs[w][a]
           seen == Refreshed(w, branch[w], Source, shared)
           v == ViewOf(seen, shared)[a]
           r == [place |-> d.place, text |-> d.text,
                 feature |-> CASE work[p].kind = "feature" -> work[p].feature
                               [] work[p].kind # "feature" /\ v = None -> None
                               [] OTHER -> v.feature]
           j == [work[p] EXCEPT !.at = "loaded", !.doc = None, !.row = r]
<1>1. w \in Worktrees /\ a \in Anchors /\ work[p].at = "written"
  BY JobTypes DEF JobOK, Loads, Acting
<1>2. /\ d \in Documents \union {None} /\ docs \in [Worktrees -> Trees]
      /\ branch[w] \in Branches /\ Source \in 0..Tip /\ shared \in RowSets
  BY <1>1, SourceTypes DEF TypeInv, DocsOK, Trees, RowsOK
<1>3. Tip' = Tip /\ UNCHANGED <<git, docs, branch, rows, cache, lock>>
  BY DEF Loads, git, Tip
<1>4. CASE Usable(d)
  <2>1. Snapshots(w, branch[w], Source, seen) /\ work' = [work EXCEPT ![p] = j]
    BY <1>4 DEF Loads
  <2>2. seen \in Observeds
    BY <1>1, RefreshedTypes
  <2>3. v \in Rows \union {None}
    BY <1>1, <1>2, <2>2, ViewTypes
  <2>4. d \in Documents /\ d.text \in Texts
    BY <1>2, <1>4, UsableTypes
  <2> HIDE DEF seen, v, d
  <2>5. r \in Rows /\ r # None
    BY <2>3, <2>4, RecordedTypes, RfcConstants
  <2> HIDE DEF r
  <2>6. /\ j \in Jobs /\ j.at = "loaded" /\ j.row = r
        /\ j.tree = work[p].tree /\ j.anchor = work[p].anchor
    BY <2>5, JobTypes DEF Jobs, Stages
  <2>7. ViewsOK'
    BY <1>1, <1>2, <1>3, <2>1, <2>2, SnapshotsTypes
  <2> HIDE DEF j
  <2> QED
    BY <1>1, <1>2, <1>3, <2>1, <2>5, <2>6, <2>7, TypeCommand, RfcConstants
    DEF InPass, Acting
<1>5. CASE ~Usable(d)
  <2>1. UNCHANGED views /\ Ends(p) /\ work[p].at \notin InPass
    BY <1>1, <1>5 DEF Loads, InPass
  <2> QED
    BY <1>2, <1>3, <2>1, TypeCommandEnds, ViewsKept
<1> QED
  BY <1>4, <1>5

LEMMA OverriddenTypes ==
  ASSUME NEW o \in Observations, NEW r \in Rows, NEW given
  PROVE  Overridden(o, r, given) \in Observations
BY DEF Overridden, Observations, Rows

LEMMA TypePersists ==
  ASSUME TypeInv, NEW p \in Procs, Persists(p)
  PROVE  TypeInv'
<1> DEFINE w == work[p].tree
           a == work[p].anchor
           seen == Refreshed(w, branch[w], Source, shared)
           put == IF seen[a] = None THEN seen
                  ELSE [seen EXCEPT ![a] = Overridden(@, work[p].row, shared[a])]
<1>1. w \in Worktrees /\ a \in Anchors /\ work[p].at = "loaded" /\ work[p].row \in Rows
  BY JobTypes DEF JobOK, Persists, Acting
<1>2. branch[w] \in Branches /\ Source \in 0..Tip /\ docs \in [Worktrees -> Trees]
  BY <1>1, SourceTypes DEF TypeInv, DocsOK
<1>3. /\ Tip' = Tip /\ UNCHANGED <<git, docs, branch, rows, cache, lock>> /\ Ends(p)
      /\ Snapshots(w, branch[w], Source, put)
  BY DEF Persists, git, Tip
<1>4. seen \in Observeds
  BY <1>1, RefreshedTypes
<1> HIDE DEF seen
<1>5. put \in Observeds
  BY <1>1, <1>4, OverriddenTypes DEF Observeds
<1> HIDE DEF put
<1>6. ViewsOK'
  BY <1>1, <1>2, <1>3, <1>5, SnapshotsTypes
<1> QED
  BY <1>1, <1>2, <1>3, <1>6, TypeCommandEnds DEF InPass

LEMMA TypeStops ==
  ASSUME TypeInv, NEW p \in Procs, GivesUp(p) \/ Dies(p)
  PROVE  TypeInv'
<1>1. Tip' = Tip /\ UNCHANGED <<git, docs, branch, rows, views>> /\ Ends(p)
  BY DEF GivesUp, Dies, git, Tip
<1>2. JobOK(p) /\ lock \in Procs \union {None}
  BY JobTypes DEF TypeInv, PassOK
<1>3. CASE GivesUp(p)
  <2>1. work[p].at \notin InPass /\ UNCHANGED <<cache, lock>>
    BY <1>3 DEF GivesUp, InPass
  <2> QED
    BY <1>1, <2>1, TypeCommandEnds, ViewsKept DEF TypeInv, DocsOK
<1>4. CASE Dies(p)
  <2>1. lock' = (IF lock = p THEN None ELSE lock) /\ cache' \subseteq cache
    BY <1>4 DEF Dies, Kept
  <2>2. PassOK'
    BY <1>1, <1>2, <2>1, PartsKept DEF TypeInv, PassOK
  <2>3. JobsOK'
    BY <1>1, <1>2, <2>1, EndsTypes DEF JobOK
  <2> QED
    BY <1>1, <2>2, <2>3, PartsKept DEF TypeInv
<1> QED
  BY <1>3, <1>4

LEMMA TypePeople ==
  ASSUME TypeInv,
         UNCHANGED <<git, rows, views, cache, lock, work>>,
         docs' \in [Worktrees -> Trees], branch' \in [Worktrees -> Branches]
  PROVE  TypeInv'
<1>1. Tip' = Tip /\ Tip \in Nat
  BY SourceTypes DEF git, Tip
<1>2. DocsOK'
  BY DEF DocsOK
<1>3. PassOK'
  BY <1>1, PartsKept DEF TypeInv, PassOK
<1>4. JobsOK'
  BY <1>1, JobsKept
<1> QED
  BY <1>1, <1>2, <1>3, <1>4, PartsKept DEF TypeInv

LEMMA TypeHandEdits ==
  ASSUME TypeInv, NEW w \in Worktrees, NEW a \in Anchors, HandEdits(w, a)
  PROVE  TypeInv'
<1>1. docs \in [Worktrees -> Trees] /\ branch \in [Worktrees -> Branches]
      /\ docs[w][a] \in Documents
  BY DEF HandEdits, TypeInv, DocsOK, Trees
<1>2. PICK d \in Documents \union {None} : docs' = [docs EXCEPT ![w][a] = d]
  <2>1. \A t \in Texts \union {Broken} : [docs[w][a] EXCEPT !.text = t] \in Documents
    BY <1>1 DEF Documents
  <2>2. \A f \in Features \union {None} : [docs[w][a] EXCEPT !.feature = f] \in Documents
    BY <1>1 DEF Documents
  <2>3. CASE \E t \in (Texts \union {Broken}) \ {docs[w][a].text} :
               docs' = [docs EXCEPT ![w][a].text = t]
    BY <2>1, <2>3
  <2>4. CASE \E f \in (Features \union {None}) \ {docs[w][a].feature} :
               docs' = [docs EXCEPT ![w][a].feature = f]
    BY <2>2, <2>4
  <2>5. CASE docs' = [docs EXCEPT ![w][a] = None]
    BY <2>5
  <2> QED
    BY <2>3, <2>4, <2>5 DEF HandEdits
<1>3. docs' \in [Worktrees -> Trees]
  BY <1>2, DocsTypes
<1> QED
  BY <1>1, <1>3, TypePeople DEF HandEdits

LEMMA TypeChecksOut ==
  ASSUME TypeInv, NEW w \in Worktrees, NEW b \in Branches, ChecksOut(w, b)
  PROVE  TypeInv'
<1>1. commits[Tip] \in Trees
  BY CommitTypes, SourceTypes
<1>2. docs' \in [Worktrees -> Trees] /\ branch' \in [Worktrees -> Branches]
  BY <1>1 DEF ChecksOut, TypeInv, DocsOK
<1> QED
  BY <1>2, TypePeople DEF ChecksOut

\* A merge appends a commit, and leaves the others as they are.
LEMMA MergesEffect ==
  ASSUME TypeInv, NEW w \in Worktrees, NEW a \in Anchors, Merges(w, a)
  PROVE  /\ Tip' = Tip + 1 /\ Tip' \in 1..MaxCommits
         /\ commits' \in Seq(Trees)
         /\ \A i \in 1..Tip : commits'[i] = commits[i]
         /\ commits'[Tip'] = [commits[Tip] EXCEPT ![a] = docs[w][a]]
         /\ UNCHANGED <<resolves, docs, branch, rows, views, cache, lock, work, history>>
<1> DEFINE c == [commits[Tip] EXCEPT ![a] = docs[w][a]]
<1>1. commits[Tip] \in Trees /\ docs[w][a] \in Documents \union {None}
  BY CommitTypes, SourceTypes DEF TypeInv, DocsOK, Trees
<1>2. c \in Trees
  BY <1>1 DEF Trees
<1>3. commits' = Append(commits, c) /\ commits \in Seq(Trees)
  BY DEF Merges, TypeInv, GitOK
<1>4. Tip < MaxCommits /\ Tip \in 1..MaxCommits /\ MaxCommits \in Nat
  BY SourceTypes DEF Merges
<1> HIDE DEF c
<1>5. Tip' = Tip + 1 /\ commits' \in Seq(Trees) /\ commits'[Tip + 1] = c
      /\ \A i \in 1..Tip : commits'[i] = commits[i]
  BY <1>2, <1>3 DEF Tip
<1>6. Tip' \in 1..MaxCommits /\ commits'[Tip'] = c
  BY <1>4, <1>5
<1>7. UNCHANGED <<resolves, docs, branch, rows, views, cache, lock, work, history>>
  BY DEF Merges
<1> QED
  BY <1>5, <1>6, <1>7 DEF c

LEMMA TypeMerges ==
  ASSUME TypeInv, NEW w \in Worktrees, NEW a \in Anchors, Merges(w, a)
  PROVE  TypeInv'
<1>1. /\ Tip' = Tip + 1 /\ Tip' \in 1..MaxCommits /\ commits' \in Seq(Trees)
      /\ UNCHANGED <<resolves, docs, branch, rows, views, cache, lock, work>>
  BY MergesEffect
<1>0. Tip \in Nat /\ Tip' \in Nat
  BY <1>1, SourceTypes
<1>2. GitOK' /\ DocsOK' /\ RowsOK'
  BY <1>1 DEF TypeInv, GitOK, DocsOK, RowsOK, rows
<1>3. ViewsOK'
  <2>1. \A t \in Worktrees : snap[t] # None => snap[t].source \in Nat
    BY SourceTypes DEF TypeInv, ViewsOK, Takes
  <2> QED
    BY <1>0, <1>1, <2>1 DEF TypeInv, ViewsOK, views
<1>4. PassOK'
  <2>1. 1..Tip \subseteq 1..(Tip')
    BY <1>0, <1>1
  <2> QED
    BY <1>1, <2>1 DEF TypeInv, PassOK
<1>5. JobsOK'
  BY <1>0, <1>1, JobsKept
<1> QED
  BY <1>2, <1>3, <1>4, <1>5 DEF TypeInv

LEMMA TypeStep == TypeInv /\ [Next]_vars => TypeInv'
<1> SUFFICES ASSUME TypeInv, [Next]_vars PROVE TypeInv'
  OBVIOUS
<1>1. CASE RefsChange
  <2>1. Tip' = Tip /\ Tip \in Nat /\ UNCHANGED <<docs, branch, rows, views, cache, lock, work>>
    BY <1>1, SourceTypes DEF RefsChange, Tip
  <2>2. GitOK'
    BY <1>1 DEF RefsChange, TypeInv, GitOK, Tip
  <2>3. PassOK' /\ JobsOK'
    BY <2>1, PartsKept, JobsKept DEF TypeInv, PassOK
  <2> QED
    BY <2>1, <2>2, <2>3, PartsKept DEF TypeInv
<1>2. CASE UNCHANGED vars
  BY <1>2, TypePeople DEF vars, TypeInv, DocsOK
<1>3. ASSUME NEW p \in Procs, NEW w \in Worktrees,
             \/ ListBegins(p, w)
             \/ Shows(p, w)
             \/ \E a \in Anchors :
                  \/ \E kind \in {"edit", "promote", "retire"} : Begins(p, w, kind, a, None)
                  \/ \E f \in Features : Begins(p, w, "feature", a, f) \/ Chooses(p, w, a, f)
      PROVE  TypeInv'
  <2>1. {"edit", "promote", "retire", "feature"} \subseteq Kinds
    BY DEF Kinds
  <2> QED
    BY <1>3, <2>1, TypeListBegins, TypeShows, TypeBegins, TypeChooses
<1>4. ASSUME NEW p \in Procs,
             \/ Reconcile(p) \/ ListEnds(p)
             \/ Edits(p) \/ PromotionMoves(p) \/ PromotionWrites(p)
             \/ Retires(p) \/ RetirementWrites(p)
             \/ Creates(p) \/ Loads(p) \/ Persists(p)
             \/ GivesUp(p) \/ Dies(p)
      PROVE  TypeInv'
  BY <1>4, TypeReconcile, TypeListEnds, TypeEdits, TypePromotion, TypeRetirementWrites, TypeCreates,
     TypeLoads, TypePersists, TypeStops
<1> QED
  BY <1>1, <1>2, <1>3, <1>4, TypeHandEdits, TypeChecksOut, TypeMerges DEF Next

\* For any number of worktrees, processes, RFCs and commits: what the database,
\* the snapshots, the caches and the commands hold is what the code stores there.
THEOREM RfcTypeCorrect == Spec => []TypeOK
  BY TypeInit, TypeStep, TypeInvSuffices, PTL DEF Spec

-----------------------------------------------------------------------------
(* The canonical rows                                                      *)

\* No pass that is still to write the rows began at an older commit than i.
Passing(i) == \A p \in Procs : work[p].at = "reconciling" => i <= work[p].source

\* What was taken from the default branch, or remembered of it, is no younger
\* than what a pass under way will take; and a row of the canonical database is
\* of an RFC the default branch had by then.
OriginInv  == \A a \in Anchors : origin[a] \in 0..Tip /\ Passing(origin[a])
CacheInv   == \A k \in cache : Passing(k[3])
HistoryInv ==
  baseline => \A a \in Anchors : shared[a] # None =>
                \E i \in 1..Tip : Passing(i) /\ commits[i][a] # None

\* A pass begins at the youngest commit.
LEMMA PassBegins ==
  ASSUME TypeInv, NEW p \in Procs, NEW w \in Worktrees, ListBegins(p, w)
  PROVE  /\ work'[p].at \in InPass /\ work'[p].tree = w /\ work'[p].source = Source
         /\ \A q \in Procs \ {p} : work'[q] = work[q]
         /\ work'[p].at = "reconciling" => work'[p].source = Tip
         /\ work'[p].at = "observing" => Source = 0 \/ <<p, w, Source>> \in cache
<1> DEFINE to == IF IsDue(p, w, Source) THEN "reconciling" ELSE "observing"
           j == [Free EXCEPT !.at = to, !.tree = w, !.source = Source, !.branch = branch[w]]
<1>1. work' = [work EXCEPT ![p] = j]
  BY DEF ListBegins, Locks
<1>2. j.at = to /\ j.tree = w /\ j.source = Source
  BY DEF Free
<1> HIDE DEF j
<1>3. work'[p] = j /\ \A q \in Procs \ {p} : work'[q] = work[q]
  BY <1>1 DEF TypeInv, JobsOK
<1> QED
  BY <1>2, <1>3 DEF InPass, IsDue, Source

\* The commands that change a document there is.
Changing == Kinds \ {"create"}

\* The other steps move one process at most, and none to the rows' pass.
LEMMA OthersPass ==
  ASSUME TypeInv, NEW p \in Procs,
         \/ Reconcile(p) \/ ListEnds(p)
         \/ Edits(p) \/ PromotionMoves(p) \/ PromotionWrites(p)
         \/ Retires(p) \/ RetirementWrites(p)
         \/ Creates(p) \/ Loads(p) \/ Persists(p) \/ GivesUp(p) \/ Dies(p)
         \/ \E w \in Worktrees, a \in Anchors, kind \in Changing, f \in Features \union {None} :
              Begins(p, w, kind, a, f) \/ Chooses(p, w, a, f)
  PROVE  /\ \A q \in Procs \ {p} : work'[q] = work[q]
         /\ work'[p].at # "reconciling"
         /\ work'[p].at = "observing" => Reconcile(p)
<1>0. work \in [Procs -> Jobs] /\ work[p] \in Jobs
  BY JobTypes
<1>1. ASSUME Ends(p) PROVE work'[p].at = "idle" /\ \A q \in Procs \ {p} : work'[q] = work[q]
  BY <1>0, <1>1 DEF Ends, Free
<1>2. ASSUME NEW s, Becomes(p, s)
      PROVE  work'[p].at = s /\ \A q \in Procs \ {p} : work'[q] = work[q]
  BY <1>0, <1>2 DEF Becomes, Jobs
<1>3. CASE Reconcile(p)
  BY <1>0, <1>3 DEF Reconcile, Jobs
<1>4. CASE ListEnds(p) \/ Persists(p) \/ GivesUp(p) \/ Dies(p)
  BY <1>1, <1>4 DEF ListEnds, Persists, GivesUp, Dies
<1>5. CASE \/ Edits(p) \/ PromotionMoves(p) \/ PromotionWrites(p)
           \/ Retires(p) \/ RetirementWrites(p)
  <2>1. Ends(p) \/ Becomes(p, "moved") \/ Becomes(p, "written")
    BY <1>5 DEF Edits, PromotionMoves, PromotionWrites, Retires, RetirementWrites, MovesTo, Writes
  <2> QED
    BY <1>1, <1>2, <2>1
<1>6. CASE Creates(p)
  BY <1>0, <1>6 DEF Creates, Jobs
<1>7. CASE Loads(p)
  <2>1. CASE Ends(p)
    BY <1>1, <2>1
  <2>2. CASE ~Ends(p)
    <3>1. \E r : work' = [work EXCEPT ![p].at = "loaded", ![p].doc = None, ![p].row = r]
      BY <1>7, <2>2 DEF Loads
    <3> QED
      BY <1>0, <3>1 DEF Jobs
  <2> QED
    BY <2>1, <2>2
<1>8. CASE \E w \in Worktrees, a \in Anchors, kind \in Changing, f \in Features \union {None} :
              Begins(p, w, kind, a, f) \/ Chooses(p, w, a, f)
  <2> PICK w \in Worktrees, a \in Anchors, kind \in Changing, f \in Features \union {None} :
              Begins(p, w, kind, a, f) \/ Chooses(p, w, a, f)
    BY <1>8
  <2>1. CASE Begins(p, w, kind, a, f)
    <3> DEFINE j == [Free EXCEPT !.at = IF kind = "feature" THEN "written" ELSE "read",
                      !.tree = w, !.kind = kind, !.anchor = a, !.feature = f, !.doc = docs[w][a]]
    <3>1. work' = [work EXCEPT ![p] = j]
      BY <2>1 DEF Begins
    <3>2. j.at \in {"written", "read"}
      BY DEF Free
    <3> HIDE DEF j
    <3> QED
      BY <1>0, <3>1, <3>2
  <2>2. CASE Chooses(p, w, a, f)
    <3> DEFINE j == [Free EXCEPT !.at = "chosen", !.tree = w, !.kind = "create",
                                 !.anchor = a, !.feature = f]
    <3>1. work' = [work EXCEPT ![p] = j]
      BY <2>2 DEF Chooses
    <3>2. j.at = "chosen"
      BY DEF Free
    <3> HIDE DEF j
    <3> QED
      BY <1>0, <3>1, <3>2
  <2> QED
    BY <2>1, <2>2
<1> QED
  BY <1>3, <1>4, <1>5, <1>6, <1>7, <1>8

\* Every step is one of these.
LEMMA Steps ==
  ASSUME Next
  PROVE  \/ \E p \in Procs, w \in Worktrees : ListBegins(p, w)
         \/ \E p \in Procs, w \in Worktrees : Shows(p, w)
         \/ \E p \in Procs :
              \/ Reconcile(p) \/ ListEnds(p)
              \/ Edits(p) \/ PromotionMoves(p) \/ PromotionWrites(p)
              \/ Retires(p) \/ RetirementWrites(p)
              \/ Creates(p) \/ Loads(p) \/ Persists(p) \/ GivesUp(p) \/ Dies(p)
              \/ \E w \in Worktrees, a \in Anchors, kind \in Changing, f \in Features \union {None} :
                   Begins(p, w, kind, a, f) \/ Chooses(p, w, a, f)
         \/ \E w \in Worktrees, a \in Anchors : HandEdits(w, a) \/ Merges(w, a)
         \/ \E w \in Worktrees, b \in Branches : ChecksOut(w, b)
         \/ RefsChange
BY DEF Next, Kinds, Changing

LEMMA PassingStep ==
  ASSUME TypeInv, [Next]_vars
  PROVE  \A i \in 0..Tip : Passing(i) => Passing(i)'
<1> SUFFICES ASSUME NEW i \in 0..Tip, Passing(i), NEW q \in Procs,
                    work'[q].at = "reconciling"
             PROVE  i <= work'[q].source
  BY DEF Passing
<1>1. CASE UNCHANGED work
  BY <1>1 DEF Passing
<1>2. ASSUME NEW p \in Procs, NEW w \in Worktrees, ListBegins(p, w)
      PROVE  i <= work'[q].source
  <2>1. CASE q = p
    <3>1. work'[p].source = Tip
      BY <1>2, <2>1, PassBegins
    <3> QED
      BY <2>1, <3>1, SourceTypes
  <2>2. CASE q # p
    <3>1. work'[q] = work[q]
      BY <1>2, <2>2, PassBegins
    <3> QED
      BY <3>1 DEF Passing
  <2> QED
    BY <2>1, <2>2
<1>3. ASSUME NEW p \in Procs, \A r \in Procs \ {p} : work'[r] = work[r],
             work'[p].at # "reconciling"
      PROVE  i <= work'[q].source
  BY <1>3 DEF Passing
<1> QED
  BY <1>1, <1>2, <1>3, Steps, OthersPass
  DEF vars, Shows, HandEdits, Merges, ChecksOut, RefsChange

\* The rows change in a pass only, and no pass under way is older than what was
\* taken and remembered before.
LEMMA RowsChange ==
  ASSUME TypeInv, [Next]_vars
  PROVE  \/ UNCHANGED rows /\ \A p \in Procs : ~Reconcile(p)
         \/ \E c \in 1..Tip :
              /\ Reconciles(c)
              /\ UNCHANGED <<git, docs, cache>>
              /\ \A q \in Procs : /\ work'[q].at # "reconciling"
                                  /\ work'[q].at = "observing" => work'[q].source = c
              /\ \A i \in 0..Tip : Passing(i) => i <= c
<1>1. CASE UNCHANGED vars /\ \A p \in Procs : ~Reconcile(p)
  BY <1>1 DEF vars
<1>2. ASSUME NEW p \in Procs, Reconcile(p)
      PROVE  \E c \in 1..Tip :
              /\ Reconciles(c)
              /\ UNCHANGED <<git, docs, cache>>
              /\ \A q \in Procs : /\ work'[q].at # "reconciling"
                                  /\ work'[q].at = "observing" => work'[q].source = c
              /\ \A i \in 0..Tip : Passing(i) => i <= c
  <2> DEFINE c == work[p].source
  <2>1. c \in 1..Tip /\ lock = p /\ work[p].at = "reconciling"
    BY <1>2, JobTypes, SourceTypes DEF JobOK, Reconcile, InPass
  <2>2. Reconciles(c) /\ UNCHANGED <<git, docs, cache>>
    BY <1>2 DEF Reconcile
  <2>3. \A q \in Procs \ {p} : work'[q] = work[q] /\ work[q].at \notin InPass
    BY <1>2, <2>1, OthersPass, JobTypes DEF JobOK
  <2>4. work'[p].at = "observing" /\ work'[p].source = c
    BY <1>2, JobTypes DEF Reconcile, Jobs
  <2>5. \A i \in 0..Tip : Passing(i) => i <= c
    BY <2>1 DEF Passing
  <2> QED
    BY <2>1, <2>2, <2>3, <2>4, <2>5 DEF InPass
<1>3. ASSUME NEW p \in Procs, NEW w \in Worktrees, Shows(p, w), ~UNCHANGED rows
      PROVE  \E c \in 1..Tip :
              /\ Reconciles(c)
              /\ UNCHANGED <<git, docs, cache>>
              /\ \A q \in Procs : /\ work'[q].at # "reconciling"
                                  /\ work'[q].at = "observing" => work'[q].source = c
              /\ \A i \in 0..Tip : Passing(i) => i <= c
  <2>1. IsDue(p, w, Source) /\ Reconciles(Source) /\ lock = None
        /\ UNCHANGED <<git, docs, cache, work>>
    BY <1>3 DEF Shows, Remembered
  <2>2. Source = Tip /\ Tip \in 1..Tip
    BY <2>1, SourceTypes DEF IsDue, Source
  <2>3. \A q \in Procs : work[q].at \notin InPass
    BY <2>1, JobTypes, RfcConstants DEF JobOK
  <2> QED
    BY <2>1, <2>2, <2>3 DEF InPass
<1>4. ASSUME ~UNCHANGED vars, \A p \in Procs : ~Reconcile(p),
             \A p \in Procs, w \in Worktrees : ~Shows(p, w)
      PROVE  UNCHANGED rows
  <2>1. CASE \E p \in Procs, w \in Worktrees : ListBegins(p, w)
    BY <2>1 DEF ListBegins, rows
  <2>2. ASSUME NEW p \in Procs,
              \/ ListEnds(p)
              \/ Edits(p) \/ PromotionMoves(p) \/ PromotionWrites(p)
              \/ Retires(p) \/ RetirementWrites(p)
              \/ Creates(p) \/ Loads(p) \/ Persists(p) \/ GivesUp(p) \/ Dies(p)
              \/ \E w \in Worktrees, a \in Anchors, kind \in Changing, f \in Features \union {None} :
                   Begins(p, w, kind, a, f) \/ Chooses(p, w, a, f)
        PROVE  UNCHANGED rows
    <3>1. CASE ListEnds(p) \/ Creates(p) \/ Loads(p) \/ Persists(p) \/ GivesUp(p) \/ Dies(p)
      BY <3>1 DEF ListEnds, Creates, Loads, Persists, GivesUp, Dies, rows
    <3>2. CASE \/ Edits(p) \/ PromotionMoves(p) \/ PromotionWrites(p)
               \/ Retires(p) \/ RetirementWrites(p)
      BY <3>2 DEF Edits, PromotionMoves, PromotionWrites, Retires, RetirementWrites, MovesTo, rows
    <3>3. CASE \E w \in Worktrees, a \in Anchors, kind \in Changing, f \in Features \union {None} :
                   Begins(p, w, kind, a, f) \/ Chooses(p, w, a, f)
      BY <3>3 DEF Begins, Chooses, rows
    <3> QED
      BY <2>2, <3>1, <3>2, <3>3
  <2>3. CASE \/ \E w \in Worktrees, a \in Anchors : HandEdits(w, a) \/ Merges(w, a)
             \/ \E w \in Worktrees, b \in Branches : ChecksOut(w, b)
             \/ RefsChange
    BY <2>3 DEF HandEdits, Merges, ChecksOut, RefsChange, rows
  <2> QED
    BY <1>4, <2>1, <2>2, <2>3, Steps
<1> QED
  BY <1>1, <1>2, <1>3, <1>4

\* The default branch only grows.
LEMMA CommitsKept ==
  ASSUME TypeInv, [Next]_vars
  PROVE  /\ Tip' \in Nat /\ Tip <= Tip'
         /\ \A i \in 1..Tip : commits'[i] = commits[i]
         /\ \/ UNCHANGED commits
            \/ /\ Tip' = Tip + 1
               /\ \E w \in Worktrees, a \in Anchors :
                    commits'[Tip'] = [commits[Tip] EXCEPT ![a] = docs[w][a]]
               /\ UNCHANGED <<resolves, docs, branch, rows, views, cache, lock, work, history>>
<1>1. CASE UNCHANGED commits
  BY <1>1, SourceTypes DEF Tip
<1>2. ASSUME NEW w \in Worktrees, NEW a \in Anchors, Merges(w, a)
      PROVE  /\ Tip' \in Nat /\ Tip <= Tip'
             /\ \A i \in 1..Tip : commits'[i] = commits[i]
             /\ Tip' = Tip + 1
             /\ \E v \in Worktrees, b \in Anchors :
                  commits'[Tip'] = [commits[Tip] EXCEPT ![b] = docs[v][b]]
             /\ UNCHANGED <<resolves, docs, branch, rows, views, cache, lock, work, history>>
  <2>1. /\ Tip' = Tip + 1 /\ \A i \in 1..Tip : commits'[i] = commits[i]
        /\ commits'[Tip'] = [commits[Tip] EXCEPT ![a] = docs[w][a]]
        /\ UNCHANGED <<resolves, docs, branch, rows, views, cache, lock, work, history>>
    BY <1>2, MergesEffect
  <2>2. Tip' \in Nat /\ Tip <= Tip'
    BY <2>1, SourceTypes
  <2> QED
    BY <2>1, <2>2
<1>3. ASSUME NEW p \in Procs,
              \/ ListEnds(p) \/ Reconcile(p)
              \/ Edits(p) \/ PromotionMoves(p) \/ PromotionWrites(p)
              \/ Retires(p) \/ RetirementWrites(p)
              \/ Creates(p) \/ Loads(p) \/ Persists(p) \/ GivesUp(p) \/ Dies(p)
              \/ \E w \in Worktrees, a \in Anchors, kind \in Changing, f \in Features \union {None} :
                   Begins(p, w, kind, a, f) \/ Chooses(p, w, a, f)
      PROVE  UNCHANGED commits
  <2>1. CASE ListEnds(p) \/ Creates(p) \/ Loads(p) \/ Persists(p) \/ GivesUp(p) \/ Dies(p)
             \/ Reconcile(p)
    BY <2>1 DEF ListEnds, Creates, Loads, Persists, GivesUp, Dies, Reconcile, git
  <2>2. CASE \/ Edits(p) \/ PromotionMoves(p) \/ PromotionWrites(p)
             \/ Retires(p) \/ RetirementWrites(p)
    BY <2>2 DEF Edits, PromotionMoves, PromotionWrites, Retires, RetirementWrites, MovesTo, git
  <2>3. CASE \E w \in Worktrees, a \in Anchors, kind \in Changing, f \in Features \union {None} :
               Begins(p, w, kind, a, f) \/ Chooses(p, w, a, f)
    BY <2>3 DEF Begins, Chooses, git
  <2> QED
    BY <1>3, <2>1, <2>2, <2>3
<1>4. ASSUME NEW w \in Worktrees, NEW p \in Procs, ListBegins(p, w) \/ Shows(p, w)
      PROVE  UNCHANGED commits
  BY <1>4 DEF ListBegins, Shows, git
<1>5. ASSUME \/ \E w \in Worktrees, a \in Anchors : HandEdits(w, a)
             \/ \E w \in Worktrees, b \in Branches : ChecksOut(w, b)
             \/ RefsChange
      PROVE  UNCHANGED commits
  BY <1>5 DEF HandEdits, ChecksOut, RefsChange, git
<1>6. UNCHANGED vars => UNCHANGED commits
  BY DEF vars, git
<1>7. (\E w \in Worktrees, a \in Anchors : Merges(w, a)) \/ UNCHANGED commits
  BY <1>3, <1>4, <1>5, <1>6, Steps
<1> QED
  BY <1>1, <1>2, <1>7

\* What is remembered was listed by the process that remembers it.
LEMMA CacheChange ==
  ASSUME TypeInv, [Next]_vars
  PROVE  \/ cache' \subseteq cache
         \/ \E p \in Procs :
              /\ ListEnds(p) /\ work[p].source \in 1..Tip
              /\ cache' = cache \union {<<p, work[p].tree, work[p].source>>}
<1>1. ASSUME NEW p \in Procs, ListEnds(p)
      PROVE  cache' \subseteq cache \/
               /\ work[p].source \in 1..Tip
               /\ cache' = cache \union {<<p, work[p].tree, work[p].source>>}
  <2>1. work[p].source \in 0..Tip
    BY <1>1, JobTypes, SourceTypes DEF ListEnds, JobOK, InPass
  <2> QED
    BY <1>1, <2>1, SourceTypes DEF ListEnds
<1>2. ASSUME NEW p \in Procs,
              \/ Reconcile(p)
              \/ Edits(p) \/ PromotionMoves(p) \/ PromotionWrites(p)
              \/ Retires(p) \/ RetirementWrites(p)
              \/ Creates(p) \/ Loads(p) \/ Persists(p) \/ GivesUp(p) \/ Dies(p)
              \/ \E w \in Worktrees, a \in Anchors, kind \in Changing, f \in Features \union {None} :
                   Begins(p, w, kind, a, f) \/ Chooses(p, w, a, f)
      PROVE  cache' \subseteq cache
  <2>1. CASE Creates(p) \/ Loads(p) \/ Persists(p) \/ GivesUp(p) \/ Dies(p) \/ Reconcile(p)
    BY <2>1 DEF Creates, Loads, Persists, GivesUp, Dies, Reconcile, Kept
  <2>2. CASE \/ Edits(p) \/ PromotionMoves(p) \/ PromotionWrites(p)
             \/ Retires(p) \/ RetirementWrites(p)
    BY <2>2 DEF Edits, PromotionMoves, PromotionWrites, Retires, RetirementWrites, MovesTo
  <2>3. CASE \E w \in Worktrees, a \in Anchors, kind \in Changing, f \in Features \union {None} :
               Begins(p, w, kind, a, f) \/ Chooses(p, w, a, f)
    BY <2>3 DEF Begins, Chooses
  <2> QED
    BY <1>2, <2>1, <2>2, <2>3
<1>3. ASSUME NEW w \in Worktrees, NEW p \in Procs, ListBegins(p, w) \/ Shows(p, w)
      PROVE  cache' \subseteq cache
  BY <1>3 DEF ListBegins, Shows, Remembered
<1>4. ASSUME \/ \E w \in Worktrees, a \in Anchors : HandEdits(w, a) \/ Merges(w, a)
             \/ \E w \in Worktrees, b \in Branches : ChecksOut(w, b)
             \/ RefsChange
      PROVE  cache' \subseteq cache
  BY <1>4 DEF HandEdits, ChecksOut, RefsChange, Merges
<1>5. UNCHANGED vars => cache' \subseteq cache
  BY DEF vars
<1> QED
  BY <1>1, <1>2, <1>3, <1>4, <1>5, Steps

-----------------------------------------------------------------------------
(* What has been published stays                                           *)

LEMMA OriginStep == TypeInv /\ OriginInv /\ [Next]_vars => OriginInv'
<1> SUFFICES ASSUME TypeInv, OriginInv, [Next]_vars, NEW a \in Anchors
             PROVE  /\ origin'[a] \in 0..Tip'
                    /\ \A p \in Procs : work'[p].at = "reconciling" => origin'[a] <= work'[p].source
  BY DEF OriginInv, Passing
<1>1. /\ origin[a] \in 0..Tip /\ Passing(origin[a])
      /\ Tip \in Nat /\ Tip' \in Nat /\ Tip <= Tip'
  <2>1. origin[a] \in 0..Tip /\ Passing(origin[a])
    BY DEF OriginInv
  <2>2. Tip \in Nat /\ Tip' \in Nat /\ Tip <= Tip'
    BY CommitsKept, SourceTypes
  <2> QED
    BY <2>1, <2>2
<1>2. CASE UNCHANGED rows
  <2>1. PICK i \in 0..Tip : i = origin[a]
    BY <1>1
  <2>2. Passing(i)
    BY <1>1, <2>1
  <2>3. Passing(i)'
    BY <2>2, PassingStep
  <2>4. origin'[a] = i
    BY <1>2, <2>1 DEF rows
  <2> QED
    BY <1>1, <2>3, <2>4 DEF Passing
<1>3. ASSUME NEW c \in 1..Tip, Reconciles(c), \A q \in Procs : work'[q].at # "reconciling"
      PROVE  /\ origin'[a] \in 0..Tip'
             /\ \A p \in Procs : work'[p].at = "reconciling" => origin'[a] <= work'[p].source
  <2>1. origin'[a] = c \/ origin'[a] = origin[a]
    BY <1>3 DEF Reconciles
  <2> QED
    BY <1>1, <1>3, <2>1 DEF Passing
<1> QED
  BY <1>2, <1>3, RowsChange

LEMMA HistoryStep == TypeInv /\ HistoryInv /\ [Next]_vars => HistoryInv'
<1> SUFFICES ASSUME TypeInv, HistoryInv, [Next]_vars, baseline',
                    NEW a \in Anchors, shared'[a] # None
             PROVE  \E i \in 1..Tip' : Passing(i)' /\ commits'[i][a] # None
  BY DEF HistoryInv
<1>1. Tip \in Nat /\ Tip' \in Nat /\ Tip <= Tip' /\ \A i \in 1..Tip : commits'[i] = commits[i]
  BY CommitsKept, SourceTypes
<1>2. CASE UNCHANGED rows
  <2>1. PICK i \in 1..Tip : Passing(i) /\ commits[i][a] # None
    BY <1>2 DEF HistoryInv, rows
  <2>2. Passing(i)'
    BY <1>1, <2>1, PassingStep
  <2> QED
    BY <1>1, <2>1, <2>2
<1>3. ASSUME NEW c \in 1..Tip, Reconciles(c), \A q \in Procs : work'[q].at # "reconciling"
      PROVE  \E i \in 1..Tip' : Passing(i)' /\ commits'[i][a] # None
  <2>1. \A i \in 1..Tip : Passing(i)'
    BY <1>3 DEF Passing
  <2>2. commits[c][a] # None \/ (shared[a] # None /\ a \notin SetAside(c))
    BY <1>3 DEF Reconciles, RowsAfter, Usable
  <2>3. commits[c][a] # None \/ \E i \in 1..c : commits[i][a] # None
    BY <2>2 DEF SetAside, InHistory
  <2>4. \E i \in 1..Tip : commits[i][a] # None
    BY <1>1, <2>3
  <2> QED
    BY <1>1, <2>1, <2>4
<1> QED
  BY <1>2, <1>3, RowsChange

\* A usable document of the commit gives its row.
LEMMA ReconciledRow ==
  ASSUME TypeInv, NEW c \in 1..Tip, Reconciles(c), NEW a \in Anchors, Usable(commits[c][a])
  PROVE  /\ shared'[a] \in Rows /\ shared'[a] # None
         /\ Face(shared'[a]) = Face(commits[c][a])
<1>1. shared'[a] = CanonicalRow(commits[c][a], shared[a])
  BY DEF Reconciles, RowsAfter
<1>2. commits[c][a] \in Documents \union {None}
  BY CommitTypes DEF Trees
<1>3. shared[a] # None => shared[a] \in Rows
  BY DEF TypeInv, RowsOK, RowSets
<1>4. shared'[a] \in Rows
  BY <1>1, <1>2, <1>3, UsableTypes DEF CanonicalRow, Rows
<1> QED
  BY <1>1, <1>4, RfcConstants DEF CanonicalRow, Face

LEMMA RowsStep ==
  ASSUME TypeInv, OriginInv, HistoryInv, [Next]_vars, NEW a \in Anchors
  PROVE  /\ origin'[a] >= origin[a]
         /\ baseline /\ shared[a] # None => shared'[a] # None
<1>1. origin[a] \in 0..Tip /\ Passing(origin[a]) /\ Tip \in Nat
  BY SourceTypes DEF OriginInv
<1>2. CASE UNCHANGED rows
  BY <1>1, <1>2 DEF rows
<1>3. ASSUME NEW c \in 1..Tip, Reconciles(c), \A i \in 0..Tip : Passing(i) => i <= c
      PROVE  /\ origin'[a] >= origin[a]
             /\ baseline /\ shared[a] # None => shared'[a] # None
  <2>1. origin[a] <= c /\ (origin'[a] = c \/ origin'[a] = origin[a])
    BY <1>1, <1>3 DEF Reconciles
  <2>2. ASSUME baseline, shared[a] # None
        PROVE  shared'[a] # None
    <3>1. PICK i \in 1..Tip : Passing(i) /\ commits[i][a] # None
      BY <2>2 DEF HistoryInv
    <3>2. i \in 1..c
      BY <1>1, <1>3, <3>1
    <3>3. a \notin SetAside(c)
      BY <2>2, <3>1, <3>2 DEF SetAside, InHistory
    <3>4. CASE Usable(commits[c][a])
      BY <1>3, <3>4, RfcConstants, ReconciledRow
    <3>5. CASE ~Usable(commits[c][a])
      BY <1>3, <2>2, <3>3, <3>5 DEF Reconciles, RowsAfter
    <3> QED
      BY <3>4, <3>5
  <2> QED
    BY <1>1, <2>1, <2>2
<1> QED
  BY <1>2, <1>3, RowsChange

\* No step sets aside a row of the canonical database whose RFC the default
\* branch ever had, nor takes a row from an older commit than before.
THEOREM PublishedRowsStand == Spec => PublishedRowsStay
<1>1. Init => TypeInv /\ OriginInv /\ HistoryInv
  <2> SUFFICES ASSUME Init PROVE TypeInv /\ OriginInv /\ HistoryInv
    OBVIOUS
  <2>1. TypeInv /\ Tip \in Nat
    BY TypeInit, SourceTypes
  <2>2. \A p \in Procs : work[p].at = "idle"
    BY DEF Init, Free
  <2>3. OriginInv /\ HistoryInv
    BY <2>1, <2>2 DEF Init, OriginInv, HistoryInv, Passing
  <2> QED
    BY <2>1, <2>3
<1>2. TypeInv /\ OriginInv /\ HistoryInv /\ [Next]_vars => (TypeInv /\ OriginInv /\ HistoryInv)'
  BY TypeStep, OriginStep, HistoryStep
<1>3. TypeInv /\ OriginInv /\ HistoryInv /\ [Next]_vars =>
        [\A a \in Anchors :
           /\ origin'[a] >= origin[a]
           /\ baseline /\ shared[a] # None /\ (\E i \in 1..Tip : commits[i][a] # None)
                => shared'[a] # None]_vars
  BY RowsStep
<1> QED
  BY <1>1, <1>2, <1>3, PTL DEF Spec, PublishedRowsStay

-----------------------------------------------------------------------------
(* What a reader sees                                                      *)

LEMMA CacheStep == TypeInv /\ CacheInv /\ [Next]_vars => CacheInv'
<1> SUFFICES ASSUME TypeInv, CacheInv, [Next]_vars, NEW k \in cache', NEW q \in Procs,
                    work'[q].at = "reconciling"
             PROVE  k[3] <= work'[q].source
  BY DEF CacheInv, Passing
<1>1. CASE k \in cache
  <2>1. k[3] \in 1..Tip /\ Passing(k[3])
    BY <1>1 DEF TypeInv, PassOK, CacheInv
  <2>2. PICK i \in 0..Tip : i = k[3]
    BY <2>1
  <2>3. Passing(i)'
    BY <2>1, <2>2, PassingStep
  <2> QED
    BY <2>2, <2>3 DEF Passing
<1>2. ASSUME NEW p \in Procs, ListEnds(p)
      PROVE  FALSE
  <2>1. lock = p /\ work'[p].at # "reconciling" /\ \A r \in Procs \ {p} : work'[r] = work[r]
    BY <1>2, JobTypes, OthersPass DEF JobOK, ListEnds, InPass
  <2>2. work[q].at \notin InPass \/ q = p
    BY <2>1, JobTypes DEF JobOK
  <2> QED
    BY <2>1, <2>2 DEF InPass
<1> QED
  BY <1>1, <1>2, CacheChange

\* Who observes after a step that reconciles nothing did so before it, or began
\* because its process remembers the youngest commit, or there is none to see.
LEMMA Observers ==
  ASSUME TypeInv, [Next]_vars, \A p \in Procs : ~Reconcile(p),
         NEW q \in Procs, work'[q].at = "observing"
  PROVE  \/ work[q].at = "observing" /\ work'[q].source = work[q].source
         \/ work'[q].source = 0
         \/ work'[q].source = Tip /\ \E k \in cache : k[3] = Tip
<1>1. CASE UNCHANGED work
  BY <1>1
<1>2. ASSUME NEW p \in Procs, NEW w \in Worktrees, ListBegins(p, w)
      PROVE  \/ work[q].at = "observing" /\ work'[q].source = work[q].source
             \/ work'[q].source = 0
             \/ work'[q].source = Tip /\ \E k \in cache : k[3] = Tip
  <2>1. CASE q = p
    <3>1. work'[q].source = Source /\ (Source = 0 \/ <<p, w, Source>> \in cache)
      BY <1>2, <2>1, PassBegins
    <3>2. Source = 0 \/ Source = Tip
      BY DEF Source
    <3>3. <<p, w, Source>>[3] = Source
      OBVIOUS
    <3> QED
      BY <3>1, <3>2, <3>3
  <2>2. CASE q # p
    BY <1>2, <2>2, PassBegins
  <2> QED
    BY <2>1, <2>2
<1>3. ASSUME NEW p \in Procs, \A r \in Procs \ {p} : work'[r] = work[r],
             work'[p].at # "observing"
      PROVE  work[q].at = "observing" /\ work'[q].source = work[q].source
  BY <1>3
<1> QED
  BY <1>1, <1>2, <1>3, Steps, OthersPass
  DEF vars, Shows, HandEdits, Merges, ChecksOut, RefsChange

LEMMA ReconciledReflects ==
  ASSUME TypeInv, NEW c \in 1..Tip, Reconciles(c), UNCHANGED commits
  PROVE  Reflects(c)'
<1> SUFFICES ASSUME NEW a \in Anchors, Usable(commits[c][a])
             PROVE  SameFace(shared'[a], commits[c][a])
  BY DEF Reflects
<1> QED
  BY ReconciledRow DEF SameFace, Usable

LEMMA ReflectsKept ==
  ASSUME TypeInv, [Next]_vars, UNCHANGED rows, NEW c \in 1..Tip, Reflects(c)
  PROVE  Reflects(c)'
<1>1. commits'[c] = commits[c] /\ shared' = shared
  BY CommitsKept DEF rows
<1> QED
  BY <1>1 DEF Reflects

LEMMA ReadersStep ==
  TypeInv /\ CacheInv /\ ReadersSeeTheCommit /\ [Next]_vars => ReadersSeeTheCommit'
<1> SUFFICES ASSUME TypeInv, CacheInv, ReadersSeeTheCommit, [Next]_vars
             PROVE  ReadersSeeTheCommit'
  OBVIOUS
<1>0. Tip \in 1..Tip /\ Tip \in Nat
  BY SourceTypes
<1>1. ASSUME UNCHANGED rows, \A p \in Procs : ~Reconcile(p)
      PROVE  ReadersSeeTheCommit'
  <2>1. ASSUME NEW q \in Procs, work'[q].at = "observing", work'[q].source # 0
        PROVE  \E c \in 1..Tip : c = work'[q].source /\ Reflects(c)'
    <3>1. work[q].at = "observing" => work[q].source \in 0..Tip
      BY JobTypes, SourceTypes DEF JobOK, InPass
    <3>2. PICK c \in 1..Tip : c = work'[q].source /\ Reflects(c)
      BY <1>0, <1>1, <2>1, <3>1, Observers DEF ReadersSeeTheCommit
    <3>3. Reflects(c)'
      BY <1>1, <3>2, ReflectsKept
    <3> QED
      BY <3>2, <3>3
  <2>2. ASSUME NEW k \in cache', k[3] = Tip'
        PROVE  Reflects(Tip)'
    <3>1. CASE UNCHANGED commits
      <4>1. Tip' = Tip
        BY <3>1 DEF Tip
      <4>2. Reflects(Tip)
        <5>1. CASE k \in cache
          BY <2>2, <4>1, <5>1 DEF ReadersSeeTheCommit
        <5>2. ASSUME NEW p \in Procs, ListEnds(p), k = <<p, work[p].tree, work[p].source>>
              PROVE  Reflects(Tip)
          <6>1. k[3] = work[p].source
            BY <5>2
          <6>2. work[p].at = "observing"
            BY <5>2 DEF ListEnds
          <6> QED
            BY <1>0, <2>2, <4>1, <6>1, <6>2 DEF ReadersSeeTheCommit
        <5> QED
          BY <2>2, <5>1, <5>2, CacheChange
      <4>3. PICK c \in 1..Tip : c = Tip
        BY <1>0
      <4>4. Reflects(c)'
        BY <1>1, <4>2, <4>3, ReflectsKept
      <4> QED
        BY <4>1, <4>3, <4>4 DEF Reflects
    <3>2. CASE ~UNCHANGED commits
      <4>1. k \in cache /\ Tip' = Tip + 1
        BY <2>2, <3>2, CommitsKept
      <4>2. k[3] \in 1..Tip
        BY <4>1 DEF TypeInv, PassOK
      <4> QED
        BY <1>0, <2>2, <4>1, <4>2
    <3> QED
      BY <3>1, <3>2
  <2> QED
    BY <2>1, <2>2 DEF ReadersSeeTheCommit, Reflects
<1>2. ASSUME NEW c \in 1..Tip, Reconciles(c), UNCHANGED <<git, docs, cache>>,
             \A q \in Procs : work'[q].at = "observing" => work'[q].source = c,
             \A i \in 0..Tip : Passing(i) => i <= c
      PROVE  ReadersSeeTheCommit'
  <2>1. UNCHANGED commits /\ Tip' = Tip
    BY <1>2 DEF git, Tip
  <2>2. Reflects(c)'
    BY <1>2, <2>1, ReconciledReflects
  <2>3. ASSUME NEW k \in cache, k[3] = Tip
        PROVE  c = Tip
    <3>1. Passing(Tip)
      BY <2>3 DEF CacheInv
    <3> QED
      BY <1>0, <1>2, <3>1
  <2> QED
    BY <1>2, <2>1, <2>2, <2>3 DEF ReadersSeeTheCommit, Reflects
<1> QED
  BY <1>1, <1>2, RowsChange

\* Whoever observes, or remembers the default branch as it is, has rows that
\* show its commit.
THEOREM ReadersAreCurrent == Spec => []ReadersSeeTheCommit
<1>1. Init => TypeInv /\ CacheInv /\ ReadersSeeTheCommit
  <2> SUFFICES ASSUME Init PROVE TypeInv /\ CacheInv /\ ReadersSeeTheCommit
    OBVIOUS
  <2>1. \A p \in Procs : work[p].at = "idle"
    BY DEF Init, Free
  <2> QED
    BY <2>1, TypeInit DEF Init, CacheInv, ReadersSeeTheCommit
<1>2. TypeInv /\ CacheInv /\ ReadersSeeTheCommit /\ [Next]_vars
        => (TypeInv /\ CacheInv /\ ReadersSeeTheCommit)'
  BY TypeStep, CacheStep, ReadersStep
<1> QED
  BY <1>1, <1>2, PTL DEF Spec

-----------------------------------------------------------------------------
(* What the shared rows say                                                *)

\* A row a pass has taken says what that commit says of its RFC.
RowsOfCommits ==
  \A a \in Anchors : shared[a] # None /\ origin[a] # 0 =>
    /\ origin[a] \in 1..Tip /\ commits[origin[a]][a] # None
    /\ Face(shared[a]) = Face(commits[origin[a]][a])

LEMMA RowsOfCommitsStep == TypeInv /\ RowsOfCommits /\ [Next]_vars => RowsOfCommits'
<1> SUFFICES ASSUME TypeInv, RowsOfCommits, [Next]_vars,
                    NEW a \in Anchors, shared'[a] # None, origin'[a] # 0
             PROVE  /\ origin'[a] \in 1..Tip' /\ commits'[origin'[a]][a] # None
                    /\ Face(shared'[a]) = Face(commits'[origin'[a]][a])
  BY DEF RowsOfCommits
<1>1. Tip \in Nat /\ Tip' \in Nat /\ Tip <= Tip' /\ \A i \in 1..Tip : commits'[i] = commits[i]
  BY CommitsKept, SourceTypes
<1>2. ASSUME shared'[a] = shared[a], origin'[a] = origin[a]
      PROVE  /\ origin'[a] \in 1..Tip' /\ commits'[origin'[a]][a] # None
             /\ Face(shared'[a]) = Face(commits'[origin'[a]][a])
  <2> PICK i \in 1..Tip : /\ i = origin[a] /\ commits[i][a] # None
                          /\ Face(shared[a]) = Face(commits[i][a])
    BY <1>2 DEF RowsOfCommits
  <2> QED
    BY <1>1, <1>2
<1>3. CASE UNCHANGED rows
  BY <1>2, <1>3 DEF rows
<1>4. ASSUME NEW c \in 1..Tip, Reconciles(c)
      PROVE  /\ origin'[a] \in 1..Tip' /\ commits'[origin'[a]][a] # None
             /\ Face(shared'[a]) = Face(commits'[origin'[a]][a])
  <2>1. CASE Usable(commits[c][a])
    <3>1. origin'[a] = c /\ Face(shared'[a]) = Face(commits[c][a])
      BY <1>4, <2>1, ReconciledRow DEF Reconciles
    <3> QED
      BY <1>1, <2>1, <3>1 DEF Usable
  <2>2. CASE ~Usable(commits[c][a])
    <3>1. shared'[a] = shared[a] /\ origin'[a] = origin[a]
      BY <1>4, <2>2 DEF Reconciles, RowsAfter
    <3> QED
      BY <1>2, <3>1
  <2> QED
    BY <2>1, <2>2
<1> QED
  BY <1>3, <1>4, RowsChange

\* Whatever a database came with, a row a pass has written says of its RFC what
\* the commit it was taken from says.
THEOREM RowsAreOfTheirCommit == Spec => []RowsOfCommits
<1>1. Init => TypeInv /\ RowsOfCommits
  BY TypeInit DEF Init, RowsOfCommits
<1>2. TypeInv /\ RowsOfCommits /\ [Next]_vars => (TypeInv /\ RowsOfCommits)'
  BY TypeStep, RowsOfCommitsStep
<1> QED
  BY <1>1, <1>2, PTL DEF Spec

\* Until the first canonical pass no row is of a commit; and a row that is of no
\* commit is one the database came with.
FirstInv ==
  /\ ~baseline => \A a \in Anchors : origin[a] = 0
  /\ \A a \in Anchors : origin[a] = 0 /\ shared[a] # None => \E r \in FirstRows : shared[a] = r[a]

LEMMA FirstStep == TypeInv /\ FirstInv /\ [Next]_vars => FirstInv'
<1> SUFFICES ASSUME TypeInv, FirstInv, [Next]_vars PROVE FirstInv'
  OBVIOUS
<1>1. CASE UNCHANGED rows
  BY <1>1 DEF FirstInv, rows
<1>2. ASSUME NEW c \in 1..Tip, Reconciles(c)
      PROVE  FirstInv'
  <2>1. ASSUME NEW a \in Anchors, origin'[a] = 0
        PROVE  ~Usable(commits[c][a]) /\ origin[a] = 0
    BY <1>2, <2>1, SourceTypes DEF Reconciles
  <2>2. ASSUME NEW a \in Anchors, origin'[a] = 0, shared'[a] # None
        PROVE  shared'[a] = shared[a]
    BY <1>2, <2>1, <2>2 DEF Reconciles, RowsAfter
  <2>3. baseline'
    BY <1>2 DEF Reconciles
  <2> QED
    BY <2>1, <2>2, <2>3 DEF FirstInv
<1> QED
  BY <1>1, <1>2, RowsChange

LEMMA SharedStep == TypeInv /\ FirstInv /\ SharedIsPublished /\ [Next]_vars => SharedIsPublished'
<1> DEFINE Says(a, i) == /\ commits[i][a] # None
                         /\ Face(shared[a]) = Face(commits[i][a]) \/ LeftAsItWas(a, commits[i][a])
<1> SUFFICES ASSUME TypeInv, FirstInv, SharedIsPublished, [Next]_vars, baseline',
                    NEW a \in Anchors, shared'[a] # None
             PROVE  \E i \in 1..Tip' : Says(a, i)'
  BY DEF SharedIsPublished
<1>1. Tip \in Nat /\ Tip' \in Nat /\ Tip <= Tip' /\ \A i \in 1..Tip : commits'[i] = commits[i]
  BY CommitsKept, SourceTypes
<1>2. \A i \in 1..Tip : i \in 1..Tip'
  BY <1>1
<1>3. ASSUME shared'[a] = shared[a], origin'[a] = origin[a], NEW i \in 1..Tip, Says(a, i)
      PROVE  \E k \in 1..Tip' : Says(a, k)'
  <2>1. commits'[i] = commits[i] /\ i \in 1..Tip'
    BY <1>1, <1>2
  <2>2. Says(a, i)'
    BY <1>3, <2>1 DEF LeftAsItWas, Face
  <2> QED
    BY <2>1, <2>2
<1>4. ASSUME baseline, shared'[a] = shared[a], origin'[a] = origin[a]
      PROVE  \E i \in 1..Tip' : Says(a, i)'
  <2>1. \E i \in 1..Tip : Says(a, i)
    BY <1>4 DEF SharedIsPublished
  <2> QED
    BY <1>3, <1>4, <2>1
<1>5. CASE UNCHANGED rows
  BY <1>4, <1>5 DEF rows
<1>6. ASSUME NEW c \in 1..Tip, Reconciles(c)
      PROVE  \E i \in 1..Tip' : Says(a, i)'
  <2>1. CASE Usable(commits[c][a])
    <3>1. Face(shared'[a]) = Face(commits'[c][a]) /\ commits'[c][a] # None
      BY <1>1, <1>6, <2>1, ReconciledRow DEF Usable
    <3> QED
      BY <1>2, <3>1
  <2>2. CASE ~Usable(commits[c][a])
    <3>1. /\ shared'[a] = shared[a] /\ origin'[a] = origin[a]
          /\ shared[a] # None /\ a \notin SetAside(c)
      BY <1>6, <2>2 DEF Reconciles, RowsAfter
    <3>2. CASE ~baseline
      <4>1. commits[c][a] # None /\ commits[c][a].text = Broken
        BY <2>2, <3>1, <3>2 DEF SetAside, Usable
      <4>2. origin[a] = 0 /\ \E r \in FirstRows : shared[a] = r[a]
        BY <3>1, <3>2 DEF FirstInv
      <4>3. Says(a, c)
        BY <4>1, <4>2 DEF LeftAsItWas
      <4> QED
        BY <1>3, <3>1, <4>3
    <3> QED
      BY <1>4, <3>1, <3>2
  <2> QED
    BY <2>1, <2>2
<1> QED
  BY <1>5, <1>6, RowsChange

\* Once a canonical pass has been made every row says what some commit of the
\* default branch says of its RFC, whatever rows the database came with; only
\* that of an RFC whose document there is unusable may be left as it was.
THEOREM SharedRowsArePublished == Spec => []SharedIsPublished
<1>1. Init => TypeInv /\ FirstInv /\ SharedIsPublished
  BY TypeInit DEF Init, FirstInv, SharedIsPublished
<1>2. TypeInv /\ FirstInv /\ SharedIsPublished /\ [Next]_vars
        => (TypeInv /\ FirstInv /\ SharedIsPublished)'
  BY TypeStep, FirstStep, SharedStep
<1> QED
  BY <1>1, <1>2, PTL DEF Spec

-----------------------------------------------------------------------------
(* What a worktree is shown                                                *)

LEMMA WorkOf ==
  ASSUME TypeInv, NEW p \in Procs, NEW j, work' = [work EXCEPT ![p] = j]
  PROVE  work'[p] = j /\ \A q \in Procs \ {p} : work'[q] = work[q]
BY DEF TypeInv, JobsOK

LEMMA EndsFree ==
  ASSUME TypeInv, NEW p \in Procs, Ends(p)
  PROVE  work'[p] = Free /\ \A q \in Procs \ {p} : work'[q] = work[q]
BY DEF TypeInv, JobsOK, Ends

\* An observation is of a usable document, and keeps the feature it declares.
TakenOf(o, d) ==
  /\ o = None <=> ~Usable(d)
  /\ o # None => Face(o) = Face(d) /\ (d.feature # None => o.declared)

FeatureOf(r) == IF r = None THEN None ELSE r.feature
Wishes       == [Worktrees -> [Anchors -> Features \union {None}]]
Gives        == {"feature", "create"}

\* The snapshot of a worktree where nothing overlapped: what it says of each
\* RFC is of the document it was taken of, what it declares somebody gave to
\* that RFC on that branch, and what a command gave it still holds.
SeenOf(w, a) ==
  LET o == obs[w][a]
  IN  /\ snap[w] # None => TakenOf(o, snap[w].digest[a])
      /\ o # None /\ o.declared => <<w, snap[w].branch, a, o.feature>> \in asked
      /\ wish[w][a] # None =>
           /\ Usable(docs[w][a]) /\ docs[w][a].feature = None
           /\ FeatureOf(shared[a]) # wish[w][a]
           /\ snap[w] # None /\ snap[w].branch = branch[w]
           /\ o # None /\ o.declared /\ o.feature = wish[w][a]
SeenOK(w) == w \notin raced => \A a \in Anchors : SeenOf(w, a)

\* A record in a command's hands is of the document as it is, and its feature
\* is the command's, or was given to that RFC, or is the shared one.
LoadedOK(p) ==
  LET j == work[p]
      w == j.tree
      a == j.anchor
  IN j.at = "loaded" /\ w \notin raced =>
       /\ Usable(docs[w][a]) /\ Face(j.row) = Face(docs[w][a])
       /\ j.kind \in Gives => j.row.feature = j.feature
       /\ j.kind \notin Gives =>
            /\ \/ <<w, branch[w], a, j.row.feature>> \in asked
               \/ /\ j.row.feature = FeatureOf(shared[a]) /\ docs[w][a].feature = None
                  /\ obs[w][a] # None => ~obs[w][a].declared
            /\ wish[w][a] # None => j.row.feature = wish[w][a]

KindOK(p) ==
  /\ work[p].at \in {"read", "moved", "written"} => work[p].kind # "create"
  /\ work[p].at = "chosen" => work[p].kind = "create"
BranchOK(p) ==
  work[p].at \in InPass /\ work[p].tree \notin raced => work[p].branch = branch[work[p].tree]
HandOK(p) == KindOK(p) /\ BranchOK(p) /\ LoadedOK(p)

\* What a document declares somebody gave it.
AskedOK ==
  \A w \in Worktrees, a \in Anchors :
    docs[w][a] # None /\ docs[w][a].feature # None
      => <<w, branch[w], a, docs[w][a].feature>> \in asked

ViewInv ==
  /\ wish \in Wishes
  /\ \A p \in Procs : HandOK(p)
  /\ \A w \in Worktrees : SeenOK(w)
  /\ AskedOK

LEMMA ViewInit == Init => ViewInv
<1> SUFFICES ASSUME Init PROVE ViewInv
  OBVIOUS
<1>1. wish \in Wishes /\ AskedOK
  BY RfcConstants DEF Init, Wishes, AskedOK
<1>2. \A p \in Procs : work[p].at = "idle"
  BY DEF Init, Free
<1>3. \A p \in Procs : HandOK(p)
  BY <1>2 DEF HandOK, KindOK, BranchOK, LoadedOK, InPass
<1>4. \A w \in Worktrees : SeenOK(w)
  BY DEF Init, SeenOK, SeenOf
<1> QED
  BY <1>1, <1>3, <1>4 DEF ViewInv

\* What a worktree's documents and observations are.
LEMMA HereTypes ==
  ASSUME TypeInv, NEW w \in Worktrees, NEW a \in Anchors
  PROVE  /\ docs[w][a] \in Documents \union {None} /\ branch[w] \in Branches
         /\ obs[w][a] \in Observations \union {None}
         /\ shared[a] \in Rows \union {None}
         /\ snap[w] \in Takes \union {None}
BY DEF TypeInv, DocsOK, Trees, ViewsOK, Observeds, RowsOK, RowSets

\* A record is not None.
LEMMA ObservationOf ==
  ASSUME TypeInv, NEW w \in Worktrees, NEW a \in Anchors, NEW b, NEW given,
         Usable(docs[w][a])
  PROVE  /\ Seen(w, b, given)[a] = Observation(w, a, b, given)
         /\ Observation(w, a, b, given) # None
         /\ Observation(w, a, b, given).declared \in BOOLEAN
<1>1. Seen(w, b, given) \in Observeds
  BY SeenTypes
<1>2. Seen(w, b, given)[a] = Observation(w, a, b, given)
  BY DEF Seen
<1>3. docs[w][a] \in Documents /\ docs[w][a].text \in Texts
  BY HereTypes, UsableTypes
<1>4. Observation(w, a, b, given) \in Observations
  <2>1. obs[w][a] # None => obs[w][a] \in Observations
    BY HereTypes
  <2> QED
    BY <1>3, <2>1, UsableTypes DEF Observation, Observations
<1> QED
  BY <1>2, <1>4, RfcConstants DEF Observations

\* Replacing a snapshot declares nothing of its own.
LEMMA UndeclaredStays ==
  ASSUME TypeInv, NEW w \in Worktrees, NEW a \in Anchors, NEW b, NEW c, NEW given,
         Usable(docs[w][a]), docs[w][a].feature = None, obs[w][a] # None => ~obs[w][a].declared,
         Refreshed(w, b, c, given)[a] # None
  PROVE  ~Refreshed(w, b, c, given)[a].declared
<1>1. CASE IsCurrent(w, b, c)
  BY <1>1 DEF Refreshed
<1>2. CASE ~IsCurrent(w, b, c)
  <2>1. Refreshed(w, b, c, given)[a] = Observation(w, a, b, given)
    BY <1>2, ObservationOf DEF Refreshed
  <2> DEFINE kept == /\ docs[w][a].feature = None /\ SameBranch(w, b)
                     /\ obs[w][a] # None /\ obs[w][a].declared
                     /\ obs[w][a].feature # (IF given[a] = None THEN None ELSE given[a].feature)
  <2>2. Observation(w, a, b, given).declared = (kept \/ docs[w][a].feature # None)
    BY DEF Observation
  <2>3. ~kept
    OBVIOUS
  <2> QED
    BY <2>1, <2>2, <2>3
<1> QED
  BY <1>1, <1>2

\* A snapshot taken on the worktree's branch: it is of the documents, what it
\* declares was given, and what a command gave stays unless the rows have it.
TakenHere(o, w, a, given) ==
  /\ TakenOf(o, docs[w][a])
  /\ o # None /\ o.declared => <<w, branch[w], a, o.feature>> \in asked
  /\ wish[w][a] # None /\ FeatureOf(given[a]) # wish[w][a] =>
       o # None /\ o.declared /\ o.feature = wish[w][a]

LEMMA RefreshedOf ==
  ASSUME TypeInv, ViewInv, NEW w \in Worktrees \ raced, NEW a \in Anchors,
         NEW c \in 0..MaxCommits, NEW given
  PROVE  TakenHere(Refreshed(w, branch[w], c, given)[a], w, a, given)
<1> DEFINE b == branch[w]
           o == Refreshed(w, b, c, given)[a]
           d == docs[w][a]
           old == obs[w][a]
<1>0. SeenOf(w, a) /\ AskedOK
  BY DEF ViewInv, SeenOK
<1>1. CASE IsCurrent(w, b, c)
  <2>1. /\ o = old
        /\ snap[w] = [branch |-> b, digest |-> docs[w], source |-> c]
    BY <1>1 DEF Refreshed, IsCurrent
  <2>2. [branch |-> b, digest |-> docs[w], source |-> c] \in Takes
    BY DEF Takes, TypeInv, DocsOK
  <2>3. snap[w] # None /\ snap[w].branch = b /\ snap[w].digest[a] = d
    BY <2>1, <2>2, RfcConstants
  <2> QED
    BY <1>0, <2>1, <2>3 DEF SeenOf, TakenHere
<1>2. CASE ~IsCurrent(w, b, c) /\ ~Usable(d)
  <2>1. o = None
    BY <1>2 DEF Refreshed, Seen
  <2> QED
    BY <1>0, <1>2, <2>1 DEF SeenOf, TakenOf, TakenHere
<1>3. CASE ~IsCurrent(w, b, c) /\ Usable(d)
  <2>1. o = Observation(w, a, b, given) /\ o # None
    BY <1>3, ObservationOf DEF Refreshed
  <2> DEFINE kept == /\ d.feature = None /\ SameBranch(w, b)
                     /\ old # None /\ old.declared
                     /\ old.feature # FeatureOf(given[a])
  <2>2. o = [place |-> d.place, text |-> d.text,
             feature |-> IF kept THEN old.feature ELSE d.feature,
             declared |-> kept \/ d.feature # None]
    BY <2>1 DEF Observation, FeatureOf
  <2> HIDE DEF kept, o
  <2>3. /\ Face(o) = Face(d)
        /\ o.feature = IF kept THEN old.feature ELSE d.feature
        /\ o.declared <=> kept \/ d.feature # None
    <3>1. Face(o) = Face(d) /\ o.feature = IF kept THEN old.feature ELSE d.feature
      BY <2>2 DEF Face
    <3>2. o.declared = (kept \/ d.feature # None)
      BY <2>2
    <3> QED
      BY <3>1, <3>2
  <2>4. TakenOf(o, d)
    BY <1>3, <2>1, <2>3 DEF TakenOf
  <2>5. o.declared => <<w, b, a, o.feature>> \in asked
    <3>1. CASE kept
      BY <1>0, <2>3, <3>1 DEF SeenOf, SameBranch, kept
    <3>2. CASE ~kept /\ d.feature # None
      BY <1>0, <1>3, <2>3, <3>2 DEF AskedOK, Usable
    <3> QED
      BY <2>3, <3>1, <3>2
  <2>6. wish[w][a] # None /\ FeatureOf(given[a]) # wish[w][a] => kept /\ old.feature = wish[w][a]
    BY <1>0 DEF SeenOf, SameBranch, kept
  <2> QED
    BY <2>1, <2>3, <2>4, <2>5, <2>6 DEF o, TakenHere
<1> QED
  BY <1>1, <1>2, <1>3

\* A worktree's snapshot after p has replaced it; any branch will do where
\* something overlapped.
Replaced(w, given) ==
  \E b \in Branches, c \in 0..Tip :
    /\ w \notin raced => b = branch[w]
    /\ Snapshots(w, b, c, Refreshed(w, b, c, given))

LEMMA ReplacedViews ==
  ASSUME TypeInv, NEW w \in Worktrees, NEW given, Replaced(w, given)
  PROVE  /\ \A v \in Worktrees \ {w} : snap'[v] = snap[v] /\ obs'[v] = obs[v]
         /\ \E c \in 0..MaxCommits, b \in Branches :
              /\ w \notin raced => b = branch[w]
              /\ obs'[w] = Refreshed(w, b, c, given)
              /\ snap'[w] = [branch |-> b, digest |-> docs[w], source |-> c]
              /\ snap'[w] # None
<1>1. PICK b \in Branches, c \in 0..Tip :
        (w \notin raced => b = branch[w]) /\ Snapshots(w, b, c, Refreshed(w, b, c, given))
  BY DEF Replaced
<1>2. c \in 0..MaxCommits
  BY SourceTypes
<1>3. [branch |-> b, digest |-> docs[w], source |-> c] \in Takes
  BY <1>2 DEF Takes, TypeInv, DocsOK
<1>4. /\ snap' = [snap EXCEPT ![w] = [branch |-> b, digest |-> docs[w], source |-> c]]
      /\ obs' = [obs EXCEPT ![w] = Refreshed(w, b, c, given)]
  BY <1>1 DEF Snapshots
<1>5. /\ obs'[w] = Refreshed(w, b, c, given)
      /\ snap'[w] = [branch |-> b, digest |-> docs[w], source |-> c]
      /\ \A v \in Worktrees \ {w} : snap'[v] = snap[v] /\ obs'[v] = obs[v]
  BY <1>4 DEF TypeInv, ViewsOK
<1> QED
  BY <1>1, <1>2, <1>3, <1>5, RfcConstants

\* A step that leaves the documents alone: a pass, or one of a command's.
LEMMA ViewsStep ==
  ASSUME TypeInv, ViewInv, NEW p, NEW given, given = shared',
         UNCHANGED <<docs, branch, asked>>,
         \A q \in Procs \ {p} : work'[q] = work[q],
         p \in Procs => HandOK(p)',
         wish' \in Wishes,
         \A v \in Worktrees \ raced, a \in Anchors : wish'[v][a] # None =>
           wish'[v][a] = wish[v][a] /\ FeatureOf(shared'[a]) # wish'[v][a],
         raced \subseteq raced',
         shared' = shared \/ Overlapped(p, Worktrees, Unfinished) \subseteq raced',
         UNCHANGED views \/ \E w \in Worktrees : Replaced(w, given)
  PROVE  ViewInv'
<1>1. ASSUME NEW w \in Worktrees, w \notin raced, NEW a \in Anchors
      PROVE  SeenOf(w, a)'
  <2>1. SeenOf(w, a) /\ docs' = docs /\ branch' = branch /\ asked' = asked
    BY <1>1 DEF ViewInv, SeenOK
  <2>2. CASE snap'[w] = snap[w] /\ obs'[w] = obs[w]
    BY <1>1, <2>1, <2>2 DEF SeenOf
  <2>3. CASE Replaced(w, given)
    <3> PICK c \in 0..MaxCommits, b \in Branches :
              /\ w \notin raced => b = branch[w]
              /\ obs'[w] = Refreshed(w, b, c, given)
              /\ snap'[w] = [branch |-> b, digest |-> docs[w], source |-> c]
              /\ snap'[w] # None
      BY <2>3, ReplacedViews
    <3>1. /\ obs'[w] = Refreshed(w, branch[w], c, given)
          /\ snap'[w] = [branch |-> branch[w], digest |-> docs[w], source |-> c]
          /\ snap'[w] # None
      BY <1>1
    <3> DEFINE o == obs'[w][a]
    <3>2. /\ TakenOf(o, docs[w][a])
          /\ o # None /\ o.declared => <<w, branch[w], a, o.feature>> \in asked
          /\ wish[w][a] # None /\ FeatureOf(given[a]) # wish[w][a] =>
               o # None /\ o.declared /\ o.feature = wish[w][a]
      <4>1. w \in Worktrees \ raced
        BY <1>1
      <4>2. TakenHere(Refreshed(w, branch[w], c, given)[a], w, a, given)
        BY <4>1, RefreshedOf
      <4> QED
        BY <3>1, <4>2 DEF TakenHere
    <3>3. snap'[w].branch = branch[w] /\ snap'[w].digest[a] = docs[w][a]
      BY <3>1
    <3> HIDE DEF o
    <3>4. wish'[w][a] # None =>
            /\ Usable(docs[w][a]) /\ docs[w][a].feature = None
            /\ FeatureOf(shared'[a]) # wish'[w][a]
            /\ o # None /\ o.declared /\ o.feature = wish'[w][a]
      BY <1>1, <2>1, <3>2 DEF SeenOf
    <3> QED
      BY <2>1, <3>1, <3>2, <3>3, <3>4 DEF SeenOf, o
  <2> QED
    BY <2>2, <2>3, ReplacedViews DEF views
<1>2. ASSUME NEW q \in Procs \ {p}
      PROVE  HandOK(q)'
  <2>1. HandOK(q) /\ work'[q] = work[q] /\ docs' = docs /\ branch' = branch /\ asked' = asked
    BY DEF ViewInv
  <2>2. KindOK(q)' /\ BranchOK(q)'
    BY <2>1 DEF HandOK, KindOK, BranchOK
  <2> DEFINE w == work[q].tree
             a == work[q].anchor
  <2>3. ASSUME work[q].at = "loaded", w \notin raced'
        PROVE  LoadedOK(q)'
    <3>1. w \in Worktrees /\ a \in Anchors /\ w \notin raced
      BY <2>3, JobTypes DEF JobOK, Acting
    <3>2. shared' = shared
      BY <2>3, <3>1 DEF Overlapped, Unfinished
    <3>3. ASSUME Usable(docs[w][a]), docs[w][a].feature = None,
                 obs[w][a] # None => ~obs[w][a].declared
          PROVE  obs'[w][a] # None => ~obs'[w][a].declared
      <4> PICK v \in Worktrees : v = w
        BY <3>1
      <4>1. obs'[v] = obs[v] \/ \E b, c : obs'[v] = Refreshed(v, b, c, given)
        <5>1. CASE UNCHANGED views
          BY <5>1 DEF views
        <5>2. CASE Replaced(v, given)
          <6>1. PICK c \in 0..MaxCommits, b \in Branches : obs'[v] = Refreshed(v, b, c, given)
            BY <5>2, ReplacedViews
          <6> QED
            BY <6>1
        <5>3. ASSUME NEW u \in Worktrees \ {v}, Replaced(u, given)
              PROVE  obs'[v] = obs[v]
          BY <5>3, ReplacedViews
        <5> QED
          BY <5>1, <5>2, <5>3
      <4> HIDE DEF w, a
      <4> QED
        BY <3>1, <3>3, <4>1, UndeclaredStays
    <3>4. wish'[w][a] # None => wish'[w][a] = wish[w][a]
      BY <3>1
    <3>5. LoadedOK(q)
      BY <2>1 DEF HandOK
    <3> HIDE DEF w, a
    <3> QED
      BY <2>1, <2>3, <3>1, <3>2, <3>3, <3>4, <3>5 DEF LoadedOK, w, a
  <2>4. LoadedOK(q)'
    BY <2>1, <2>3 DEF LoadedOK
  <2> QED
    BY <2>2, <2>4 DEF HandOK
<1>3. AskedOK'
  BY DEF ViewInv, AskedOK
<1>4. \A w \in Worktrees : SeenOK(w)'
  BY <1>1 DEF SeenOK
<1> QED
  BY <1>2, <1>3, <1>4 DEF ViewInv

\* A step that changes the documents of one worktree: a command's, or, where p
\* is no process, somebody's by hand.
LEMMA DocsStep ==
  ASSUME TypeInv, ViewInv, NEW p, NEW w \in Worktrees, NEW busy, Unfinished \subseteq busy,
         UNCHANGED <<shared, views>>,
         \A v \in Worktrees \ {w} : docs'[v] = docs[v] /\ branch'[v] = branch[v],
         branch'[w] = branch[w] \/ InPass \subseteq busy,
         Remembers(w, busy, p),
         \A q \in Procs \ {p} : work'[q] = work[q],
         p \in Procs => HandOK(p)'
  PROVE  ViewInv'
<1>1. /\ asked' = asked \union Declared(w, docs'[w])
      /\ raced' = raced \union Overlapped(p, {w}, busy)
      /\ wish' = [wish EXCEPT ![w] = [a \in Anchors |->
           IF Usable(docs'[w][a]) /\ docs'[w][a].feature = None /\ branch'[w] = branch[w]
           THEN wish[w][a] ELSE None]]
  BY DEF Remembers, ViewInv, Wishes
<1>2. /\ wish' \in Wishes
      /\ \A v \in Worktrees \ {w} : wish'[v] = wish[v]
      /\ \A a \in Anchors : wish'[w][a] # None =>
           /\ Usable(docs'[w][a]) /\ docs'[w][a].feature = None /\ branch'[w] = branch[w]
           /\ wish'[w][a] = wish[w][a]
  BY <1>1 DEF ViewInv, Wishes
<1>3. ASSUME NEW v \in Worktrees, v \notin raced', NEW a \in Anchors
      PROVE  SeenOf(v, a)'
  <2>1. SeenOf(v, a) /\ snap' = snap /\ obs' = obs /\ shared' = shared /\ asked \subseteq asked'
    BY <1>1, <1>3 DEF ViewInv, SeenOK, views
  <2>2. CASE v # w
    BY <1>2, <2>1, <2>2 DEF SeenOf
  <2>3. CASE v = w
    BY <1>2, <2>1, <2>3 DEF SeenOf
  <2> QED
    BY <2>2, <2>3
<1>4. ASSUME NEW q \in Procs \ {p}
      PROVE  HandOK(q)'
  <2>1. HandOK(q) /\ work'[q] = work[q] /\ shared' = shared /\ obs' = obs
        /\ asked \subseteq asked' /\ raced \subseteq raced'
    BY <1>1 DEF ViewInv, views
  <2>2. work[q].tree = w /\ work[q].at \in busy => w \in raced'
    BY <1>1 DEF Overlapped
  <2>3. KindOK(q)'
    BY <2>1 DEF HandOK, KindOK
  <2>4. BranchOK(q)'
    <3>1. work[q].at \in InPass => work[q].tree \in Worktrees
      BY JobTypes, RfcConstants DEF JobOK, InPass
    <3> QED
      BY <2>1, <2>2, <3>1 DEF HandOK, BranchOK
  <2>5. LoadedOK(q)'
    <3>1. work[q].at = "loaded" => work[q].tree \in Worktrees /\ work[q].anchor \in Anchors
      BY JobTypes DEF JobOK, Acting
    <3>2. work[q].at = "loaded" /\ work[q].tree \notin raced' => work[q].tree # w
      BY <2>2 DEF Unfinished
    <3> QED
      BY <1>2, <2>1, <3>1, <3>2 DEF HandOK, LoadedOK
  <2> QED
    BY <2>3, <2>4, <2>5 DEF HandOK
<1>5. AskedOK'
  <2> SUFFICES ASSUME NEW v \in Worktrees, NEW a \in Anchors, docs'[v][a] # None,
                      docs'[v][a].feature # None
               PROVE  <<v, branch'[v], a, docs'[v][a].feature>> \in asked'
    BY DEF AskedOK
  <2>1. CASE v # w
    BY <1>1, <2>1 DEF ViewInv, AskedOK
  <2>2. CASE v = w
    BY <1>1, <2>2 DEF Declared
  <2> QED
    BY <2>1, <2>2
<1>6. \A v \in Worktrees : SeenOK(v)'
  BY <1>3 DEF SeenOK
<1> QED
  BY <1>2, <1>4, <1>5, <1>6 DEF ViewInv

\* A process that does nothing, or is at no step that has read anything.
LEMMA IdleHand ==
  ASSUME NEW p \in Procs, work'[p] = Free
  PROVE  HandOK(p)'
BY DEF HandOK, KindOK, BranchOK, LoadedOK, Free, InPass

\* The record of a command is put over the observation.
LEMMA PersistsStep ==
  ASSUME TypeInv, ViewInv, NEW p \in Procs, Persists(p)
  PROVE  ViewInv'
<1> DEFINE j == work[p]
<1> PICK given : given = shared
  OBVIOUS
<1> PICK source \in 0..MaxCommits : source = Source
  BY SourceTypes
<1> PICK w \in Worktrees, a \in Anchors : w = work[p].tree /\ a = work[p].anchor
  BY JobTypes DEF JobOK, Persists, Acting
<1> DEFINE seen == Refreshed(w, branch[w], source, given)
           gives == j.kind \in Gives /\ seen[a] # None
<1>0. j.at = "loaded" /\ j.row \in Rows /\ j.feature \in Features \union {None}
      /\ seen \in Observeds /\ branch[w] \in Branches
  BY JobTypes, SourceTypes, RefreshedTypes, HereTypes DEF JobOK, Persists
<1> DEFINE put == IF seen[a] = None THEN seen
                  ELSE [seen EXCEPT ![a] = Overridden(seen[a], j.row, shared[a])]
<1>1. /\ snap' = [snap EXCEPT ![w] = [branch |-> branch[w], digest |-> docs[w], source |-> source]]
      /\ obs' = [obs EXCEPT ![w] = put]
      /\ raced' = raced \union Overlapped(p, {w}, Unfinished)
      /\ asked' = IF gives THEN asked \union {<<w, branch[w], a, j.feature>>} ELSE asked
      /\ wish' = IF gives /\ Usable(docs[w][a]) /\ docs[w][a].feature = None
                 THEN [wish EXCEPT ![w][a] =
                        IF shared[a] # None /\ shared[a].feature = j.feature THEN None ELSE j.feature]
                 ELSE wish
      /\ UNCHANGED <<docs, branch, shared>>
  BY <1>0 DEF Persists, Snapshots, Gives, rows, Observeds
<1>2. Ends(p)
  BY DEF Persists
<1> HIDE DEF j
<1>3. /\ snap'[w] = [branch |-> branch[w], digest |-> docs[w], source |-> source]
      /\ snap'[w].branch = branch[w] /\ snap'[w].digest = docs[w] /\ snap'[w] # None
      /\ obs'[w] = put
      /\ \A v \in Worktrees \ {w} : snap'[v] = snap[v] /\ obs'[v] = obs[v]
  <2>1. [branch |-> branch[w], digest |-> docs[w], source |-> source] \in Takes
    BY <1>0 DEF Takes, TypeInv, DocsOK
  <2>2. snap \in [Worktrees -> Takes \union {None}] /\ obs \in [Worktrees -> Observeds]
    BY DEF TypeInv, ViewsOK
  <2> HIDE DEF put
  <2>3. /\ snap'[w] = [branch |-> branch[w], digest |-> docs[w], source |-> source]
        /\ obs'[w] = put
        /\ \A v \in Worktrees \ {w} : snap'[v] = snap[v] /\ obs'[v] = obs[v]
    BY <1>1, <2>2
  <2> QED
    BY <2>1, <2>3, RfcConstants
<1>4. put[a] = (IF seen[a] = None THEN None ELSE Overridden(seen[a], j.row, shared[a]))
      /\ \A b \in Anchors \ {a} : put[b] = seen[b]
  BY <1>0 DEF Observeds
<1>5. /\ wish' \in Wishes
      /\ \A v \in Worktrees \ {w} : wish'[v] = wish[v]
      /\ \A b \in Anchors \ {a} : wish'[w][b] = wish[w][b]
      /\ wish'[w][a] = IF gives /\ Usable(docs[w][a]) /\ docs[w][a].feature = None
                       THEN IF shared[a] # None /\ shared[a].feature = j.feature
                            THEN None ELSE j.feature
                       ELSE wish[w][a]
  <2> HIDE DEF gives
  <2> QED
    BY <1>0, <1>1 DEF ViewInv, Wishes
<1>6. asked \subseteq asked' /\ raced \subseteq raced'
      /\ (gives => <<w, branch[w], a, j.feature>> \in asked')
  <2> HIDE DEF gives
  <2> QED
    BY <1>1
<1> HIDE DEF put
<1>7. ASSUME w \notin raced, NEW b \in Anchors
      PROVE  /\ TakenOf(seen[b], docs[w][b])
             /\ seen[b] # None /\ seen[b].declared => <<w, branch[w], b, seen[b].feature>> \in asked
             /\ wish[w][b] # None /\ FeatureOf(given[b]) # wish[w][b] =>
                  seen[b] # None /\ seen[b].declared /\ seen[b].feature = wish[w][b]
             /\ SeenOf(w, b)
  <2>1. w \in Worktrees \ raced
    BY <1>7
  <2>2. TakenHere(seen[b], w, b, given)
    BY <2>1, RefreshedOf
  <2>3. SeenOf(w, b)
    BY <1>7 DEF ViewInv, SeenOK
  <2> QED
    BY <2>2, <2>3 DEF TakenHere
<1> HIDE DEF seen
<1>8. ASSUME w \notin raced
      PROVE  SeenOf(w, a)'
  <2> DEFINE r == j.row
             s == seen[a]
             differs == s.declared \/ r.feature # FeatureOf(shared[a])
             o == put[a]
  <2>1. /\ Usable(docs[w][a]) /\ Face(r) = Face(docs[w][a])
        /\ j.kind \in Gives => r.feature = j.feature
        /\ j.kind \notin Gives =>
             /\ \/ <<w, branch[w], a, r.feature>> \in asked
                \/ /\ r.feature = FeatureOf(shared[a]) /\ docs[w][a].feature = None
                   /\ obs[w][a] # None => ~obs[w][a].declared
             /\ wish[w][a] # None => r.feature = wish[w][a]
    BY <1>0, <1>8 DEF ViewInv, HandOK, LoadedOK, j
  <2>2. /\ TakenOf(s, docs[w][a]) /\ s # None
        /\ s.declared => <<w, branch[w], a, s.feature>> \in asked
        /\ wish[w][a] # None =>
             /\ docs[w][a].feature = None /\ s.declared /\ s.feature = wish[w][a]
             /\ FeatureOf(shared[a]) # wish[w][a]
    BY <1>7, <1>8, <2>1 DEF TakenOf, SeenOf
  <2>3. o = [place |-> r.place, text |-> r.text,
             feature |-> IF differs THEN r.feature ELSE s.feature, declared |-> differs]
    BY <1>4, <2>2 DEF Overridden, FeatureOf
  <2>4. o # None
    <3>1. s \in Observations /\ Overridden(s, r, shared[a]) \in Observations
      BY <1>0, <2>2, OverriddenTypes DEF Observeds, seen
    <3> QED
      BY <1>4, <2>2, <3>1, RfcConstants
  <2> HIDE DEF r, s, differs, o
  <2>5. /\ Face(o) = Face(docs[w][a])
        /\ o.feature = IF differs THEN r.feature ELSE s.feature
    BY <2>1, <2>3 DEF Face
  <2>6. o.declared = differs
    BY <2>3
  <2>7. docs[w][a].feature # None => o.declared
    BY <2>2, <2>6 DEF TakenOf, differs
  <2>8. TakenOf(o, docs[w][a])
    BY <2>1, <2>4, <2>5, <2>7 DEF TakenOf
  <2>9. gives <=> j.kind \in Gives
    BY <2>2 DEF s
  <2>10. o.declared => <<w, branch[w], a, o.feature>> \in asked'
    <3>1. CASE ~differs
      BY <2>6, <3>1
    <3>2. CASE differs /\ j.kind \in Gives
      BY <1>6, <2>1, <2>5, <2>9, <3>2
    <3>3. CASE differs /\ j.kind \notin Gives
      <4>1. CASE <<w, branch[w], a, r.feature>> \in asked
        BY <1>6, <2>5, <3>3, <4>1
      <4>2. CASE /\ r.feature = FeatureOf(shared[a]) /\ docs[w][a].feature = None
                 /\ obs[w][a] # None => ~obs[w][a].declared
        <5>1. ~s.declared
          BY <2>1, <2>2, <4>2, UndeclaredStays DEF s, seen
        <5> QED
          BY <3>3, <4>2, <5>1 DEF differs
      <4> QED
        BY <2>1, <3>3, <4>1, <4>2
    <3> QED
      BY <3>1, <3>2, <3>3
  <2>11. wish'[w][a] # None =>
           /\ docs[w][a].feature = None /\ FeatureOf(shared[a]) # wish'[w][a]
           /\ o.declared /\ o.feature = wish'[w][a]
    <3>1. CASE gives /\ docs[w][a].feature = None
      <4>1. wish'[w][a] = IF shared[a] # None /\ shared[a].feature = j.feature
                          THEN None ELSE j.feature
        BY <1>5, <2>1, <3>1
      <4>2. wish'[w][a] # None => wish'[w][a] = r.feature /\ FeatureOf(shared[a]) # r.feature
        BY <2>1, <2>9, <3>1, <4>1 DEF FeatureOf
      <4> QED
        BY <2>5, <2>6, <3>1, <4>2 DEF differs
    <3>2. CASE gives /\ docs[w][a].feature # None
      BY <1>5, <2>2, <3>2
    <3>3. CASE ~gives
      <4>1. wish'[w][a] = wish[w][a]
        BY <1>5, <3>3
      <4>2. wish[w][a] # None => differs /\ r.feature = wish[w][a]
        BY <2>1, <2>2, <2>9, <3>3 DEF differs
      <4> QED
        BY <2>2, <2>5, <2>6, <4>1, <4>2
    <3> QED
      BY <3>1, <3>2, <3>3
  <2>12. obs'[w][a] = o
    BY <1>3 DEF o
  <2> QED
    BY <1>1, <1>3, <2>1, <2>4, <2>8, <2>10, <2>11, <2>12 DEF SeenOf
<1>9. ASSUME w \notin raced, NEW b \in Anchors \ {a}
      PROVE  SeenOf(w, b)'
  <2>1. obs'[w][b] = seen[b] /\ wish'[w][b] = wish[w][b]
    BY <1>3, <1>4, <1>5
  <2>2. /\ TakenOf(seen[b], docs[w][b])
        /\ seen[b] # None /\ seen[b].declared => <<w, branch[w], b, seen[b].feature>> \in asked
    BY <1>7, <1>9
  <2>3. wish[w][b] # None =>
          /\ Usable(docs[w][b]) /\ docs[w][b].feature = None /\ FeatureOf(shared[b]) # wish[w][b]
          /\ seen[b] # None /\ seen[b].declared /\ seen[b].feature = wish[w][b]
    <3>1. SeenOf(w, b)
      BY <1>7, <1>9
    <3>2. wish[w][b] # None /\ FeatureOf(shared[b]) # wish[w][b] =>
            seen[b] # None /\ seen[b].declared /\ seen[b].feature = wish[w][b]
      BY <1>7, <1>9
    <3> QED
      BY <3>1, <3>2 DEF SeenOf
  <2> QED
    BY <1>1, <1>3, <1>6, <1>9, <2>1, <2>2, <2>3 DEF SeenOf
<1>10. ASSUME NEW v \in Worktrees, v \notin raced', v # w, NEW b \in Anchors
       PROVE  SeenOf(v, b)'
  <2>1. SeenOf(v, b)
    BY <1>6, <1>10 DEF ViewInv, SeenOK
  <2> QED
    BY <1>1, <1>3, <1>5, <1>6, <1>10, <2>1 DEF SeenOf
<1>11. \A v \in Worktrees : SeenOK(v)'
  BY <1>6, <1>8, <1>9, <1>10 DEF SeenOK
<1>12. ASSUME NEW q \in Procs \ {p}
       PROVE  HandOK(q)'
  <2>1. HandOK(q) /\ work'[q] = work[q]
    BY <1>2, EndsFree DEF ViewInv
  <2>2. KindOK(q)' /\ BranchOK(q)'
    BY <1>1, <1>6, <2>1 DEF HandOK, KindOK, BranchOK
  <2>3. work[q].at = "loaded" => work[q].tree \in Worktrees /\ work[q].anchor \in Anchors
    BY JobTypes DEF JobOK, Acting
  <2>4. work[q].at = "loaded" /\ work[q].tree \notin raced' => work[q].tree # w
    BY <1>1 DEF Overlapped, Unfinished
  <2>5. LoadedOK(q)'
    <3>1. CASE work[q].at # "loaded" \/ work[q].tree \in raced'
      BY <2>1, <3>1 DEF LoadedOK
    <3>2. CASE work[q].at = "loaded" /\ work[q].tree \notin raced'
      <4> PICK v \in Worktrees, b \in Anchors : v = work[q].tree /\ b = work[q].anchor
        BY <2>3, <3>2
      <4>1. v # w /\ v \notin raced /\ obs'[v] = obs[v] /\ wish'[v] = wish[v]
        BY <1>3, <1>5, <1>6, <2>4, <3>2
      <4>2. LoadedOK(q)
        BY <2>1 DEF HandOK
      <4> QED
        BY <1>1, <1>6, <2>1, <3>2, <4>1, <4>2 DEF LoadedOK
    <3> QED
      BY <3>1, <3>2
  <2> QED
    BY <2>2, <2>5 DEF HandOK
<1>13. HandOK(p)'
  BY <1>2, EndsFree, IdleHand
<1>14. AskedOK'
  BY <1>1, <1>6 DEF ViewInv, AskedOK
<1> QED
  BY <1>5, <1>11, <1>12, <1>13, <1>14 DEF ViewInv

\* A step that changes neither documents nor rows.
LEMMA QuietStep ==
  ASSUME TypeInv, ViewInv, NEW p,
         UNCHANGED <<docs, branch, shared, history>>,
         \A q \in Procs \ {p} : work'[q] = work[q],
         p \in Procs => HandOK(p)',
         UNCHANGED views \/ \E w \in Worktrees, b \in Branches, c \in 0..Tip :
                              /\ w \notin raced => b = branch[w]
                              /\ Snapshots(w, b, c, Refreshed(w, b, c, shared))
  PROVE  ViewInv'
<1> PICK given : given = shared'
  OBVIOUS
<1>1. UNCHANGED <<docs, branch, asked>> /\ UNCHANGED <<shared, wish, raced>>
  BY DEF history
<1>2. UNCHANGED views \/ \E w \in Worktrees : Replaced(w, given)
  BY <1>1 DEF Replaced, Snapshots
<1>3. \A v \in Worktrees \ raced, a \in Anchors : wish'[v][a] # None =>
        wish'[v][a] = wish[v][a] /\ FeatureOf(shared'[a]) # wish'[v][a]
  <2> SUFFICES ASSUME NEW v \in Worktrees \ raced, NEW a \in Anchors, wish[v][a] # None
               PROVE  FeatureOf(shared[a]) # wish[v][a]
    BY <1>1
  <2>1. SeenOf(v, a)
    BY DEF ViewInv, SeenOK
  <2> QED
    BY <2>1 DEF SeenOf
<1>4. wish' \in Wishes /\ raced \subseteq raced'
  BY <1>1 DEF ViewInv
<1> QED
  BY <1>1, <1>2, <1>3, <1>4, ViewsStep

\* A pass that writes the rows takes nothing given by a command away from them.
LEMMA DisturbsWish ==
  ASSUME ViewInv, NEW p, Disturbs(p)
  PROVE  /\ wish' \in Wishes
         /\ \A v \in Worktrees, a \in Anchors : wish'[v][a] # None =>
              wish'[v][a] = wish[v][a] /\ FeatureOf(shared'[a]) # wish'[v][a]
         /\ raced \subseteq raced'
         /\ shared' = shared \/ Overlapped(p, Worktrees, Unfinished) \subseteq raced'
<1>1. wish' = [w \in Worktrees |-> [a \in Anchors |->
        IF shared'[a] # None /\ shared'[a].feature = wish[w][a] THEN None ELSE wish[w][a]]]
  BY DEF Disturbs
<1>2. wish' \in Wishes
  BY <1>1 DEF ViewInv, Wishes
<1>3. \A v \in Worktrees, a \in Anchors : wish'[v][a] # None =>
        wish'[v][a] = wish[v][a] /\ FeatureOf(shared'[a]) # wish'[v][a]
  BY <1>1 DEF FeatureOf
<1> QED
  BY <1>2, <1>3 DEF Disturbs

LEMMA ViewListBegins ==
  ASSUME TypeInv, ViewInv, NEW p \in Procs, NEW w \in Worktrees, ListBegins(p, w)
  PROVE  ViewInv'
<1> DEFINE j == [Free EXCEPT !.at = IF IsDue(p, w, Source) THEN "reconciling" ELSE "observing",
                             !.tree = w, !.source = Source, !.branch = branch[w]]
<1>1. work' = [work EXCEPT ![p] = j] /\ UNCHANGED <<docs, branch, shared, history, views>>
  BY DEF ListBegins, Locks, rows
<1>2. j.at \in InPass /\ j.tree = w /\ j.branch = branch[w]
  BY DEF Free, InPass
<1> HIDE DEF j
<1>3. work'[p] = j /\ \A q \in Procs \ {p} : work'[q] = work[q]
  BY <1>1, WorkOf
<1>4. HandOK(p)'
  BY <1>1, <1>2, <1>3 DEF HandOK, KindOK, BranchOK, LoadedOK, InPass
<1> QED
  BY <1>1, <1>3, <1>4, QuietStep DEF history

LEMMA ViewReconcile ==
  ASSUME TypeInv, ViewInv, NEW p \in Procs, Reconcile(p)
  PROVE  ViewInv'
<1> PICK given : given = shared'
  OBVIOUS
<1>1. Disturbs(p) /\ UNCHANGED <<docs, branch, asked>> /\ UNCHANGED views
  BY DEF Reconcile
<1> PICK w : w = work[p].tree
  OBVIOUS
<1> DEFINE j == [work[p] EXCEPT !.at = "observing", !.branch = branch[w]]
<1>2. work' = [work EXCEPT ![p] = j]
  BY DEF Reconcile, TypeInv, JobsOK
<1>3. j.at = "observing" /\ j.tree = w /\ j.branch = branch[w]
  BY JobTypes DEF Jobs
<1> HIDE DEF j
<1>4. work'[p] = j /\ \A q \in Procs \ {p} : work'[q] = work[q]
  BY <1>2, WorkOf
<1>5. HandOK(p)'
  BY <1>1, <1>3, <1>4 DEF HandOK, KindOK, BranchOK, LoadedOK, InPass
<1> QED
  BY <1>1, <1>4, <1>5, DisturbsWish, ViewsStep

LEMMA ViewListEnds ==
  ASSUME TypeInv, ViewInv, NEW p \in Procs, ListEnds(p)
  PROVE  ViewInv'
<1> PICK w \in Worktrees, b \in Branches, c \in 0..Tip :
      w = work[p].tree /\ b = work[p].branch /\ c = work[p].source
  BY JobTypes, SourceTypes DEF JobOK, ListEnds, InPass
<1>1. Ends(p) /\ UNCHANGED <<docs, branch, shared, history>>
  BY DEF ListEnds, rows
<1>2. w \notin raced => b = branch[w]
  BY DEF ListEnds, ViewInv, HandOK, BranchOK, InPass
<1>3. Snapshots(w, b, c, Refreshed(w, b, c, shared))
  BY DEF ListEnds, Snapshots
<1>4. HandOK(p)' /\ \A q \in Procs \ {p} : work'[q] = work[q]
  BY <1>1, EndsFree, IdleHand
<1> QED
  BY <1>1, <1>2, <1>3, <1>4, QuietStep

LEMMA ViewShows ==
  ASSUME TypeInv, ViewInv, NEW p \in Procs, NEW w \in Worktrees, Shows(p, w)
  PROVE  ViewInv'
<1>1. UNCHANGED <<docs, branch, work, asked>> /\ work[p].at = "idle"
  BY DEF Shows
<1>2. HandOK(p)'
  BY <1>1 DEF HandOK, KindOK, BranchOK, LoadedOK, InPass
<1>3. CASE UNCHANGED <<rows, views, raced, wish>>
  BY <1>1, <1>2, <1>3, QuietStep DEF rows, history
<1>4. CASE ~UNCHANGED <<rows, views, raced, wish>>
  <2> PICK given : given = shared'
    OBVIOUS
  <2>1. Disturbs(p)
    BY <1>4 DEF Shows
  <2> PICK b \in Branches, c \in 0..Tip : b = branch[w] /\ c = Source
    BY HereTypes, SourceTypes, RfcConstants DEF TypeInv, DocsOK
  <2>2. Snapshots(w, b, c, Refreshed(w, b, c, given))
    <3>1. given = IF IsDue(p, w, Source) THEN RowsAfter(Source) ELSE shared
      BY <1>4 DEF Shows, Reconciles, rows
    <3> QED
      BY <1>4, <3>1 DEF Shows, Snapshots
  <2>3. Replaced(w, given)
    BY <2>2 DEF Replaced
  <2>4. \A q \in Procs \ {p} : work'[q] = work[q]
    BY <1>1
  <2> QED
    BY <1>1, <1>2, <2>1, <2>3, <2>4, DisturbsWish, ViewsStep
<1> QED
  BY <1>3, <1>4

LEMMA ViewBegins ==
  ASSUME TypeInv, ViewInv, NEW p \in Procs, NEW w \in Worktrees, NEW a \in Anchors,
         NEW kind \in Changing, NEW f \in Features \union {None},
         Begins(p, w, kind, a, f)
  PROVE  ViewInv'
<1> DEFINE j == [Free EXCEPT !.at = IF kind = "feature" THEN "written" ELSE "read",
                   !.tree = w, !.kind = kind, !.anchor = a, !.feature = f, !.doc = docs[w][a]]
<1>1. work' = [work EXCEPT ![p] = j] /\ UNCHANGED <<docs, branch, shared, history, views>>
  BY DEF Begins, rows
<1>2. j.at \in {"read", "written"} /\ j.kind = kind
  BY DEF Free
<1> HIDE DEF j
<1>3. work'[p] = j /\ \A q \in Procs \ {p} : work'[q] = work[q]
  BY <1>1, WorkOf
<1>4. HandOK(p)'
  BY <1>2, <1>3 DEF HandOK, KindOK, BranchOK, LoadedOK, InPass, Changing
<1> QED
  BY <1>1, <1>3, <1>4, QuietStep

LEMMA ViewChooses ==
  ASSUME TypeInv, ViewInv, NEW p \in Procs, NEW w \in Worktrees, NEW a \in Anchors,
         NEW f, Chooses(p, w, a, f)
  PROVE  ViewInv'
<1> DEFINE j == [Free EXCEPT !.at = "chosen", !.tree = w, !.kind = "create",
                             !.anchor = a, !.feature = f]
<1>1. work' = [work EXCEPT ![p] = j] /\ UNCHANGED <<docs, branch, shared, history>>
  BY DEF Chooses, rows
<1>2. j.at = "chosen" /\ j.kind = "create"
  BY DEF Free
<1> HIDE DEF j
<1>3. work'[p] = j /\ \A q \in Procs \ {p} : work'[q] = work[q]
  BY <1>1, WorkOf
<1>4. HandOK(p)'
  BY <1>2, <1>3 DEF HandOK, KindOK, BranchOK, LoadedOK, InPass
<1> PICK b \in Branches, c \in 0..Tip : b = branch[w] /\ c = Source
  BY SourceTypes DEF TypeInv, DocsOK
<1>5. Snapshots(w, b, c, Refreshed(w, b, c, shared))
  BY DEF Chooses, Snapshots
<1> QED
  BY <1>1, <1>3, <1>4, <1>5, QuietStep

LEMMA ViewStops ==
  ASSUME TypeInv, ViewInv, NEW p \in Procs, GivesUp(p) \/ Dies(p)
  PROVE  ViewInv'
<1>1. Ends(p) /\ UNCHANGED <<docs, branch, shared, history, views>>
  BY DEF GivesUp, Dies, rows
<1>2. HandOK(p)' /\ \A q \in Procs \ {p} : work'[q] = work[q]
  BY <1>1, EndsFree, IdleHand
<1> QED
  BY <1>1, <1>2, QuietStep

\* A command moves on with what it has in hand.
LEMMA MovesOn ==
  ASSUME TypeInv, ViewInv, NEW p \in Procs, NEW s \in {"moved", "written"}, Becomes(p, s),
         work[p].at \in {"read", "moved"}
  PROVE  HandOK(p)' /\ \A q \in Procs \ {p} : work'[q] = work[q]
<1> DEFINE j == [work[p] EXCEPT !.at = s]
<1>1. work' = [work EXCEPT ![p] = j]
  BY DEF Becomes, TypeInv, JobsOK
<1>2. j.at = s /\ j.kind = work[p].kind
  BY JobTypes DEF Jobs
<1> HIDE DEF j
<1>3. work'[p] = j /\ \A q \in Procs \ {p} : work'[q] = work[q]
  BY <1>1, WorkOf
<1>4. work[p].kind # "create"
  BY DEF ViewInv, HandOK, KindOK
<1> QED
  BY <1>2, <1>3, <1>4 DEF HandOK, KindOK, BranchOK, LoadedOK, InPass

\* A command writes, moves or makes a document.
LEMMA ViewWrites ==
  ASSUME TypeInv, ViewInv, NEW p \in Procs,
         \/ Edits(p) \/ PromotionMoves(p) \/ PromotionWrites(p)
         \/ Retires(p) \/ RetirementWrites(p)
  PROVE  ViewInv'
<1> PICK w \in Worktrees, a \in Anchors : w = work[p].tree /\ a = work[p].anchor
  BY JobTypes
     DEF JobOK, Acting, Edits, PromotionMoves, PromotionWrites, Retires, RetirementWrites, MovesTo
<1>1. /\ UNCHANGED <<shared, views>>
      /\ Remembers(w, Unfinished, p)
      /\ UNCHANGED branch
      /\ work[p].at \in {"read", "moved"}
  BY DEF Edits, PromotionMoves, PromotionWrites, Retires, RetirementWrites, MovesTo, Remembers, rows
<1>2. Ends(p) \/ Becomes(p, "moved") \/ Becomes(p, "written")
  BY DEF Edits, PromotionMoves, PromotionWrites, Retires, RetirementWrites, MovesTo, Writes
<1>3. HandOK(p)' /\ \A q \in Procs \ {p} : work'[q] = work[q]
  BY <1>1, <1>2, EndsFree, IdleHand, MovesOn
<1>4. \A v \in Worktrees \ {w} : docs'[v] = docs[v]
  <2>1. ASSUME NEW new, Writes(p, work[p].tree, work[p].anchor, new)
        PROVE  \A v \in Worktrees \ {w} : docs'[v] = docs[v]
    BY <2>1 DEF Writes, TypeInv, DocsOK
  <2>2. ASSUME NEW place, NEW to, MovesTo(p, place, to)
        PROVE  \A v \in Worktrees \ {w} : docs'[v] = docs[v]
    BY <2>2 DEF MovesTo, TypeInv, DocsOK
  <2>3. CASE RetirementWrites(p)
    BY <2>3 DEF RetirementWrites, TypeInv, DocsOK
  <2> QED
    BY <2>1, <2>2, <2>3 DEF Edits, PromotionMoves, PromotionWrites, Retires
<1>5. \A v \in Worktrees \ {w} : docs'[v] = docs[v] /\ branch'[v] = branch[v]
  BY <1>1, <1>4
<1> QED
  BY <1>1, <1>3, <1>5, DocsStep

LEMMA ViewCreates ==
  ASSUME TypeInv, ViewInv, NEW p \in Procs, Creates(p)
  PROVE  ViewInv'
<1> PICK w \in Worktrees, a \in Anchors : w = work[p].tree /\ a = work[p].anchor
  BY JobTypes DEF JobOK, Acting, Creates
<1> DEFINE d == [place |-> 0, text |-> Template, feature |-> None]
           r == [place |-> 0, text |-> Template, feature |-> work[p].feature]
           j == [work[p] EXCEPT !.at = "loaded", !.row = r]
<1>1. /\ UNCHANGED <<shared, views>>
      /\ Remembers(w, Unfinished, p)
      /\ UNCHANGED branch
      /\ docs' = [docs EXCEPT ![w][a] = d]
      /\ work[p].at = "chosen"
  BY DEF Creates, Remembers, rows
<1>2. work' = [work EXCEPT ![p] = j]
  BY DEF Creates, TypeInv, JobsOK
<1>3. j.at = "loaded" /\ j.row = r /\ j.kind = work[p].kind /\ j.feature = work[p].feature
      /\ j.tree = w /\ j.anchor = a
  BY JobTypes DEF Jobs
<1>4. docs'[w][a] = d /\ \A v \in Worktrees \ {w} : docs'[v] = docs[v]
  BY <1>1 DEF TypeInv, DocsOK, Trees
<1>5. d \in Documents /\ d # None /\ Usable(d) /\ Face(d) = Face(r) /\ r.feature = work[p].feature
  BY RfcConstants DEF Documents, Usable, Face
<1> HIDE DEF j, d, r
<1>6. work'[p] = j /\ \A q \in Procs \ {p} : work'[q] = work[q]
  BY <1>2, WorkOf
<1>7. work[p].kind = "create"
  BY <1>1 DEF ViewInv, HandOK, KindOK
<1>8. HandOK(p)'
  BY <1>3, <1>4, <1>5, <1>6, <1>7 DEF HandOK, KindOK, BranchOK, LoadedOK, InPass, Gives
<1>9. \A v \in Worktrees \ {w} : docs'[v] = docs[v] /\ branch'[v] = branch[v]
  BY <1>1, <1>4
<1> QED
  BY <1>1, <1>6, <1>8, <1>9, DocsStep

\* The record a command makes of its document and of the view of that moment.
LEMMA ViewLoads ==
  ASSUME TypeInv, ViewInv, NEW p \in Procs, Loads(p)
  PROVE  ViewInv'
<1> PICK w \in Worktrees, a \in Anchors : w = work[p].tree /\ a = work[p].anchor
  BY JobTypes DEF JobOK, Loads, Acting
<1> DEFINE d == docs[w][a]
<1>1. UNCHANGED <<docs, branch, shared, history>> /\ work[p].at = "written"
  BY DEF Loads, rows
<1>2. CASE ~Usable(d)
  <2>1. UNCHANGED views /\ Ends(p)
    BY <1>2 DEF Loads
  <2>2. HandOK(p)' /\ \A q \in Procs \ {p} : work'[q] = work[q]
    BY <2>1, EndsFree, IdleHand
  <2> QED
    BY <1>1, <2>1, <2>2, QuietStep
<1>3. CASE Usable(d)
  <2> PICK b \in Branches, c \in 0..Tip : b = branch[w] /\ c = Source
    BY SourceTypes DEF TypeInv, DocsOK
  <2> PICK given : given = shared
    OBVIOUS
  <2> DEFINE seen == Refreshed(w, b, c, given)
             v == ViewOf(seen, given)[a]
             f == CASE work[p].kind = "feature" -> work[p].feature
                    [] work[p].kind # "feature" /\ v = None -> None
                    [] OTHER -> v.feature
             r == [place |-> d.place, text |-> d.text, feature |-> f]
             j == [work[p] EXCEPT !.at = "loaded", !.doc = None, !.row = r]
  <2>1. Snapshots(w, b, c, Refreshed(w, b, c, shared))
    BY <1>3 DEF Loads, Snapshots
  <2>2. obs'[w] = seen
    BY <2>1 DEF Snapshots, TypeInv, ViewsOK
  <2>3. work' = [work EXCEPT ![p] = j]
    BY <1>3 DEF Loads, TypeInv, JobsOK
  <2>4. /\ j.at = "loaded" /\ j.row = r /\ j.kind = work[p].kind
        /\ j.feature = work[p].feature /\ j.tree = w /\ j.anchor = a
    BY JobTypes DEF Jobs
  <2>5. Face(r) = Face(d) /\ r.feature = f
    BY DEF Face
  <2> HIDE DEF j, r
  <2>6. work'[p] = j /\ \A q \in Procs \ {p} : work'[q] = work[q]
    BY <2>3, WorkOf
  <2>7. work[p].kind # "create"
    BY <1>1 DEF ViewInv, HandOK, KindOK
  <2>8. work[p].kind = "feature" => f = work[p].feature
    OBVIOUS
  <2>9. ASSUME work[p].kind # "feature", w \notin raced
        PROVE  /\ \/ <<w, branch[w], a, f>> \in asked
                  \/ /\ f = FeatureOf(shared[a]) /\ d.feature = None
                     /\ ~seen[a].declared
               /\ wish[w][a] # None => f = wish[w][a]
    <3>1. TakenHere(seen[a], w, a, given) /\ SeenOf(w, a)
      <4>1. w \in Worktrees \ raced /\ c \in 0..MaxCommits
        BY <2>9, SourceTypes
      <4>2. TakenHere(Refreshed(w, branch[w], c, given)[a], w, a, given)
        BY <4>1, RefreshedOf
      <4>3. SeenOf(w, a)
        BY <2>9 DEF ViewInv, SeenOK
      <4> QED
        BY <4>2, <4>3
    <3>2. seen[a] # None
      BY <1>3, <3>1 DEF TakenHere, TakenOf
    <3>3. v # None
      <4>1. seen \in Observeds /\ given \in RowSets
        BY RefreshedTypes DEF TypeInv, RowsOK
      <4>2. v \in Rows
        BY <3>2, <4>1 DEF ViewOf, Observeds, RowSets, Observations, Rows
      <4> QED
        BY <4>2, RfcConstants
    <3>4. v.feature = IF seen[a].declared THEN seen[a].feature ELSE FeatureOf(given[a])
      BY <3>2 DEF ViewOf, FeatureOf
    <3>5. f = v.feature
      BY <2>9, <3>3
    <3> HIDE DEF seen, v, f
    <3>6. CASE seen[a].declared
      <4>1. <<w, branch[w], a, f>> \in asked
        BY <3>1, <3>2, <3>4, <3>5, <3>6 DEF TakenHere
      <4>2. wish[w][a] # None => f = wish[w][a]
        BY <3>1, <3>4, <3>5, <3>6 DEF TakenHere, SeenOf
      <4> QED
        BY <4>1, <4>2
    <3>7. CASE ~seen[a].declared
      <4>1. f = FeatureOf(shared[a])
        BY <3>4, <3>5, <3>7
      <4>2. d.feature = None
        BY <3>1, <3>2, <3>7 DEF TakenHere, TakenOf
      <4>3. wish[w][a] = None
        BY <3>1, <3>7 DEF TakenHere, SeenOf
      <4> QED
        BY <3>7, <4>1, <4>2, <4>3
    <3> QED
      BY <3>6, <3>7
  <2> HIDE DEF seen, v, f
  <2>10. LoadedOK(p)'
    <3>1. /\ docs' = docs /\ branch' = branch /\ shared' = shared
          /\ asked' = asked /\ wish' = wish /\ raced' = raced
      BY <1>1 DEF history
    <3>2. CASE w \in raced
      BY <2>4, <2>6, <3>1, <3>2 DEF LoadedOK
    <3>3. CASE w \notin raced /\ work[p].kind = "feature"
      BY <1>3, <2>4, <2>5, <2>6, <2>8, <3>1, <3>3 DEF LoadedOK, Gives
    <3>4. CASE w \notin raced /\ work[p].kind # "feature"
      BY <1>3, <2>2, <2>4, <2>5, <2>6, <2>7, <2>9, <3>1, <3>4 DEF LoadedOK, Gives
    <3> QED
      BY <3>2, <3>3, <3>4
  <2>11. HandOK(p)'
    BY <2>4, <2>6, <2>10 DEF HandOK, KindOK, BranchOK, InPass
  <2> QED
    BY <1>1, <2>1, <2>6, <2>11, QuietStep
<1> QED
  BY <1>2, <1>3

LEMMA ViewPeople ==
  ASSUME TypeInv, ViewInv,
         \/ \E w \in Worktrees, a \in Anchors : HandEdits(w, a) \/ Merges(w, a)
         \/ \E w \in Worktrees, b \in Branches : ChecksOut(w, b)
         \/ RefsChange
  PROVE  ViewInv'
<1>0. None \notin Procs
  BY RfcConstants
<1>1. ASSUME NEW w \in Worktrees, NEW a \in Anchors, HandEdits(w, a)
      PROVE  ViewInv'
  <2>1. UNCHANGED <<shared, views>> /\ Remembers(w, Unfinished, None)
        /\ UNCHANGED branch /\ UNCHANGED work
    BY <1>1 DEF HandEdits, rows
  <2>2. \A v \in Worktrees \ {w} : docs'[v] = docs[v]
    BY <1>1 DEF HandEdits, TypeInv, DocsOK
  <2>3. \A v \in Worktrees \ {w} : docs'[v] = docs[v] /\ branch'[v] = branch[v]
    BY <2>1, <2>2
  <2>4. \A q \in Procs \ {None} : work'[q] = work[q]
    BY <2>1
  <2> QED
    BY <1>0, <2>1, <2>3, <2>4, DocsStep
<1>2. ASSUME NEW w \in Worktrees, NEW b \in Branches, ChecksOut(w, b)
      PROVE  ViewInv'
  <2> DEFINE busy == Unfinished \union InPass
  <2>1. UNCHANGED <<shared, views>> /\ Remembers(w, busy, None) /\ UNCHANGED work
    BY <1>2 DEF ChecksOut, rows
  <2>2. \A v \in Worktrees \ {w} : docs'[v] = docs[v] /\ branch'[v] = branch[v]
    BY <1>2 DEF ChecksOut, TypeInv, DocsOK
  <2>3. Unfinished \subseteq busy /\ InPass \subseteq busy
    OBVIOUS
  <2>4. \A q \in Procs \ {None} : work'[q] = work[q]
    BY <2>1
  <2> QED
    BY <1>0, <2>1, <2>2, <2>3, <2>4, DocsStep
<1>3. CASE RefsChange \/ \E w \in Worktrees, a \in Anchors : Merges(w, a)
  <2>1. UNCHANGED <<docs, branch, shared, history, views, work>>
    BY <1>3 DEF RefsChange, Merges, rows
  <2>2. \A q \in Procs \ {None} : work'[q] = work[q]
    BY <2>1
  <2> QED
    BY <1>0, <2>1, <2>2, QuietStep
<1> QED
  BY <1>1, <1>2, <1>3

LEMMA ViewStep == TypeInv /\ ViewInv /\ [Next]_vars => ViewInv'
<1> SUFFICES ASSUME TypeInv, ViewInv, [Next]_vars PROVE ViewInv'
  OBVIOUS
<1>1. CASE UNCHANGED vars
  <2>1. UNCHANGED <<docs, branch, shared, history, views, work>>
    BY <1>1 DEF vars, rows
  <2>2. None \notin Procs /\ \A q \in Procs \ {None} : work'[q] = work[q]
    BY <2>1, RfcConstants
  <2> QED
    BY <2>1, <2>2, QuietStep
<1>2. CASE Next
  BY <1>2, Steps, ViewListBegins, ViewShows, ViewReconcile, ViewListEnds, ViewWrites,
     ViewCreates, ViewLoads, PersistsStep, ViewStops, ViewBegins, ViewChooses, ViewPeople
<1> QED
  BY <1>1, <1>2

LEMMA ViewAlways == Spec => [](TypeInv /\ ViewInv)
BY TypeInit, TypeStep, ViewInit, ViewStep, PTL DEF Spec

\* What is shown for a document that declares no feature is the shared one, or
\* was given to that RFC on that branch; one given by a command is shown until
\* the document or the shared row takes it over.
THEOREM NoFeatureLeaks == Spec => []FeaturesAreTheOnesGiven
<1>1. TypeInv /\ ViewInv => FeaturesAreTheOnesGiven
  <2> SUFFICES ASSUME TypeInv, ViewInv, NEW w \in Worktrees \ raced, NEW a \in Anchors,
                      obs[w][a] # None
               PROVE  LET f == View(w)[a].feature
                      IN /\ snap[w].branch = branch[w] =>
                              \/ f = IF shared[a] = None THEN None ELSE shared[a].feature
                              \/ <<w, branch[w], a, f>> \in asked
                         /\ wish[w][a] # None => f = wish[w][a]
    BY DEF FeaturesAreTheOnesGiven
  <2>1. SeenOf(w, a)
    BY DEF ViewInv, SeenOK
  <2>2. View(w)[a].feature = IF obs[w][a].declared THEN obs[w][a].feature
                             ELSE IF shared[a] = None THEN None ELSE shared[a].feature
    BY DEF View, ViewOf
  <2>3. CASE obs[w][a].declared
    BY <2>1, <2>2, <2>3 DEF SeenOf
  <2>4. CASE ~obs[w][a].declared
    BY <2>1, <2>2, <2>4 DEF SeenOf
  <2> QED
    BY <2>3, <2>4
<1> QED
  BY <1>1, ViewAlways, PTL

\* The bounds count.
CountOK == count \in [events : Nat, commands : Nat]

LEMMA CountStep == CountOK /\ [Next]_vars => CountOK'
<1> SUFFICES ASSUME CountOK, [Next]_vars PROVE CountOK'
  OBVIOUS
<1>1. ASSUME NEW what \in {"events", "commands"}, NEW max, Counts(what, max)
      PROVE  CountOK'
  BY <1>1 DEF Counts, CountOK
<1>2. CASE UNCHANGED count
  BY <1>2 DEF CountOK
<1>3. ASSUME NEW p \in Procs,
              \/ ListEnds(p) \/ Reconcile(p)
              \/ Edits(p) \/ PromotionMoves(p) \/ PromotionWrites(p)
              \/ Retires(p) \/ RetirementWrites(p)
              \/ Creates(p) \/ Loads(p) \/ Persists(p) \/ GivesUp(p)
              \/ \E w \in Worktrees : ListBegins(p, w) \/ Shows(p, w)
      PROVE  UNCHANGED count
  <2>1. CASE ListEnds(p) \/ Creates(p) \/ Loads(p) \/ Persists(p) \/ GivesUp(p) \/ Reconcile(p)
    BY <2>1 DEF ListEnds, Creates, Loads, Persists, GivesUp, Reconcile
  <2>2. CASE \/ Edits(p) \/ PromotionMoves(p) \/ PromotionWrites(p)
             \/ Retires(p) \/ RetirementWrites(p)
    BY <2>2 DEF Edits, PromotionMoves, PromotionWrites, Retires, RetirementWrites, MovesTo
  <2>3. CASE \E w \in Worktrees : ListBegins(p, w) \/ Shows(p, w)
    BY <2>3 DEF ListBegins, Shows
  <2> QED
    BY <1>3, <2>1, <2>2, <2>3
<1>4. ASSUME NEW p \in Procs,
              Dies(p) \/ \E w \in Worktrees, a \in Anchors, kind \in Changing,
                            f \in Features \union {None} :
                           Begins(p, w, kind, a, f) \/ Chooses(p, w, a, f)
      PROVE  CountOK'
  <2>1. CASE Dies(p)
    BY <1>1, <2>1 DEF Dies
  <2>2. CASE \E w \in Worktrees, a \in Anchors, kind \in Changing, f \in Features \union {None} :
               Begins(p, w, kind, a, f) \/ Chooses(p, w, a, f)
    <3>1. Counts("commands", MaxCommands)
      BY <2>2 DEF Begins, Chooses
    <3> QED
      BY <1>1, <3>1
  <2> QED
    BY <1>4, <2>1, <2>2
<1>5. ASSUME \/ \E w \in Worktrees, a \in Anchors : HandEdits(w, a) \/ Merges(w, a)
             \/ \E w \in Worktrees, b \in Branches : ChecksOut(w, b)
             \/ RefsChange
      PROVE  CountOK'
  BY <1>1, <1>5 DEF HandEdits, Merges, ChecksOut, RefsChange
<1>6. UNCHANGED vars => UNCHANGED count
  BY DEF vars
<1> QED
  BY <1>2, <1>3, <1>4, <1>5, <1>6, Steps

\* A list that comes to its end, and is not killed, ends as ListEnds says.
LEMMA ListsEnd ==
  ASSUME TypeInv, CountOK, [Next]_vars, NEW p \in Procs,
         work[p].at = "observing", work'[p].at = "idle", count' = count
  PROVE  ListEnds(p)
<1>1. UNCHANGED work => FALSE
  OBVIOUS
<1>2. ASSUME NEW q \in Procs, q # p, \A r \in Procs \ {q} : work'[r] = work[r]
      PROVE  FALSE
  BY <1>2
<1>3. ~Dies(p)
  BY DEF Dies, Counts, CountOK
<1>4. ~(\/ Edits(p) \/ PromotionMoves(p) \/ PromotionWrites(p)
        \/ Retires(p) \/ RetirementWrites(p)
        \/ Creates(p) \/ Loads(p) \/ Persists(p) \/ GivesUp(p) \/ Reconcile(p))
  BY DEF Edits, PromotionMoves, PromotionWrites, Retires, RetirementWrites, MovesTo, Creates, Loads,
         Persists, GivesUp, Reconcile
<1>5. \A q \in Procs, w \in Worktrees : ListBegins(q, w) => \A r \in Procs \ {q} : work'[r] = work[r]
  BY PassBegins
<1>6. /\ \A q \in Procs, w \in Worktrees : Shows(q, w) => UNCHANGED work
      /\ \A w \in Worktrees, a \in Anchors : HandEdits(w, a) \/ Merges(w, a) => UNCHANGED work
      /\ \A w \in Worktrees, b \in Branches : ChecksOut(w, b) => UNCHANGED work
      /\ RefsChange => UNCHANGED work
      /\ UNCHANGED vars => UNCHANGED work
  BY DEF Shows, HandEdits, Merges, ChecksOut, RefsChange, vars
<1>7. \A w \in Worktrees : ~ListBegins(p, w)
  BY DEF ListBegins
<1>8. \A w \in Worktrees, a \in Anchors, kind \in Changing, f \in Features \union {None} :
        ~Begins(p, w, kind, a, f) /\ ~Chooses(p, w, a, f)
  BY DEF Begins, Chooses
<1> QED
  BY <1>1, <1>2, <1>3, <1>4, <1>5, <1>6, <1>7, <1>8, Steps, OthersPass

\* What a list leaves in the snapshot is of the documents that lie there then.
LEMMA ListShows ==
  ASSUME TypeInv, ViewInv, NEW p \in Procs, ListEnds(p), work[p].tree \notin raced,
         NEW a \in Anchors
  PROVE  SameFace(ViewOf(obs'[work[p].tree], shared')[a], RightOf(work[p].tree, a))
<1> PICK w \in Worktrees, b \in Branches, c \in 0..MaxCommits :
      w = work[p].tree /\ b = work[p].branch /\ c = work[p].source
  BY JobTypes, SourceTypes DEF JobOK, ListEnds, InPass
<1> PICK given \in RowSets : given = shared
  BY DEF TypeInv, RowsOK
<1> DEFINE seen == Refreshed(w, b, c, given)
           o == seen[a]
           d == docs[w][a]
<1>1. obs'[w] = seen /\ shared' = given
  BY DEF ListEnds, Snapshots, TypeInv, ViewsOK, rows
<1>2. b = branch[w] /\ w \in Worktrees \ raced
  BY DEF ListEnds, ViewInv, HandOK, BranchOK, InPass
<1>3. TakenHere(seen[a], w, a, given)
  BY <1>2, RefreshedOf
<1>4. /\ o = None <=> ~Usable(d)
      /\ o # None => Face(o) = Face(d)
  BY <1>3 DEF TakenHere, TakenOf
<1>5. ViewOf(seen, given)[a] \in Rows \union {None}
  BY RefreshedTypes, ViewTypes
<1>6. SameFace(ViewOf(seen, given)[a], IF Usable(d) THEN d ELSE given[a])
  <2>1. CASE o = None
    BY <1>4, <2>1 DEF ViewOf, SameFace
  <2>2. CASE o # None
    <3>1. ViewOf(seen, given)[a] = [place |-> o.place, text |-> o.text,
            feature |-> IF o.declared THEN o.feature
                        ELSE IF given[a] = None THEN None ELSE given[a].feature]
      BY <2>2 DEF ViewOf
    <3>2. o \in Observations
      BY <2>2, RefreshedTypes DEF Observeds
    <3>3. ViewOf(seen, given)[a] # None
      <4> HIDE DEF o, seen
      <4>1. given[a] # None => given[a] \in Rows
        BY DEF RowSets
      <4> DEFINE f == IF o.declared THEN o.feature
                      ELSE IF given[a] = None THEN None ELSE given[a].feature
      <4>2. f \in Features \union {None}
        BY <3>2, <4>1 DEF Observations, Rows
      <4> HIDE DEF f
      <4>3. [place |-> o.place, text |-> o.text, feature |-> f] \in Rows
        BY <3>2, <4>2 DEF Observations, Rows
      <4> QED
        BY <3>1, <4>3, RfcConstants DEF f
    <3>4. Face(ViewOf(seen, given)[a]) = Face(o)
      BY <3>1 DEF Face
    <3> QED
      BY <1>4, <2>2, <3>3, <3>4 DEF SameFace, Usable
  <2> QED
    BY <2>1, <2>2
<1> QED
  BY <1>1, <1>6 DEF RightOf

\* A list shows the documents of its own worktree as they are when it ends, and
\* for the other RFCs the shared rows.
THEOREM ListsAreOfTheCheckout == Spec => ListsFollowTheCheckout
<1>1. Init => CountOK
  BY DEF Init, CountOK
<1>2. TypeInv /\ ViewInv /\ CountOK /\ [Next]_vars =>
        [\A p \in Procs :
           /\ work[p].at = "observing" /\ work'[p].at = "idle" /\ count' = count
           /\ work[p].tree \notin raced
           => LET w == work[p].tree
                  shown == ViewOf(obs'[w], shared')
              IN \A a \in Anchors : SameFace(shown[a], RightOf(w, a))]_vars
  BY ListsEnd, ListShows
<1> QED
  BY <1>1, <1>2, CountStep, ViewAlways, PTL DEF Spec, ListsFollowTheCheckout
=============================================================================
