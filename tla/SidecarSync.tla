---------------------------- MODULE SidecarSync ----------------------------
(***************************************************************************)
(* How one project's state travels between machines.  Every machine has    *)
(* the project's database and a clone of the sidecar repository; a command *)
(* that changed the database dumps it into the clone and commits, and may  *)
(* fetch, merge row by row, import the merge into the database and push.   *)
(*                                                                         *)
(* A row's content is named after the command that wrote it, so that two   *)
(* contents are equal only when one was copied from the other.  The SQL    *)
(* files of the working tree are always rewritten from the database or the *)
(* merge before they are committed, and are not part of the state: what is *)
(* committed is the dump of the command that commits, or, where one goes   *)
(* without the lock of the clone, perhaps another's.                       *)
(***************************************************************************)
EXTENDS Naturals, FiniteSets, Sequences

CONSTANTS
  Machines,
  Rows,        \* rows of the database (table and stable id)
  Workers,     \* commands, each executed once
  MachineOf,   \* where a command runs
  KindOf,      \* "atomic", "external", "commit", "sync" or "push"
  Deleters,    \* commands that may delete the row they would write
  AutoPush,    \* machines that merge and push after every write
  Fragile,     \* where a command can be killed or fail
  MaxFaults,   \* bound on such failures, failed fetches and locks not to be had
  Old,         \* the content of every row in the first commit
  Absent,      \* no such row
  None

\* The steps at which a command is at work.
Working == {"admitted", "waiting", "locked", "dumped", "committed", "fetched",
            "compared", "begun", "imported", "redumped", "merged", "pushing"}

ASSUME SidecarConstants ==
  /\ MachineOf \in [Workers -> Machines]
  /\ KindOf \in [Workers -> {"atomic", "external", "commit", "sync", "push"}]
  /\ AutoPush \subseteq Machines /\ Deleters \subseteq Workers
  /\ Fragile \subseteq Working
  /\ Rows # {} /\ MaxFaults \in Nat
  /\ Old \notin Workers \union {Absent} /\ Absent \notin Workers
  /\ None \notin Workers \union Rows

VARIABLES
  commits,    \* every commit made, its content, parents and ancestors
  head,       \* a clone's branch
  tracking,   \* its remote-tracking branch
  mergeHead,  \* the other parent of a merge begun and not committed, or 0
  unimported, \* the machines where the database lacks that merge (history)
  remote,     \* the shared repository's branch
  db,         \* a machine's database
  gate,       \* who holds the project gate of a machine's daemon
  lock,       \* who holds .git/exo-state.lock
  authority,  \* who holds the exclusive lease on the database
  work,       \* what a command has done so far (onto, the parents of a commit made
              \* when it wrote, is history)
  faults,
  unlocked,   \* the commands that went on without the lock (history)
  replaced    \* those whose write an import replaced before its dump (history)

vars == <<commits, head, tracking, mergeHead, unimported, remote, db, gate, lock,
          authority, work, faults, unlocked, replaced>>
locks == <<gate, lock, authority>>
clones == <<commits, head, tracking, mergeHead, unimported, remote>>
notes == <<faults, unlocked, replaced>>

Contents == Workers \union {Old, Absent}
Tables   == [Rows -> Contents]
Writers  == {w \in Workers : KindOf[w] \in {"atomic", "external"}}
Succeeded == {"ok", "issue"}
Ended     == Succeeded \union {"conflict", "failed"}

First == [rows |-> [r \in Rows |-> Old], by |-> None, parents |-> {}, anc |-> {1},
          torn |-> FALSE]
Idle  == [at |-> "idle", row |-> None, val |-> None, dump |-> First.rows,
          up |-> 0, onto |-> {}]

Init ==
  /\ commits = <<First>>
  /\ head = [m \in Machines |-> 1]
  /\ tracking = [m \in Machines |-> 1]
  /\ mergeHead = [m \in Machines |-> 0]
  /\ unimported = {}
  /\ remote = 1
  /\ db = [m \in Machines |-> First.rows]
  /\ gate = [m \in Machines |-> None]
  /\ lock = [m \in Machines |-> None]
  /\ authority = [m \in Machines |-> None]
  /\ work = [w \in Workers |-> Idle]
  /\ faults = 0
  /\ unlocked = {}
  /\ replaced = {}

Content(c)     == commits[c].rows
IsIn(c, d)     == c \in commits[d].anc
Local(w)       == head[MachineOf[w]]
Upstream(w)    == tracking[MachineOf[w]]
Goes(w, to)    == work' = [work EXCEPT ![w].at = to]
\* The parents of the next commit: MERGE_HEAD makes it a merge.
Parents(m)     == {head[m]} \union ({mergeHead[m]} \ {0})
\* A machine on which some command has gone on without the lock.
Unguarded(m)   == \E w \in unlocked : MachineOf[w] = m
Freed(f, w)    == [m \in Machines |-> IF f[m] = w THEN None ELSE f[m]]

(***************************************************************************)
(* A command ends: everything it holds is released on every path.          *)
(***************************************************************************)
Releases_LockKept(w) ==
  /\ gate' = Freed(gate, w)
  /\ authority' = Freed(authority, w)
  /\ UNCHANGED lock

Releases(w) ==
  /\ gate' = Freed(gate, w)
  /\ lock' = Freed(lock, w)
  /\ authority' = Freed(authority, w)

Ends(w, how) == Goes(w, how) /\ Releases(w)

(***************************************************************************)
(* A writer whose sidecar cannot be merged or pushed still succeeds: its   *)
(* report carries the issue.  An explicit sync or push reports the error.  *)
(***************************************************************************)
EndsWithIssue(w) == Ends(w, IF w \in Writers THEN "issue" ELSE "failed")

(***************************************************************************)
(* Admission and the write to the database.  Only atomic commands hold the *)
(* project gate, and they hold it until they have been answered.           *)
(***************************************************************************)
Admits(w) ==
  LET m == MachineOf[w] IN
  /\ work[w].at = "idle"
  /\ IF KindOf[w] = "atomic"
     THEN gate[m] = None /\ gate' = [gate EXCEPT ![m] = w]
     ELSE UNCHANGED gate
  /\ Goes(w, IF w \in Writers THEN "admitted" ELSE "waiting")
  /\ UNCHANGED <<clones, db, lock, authority, notes>>

Writes(w) ==
  LET m == MachineOf[w] IN
  /\ work[w].at = "admitted"
  /\ authority[m] = None
  /\ \E r \in Rows, c \in IF w \in Deleters THEN {w, Absent} ELSE {w} :
       /\ db[m][r] # c
       /\ db' = [db EXCEPT ![m][r] = c]
       /\ work' = [work EXCEPT ![w].at = "waiting", ![w].row = r, ![w].val = c,
                               ![w].onto = Parents(m)]
  /\ UNCHANGED <<clones, locks, notes>>

(***************************************************************************)
(* The checkpoint, under the runtime lock of the clone: dump, compare with *)
(* HEAD, commit.  A command whose lock file cannot be created, opened or   *)
(* locked does the same without it.  A commit made while MERGE_HEAD exists *)
(* concludes the merge, whoever began it.                                  *)
(***************************************************************************)
Enters(w) == Goes(w, IF KindOf[w] = "push" THEN "merged" ELSE "locked")

Locks_Unheld(w) ==
  /\ work[w].at = "waiting"
  /\ Enters(w)
  /\ UNCHANGED <<clones, db, locks, notes>>

Locks_OrSkips(w) ==
  LET m == MachineOf[w] IN
  /\ work[w].at = "waiting"
  /\ IF lock[m] = None
     THEN /\ lock' = [lock EXCEPT ![m] = w]
          /\ Enters(w)
          /\ UNCHANGED <<gate, authority>>
     ELSE Ends(w, "ok")
  /\ UNCHANGED <<clones, db, notes>>

Locks(w) ==
  LET m == MachineOf[w] IN
  /\ work[w].at = "waiting"
  /\ \/ /\ lock[m] = None
        /\ lock' = [lock EXCEPT ![m] = w]
        /\ UNCHANGED <<faults, unlocked>>
     \/ /\ faults < MaxFaults
        /\ faults' = faults + 1
        /\ unlocked' = unlocked \union {w}
        /\ UNCHANGED lock
  /\ Enters(w)
  /\ UNCHANGED <<clones, db, gate, authority, replaced>>

Dumps(w) ==
  /\ work[w].at = "locked"
  /\ work' = [work EXCEPT ![w].at = "dumped", ![w].dump = db[MachineOf[w]]]
  /\ UNCHANGED <<clones, db, locks, notes>>

\* What the files hold when a command commits them: its own dump, unless another
\* command is past the lock as well and has dumped over it.
Exported(w) ==
  {work[x].dump : x \in {w} \union
     {y \in Workers : MachineOf[y] = MachineOf[w] /\ work[y].at \in {"dumped", "redumped"}}}

Commit(m, rows) ==
  LET new == Len(commits) + 1 IN
  /\ commits' = Append(commits,
       [rows |-> rows, by |-> m, parents |-> Parents(m),
        anc |-> {new} \union UNION {commits[p].anc : p \in Parents(m)},
        torn |-> m \in unimported \/ Unguarded(m)])
  /\ head' = [head EXCEPT ![m] = new]
  /\ mergeHead' = [mergeHead EXCEPT ![m] = 0]
  /\ unimported' = unimported \ {m}
  /\ UNCHANGED <<tracking, remote>>

GoesOn(w) ==
  \/ KindOf[w] = "sync"
  \/ w \in Writers /\ MachineOf[w] \in AutoPush

Commits(w) ==
  /\ work[w].at = "dumped"
  /\ \E rows \in Exported(w) :
       IF rows = Content(Local(w)) THEN UNCHANGED clones ELSE Commit(MachineOf[w], rows)
  /\ IF GoesOn(w)
     THEN Goes(w, "committed") /\ UNCHANGED locks
     ELSE Ends(w, "ok")
  /\ UNCHANGED <<db, notes>>

Fetches(w) ==
  /\ work[w].at = "committed"
  /\ \/ /\ tracking' = [tracking EXCEPT ![MachineOf[w]] = remote]
        /\ Goes(w, "fetched")
        /\ UNCHANGED <<locks, faults>>
     \/ /\ faults < MaxFaults
        /\ faults' = faults + 1
        /\ EndsWithIssue(w)
        /\ UNCHANGED tracking
  /\ UNCHANGED <<commits, head, mergeHead, unimported, remote, db, unlocked, replaced>>

(***************************************************************************)
(* The merge of HEAD and its upstream, row by row against their base.      *)
(***************************************************************************)
Bases(c, d) ==
  LET common == commits[c].anc \intersect commits[d].anc
  IN {b \in common : \A e \in common \ {b} : ~IsIn(b, e)}

Differs_TwoWay(b, l, u) == l # u

Differs(b, l, u)   == l # b /\ u # b /\ (l # u \/ l = Absent)
MergedRow_MineFirst(b, l, u) == l

MergedRow(b, l, u) == IF l = b THEN u ELSE l

Compares(w) ==
  /\ work[w].at = "fetched"
  /\ IF IsIn(Upstream(w), Local(w))
     THEN Goes(w, "merged") /\ UNCHANGED locks
     ELSE \E b \in Bases(Local(w), Upstream(w)) :
            LET base == Content(b)  mine == Content(Local(w))  up == Content(Upstream(w)) IN
            IF \E r \in Rows : Differs(base[r], mine[r], up[r])
            THEN Ends(w, "conflict")
            ELSE /\ work' = [work EXCEPT ![w].at = "compared", ![w].up = Upstream(w),
                        ![w].dump = [r \in Rows |-> MergedRow(base[r], mine[r], up[r])]]
                 /\ UNCHANGED locks
  /\ UNCHANGED <<clones, db, notes>>

(***************************************************************************)
(* The lease on the database, then git merge --no-commit, which refuses    *)
(* while an earlier merge is not concluded, and begins none when there is  *)
(* nothing left to merge.                                                  *)
(***************************************************************************)
BeginsMerge(w) ==
  LET m == MachineOf[w] IN
  /\ work[w].at = "compared"
  /\ authority[m] = None
  /\ IF mergeHead[m] = 0
     THEN /\ authority' = [authority EXCEPT ![m] = w]
          /\ IF IsIn(work[w].up, Local(w))
             THEN UNCHANGED <<mergeHead, unimported>>
             ELSE /\ mergeHead' = [mergeHead EXCEPT ![m] = work[w].up]
                  /\ unimported' = unimported \union {m}
          /\ Goes(w, "begun")
          /\ UNCHANGED <<gate, lock>>
     ELSE /\ EndsWithIssue(w)
          /\ UNCHANGED <<mergeHead, unimported>>
  /\ UNCHANGED <<commits, head, tracking, remote, db, notes>>

(***************************************************************************)
(* The import deletes every row and inserts those of the merge, which was  *)
(* made from two commits: what the database holds beside HEAD is gone.     *)
(***************************************************************************)
Replaces(m, rows) ==
  {x \in Writers : /\ MachineOf[x] = m /\ work[x].at \in {"waiting", "locked"}
                   /\ db[m][work[x].row] = work[x].val /\ rows[work[x].row] # work[x].val}

Imports(w) ==
  LET m == MachineOf[w] IN
  /\ work[w].at = "begun"
  /\ db' = [db EXCEPT ![m] = work[w].dump]
  /\ replaced' = replaced \union Replaces(m, work[w].dump)
  /\ unimported' = unimported \ {m}
  /\ Goes(w, "imported")
  /\ authority' = Freed(authority, w)
  /\ UNCHANGED <<commits, head, tracking, mergeHead, remote, gate, lock, faults, unlocked>>

Redumps(w) ==
  /\ work[w].at = "imported"
  /\ work' = [work EXCEPT ![w].at = "redumped", ![w].dump = db[MachineOf[w]]]
  /\ UNCHANGED <<clones, db, locks, notes>>

CommitsMerge(w) ==
  /\ work[w].at = "redumped"
  /\ \E rows \in Exported(w) :
       IF mergeHead[MachineOf[w]] = 0 /\ rows = Content(Local(w))
       THEN EndsWithIssue(w) /\ UNCHANGED clones
       ELSE Commit(MachineOf[w], rows) /\ Goes(w, "merged") /\ UNCHANGED locks
  /\ UNCHANGED <<db, notes>>

(***************************************************************************)
(* The push: fetch, refuse when behind, push, and look again if the remote *)
(* refused because another machine was faster.                             *)
(***************************************************************************)
FetchesToPush(w) ==
  /\ work[w].at = "merged"
  /\ \/ /\ tracking' = [tracking EXCEPT ![MachineOf[w]] = remote]
        /\ CASE remote = Local(w)         -> Ends(w, "ok")
             [] ~IsIn(remote, Local(w))   -> EndsWithIssue(w)
             [] OTHER                     -> Goes(w, "pushing") /\ UNCHANGED locks
        /\ UNCHANGED faults
     \/ /\ faults < MaxFaults
        /\ faults' = faults + 1
        /\ EndsWithIssue(w)
        /\ UNCHANGED tracking
  /\ UNCHANGED <<commits, head, mergeHead, unimported, remote, db, unlocked, replaced>>

Pushes_Forced(w) ==
  /\ work[w].at = "pushing"
  /\ remote' = Local(w)
  /\ tracking' = [tracking EXCEPT ![MachineOf[w]] = Local(w)]
  /\ Ends(w, "ok")
  /\ UNCHANGED <<commits, head, mergeHead, unimported, db, notes>>

Pushes(w) ==
  /\ work[w].at = "pushing"
  /\ IF IsIn(remote, Local(w))
     THEN /\ remote' = Local(w)
          /\ tracking' = [tracking EXCEPT ![MachineOf[w]] = Local(w)]
          /\ Ends(w, "ok")
     ELSE /\ tracking' = [tracking EXCEPT ![MachineOf[w]] = remote]
          /\ EndsWithIssue(w)
          /\ UNCHANGED remote
  /\ UNCHANGED <<commits, head, mergeHead, unimported, db, notes>>

(***************************************************************************)
(* A command is killed, or a file, git or database step of it fails: what  *)
(* it holds is released, what it wrote and a merge it began remain.        *)
(***************************************************************************)
Breaks(w) ==
  /\ work[w].at \in Fragile
  /\ faults < MaxFaults
  /\ faults' = faults + 1
  /\ Ends(w, "failed")
  /\ UNCHANGED <<clones, db, unlocked, replaced>>

Steps(w) ==
  \/ Admits(w) \/ Writes(w) \/ Locks(w) \/ Dumps(w) \/ Commits(w) \/ Fetches(w)
  \/ Compares(w) \/ BeginsMerge(w) \/ Imports(w) \/ Redumps(w) \/ CommitsMerge(w)
  \/ FetchesToPush(w) \/ Pushes(w)

Next == \E w \in Workers : Steps(w) \/ Breaks(w)

Spec == Init /\ [][Next]_vars

-----------------------------------------------------------------------------
Ids == DOMAIN commits

(* The types; a lock is held only by a command of its machine at work, and  *)
(* a commit's ancestors are older (git's graph, and every way a command     *)
(* lets go of its locks).                                                   *)
TypeOK ==
  /\ commits \in Seq([rows : Tables, by : Machines \union {None}, parents : SUBSET Ids,
                      anc : SUBSET Ids, torn : BOOLEAN])
  /\ \A c \in Ids : commits[c].parents \subseteq 1 .. c - 1
  /\ {head, tracking} \subseteq [Machines -> Ids] /\ remote \in Ids
  /\ mergeHead \in [Machines -> {0} \union Ids] /\ unimported \subseteq Machines
  /\ db \in [Machines -> Tables]
  /\ work \in [Workers -> [at : {"idle"} \union Working \union Ended,
                           row : Rows \union {None}, val : Contents \union {None},
                           dump : Tables, up : {0} \union Ids, onto : SUBSET Ids]]
  /\ {gate, lock, authority} \subseteq [Machines -> Workers \union {None}]
  /\ \A f \in {gate, lock, authority}, m \in Machines : f[m] # None =>
       MachineOf[f[m]] = m /\ work[f[m]].at \in Working
  /\ faults \in 0 .. MaxFaults
  /\ unlocked \subseteq Workers /\ replaced \subseteq Writers

(* A command of the commit's machine put this content into the row after    *)
(* both parents were made: a write that came between the import and the     *)
(* dump, or after a merge that was imported and not committed.              *)
WrittenLate(c, r) ==
  \E w \in Writers : /\ MachineOf[w] = commits[c].by
                     /\ work[w].row = r /\ work[w].val = Content(c)[r]
                     /\ work[w].onto = commits[c].parents

LastShared(c, d) ==
  LET common == commits[c].anc \intersect commits[d].anc
  IN CHOOSE b \in common :
       \A e \in common : Cardinality(commits[e].anc) <= Cardinality(commits[b].anc)

\* A commit with two parents has what either of them changed since their base:
\* where one left a row alone the row is the other's.
KeepsBothSides(c) ==
  \A p, q \in commits[c].parents : p # q =>
    \A r \in Rows :
      Content(p)[r] = Content(LastShared(p, q))[r] =>
        Content(c)[r] = Content(q)[r] \/ WrittenLate(c, r)

(* Every merge keeps both sides (semantic_merge_upstream_if_needed, and     *)
(* every commit that can conclude a merge), but for the torn ones: those    *)
(* that conclude a merge whose command broke before its import, and those   *)
(* of a machine where a command went on without the lock.                   *)
MergesKeepBothSides == \A c \in Ids : ~commits[c].torn => KeepsBothSides(c)

(* What the documents say, of every merge: which is not so of a torn one.   *)
EveryMergeKeepsBothSides == \A c \in Ids : KeepsBothSides(c)

\* What a command wrote was committed, or another of its machine wrote the row too.
Checkpointed(w) ==
  \/ \E c \in commits[Local(w)].anc : Content(c)[work[w].row] = work[w].val
  \/ \E x \in Writers \ {w} : /\ MachineOf[x] = MachineOf[w]
                              /\ work[x].row = work[w].row
Answered(w) == work[w].at \in Succeeded \union {"conflict"}

(* A writer that was answered with success is in the history of its clone   *)
(* (persist_after_success before the answer), unless a command of its       *)
(* machine has gone on without the lock.                                    *)
SuccessIsCheckpointed ==
  \A w \in Writers : Answered(w) => Checkpointed(w) \/ Unguarded(MachineOf[w])

(* However commands are mixed, a success is only lost to an import: one     *)
(* that came before the dump, by another command that the gate does not     *)
(* keep from the writer (persist_after_success, and the import of           *)
(* semantic_merge_upstream_if_needed).                                      *)
OnlyImportsLoseWrites ==
  \A w \in Writers : Answered(w) =>
    \/ Checkpointed(w) \/ Unguarded(MachineOf[w])
    \/ /\ w \in replaced
       /\ \E x \in Workers \ {w} : /\ MachineOf[x] = MachineOf[w] /\ GoesOn(x)
                                    /\ {KindOf[w], KindOf[x]} # {"atomic"}

(* A machine on which nothing is under way and nothing has failed has       *)
(* committed its database: under the lock a dump made early never overtakes *)
(* a later one (with_sidecar_runtime_lock).                                 *)
QuietMachinesAreCommitted ==
  \A m \in Machines :
    (\A w \in Workers : MachineOf[w] = m =>
       work[w].at \in {"idle", "conflict"} \union Succeeded) =>
      db[m] = Content(head[m]) \/ Unguarded(m)

\* Both sides have changed the row since the last commit they share.
ChangedTwice(w, r) ==
  LET b == Content(LastShared(Local(w), Upstream(w)))[r]
  IN Content(Local(w))[r] # b /\ Content(Upstream(w))[r] # b

(* A conflict is reported only when both sides changed a row since the last *)
(* commit they share, and not to the same, but for a row both deleted       *)
(* (merge_sql_projection_file, and the base and revisions it is given).     *)
ConflictNeedsTwoChanges ==
  [][\A w \in Workers :
       work[w].at # "conflict" /\ work'[w].at = "conflict" =>
         \E r \in Rows : /\ ChangedTwice(w, r)
                         /\ Content(Local(w))[r] = Content(Upstream(w))[r] =>
                              Content(Local(w))[r] = Absent]_vars

(* What the documents say: a conflict is about incompatible edits, which    *)
(* two deletions of one row are not.                                        *)
ConflictNeedsDisagreement ==
  [][\A w \in Workers :
       work[w].at # "conflict" /\ work'[w].at = "conflict" =>
         \E r \in Rows : /\ ChangedTwice(w, r)
                         /\ Content(Local(w))[r] # Content(Upstream(w))[r]]_vars

\* The step brings a row of the shared branch back to a content it had before.
Reverts(r) ==
  LET new == (Content(remote)[r])'
  IN /\ new \notin {Content(remote)[r], Absent}
     /\ \E c \in commits[remote].anc : Content(c)[r] = new

(* A published row never goes back to a content the shared branch had       *)
(* before: no push undoes what another machine published                    *)
(* (push_sidecar_branch_with_recovery and the merge before it), unless it   *)
(* publishes a torn commit.                                                 *)
PublishedRowsNeverRevert ==
  [][(\E r \in Rows : Reverts(r)) =>
       \E c \in (commits[remote].anc)' \ commits[remote].anc : commits[c].torn]_vars

(* What the documents say of every push, a torn commit's too.               *)
NoPushReverts == [][~\E r \in Rows : Reverts(r)]_vars
=============================================================================
