-------------------------- MODULE SidecarSyncProofs --------------------------
(***************************************************************************)
(* What holds of the sidecars for any number of machines, commands and     *)
(* rows, wherever commands break and whether or not they have the gate and *)
(* the lock.  First the types, the locks and what a command has written    *)
(* (WorkInv), from which a machine at rest has committed its database.     *)
(* Then the graph of commits: two clones have in common what is on the     *)
(* shared branch, and each has in common with it the ancestors of one      *)
(* commit, the only base of a merge (GraphInv), from which conflicts are   *)
(* real.  Then the rows: where every command has had the lock, what a      *)
(* commit says of each is what its branch or the merge that the database   *)
(* has says, or is new, and what is new to a machine was never shared      *)
(* (RowsInv), from which merges keep both sides and published rows stand,  *)
(* but for the torn commits.  Last, what a command that succeeded wrote is *)
(* committed, or was lost to an import.                                    *)
(***************************************************************************)
EXTENDS SidecarSync, FiniteSetTheorems, TLAPS

-----------------------------------------------------------------------------
(* Types                                                                   *)

\* The commits a commit descends from, itself included.
Anc(c) == commits[c].anc

\* Commands past these steps hold the runtime lock of their clone.
Holding == Working \ {"admitted", "waiting"}
\* The steps between the checkpoint and the end of a merge.
Merging == {"committed", "fetched", "compared", "begun", "imported", "redumped"}
Dumped  == {"dumped", "redumped"}

CommitRecords(n) == [rows : Tables, by : Machines \union {None},
                     parents : SUBSET (1 .. n), anc : SUBSET (1 .. n), torn : BOOLEAN]

LEMMA CommitsTyped ==
  ASSUME TypeOK
  PROVE  /\ Len(commits) \in Nat \ {0} /\ Ids = 1 .. Len(commits)
         /\ \A c \in Ids : /\ commits[c] \in CommitRecords(Len(commits))
                           /\ commits[c].parents \subseteq 1 .. c - 1
<1>1. Ids = 1 .. Len(commits) /\ Len(commits) \in Nat
  BY DEF TypeOK, Ids
<1>2. Len(commits) # 0
  BY <1>1 DEF TypeOK
<1>3. \A c \in Ids : commits[c] \in CommitRecords(Len(commits))
  <2>1. TypeOK!1
    BY DEF TypeOK
  <2>2. commits \in Seq(CommitRecords(Len(commits)))
    BY <1>1, <2>1 DEF CommitRecords
  <2> HIDE DEF CommitRecords
  <2> QED BY <1>1, <2>2
<1> QED BY <1>1, <1>2, <1>3 DEF TypeOK

LEMMA CommitAdds ==
  ASSUME TypeOK, NEW m \in Machines, NEW rows \in Tables, Commit(m, rows)
  PROVE  LET new == Len(commits) + 1 IN
         /\ Len(commits') = new /\ Ids' = Ids \union {new} /\ new \notin Ids
         /\ \A c \in Ids : commits'[c] = commits[c]
         /\ commits'[new].rows = rows /\ commits'[new].by = m
         /\ commits'[new].parents = Parents(m)
         /\ commits'[new].torn = (m \in unimported \/ Unguarded(m))
         /\ commits'[new].anc = {new} \union Anc(head[m])
                                \union (IF mergeHead[m] = 0 THEN {} ELSE Anc(mergeHead[m]))
         /\ head' = [head EXCEPT ![m] = new]
         /\ mergeHead' = [mergeHead EXCEPT ![m] = 0]
         /\ tracking' = tracking /\ remote' = remote
         /\ head[m] \in Ids /\ (mergeHead[m] # 0 => mergeHead[m] \in Ids)
         /\ Parents(m) \subseteq Ids
<1> DEFINE new == Len(commits) + 1
           c == [rows |-> rows, by |-> m, parents |-> Parents(m),
                 anc |-> {new} \union UNION {commits[p].anc : p \in Parents(m)},
                 torn |-> m \in unimported \/ Unguarded(m)]
<1>1. commits' = Append(commits, c)
  BY DEF Commit
<1>2. Len(commits) \in Nat /\ Ids = 1 .. Len(commits)
  BY CommitsTyped
<1>3. commits \in Seq({commits[i] : i \in Ids})
  <2>1. PICK S : commits \in Seq(S)
    BY DEF TypeOK
  <2> QED BY <1>2, <2>1
<1>4. c.rows = rows /\ c.by = m /\ c.parents = Parents(m)
      /\ c.anc = {new} \union UNION {commits[p].anc : p \in Parents(m)}
      /\ c.torn = (m \in unimported \/ Unguarded(m))
  OBVIOUS
<1> HIDE DEF c
<1>5. Len(commits') = new /\ Ids' = 1 .. new /\ commits'[new] = c
      /\ \A i \in Ids : commits'[i] = commits[i]
  <2> DEFINE S == {commits[i] : i \in Ids} \union {c}
  <2>1. commits \in Seq(S) /\ c \in S
    BY <1>2, <1>3
  <2> HIDE DEF S
  <2> QED BY <1>1, <1>2, <2>1 DEF Ids
<1>6. head[m] \in Ids /\ (mergeHead[m] # 0 => mergeHead[m] \in Ids)
  BY DEF TypeOK
<1>7. UNION {commits[p].anc : p \in Parents(m)}
        = Anc(head[m]) \union (IF mergeHead[m] = 0 THEN {} ELSE Anc(mergeHead[m]))
  BY <1>6 DEF Parents, Anc
<1>8. Parents(m) \subseteq Ids
  BY <1>6 DEF Parents
<1> QED BY <1>2, <1>4, <1>5, <1>6, <1>7, <1>8 DEF Commit

Jobs == [at : {"idle"} \union Working \union Ended, row : Rows \union {None},
         val : Contents \union {None}, dump : Tables, up : {0} \union Ids,
         onto : SUBSET Ids]

ClonesTyped ==
  /\ commits \in Seq(CommitRecords(Len(commits))) /\ Len(commits) \in Nat \ {0}
  /\ \A c \in Ids : commits[c].parents \subseteq 1 .. c - 1
  /\ {head, tracking} \subseteq [Machines -> Ids] /\ remote \in Ids
  /\ mergeHead \in [Machines -> {0} \union Ids] /\ unimported \subseteq Machines
LocksTyped ==
  /\ {gate, lock, authority} \subseteq [Machines -> Workers \union {None}]
  /\ \A f \in {gate, lock, authority}, m \in Machines : f[m] # None =>
       MachineOf[f[m]] = m /\ work[f[m]].at \in Working
NotesTyped == faults \in 0 .. MaxFaults /\ unlocked \subseteq Workers /\ replaced \subseteq Writers

LEMMA TypeParts ==
  TypeOK <=> /\ ClonesTyped /\ db \in [Machines -> Tables] /\ work \in [Workers -> Jobs]
             /\ LocksTyped /\ NotesTyped
<1>1. ASSUME TypeOK PROVE ClonesTyped
  <2>1. Len(commits) \in Nat \ {0} /\ Ids = 1 .. Len(commits)
    BY <1>1, CommitsTyped
  <2>2. commits \in Seq(CommitRecords(Len(commits)))
    BY <1>1, <2>1 DEF TypeOK, CommitRecords
  <2> QED BY <1>1, <2>1, <2>2 DEF TypeOK, ClonesTyped
<1>2. ASSUME ClonesTyped PROVE TypeOK!1 /\ TypeOK!2
  <2>1. Ids = 1 .. Len(commits)
    BY <1>2 DEF ClonesTyped, Ids
  <2> QED BY <1>2, <2>1 DEF ClonesTyped, CommitRecords
<1> QED BY <1>1, <1>2 DEF TypeOK, ClonesTyped, LocksTyped, NotesTyped, Jobs

LEMMA TypePartsNext ==
  ClonesTyped' /\ db' \in [Machines -> Tables] /\ work' \in [Workers -> Jobs'] /\ LocksTyped'
    /\ NotesTyped' => TypeOK'
<1> DEFINE Typed == /\ ClonesTyped /\ db \in [Machines -> Tables] /\ work \in [Workers -> Jobs]
                    /\ LocksTyped /\ NotesTyped
<1>1. Typed => TypeOK
  BY TypeParts
<1>2. Typed' => TypeOK'
  <2> HIDE DEF Typed
  <2> QED BY <1>1, PTL
<1> QED BY <1>2

LEMMA TypeInit == Init => TypeOK
<1> SUFFICES ASSUME Init PROVE TypeOK
  OBVIOUS
<1> USE SidecarConstants
<1>1. First.rows \in Tables /\ First \in CommitRecords(1) /\ First.parents = {}
  BY DEF First, Tables, Contents, CommitRecords
<1>2. commits = <<First>> /\ Len(commits) = 1 /\ Ids = {1}
  BY DEF Init, Ids
<1>3. ClonesTyped
  <2>1. <<First>> \in Seq(CommitRecords(1)) /\ commits[1] = First
    BY <1>1, <1>2
  <2> HIDE DEF First, CommitRecords
  <2> QED BY <1>1, <1>2, <2>1 DEF Init, ClonesTyped
<1>4. Idle \in Jobs
  BY <1>1 DEF Idle, Jobs
<1>5. db \in [Machines -> Tables] /\ work \in [Workers -> Jobs] /\ NotesTyped
  BY <1>1, <1>4 DEF Init, NotesTyped
<1>6. LocksTyped
  BY DEF Init, LocksTyped
<1> QED BY <1>3, <1>5, <1>6, TypeParts

\* The types of the parts of a step.
LEMMA GoesTyped ==
  ASSUME TypeOK, NEW w \in Workers, NEW to \in Working \union Ended, Goes(w, to), Ids \subseteq Ids'
  PROVE  /\ work' \in [Workers -> Jobs'] /\ work'[w] = [work[w] EXCEPT !.at = to]
         /\ \A x \in Workers \ {w} : work'[x] = work[x]
<1>1. work \in [Workers -> Jobs]
  BY TypeParts
<1>2. work' = [work EXCEPT ![w].at = to]
  BY DEF Goes
<1>3. [work[w] EXCEPT !.at = to] \in Jobs'
  BY <1>1 DEF Jobs
<1>4. \A x \in Workers : work[x] \in Jobs'
  BY <1>1 DEF Jobs
<1> QED BY <1>1, <1>2, <1>3, <1>4

\* A command that goes on takes or frees a lock, or leaves it alone.
Moved(f, g, w) == g \in {f, [f EXCEPT ![MachineOf[w]] = w], Freed(f, w)}
LocksMove(w) == Moved(gate, gate', w) /\ Moved(lock, lock', w) /\ Moved(authority, authority', w)

LEMMA LocksGoOn ==
  ASSUME TypeOK, NEW w \in Workers, work'[w].at \in Working,
         \A x \in Workers \ {w} : work'[x] = work[x], LocksMove(w)
  PROVE  LocksTyped'
<1> USE SidecarConstants
<1> DEFINE OK(f) == /\ f \in [Machines -> Workers \union {None}]
                    /\ \A m \in Machines : f[m] # None =>
                         MachineOf[f[m]] = m /\ work'[f[m]].at \in Working
<1>1. LocksTyped
  BY TypeParts
<1>2. ASSUME NEW f, f \in {gate, lock, authority} PROVE OK(f)
  BY <1>1, <1>2 DEF LocksTyped
<1>3. ASSUME NEW f, OK(f) PROVE OK([f EXCEPT ![MachineOf[w]] = w]) /\ OK(Freed(f, w))
  BY <1>3 DEF Freed
<1>4. ASSUME NEW f, NEW g, f \in {gate, lock, authority}, Moved(f, g, w) PROVE OK(g)
  <2> HIDE DEF OK
  <2> QED BY <1>2, <1>3, <1>4 DEF Moved
<1>5. OK(gate') /\ OK(lock') /\ OK(authority')
  <2> HIDE DEF OK
  <2> QED BY <1>4 DEF LocksMove
<1> QED BY <1>5 DEF LocksTyped

\* A command that ends lets go of everything.
LEMMA LocksEnd ==
  ASSUME TypeOK, NEW w \in Workers, Releases(w), \A x \in Workers \ {w} : work'[x] = work[x]
  PROVE  LocksTyped'
<1> USE SidecarConstants
<1> DEFINE OK(f) == /\ f \in [Machines -> Workers \union {None}]
                    /\ \A m \in Machines : f[m] # None =>
                         MachineOf[f[m]] = m /\ work'[f[m]].at \in Working
<1>1. LocksTyped
  BY TypeParts
<1>2. ASSUME NEW f, f \in {gate, lock, authority} PROVE OK(Freed(f, w))
  BY <1>1, <1>2 DEF LocksTyped, Freed
<1>3. OK(gate') /\ OK(lock') /\ OK(authority')
  BY <1>2 DEF Releases
<1> QED BY <1>3 DEF LocksTyped

LEMMA ClonesStay ==
  ASSUME TypeOK, UNCHANGED clones
  PROVE  ClonesTyped' /\ Ids' = Ids
BY TypeParts DEF clones, ClonesTyped, Ids

LEMMA BranchesTyped ==
  ASSUME TypeOK, UNCHANGED commits, {head', tracking'} \subseteq [Machines -> Ids], remote' \in Ids,
         mergeHead' \in [Machines -> {0} \union Ids], unimported' \subseteq Machines
  PROVE  ClonesTyped' /\ Ids' = Ids
BY TypeParts DEF ClonesTyped, Ids

LEMMA CommitTyped ==
  ASSUME TypeOK, NEW m \in Machines, NEW rows \in Tables, Commit(m, rows)
  PROVE  ClonesTyped' /\ Ids \subseteq Ids'
<1> DEFINE new == Len(commits) + 1
           c == [rows |-> rows, by |-> m, parents |-> Parents(m),
                 anc |-> {new} \union UNION {commits[p].anc : p \in Parents(m)},
                 torn |-> m \in unimported \/ Unguarded(m)]
<1>1. commits' = Append(commits, c)
  BY DEF Commit
<1>2. Len(commits) \in Nat \ {0} /\ Ids = 1 .. Len(commits)
  BY CommitsTyped
<1>3. /\ Len(commits') = new /\ Ids' = Ids \union {new}
      /\ Parents(m) \subseteq Ids
      /\ \A i \in Ids : commits'[i] = commits[i]
      /\ commits'[new].parents = Parents(m)
      /\ head' = [head EXCEPT ![m] = new] /\ mergeHead' = [mergeHead EXCEPT ![m] = 0]
      /\ tracking' = tracking /\ remote' = remote
  BY CommitAdds
<1>4. c \in CommitRecords(new)
  <2>1. \A p \in Parents(m) : commits[p].anc \subseteq 1 .. Len(commits)
    BY <1>2, <1>3, CommitsTyped DEF CommitRecords
  <2>2. UNION {commits[p].anc : p \in Parents(m)} \subseteq 1 .. Len(commits)
    BY <2>1
  <2>3. 1 .. Len(commits) \subseteq 1 .. new /\ new \in 1 .. new
    BY <1>2
  <2>4. c.anc \subseteq 1 .. new /\ c.parents \subseteq 1 .. new
    BY <1>2, <1>3, <2>2, <2>3
  <2> QED BY <2>4 DEF CommitRecords
<1>5. commits \in Seq(CommitRecords(new))
  <2>1. commits \in Seq(CommitRecords(Len(commits)))
    BY TypeParts DEF ClonesTyped
  <2>2. 1 .. Len(commits) \subseteq 1 .. new
    BY <1>2
  <2>3. CommitRecords(Len(commits)) \subseteq CommitRecords(new)
    BY <2>2 DEF CommitRecords
  <2> HIDE DEF CommitRecords, new
  <2> QED BY <2>1, <2>3
<1>6. commits' \in Seq(CommitRecords(new))
  <2> HIDE DEF c, CommitRecords, new
  <2> QED BY <1>1, <1>4, <1>5
<1>7. \A i \in Ids' : commits'[i].parents \subseteq 1 .. i - 1
  BY <1>2, <1>3, CommitsTyped
<1>8. {head, tracking} \subseteq [Machines -> Ids] /\ remote \in Ids
      /\ mergeHead \in [Machines -> {0} \union Ids]
  BY TypeParts DEF ClonesTyped
<1>9. {head', tracking'} \subseteq [Machines -> Ids'] /\ remote' \in Ids'
      /\ mergeHead' \in [Machines -> {0} \union Ids']
  BY <1>3, <1>8
<1>10. unimported' \subseteq Machines
  BY TypeParts DEF ClonesTyped, Commit
<1> QED BY <1>2, <1>3, <1>6, <1>7, <1>9, <1>10 DEF ClonesTyped

LEMMA EndsTyped ==
  ASSUME TypeOK, NEW w \in Workers, NEW how \in Ended, Ends(w, how), ClonesTyped',
         Ids \subseteq Ids', db' \in [Machines -> Tables], NotesTyped'
  PROVE  TypeOK'
<1>1. work' \in [Workers -> Jobs'] /\ \A x \in Workers \ {w} : work'[x] = work[x]
  BY GoesTyped DEF Ends
<1>2. LocksTyped'
  BY <1>1, LocksEnd DEF Ends
<1> QED BY <1>1, <1>2, TypePartsNext

LEMMA IssueTyped ==
  ASSUME TypeOK, NEW w \in Workers, EndsWithIssue(w), ClonesTyped',
         Ids \subseteq Ids', db' \in [Machines -> Tables], NotesTyped'
  PROVE  TypeOK'
<1> DEFINE how == IF w \in Writers THEN "issue" ELSE "failed"
<1>1. how \in Ended
  BY DEF Ended, Succeeded
<1> HIDE DEF how
<1>2. Ends(w, how)
  BY DEF EndsWithIssue, how
<1> QED BY <1>1, <1>2, EndsTyped

LEMMA GoesOnTyped ==
  ASSUME TypeOK, NEW w \in Workers, NEW to \in Working, Goes(w, to), ClonesTyped', Ids \subseteq Ids',
         db' \in [Machines -> Tables], NotesTyped', LocksMove(w)
  PROVE  TypeOK'
<1>1. /\ work' \in [Workers -> Jobs'] /\ work'[w] = [work[w] EXCEPT !.at = to]
      /\ \A x \in Workers \ {w} : work'[x] = work[x]
  BY GoesTyped
<1>2. work[w] \in Jobs
  BY TypeParts
<1>3. work'[w].at \in Working
  BY <1>1, <1>2 DEF Jobs
<1>4. LocksTyped'
  BY <1>1, <1>3, LocksGoOn
<1> QED BY <1>1, <1>4, TypePartsNext

\* The same when the step notes something about the command as well.
LEMMA JobTyped ==
  ASSUME TypeOK, NEW w \in Workers, NEW j, work' = [work EXCEPT ![w] = j], j \in Jobs,
         j.at \in Working, UNCHANGED <<clones, notes, locks>>, db' \in [Machines -> Tables]
  PROVE  TypeOK'
<1>1. work \in [Workers -> Jobs]
  BY TypeParts
<1>2. work' \in [Workers -> Jobs] /\ work'[w].at \in Working
      /\ \A x \in Workers \ {w} : work'[x] = work[x]
  BY <1>1
<1>3. ClonesTyped' /\ Ids' = Ids /\ Jobs' = Jobs
  BY ClonesStay DEF Jobs
<1>4. LocksTyped'
  <2>1. LocksMove(w)
    BY DEF locks, LocksMove, Moved
  <2> QED BY <1>2, <2>1, LocksGoOn
<1>5. NotesTyped'
  BY TypeParts DEF NotesTyped, notes
<1> QED BY <1>2, <1>3, <1>4, <1>5, TypePartsNext

\* A merge that has been compared has an upstream commit.
PlansTyped ==
  \A w \in Workers : work[w].at \in {"compared", "begun"} => work[w].up \in Ids
TypeInv == TypeOK /\ PlansTyped

LEMMA ContentTyped == TypeOK => \A c \in Ids : Content(c) \in Tables
BY CommitsTyped DEF CommitRecords, Content

\* What a step may do to a command.
LEMMA WorkMoves ==
  ASSUME TypeOK, NEW w \in Workers, Steps(w) \/ Breaks(w)
  PROVE  /\ \A x \in Workers \ {w} : work'[x] = work[x]
         /\ work[w].at \in {"idle"} \union Working
         /\ \/ \E to \in Working \union Ended : work'[w] = [work[w] EXCEPT !.at = to]
            \/ Writes(w)
            \/ (Dumps(w) \/ Redumps(w))
            \/ Compares(w)
<1>1. work \in [Workers -> Jobs]
  BY TypeParts
<1>2. ASSUME NEW to, Goes(w, to)
      PROVE  (\A x \in Workers \ {w} : work'[x] = work[x]) /\ work'[w] = [work[w] EXCEPT !.at = to]
  BY <1>1, <1>2 DEF Goes
<1>3. ASSUME Writes(w) \/ Dumps(w) \/ Redumps(w) \/ Compares(w)
      PROVE  \A x \in Workers \ {w} : work'[x] = work[x]
  <2>1. CASE Writes(w)
    <3>1. PICK r, c : work' = [work EXCEPT ![w].at = "waiting", ![w].row = r,
                                           ![w].val = c,
                                           ![w].onto = Parents(MachineOf[w])]
      BY <2>1, Zenon DEF Writes
    <3> QED BY <1>1, <3>1
  <2>2. CASE Dumps(w) \/ Redumps(w) \/ Compares(w)
    <3>1. \E j : work' = [work EXCEPT ![w] = j]
      <4>1. CASE Dumps(w) \/ Redumps(w)
        BY <1>1, <4>1 DEF Dumps, Redumps
      <4>2. CASE Compares(w)
        BY <1>1, <4>2 DEF Compares, Goes, Ends
      <4> QED BY <2>2, <4>1, <4>2
    <3> QED BY <1>1, <3>1
  <2> QED BY <1>3, <2>1, <2>2
<1>4. work[w].at \in {"idle"} \union Working
  <2>1. CASE Admits(w) \/ Writes(w) \/ Locks(w) \/ Dumps(w) \/ Commits(w) \/ Fetches(w)
    BY <2>1 DEF Admits, Writes, Locks, Dumps, Commits, Fetches, Working
  <2>2. CASE Compares(w) \/ BeginsMerge(w) \/ Imports(w) \/ Redumps(w) \/ CommitsMerge(w)
    BY <2>2 DEF Compares, BeginsMerge, Imports, Redumps, CommitsMerge, Working
  <2>3. CASE FetchesToPush(w) \/ Pushes(w)
    BY <2>3 DEF FetchesToPush, Pushes, Working
  <2>4. CASE Breaks(w)
    BY <2>4, SidecarConstants DEF Breaks
  <2> QED BY <2>1, <2>2, <2>3, <2>4 DEF Steps
<1>5. CASE Writes(w) \/ Dumps(w) \/ Redumps(w) \/ Compares(w)
  BY <1>3, <1>4, <1>5
<1>6. ASSUME NEW how \in Ended, Ends(w, how)
      PROVE  \E to \in Working \union Ended : Goes(w, to)
  BY <1>6 DEF Ends
<1>7. ASSUME EndsWithIssue(w) PROVE \E to \in Working \union Ended : Goes(w, to)
  BY <1>6, <1>7 DEF EndsWithIssue, Ended, Succeeded
<1>8. {"admitted", "waiting", "locked", "dumped", "committed", "fetched",
              "compared", "begun", "imported", "redumped", "merged", "pushing"} = Working
      /\ {"ok", "issue", "conflict", "failed"} = Ended
  BY DEF Working, Ended, Succeeded
<1>9. CASE Admits(w) \/ Locks(w) \/ Breaks(w)
  <2>1. \E to \in Working \union Ended : Goes(w, to)
    BY <1>6, <1>8, <1>9 DEF Admits, Locks, Enters, Breaks
  <2> QED BY <1>2, <1>4, <2>1
<1>10. CASE Commits(w) \/ Fetches(w) \/ BeginsMerge(w) \/ Imports(w)
  <2>1. \E to \in Working \union Ended : Goes(w, to)
    BY <1>6, <1>7, <1>8, <1>10 DEF Commits, Fetches, BeginsMerge, Imports
  <2> QED BY <1>2, <1>4, <2>1
<1>11. CASE CommitsMerge(w) \/ FetchesToPush(w) \/ Pushes(w)
  <2>1. CASE CommitsMerge(w) \/ Pushes(w)
    <3>1. \E to \in Working \union Ended : Goes(w, to)
      BY <1>6, <1>7, <1>8, <2>1 DEF CommitsMerge, Pushes
    <3> QED BY <1>2, <1>4, <3>1
  <2>2. CASE FetchesToPush(w)
    <3>1. Ends(w, "ok") \/ EndsWithIssue(w) \/ Goes(w, "pushing")
      BY <2>2 DEF FetchesToPush
    <3>2. \E to \in Working \union Ended : Goes(w, to)
      BY <1>6, <1>7, <1>8, <3>1
    <3> QED BY <1>2, <1>4, <3>2
  <2> QED BY <1>11, <2>1, <2>2
<1> QED BY <1>5, <1>9, <1>10, <1>11 DEF Steps

LEMMA TypeStep == TypeInv /\ [Next]_vars => TypeOK'
<1> SUFFICES ASSUME TypeInv, [Next]_vars PROVE TypeOK'
  OBVIOUS
<1> USE SidecarConstants
<1>1. /\ TypeOK /\ ClonesTyped /\ db \in [Machines -> Tables] /\ work \in [Workers -> Jobs]
      /\ LocksTyped /\ NotesTyped
  BY TypeParts DEF TypeInv
<1>2. {"admitted", "waiting", "locked", "dumped", "committed", "fetched",
              "compared", "begun", "imported", "redumped", "merged", "pushing"} = Working
      /\ {"ok", "issue", "conflict", "failed"} = Ended
  BY DEF Working, Ended, Succeeded
<1>l. ASSUME NEW w, UNCHANGED locks PROVE LocksMove(w)
  BY <1>l DEF locks, LocksMove, Moved
<1>n. /\ UNCHANGED notes => NotesTyped'
      /\ faults < MaxFaults /\ faults' = faults + 1 /\ unlocked' = unlocked /\ replaced' = replaced
           => NotesTyped'
      /\ faults' = faults /\ unlocked' = unlocked /\ replaced' = replaced => NotesTyped'
  BY <1>1 DEF NotesTyped, notes
<1>3. CASE UNCHANGED vars
  BY <1>1, <1>3, ClonesStay, TypePartsNext DEF vars, ClonesTyped, LocksTyped, NotesTyped, Jobs, clones, locks
<1>4. ASSUME NEW w \in Workers, Admits(w) PROVE TypeOK'
  <2>1. ClonesTyped' /\ Ids' = Ids
    BY <1>1, <1>4, ClonesStay DEF Admits
  <2>2. PICK to \in Working : Goes(w, to)
    BY <1>2, <1>4 DEF Admits
  <2>3. LocksMove(w) /\ UNCHANGED db /\ NotesTyped'
    BY <1>4, <1>n DEF Admits, LocksMove, Moved
  <2> QED BY <1>1, <2>1, <2>2, <2>3, GoesOnTyped
<1>5. ASSUME NEW w \in Workers, Writes(w) PROVE TypeOK'
  <2>1. PICK r \in Rows, c \in {w, Absent} :
          /\ db' = [db EXCEPT ![MachineOf[w]][r] = c]
          /\ work' = [work EXCEPT ![w].at = "waiting", ![w].row = r, ![w].val = c,
                                  ![w].onto = Parents(MachineOf[w])]
    BY <1>5 DEF Writes
  <2>2. c \in Contents
    BY DEF Contents
  <2>3. db' \in [Machines -> Tables]
    BY <1>1, <2>1, <2>2 DEF Tables
  <2>4. Parents(MachineOf[w]) \subseteq Ids
    BY <1>1 DEF ClonesTyped, Parents
  <2> DEFINE j == [work[w] EXCEPT !.at = "waiting", !.row = r, !.val = c,
                                  !.onto = Parents(MachineOf[w])]
  <2>5. j \in Jobs /\ j.at \in Working
    <3>1. work[w] \in Jobs /\ "waiting" \in Working
      BY <1>1, <1>2
    <3> QED BY <3>1, <2>2, <2>4 DEF Jobs
  <2>6. work' = [work EXCEPT ![w] = j]
    BY <1>1, <2>1
  <2>7. UNCHANGED <<clones, notes, locks>>
    BY <1>5 DEF Writes
  <2> HIDE DEF j
  <2> QED BY <1>1, <2>3, <2>5, <2>6, <2>7, JobTyped
<1>6. ASSUME NEW w \in Workers, Locks(w) PROVE TypeOK'
  <2>1. ClonesTyped' /\ Ids' = Ids
    BY <1>1, <1>6, ClonesStay DEF Locks
  <2>2. PICK to \in Working : Goes(w, to)
    BY <1>2, <1>6 DEF Locks, Enters
  <2>3. LocksMove(w) /\ UNCHANGED db
    BY <1>6 DEF Locks, LocksMove, Moved
  <2>4. NotesTyped'
    BY <1>1, <1>6 DEF Locks, NotesTyped
  <2> QED BY <1>1, <2>1, <2>2, <2>3, <2>4, GoesOnTyped
<1>7. ASSUME NEW w \in Workers, Dumps(w) \/ Redumps(w) PROVE TypeOK'
  <2>1. PICK to \in Working :
          work' = [work EXCEPT ![w].at = to, ![w].dump = db[MachineOf[w]]]
    BY <1>2, <1>7 DEF Dumps, Redumps
  <2> DEFINE j == [work[w] EXCEPT !.at = to, !.dump = db[MachineOf[w]]]
  <2>2. db[MachineOf[w]] \in Tables
    BY <1>1
  <2>3. j \in Jobs /\ j.at = to
    <3>1. work[w] \in Jobs
      BY <1>1
    <3> QED BY <3>1, <2>2 DEF Jobs
  <2>4. work' = [work EXCEPT ![w] = j]
    BY <1>1, <2>1
  <2>5. UNCHANGED <<clones, notes, locks>> /\ db' \in [Machines -> Tables]
    BY <1>1, <1>7 DEF Dumps, Redumps
  <2> HIDE DEF j
  <2> QED BY <1>1, <2>3, <2>4, <2>5, JobTyped
<1>e. ASSUME NEW w \in Workers PROVE Exported(w) \subseteq Tables /\ MachineOf[w] \in Machines
  BY <1>1 DEF Jobs, Exported
<1>8. ASSUME NEW w \in Workers, Commits(w) PROVE TypeOK'
  <2>1. PICK rows \in Exported(w) :
          IF rows = Content(Local(w)) THEN UNCHANGED clones ELSE Commit(MachineOf[w], rows)
    BY <1>8 DEF Commits
  <2>2. ClonesTyped' /\ Ids \subseteq Ids'
    <3>1. CASE UNCHANGED clones
      BY <1>1, <3>1, ClonesStay
    <3>2. CASE Commit(MachineOf[w], rows)
      BY <1>1, <1>e, <3>2, CommitTyped
    <3> QED BY <2>1, <3>1, <3>2
  <2>3. UNCHANGED db /\ NotesTyped'
    BY <1>8, <1>n DEF Commits
  <2>4. CASE Goes(w, "committed") /\ UNCHANGED locks
    <3>1. LocksMove(w)
      BY <1>l, <2>4
    <3> QED BY <1>1, <1>2, <2>2, <2>3, <2>4, <3>1, GoesOnTyped
  <2>5. CASE Ends(w, "ok")
    BY <1>1, <1>2, <2>2, <2>3, <2>5, EndsTyped
  <2> QED BY <1>8, <2>4, <2>5 DEF Commits
<1>9. ASSUME NEW w \in Workers, Fetches(w) \/ FetchesToPush(w) PROVE TypeOK'
  <2>1. UNCHANGED <<commits, head, mergeHead, unimported, remote, db>> /\ NotesTyped'
    BY <1>9, <1>n DEF Fetches, FetchesToPush
  <2>2. tracking' = [tracking EXCEPT ![MachineOf[w]] = remote] \/ UNCHANGED tracking
    BY <1>9 DEF Fetches, FetchesToPush
  <2>3. ClonesTyped' /\ Ids' = Ids
    BY <1>1, <2>1, <2>2, BranchesTyped DEF ClonesTyped
  <2>4. \/ Goes(w, "fetched") /\ UNCHANGED locks
        \/ Goes(w, "pushing") /\ UNCHANGED locks
        \/ Ends(w, "ok") \/ EndsWithIssue(w)
    BY <1>9 DEF Fetches, FetchesToPush
  <2>5. CASE (Goes(w, "fetched") \/ Goes(w, "pushing")) /\ UNCHANGED locks
    BY <1>1, <1>2, <1>l, <2>1, <2>3, <2>5, GoesOnTyped
  <2>6. CASE Ends(w, "ok")
    BY <1>1, <1>2, <2>1, <2>3, <2>6, EndsTyped
  <2>7. CASE EndsWithIssue(w)
    BY <1>1, <2>1, <2>3, <2>7, IssueTyped
  <2> QED BY <2>4, <2>5, <2>6, <2>7
<1>10. ASSUME NEW w \in Workers, Compares(w) PROVE TypeOK'
  <2>1. UNCHANGED <<clones, db, notes>> /\ NotesTyped'
    BY <1>10, <1>n DEF Compares
  <2>2. ClonesTyped' /\ Ids' = Ids
    BY <1>1, <2>1, ClonesStay
  <2>3. CASE Goes(w, "merged") /\ UNCHANGED locks
    BY <1>1, <1>2, <1>l, <2>1, <2>2, <2>3, GoesOnTyped
  <2>4. CASE Ends(w, "conflict")
    BY <1>1, <1>2, <2>1, <2>2, <2>4, EndsTyped
  <2>5. CASE ~(Goes(w, "merged") /\ UNCHANGED locks) /\ ~Ends(w, "conflict")
    <3>1. PICK b \in Bases(Local(w), Upstream(w)) :
            /\ work' = [work EXCEPT ![w].at = "compared", ![w].up = Upstream(w),
                   ![w].dump = [r \in Rows |-> MergedRow(Content(b)[r], Content(Local(w))[r],
                                                         Content(Upstream(w))[r])]]
            /\ UNCHANGED locks
      BY <1>10, <2>5 DEF Compares
    <3>2. Local(w) \in Ids /\ Upstream(w) \in Ids
      BY <1>1 DEF ClonesTyped, Local, Upstream
    <3>3. b \in Ids
      BY <1>1, <3>2, CommitsTyped DEF Bases, CommitRecords
    <3> DEFINE merged == [r \in Rows |-> MergedRow(Content(b)[r], Content(Local(w))[r],
                                                   Content(Upstream(w))[r])]
    <3>4. merged \in Tables
      BY <1>1, <3>2, <3>3, ContentTyped DEF MergedRow, Tables
    <3> DEFINE j == [work[w] EXCEPT !.at = "compared", !.up = Upstream(w), !.dump = merged]
    <3>5. work' = [work EXCEPT ![w] = j]
      BY <1>1, <3>1
    <3> HIDE DEF merged
    <3>6. j \in Jobs /\ j.at = "compared"
      <4>1. work[w] \in Jobs /\ "compared" \in Working
        BY <1>1, <1>2
      <4> QED BY <4>1, <3>2, <3>4 DEF Jobs
    <3> HIDE DEF j
    <3> QED BY <1>1, <1>2, <2>1, <3>1, <3>5, <3>6, JobTyped
  <2> QED BY <2>3, <2>4, <2>5
<1>11. ASSUME NEW w \in Workers, BeginsMerge(w) PROVE TypeOK'
  <2>1. UNCHANGED <<commits, head, tracking, remote, db, notes>> /\ NotesTyped'
    BY <1>11, <1>n DEF BeginsMerge
  <2>2. /\ mergeHead' = [mergeHead EXCEPT ![MachineOf[w]] = work[w].up] \/ UNCHANGED mergeHead
        /\ unimported' = unimported \union {MachineOf[w]} \/ UNCHANGED unimported
    BY <1>11 DEF BeginsMerge
  <2>3. work[w].up \in {0} \union Ids
    BY <1>1 DEF Jobs
  <2>4. ClonesTyped' /\ Ids' = Ids
    <3>1. mergeHead' \in [Machines -> {0} \union Ids] /\ {head', tracking'} \subseteq [Machines -> Ids]
          /\ remote' \in Ids /\ UNCHANGED commits /\ unimported' \subseteq Machines
      BY <1>1, <2>1, <2>2, <2>3 DEF ClonesTyped
    <3> QED BY <1>1, <3>1, BranchesTyped
  <2>5. CASE mergeHead[MachineOf[w]] = 0
    <3>1. /\ Goes(w, "begun") /\ UNCHANGED <<gate, lock>>
          /\ authority' = [authority EXCEPT ![MachineOf[w]] = w]
      BY <1>11, <2>5 DEF BeginsMerge
    <3>2. LocksMove(w)
      BY <3>1 DEF LocksMove, Moved
    <3> QED BY <1>1, <1>2, <2>1, <2>4, <3>1, <3>2, GoesOnTyped
  <2>6. CASE mergeHead[MachineOf[w]] # 0
    <3>1. EndsWithIssue(w)
      BY <1>11, <2>6 DEF BeginsMerge
    <3> QED BY <1>1, <2>1, <2>4, <3>1, IssueTyped
  <2> QED BY <2>5, <2>6
<1>12. ASSUME NEW w \in Workers, Imports(w) PROVE TypeOK'
  <2>1. ClonesTyped' /\ Ids' = Ids
    <3>1. UNCHANGED <<commits, head, tracking, mergeHead, remote>> /\ unimported' \subseteq Machines
      BY <1>1, <1>12 DEF Imports, ClonesTyped
    <3> QED BY <1>1, <3>1, BranchesTyped DEF ClonesTyped
  <2>2. db' \in [Machines -> Tables]
    BY <1>1, <1>12 DEF Imports, Jobs
  <2>3. NotesTyped'
    BY <1>1, <1>12 DEF Imports, NotesTyped, Replaces
  <2>4. LocksMove(w) /\ Goes(w, "imported")
    BY <1>12 DEF Imports, LocksMove, Moved
  <2> QED BY <1>1, <1>2, <2>1, <2>2, <2>3, <2>4, GoesOnTyped
<1>13. ASSUME NEW w \in Workers, CommitsMerge(w) PROVE TypeOK'
  <2>1. UNCHANGED db /\ NotesTyped'
    BY <1>13, <1>n DEF CommitsMerge
  <2>2. CASE EndsWithIssue(w) /\ UNCHANGED clones
    BY <1>1, <2>1, <2>2, ClonesStay, IssueTyped
  <2>3. CASE ~(EndsWithIssue(w) /\ UNCHANGED clones)
    <3>1. PICK rows \in Exported(w) : Commit(MachineOf[w], rows)
      BY <1>13, <2>3 DEF CommitsMerge
    <3>2. ClonesTyped' /\ Ids \subseteq Ids'
      BY <1>1, <1>e, <3>1, CommitTyped
    <3>3. LocksMove(w) /\ Goes(w, "merged")
      BY <1>13, <1>l, <2>3 DEF CommitsMerge
    <3> QED BY <1>1, <1>2, <2>1, <3>2, <3>3, GoesOnTyped
  <2> QED BY <2>2, <2>3
<1>14. ASSUME NEW w \in Workers, Pushes(w) PROVE TypeOK'
  <2>1. UNCHANGED <<commits, head, mergeHead, unimported, db, notes>> /\ NotesTyped'
    BY <1>14, <1>n DEF Pushes
  <2>2. /\ \/ tracking' = [tracking EXCEPT ![MachineOf[w]] = head[MachineOf[w]]]
           \/ tracking' = [tracking EXCEPT ![MachineOf[w]] = remote]
        /\ remote' \in {remote, head[MachineOf[w]]}
    BY <1>14 DEF Pushes, Local
  <2>3. ClonesTyped' /\ Ids' = Ids
    BY <1>1, <2>1, <2>2, BranchesTyped DEF ClonesTyped
  <2>4. CASE Ends(w, "ok")
    BY <1>1, <1>2, <2>1, <2>3, <2>4, EndsTyped
  <2>5. CASE EndsWithIssue(w)
    BY <1>1, <2>1, <2>3, <2>5, IssueTyped
  <2> QED BY <1>14, <2>4, <2>5 DEF Pushes
<1>15. ASSUME NEW w \in Workers, Breaks(w) PROVE TypeOK'
  <2>1. ClonesTyped' /\ Ids' = Ids
    BY <1>1, <1>15, ClonesStay DEF Breaks
  <2>2. NotesTyped'
    BY <1>15, <1>n DEF Breaks
  <2>3. Ends(w, "failed") /\ UNCHANGED db
    BY <1>15 DEF Breaks
  <2> QED BY <1>1, <1>2, <2>1, <2>2, <2>3, EndsTyped
<1> QED
  BY <1>3, <1>4, <1>5, <1>6, <1>7, <1>8, <1>9, <1>10, <1>11, <1>12, <1>13, <1>14, <1>15
  DEF Next, Steps

-----------------------------------------------------------------------------
(* What a step does                                                        *)

\* What a step of w does to the clones: it follows the shared branch, begins a
\* merge, pushes, or commits what it dumped.
branches == <<commits, head, tracking, mergeHead, remote>>
Tracks(m) ==
  /\ tracking' = [tracking EXCEPT ![m] = remote]
  /\ UNCHANGED <<commits, head, mergeHead, unimported, remote>>
Begins(w) ==
  /\ work[w].at = "compared" /\ work'[w].at = "begun" /\ mergeHead[MachineOf[w]] = 0
  /\ ~IsIn(work[w].up, Local(w))
  /\ mergeHead' = [mergeHead EXCEPT ![MachineOf[w]] = work[w].up]
  /\ unimported' = unimported \union {MachineOf[w]}
  /\ UNCHANGED <<commits, head, tracking, remote>>
Publishes(w) ==
  /\ work[w].at = "pushing" /\ IsIn(remote, Local(w))
  /\ remote' = Local(w) /\ tracking' = [tracking EXCEPT ![MachineOf[w]] = Local(w)]
  /\ UNCHANGED <<commits, head, mergeHead, unimported>>
CommitsDump(w) == work[w].at \in Dumped /\ \E rows \in Exported(w) : Commit(MachineOf[w], rows)

\* One of these, or nothing.
LEMMA CloneMoves ==
  ASSUME TypeOK, NEW w \in Workers, Steps(w) \/ Breaks(w)
  PROVE  \/ UNCHANGED branches /\ (Imports(w) \/ UNCHANGED unimported)
         \/ Tracks(MachineOf[w]) /\ work[w].at \in {"committed", "merged", "pushing"}
         \/ BeginsMerge(w) /\ Begins(w)
         \/ (Commits(w) \/ CommitsMerge(w)) /\ CommitsDump(w)
         \/ Pushes(w) /\ Publishes(w)
<1>1. work \in [Workers -> Jobs]
  BY TypeParts
<1>2. CASE Admits(w) \/ Writes(w) \/ Locks(w) \/ Dumps(w) \/ Compares(w) \/ Imports(w)
           \/ Redumps(w) \/ Breaks(w)
  BY <1>2 DEF Admits, Writes, Locks, Dumps, Compares, Imports, Redumps, Breaks, clones, branches
<1>3. CASE Fetches(w) \/ FetchesToPush(w)
  BY <1>3 DEF Fetches, FetchesToPush, branches, Tracks
<1>4. CASE BeginsMerge(w)
  <2>1. CASE mergeHead[MachineOf[w]] = 0
    <3>1. Goes(w, "begun") => work'[w].at = "begun"
      BY <1>1 DEF Goes, Jobs
    <3> QED BY <1>4, <2>1, <3>1 DEF BeginsMerge, Begins, branches
  <2>2. CASE mergeHead[MachineOf[w]] # 0
    BY <1>4, <2>2 DEF BeginsMerge, branches
  <2> QED BY <2>1, <2>2
<1>5. CASE Commits(w) \/ CommitsMerge(w)
  <2>1. work[w].at \in Dumped
    BY <1>5 DEF Commits, CommitsMerge, Dumped
  <2>2. UNCHANGED clones \/ \E rows \in Exported(w) : Commit(MachineOf[w], rows)
    BY <1>5 DEF Commits, CommitsMerge
  <2> QED BY <1>5, <2>1, <2>2 DEF CommitsDump, clones, branches
<1>6. CASE Pushes(w)
  BY <1>6 DEF Pushes, Publishes, Tracks
<1> QED BY <1>2, <1>3, <1>4, <1>5, <1>6 DEF Steps

\* What a step keeps of what a command has noted.
Keeps(w) ==
  /\ work'[w].row = work[w].row /\ work'[w].val = work[w].val /\ work'[w].onto = work[w].onto
  /\ work'[w].dump = work[w].dump /\ work'[w].up = work[w].up
Moves(w, from, to) == work[w].at = from /\ work'[w].at \in to /\ Keeps(w)

\* Where each step of a command leads.
LEMMA Edges ==
  ASSUME TypeOK, NEW w \in Workers
  PROVE  /\ Admits(w) => Moves(w, "idle", {IF w \in Writers THEN "admitted" ELSE "waiting"})
         /\ Locks(w) => Moves(w, "waiting", {IF KindOf[w] = "push" THEN "merged" ELSE "locked"})
         /\ Commits(w) => Moves(w, "dumped", {IF GoesOn(w) THEN "committed" ELSE "ok"})
         /\ Fetches(w) => Moves(w, "committed", {"fetched", "issue", "failed"})
         /\ BeginsMerge(w) => Moves(w, "compared", {"begun", "issue", "failed"})
         /\ Imports(w) => Moves(w, "begun", {"imported"})
         /\ CommitsMerge(w) => Moves(w, "redumped", {"merged", "issue", "failed"})
         /\ FetchesToPush(w) => Moves(w, "merged", {"ok", "pushing", "issue", "failed"})
         /\ Pushes(w) => Moves(w, "pushing", {"ok", "issue", "failed"})
         /\ Breaks(w) => Moves(w, work[w].at, {"failed"}) /\ work[w].at \in Fragile
         /\ EndsWithIssue(w) => Moves(w, work[w].at, {IF w \in Writers THEN "issue" ELSE "failed"})
<1>1. ASSUME NEW to, Goes(w, to) PROVE work'[w].at = to /\ Keeps(w)
  BY <1>1, TypeParts DEF Goes, Jobs, Keeps
<1>2. ASSUME NEW to, Ends(w, to) PROVE work'[w].at = to /\ Keeps(w)
  BY <1>1, <1>2 DEF Ends
<1>3. EndsWithIssue(w) => work'[w].at = (IF w \in Writers THEN "issue" ELSE "failed") /\ Keeps(w)
  BY <1>2 DEF EndsWithIssue
<1>4. Admits(w) => Moves(w, "idle", {IF w \in Writers THEN "admitted" ELSE "waiting"})
  BY <1>1 DEF Admits, Moves
<1>5. Locks(w) => Moves(w, "waiting", {IF KindOf[w] = "push" THEN "merged" ELSE "locked"})
  BY <1>1 DEF Locks, Enters, Moves
<1>6. Commits(w) => Moves(w, "dumped", {IF GoesOn(w) THEN "committed" ELSE "ok"})
  BY <1>1, <1>2 DEF Commits, Moves
<1>7. Fetches(w) => Moves(w, "committed", {"fetched", "issue", "failed"})
  BY <1>1, <1>3 DEF Fetches, Moves
<1>8. BeginsMerge(w) => Moves(w, "compared", {"begun", "issue", "failed"})
  BY <1>1, <1>3 DEF BeginsMerge, Moves
<1>9. /\ Imports(w) => Moves(w, "begun", {"imported"})
      /\ CommitsMerge(w) => Moves(w, "redumped", {"merged", "issue", "failed"})
  BY <1>1, <1>3 DEF Imports, CommitsMerge, Moves
<1>10. FetchesToPush(w) => Moves(w, "merged", {"ok", "pushing", "issue", "failed"})
  <2>1. FetchesToPush(w) => Ends(w, "ok") \/ EndsWithIssue(w) \/ Goes(w, "pushing")
    BY DEF FetchesToPush
  <2> QED BY <1>1, <1>2, <1>3, <2>1 DEF FetchesToPush, Moves
<1>11. Pushes(w) => Moves(w, "pushing", {"ok", "issue", "failed"})
  BY <1>2, <1>3 DEF Pushes, Moves
<1>12. Breaks(w) => Moves(w, work[w].at, {"failed"}) /\ work[w].at \in Fragile
  BY <1>2 DEF Breaks, Moves
<1> QED BY <1>3, <1>4, <1>5, <1>6, <1>7, <1>8, <1>9, <1>10, <1>11, <1>12 DEF Moves

\* And the steps that note something.
LEMMA Noted ==
  ASSUME TypeOK, NEW w \in Workers
  PROVE  /\ Writes(w) =>
              /\ work[w].at = "admitted" /\ work'[w].at = "waiting"
              /\ work'[w].row \in Rows /\ work'[w].val \in {w, Absent}
              /\ (w \notin Deleters => work'[w].val = w)
              /\ work'[w].onto = Parents(MachineOf[w])
              /\ work'[w].dump = work[w].dump /\ work'[w].up = work[w].up
              /\ db' = [db EXCEPT ![MachineOf[w]][work'[w].row] = work'[w].val]
         /\ Dumps(w) \/ Redumps(w) =>
              /\ \/ work[w].at = "locked" /\ work'[w].at = "dumped"
                 \/ work[w].at = "imported" /\ work'[w].at = "redumped"
              /\ work'[w].dump = db[MachineOf[w]]
              /\ work'[w].row = work[w].row /\ work'[w].val = work[w].val
              /\ work'[w].onto = work[w].onto /\ work'[w].up = work[w].up
         /\ Compares(w) =>
              /\ work[w].at = "fetched" /\ work'[w].at \in {"merged", "compared", "conflict"}
              /\ work'[w].row = work[w].row /\ work'[w].val = work[w].val
              /\ work'[w].onto = work[w].onto /\ work'[w].up \in {work[w].up, Upstream(w)}
              /\ work'[w].at # "merged" => ~IsIn(Upstream(w), Local(w))
              /\ work'[w].at = "conflict" => \E b \in Bases(Local(w), Upstream(w)), r \in Rows :
                   Differs(Content(b)[r], Content(Local(w))[r], Content(Upstream(w))[r])
              /\ work'[w].at = "compared" => \E b \in Bases(Local(w), Upstream(w)) :
                   /\ \A r \in Rows : ~Differs(Content(b)[r], Content(Local(w))[r], Content(Upstream(w))[r])
                   /\ work'[w].up = Upstream(w)
                   /\ work'[w].dump = [r \in Rows |-> MergedRow(Content(b)[r], Content(Local(w))[r],
                                                               Content(Upstream(w))[r])]
<1>1. work[w] \in Jobs /\ work \in [Workers -> Jobs]
  BY TypeParts
<1>2. ASSUME Writes(w)
      PROVE  /\ work[w].at = "admitted" /\ work'[w].at = "waiting"
             /\ work'[w].row \in Rows /\ work'[w].val \in {w, Absent}
             /\ (w \notin Deleters => work'[w].val = w)
             /\ work'[w].onto = Parents(MachineOf[w])
             /\ work'[w].dump = work[w].dump /\ work'[w].up = work[w].up
             /\ db' = [db EXCEPT ![MachineOf[w]][work'[w].row] = work'[w].val]
  <2>1. PICK r \in Rows, c \in IF w \in Deleters THEN {w, Absent} ELSE {w} :
          /\ db' = [db EXCEPT ![MachineOf[w]][r] = c]
          /\ work' = [work EXCEPT ![w].at = "waiting", ![w].row = r, ![w].val = c,
                                  ![w].onto = Parents(MachineOf[w])]
    BY <1>2 DEF Writes
  <2>2. work'[w] = [work[w] EXCEPT !.at = "waiting", !.row = r, !.val = c,
                                   !.onto = Parents(MachineOf[w])]
    BY <1>1, <2>1
  <2>3. /\ work'[w].at = "waiting" /\ work'[w].row = r /\ work'[w].val = c
        /\ work'[w].onto = Parents(MachineOf[w])
        /\ work'[w].dump = work[w].dump /\ work'[w].up = work[w].up
    BY <1>1, <2>2 DEF Jobs
  <2>4. work[w].at = "admitted"
    BY <1>2 DEF Writes
  <2> QED BY <2>1, <2>3, <2>4
<1>3. ASSUME Dumps(w) \/ Redumps(w)
      PROVE  /\ \/ work[w].at = "locked" /\ work'[w].at = "dumped"
                \/ work[w].at = "imported" /\ work'[w].at = "redumped"
             /\ work'[w].dump = db[MachineOf[w]]
             /\ work'[w].row = work[w].row /\ work'[w].val = work[w].val
             /\ work'[w].onto = work[w].onto /\ work'[w].up = work[w].up
  BY <1>1, <1>3 DEF Dumps, Redumps, Jobs
<1>4. ASSUME Compares(w)
      PROVE  /\ work[w].at = "fetched" /\ work'[w].at \in {"merged", "compared", "conflict"}
             /\ work'[w].row = work[w].row /\ work'[w].val = work[w].val
             /\ work'[w].onto = work[w].onto /\ work'[w].up \in {work[w].up, Upstream(w)}
             /\ work'[w].at # "merged" => ~IsIn(Upstream(w), Local(w))
             /\ work'[w].at = "conflict" => \E b \in Bases(Local(w), Upstream(w)), r \in Rows :
                  Differs(Content(b)[r], Content(Local(w))[r], Content(Upstream(w))[r])
             /\ work'[w].at = "compared" => \E b \in Bases(Local(w), Upstream(w)) :
                  /\ \A r \in Rows : ~Differs(Content(b)[r], Content(Local(w))[r], Content(Upstream(w))[r])
                  /\ work'[w].up = Upstream(w)
                  /\ work'[w].dump = [r \in Rows |-> MergedRow(Content(b)[r], Content(Local(w))[r],
                                                              Content(Upstream(w))[r])]
  <2>0. work[w].at = "fetched"
    BY <1>4 DEF Compares
  <2>1. CASE IsIn(Upstream(w), Local(w))
    <3>1. Goes(w, "merged")
      BY <1>4, <2>1 DEF Compares
    <3>2. work'[w] = [work[w] EXCEPT !.at = "merged"]
      BY <1>1, <3>1 DEF Goes
    <3> QED BY <1>1, <2>0, <3>2 DEF Jobs
  <2>2. CASE ~IsIn(Upstream(w), Local(w))
    <3> DEFINE Conflicts(b) == \E r \in Rows : Differs(Content(b)[r], Content(Local(w))[r],
                                                       Content(Upstream(w))[r])
               merged(b) == [r \in Rows |-> MergedRow(Content(b)[r], Content(Local(w))[r],
                                                      Content(Upstream(w))[r])]
    <3>1. PICK b \in Bases(Local(w), Upstream(w)) :
            IF Conflicts(b) THEN Ends(w, "conflict")
            ELSE work' = [work EXCEPT ![w].at = "compared", ![w].up = Upstream(w),
                                      ![w].dump = merged(b)]
      BY <1>4, <2>2 DEF Compares
    <3> HIDE DEF Conflicts, merged
    <3>2. CASE Conflicts(b)
      <4>1. work'[w] = [work[w] EXCEPT !.at = "conflict"]
        BY <1>1, <3>1, <3>2 DEF Ends, Goes
      <4>2. /\ work'[w].at = "conflict" /\ work'[w].row = work[w].row /\ work'[w].val = work[w].val
            /\ work'[w].onto = work[w].onto /\ work'[w].up = work[w].up
        BY <1>1, <4>1 DEF Jobs
      <4> QED BY <2>0, <2>2, <3>2, <4>2 DEF Conflicts
    <3>3. CASE ~Conflicts(b)
      <4>1. work'[w] = [work[w] EXCEPT !.at = "compared", !.up = Upstream(w), !.dump = merged(b)]
        BY <1>1, <3>1, <3>3
      <4>2. /\ work'[w].at = "compared" /\ work'[w].up = Upstream(w) /\ work'[w].dump = merged(b)
            /\ work'[w].row = work[w].row /\ work'[w].val = work[w].val
            /\ work'[w].onto = work[w].onto
        BY <1>1, <4>1 DEF Jobs
      <4> QED BY <2>0, <2>2, <3>3, <4>2 DEF Conflicts, merged
    <3> QED BY <3>2, <3>3
  <2> QED BY <2>1, <2>2
<1> QED BY <1>2, <1>3, <1>4

LEMMA ExportedTyped == ASSUME TypeOK, NEW w \in Workers PROVE Exported(w) \subseteq Tables
BY TypeParts DEF Jobs, Exported

\* Commits are never lost or changed.
LEMMA CommitsStay ==
  ASSUME TypeOK, [Next]_vars
  PROVE  Ids \subseteq Ids' /\ \A c \in Ids : commits'[c] = commits[c]
<1>1. CASE UNCHANGED vars
  BY <1>1 DEF vars, Ids
<1>2. ASSUME NEW w \in Workers, Steps(w) \/ Breaks(w)
      PROVE  Ids \subseteq Ids' /\ \A c \in Ids : commits'[c] = commits[c]
  <2>1. CASE UNCHANGED commits
    BY <2>1 DEF Ids
  <2>2. CASE CommitsDump(w)
    <3>1. MachineOf[w] \in Machines
      BY SidecarConstants
    <3> QED BY <2>2, <3>1, ExportedTyped, CommitAdds DEF CommitsDump
  <2> QED BY <1>2, <2>1, <2>2, CloneMoves DEF branches, Tracks, Begins, Publishes
<1> QED BY <1>1, <1>2 DEF Next

LEMMA PlansStep == TypeInv /\ [Next]_vars => PlansTyped'
<1> SUFFICES ASSUME TypeInv, [Next]_vars, NEW x \in Workers, work'[x].at \in {"compared", "begun"}
             PROVE  work'[x].up \in Ids'
  BY DEF PlansTyped
<1>1. TypeOK /\ PlansTyped /\ work \in [Workers -> Jobs] /\ Ids \subseteq Ids'
  BY TypeParts, CommitsStay DEF TypeInv
<1>2. CASE work'[x] = work[x]
  BY <1>1, <1>2 DEF PlansTyped
<1>3. CASE UNCHANGED vars
  BY <1>2, <1>3 DEF vars
<1>4. ASSUME NEW w \in Workers, Steps(w) \/ Breaks(w), x = w
      PROVE  work'[x].up \in Ids'
  <2>1. CASE Compares(w)
    <3>1. Local(w) \in Ids /\ Upstream(w) \in Ids
      BY <1>1, TypeParts, SidecarConstants DEF ClonesTyped, Local, Upstream
    <3> QED BY <1>1, <1>4, <2>1, <3>1, Noted
  <2>2. CASE BeginsMerge(w)
    <3>1. work[w].at = "compared" /\ work'[w].up = work[w].up
      BY <1>1, <2>2, Edges DEF Moves, Keeps
    <3> QED BY <1>1, <1>4, <3>1 DEF PlansTyped
  <2>3. CASE ~Compares(w) /\ ~BeginsMerge(w)
    <3>1. work'[w].at \notin {"compared", "begun"}
      <4>1. CASE Writes(w) \/ Dumps(w) \/ Redumps(w)
        BY <1>1, <4>1, Noted
      <4>2. CASE ~(Writes(w) \/ Dumps(w) \/ Redumps(w))
        BY <1>1, <1>4, <2>3, <4>2, Edges DEF Moves, Steps
      <4> QED BY <4>1, <4>2
    <3> QED BY <1>4, <3>1
  <2> QED BY <2>1, <2>2, <2>3
<1> QED BY <1>2, <1>3, <1>4, <1>1, WorkMoves DEF Next

LEMMA TypeSteps == TypeInv /\ [Next]_vars => TypeInv'
BY TypeStep, PlansStep DEF TypeInv

LEMMA TypeStarts == Init => TypeInv
BY TypeInit DEF Init, Idle, TypeInv, PlansTyped

LEMMA TypeAlways == Spec => []TypeInv
BY TypeStarts, TypeSteps, PTL DEF Spec

\* For any number of machines, commands and rows: what the clones, the databases and
\* the commands of commit_sidecar_changes and the push hold is what the code has
\* there, and a lock is held by a command of its machine that is at work.
THEOREM SidecarTypeCorrect == Spec => []TypeOK
<1>1. TypeInv => TypeOK
  BY DEF TypeInv
<1> QED BY <1>1, TypeAlways, PTL

-----------------------------------------------------------------------------
(* The gate and the runtime lock                                           *)

\* A command past the runtime lock of its clone has it, if it could be had, and an
\* atomic one its gate.
LockInv ==
  \A w \in Workers :
    /\ work[w].at \in Holding => lock[MachineOf[w]] = w \/ w \in unlocked
    /\ work[w].at \in Working /\ KindOf[w] = "atomic" => gate[MachineOf[w]] = w
HeldInv == TypeInv /\ LockInv

\* A machine where a command has gone on without the lock stays one.
LEMMA LocksMissed ==
  ASSUME [Next]_vars
  PROVE  unlocked \subseteq unlocked' /\ \A m \in Machines : Unguarded(m) => Unguarded(m)'
<1>1. unlocked \subseteq unlocked'
  <2>1. CASE UNCHANGED vars
    BY <2>1 DEF vars
  <2>2. ASSUME NEW w \in Workers, Steps(w) \/ Breaks(w) PROVE unlocked \subseteq unlocked'
    <3>1. CASE Locks(w) \/ Imports(w) \/ Fetches(w) \/ FetchesToPush(w) \/ Breaks(w)
      BY <3>1 DEF Locks, Imports, Fetches, FetchesToPush, Breaks
    <3>2. CASE ~(Locks(w) \/ Imports(w) \/ Fetches(w) \/ FetchesToPush(w) \/ Breaks(w))
      <4>1. UNCHANGED notes
        BY <2>2, <3>2 DEF Steps, Admits, Writes, Dumps, Commits, Compares, BeginsMerge, Redumps,
             CommitsMerge, Pushes
      <4> QED BY <4>1 DEF notes
    <3> QED BY <3>1, <3>2
  <2> QED BY <2>1, <2>2 DEF Next
<1> QED BY <1>1 DEF Unguarded

\* What a step does to the gate and to the runtime lock.
LEMMA LockMoves ==
  ASSUME TypeOK, NEW w \in Workers, Steps(w) \/ Breaks(w)
  PROVE  \/ /\ Locks(w)
            /\ \/ lock[MachineOf[w]] = None /\ lock' = [lock EXCEPT ![MachineOf[w]] = w]
               \/ w \in unlocked' /\ UNCHANGED lock
            /\ work[w].at = "waiting" /\ work'[w].at \in {"locked", "merged"} /\ UNCHANGED gate
         \/ /\ Admits(w) /\ work'[w].at \in {"admitted", "waiting"} /\ UNCHANGED lock
            /\ IF KindOf[w] = "atomic"
               THEN gate[MachineOf[w]] = None /\ gate' = [gate EXCEPT ![MachineOf[w]] = w]
               ELSE UNCHANGED gate
         \/ /\ UNCHANGED <<gate, lock>>
            /\ work'[w].at \in Holding => work[w].at \in Holding
            /\ work'[w].at \in Working => work[w].at \in Working
         \/ Releases(w) /\ work'[w].at \in Ended
<1>1. CASE Locks(w)
  BY <1>1, Edges DEF Locks, Moves
<1>2. CASE Admits(w)
  BY <1>2, Edges DEF Admits, Moves
<1>3. ASSUME NEW to, Ends(w, to), to \in Ended PROVE Releases(w) /\ work'[w].at \in Ended
  BY <1>3, TypeParts DEF Ends, Goes, Jobs
<1>4. EndsWithIssue(w) => Releases(w) /\ work'[w].at \in Ended
  BY <1>3 DEF EndsWithIssue, Ended, Succeeded
<1>5. {"ok", "issue", "conflict", "failed"} = Ended
  BY DEF Ended, Succeeded
<1>6. CASE Writes(w) \/ Dumps(w) \/ Redumps(w)
  BY <1>6, Noted DEF Writes, Dumps, Redumps, locks, Holding, Working
<1>7. CASE Compares(w)
  <2>1. work[w].at = "fetched"
    BY <1>7 DEF Compares
  <2>2. CASE UNCHANGED locks
    BY <2>1, <2>2 DEF locks, Holding, Working
  <2>3. CASE Ends(w, "conflict")
    BY <1>3, <1>5, <2>3
  <2> QED BY <1>7, <2>2, <2>3 DEF Compares
<1>8. CASE Commits(w)
  BY <1>3, <1>5, <1>8, Edges DEF Commits, Moves, locks, Holding, Working
<1>9. CASE Fetches(w)
  BY <1>4, <1>9, Edges DEF Fetches, Moves, locks, Holding, Working
<1>10. CASE BeginsMerge(w)
  BY <1>4, <1>10, Edges DEF BeginsMerge, Moves, Holding, Working
<1>11. CASE Imports(w) \/ CommitsMerge(w)
  BY <1>4, <1>11, Edges DEF Imports, CommitsMerge, Moves, locks, Holding, Working
<1>12. CASE FetchesToPush(w)
  <2>1. Ends(w, "ok") \/ EndsWithIssue(w) \/ UNCHANGED locks
    BY <1>12 DEF FetchesToPush
  <2>2. work[w].at = "merged"
    BY <1>12 DEF FetchesToPush
  <2> QED BY <1>3, <1>4, <1>5, <2>1, <2>2 DEF locks, Holding, Working
<1>13. CASE Pushes(w)
  BY <1>3, <1>4, <1>5, <1>13 DEF Pushes
<1>14. CASE Breaks(w)
  BY <1>3, <1>5, <1>14 DEF Breaks
<1> QED
  BY <1>1, <1>2, <1>6, <1>7, <1>8, <1>9, <1>10, <1>11, <1>12, <1>13, <1>14 DEF Steps

LEMMA LockSteps == HeldInv /\ [Next]_vars => LockInv'
<1> SUFFICES ASSUME HeldInv, [Next]_vars, NEW x \in Workers
             PROVE  /\ work'[x].at \in Holding => lock'[MachineOf[x]] = x \/ x \in unlocked'
                    /\ work'[x].at \in Working /\ KindOf[x] = "atomic" => gate'[MachineOf[x]] = x
  BY DEF LockInv
<1> USE SidecarConstants
<1>1. TypeOK /\ LockInv /\ MachineOf[x] \in Machines /\ {gate, lock} \subseteq [Machines -> Workers \union {None}]
  BY TypeParts DEF HeldInv, TypeInv, LocksTyped
<1>2. /\ work[x].at \in Holding => lock[MachineOf[x]] = x \/ x \in unlocked'
      /\ work[x].at \in Working /\ KindOf[x] = "atomic" => gate[MachineOf[x]] = x
  BY <1>1, LocksMissed DEF LockInv
<1>3. CASE UNCHANGED vars
  BY <1>2, <1>3 DEF vars
<1>4. ASSUME NEW w \in Workers, Steps(w) \/ Breaks(w)
      PROVE  /\ work'[x].at \in Holding => lock'[MachineOf[x]] = x \/ x \in unlocked'
             /\ work'[x].at \in Working /\ KindOf[x] = "atomic" => gate'[MachineOf[x]] = x
  <2>1. x # w => work'[x] = work[x]
    BY <1>1, <1>4, WorkMoves
  <2>2. \A f \in {gate, lock} : Freed(f, w)[MachineOf[x]] = IF f[MachineOf[x]] = w THEN None ELSE f[MachineOf[x]]
    BY <1>1 DEF Freed
  <2>3. Ended \intersect Working = {} /\ Holding \subseteq Working
        /\ {"waiting", "admitted"} \intersect Holding = {}
    BY DEF Ended, Succeeded, Working, Holding
  <2>4. CASE Releases(w) /\ work'[w].at \in Ended
    BY <1>2, <2>1, <2>2, <2>3, <2>4 DEF Releases
  <2>5. CASE /\ UNCHANGED <<gate, lock>>
             /\ work'[w].at \in Holding => work[w].at \in Holding
             /\ work'[w].at \in Working => work[w].at \in Working
    BY <1>2, <2>1, <2>5
  <2>6. CASE /\ Locks(w)
             /\ \/ lock[MachineOf[w]] = None /\ lock' = [lock EXCEPT ![MachineOf[w]] = w]
                \/ w \in unlocked' /\ UNCHANGED lock
             /\ work[w].at = "waiting" /\ work'[w].at \in {"locked", "merged"} /\ UNCHANGED gate
    <3>1. work[w].at \in Working
      BY <2>6 DEF Working
    <3> QED BY <1>1, <1>2, <2>1, <2>6, <3>1
  <2>7. CASE /\ Admits(w) /\ work'[w].at \in {"admitted", "waiting"} /\ UNCHANGED lock
             /\ IF KindOf[w] = "atomic"
                THEN gate[MachineOf[w]] = None /\ gate' = [gate EXCEPT ![MachineOf[w]] = w]
                ELSE UNCHANGED gate
    BY <1>1, <1>2, <2>1, <2>3, <2>7
  <2> QED BY <1>1, <1>4, <2>4, <2>5, <2>6, <2>7, LockMoves
<1> QED BY <1>3, <1>4 DEF Next

\* One command at a time is past the runtime lock of a clone, and commits its own dump.
LEMMA Alone ==
  ASSUME HeldInv, NEW w \in Workers, NEW x \in Workers, MachineOf[w] = MachineOf[x],
         work[w].at \in Holding, work[x].at \in Holding, ~Unguarded(MachineOf[w])
  PROVE  x = w
BY DEF HeldInv, LockInv, Unguarded

LEMMA OwnDump ==
  ASSUME HeldInv, NEW w \in Workers, work[w].at \in Dumped, ~Unguarded(MachineOf[w])
  PROVE  Exported(w) = {work[w].dump}
<1>1. \A y \in Workers : MachineOf[y] = MachineOf[w] /\ work[y].at \in Dumped => y = w
  <2>1. Dumped \subseteq Holding
    BY DEF Dumped, Holding, Working
  <2> QED BY <2>1, Alone
<1> QED BY <1>1 DEF Exported, Dumped

LEMMA LockAlways == Spec => []HeldInv
<1>1. Init => HeldInv
  BY TypeStarts DEF Init, Idle, HeldInv, LockInv, Holding, Working
<1>2. HeldInv /\ [Next]_vars => HeldInv'
  BY TypeSteps, LockSteps DEF HeldInv
<1> QED BY <1>1, <1>2, PTL DEF Spec

\* What a command has written, and which commands come to a merge.
StepOK(w) ==
  /\ work[w].at \in Merging => GoesOn(w)
  /\ work[w].at \in {"idle", "admitted"} => work[w].row = None
  /\ work[w].at = "admitted" => w \in Writers
  /\ w \notin Writers => work[w].row = None
  /\ work[w].row # None => work[w].val \in {w, Absent}
  /\ w \in Writers /\ work[w].at \notin {"idle", "admitted", "failed"} => work[w].row # None
StepInv == \A w \in Workers : StepOK(w)
WorkInv == HeldInv /\ StepInv

LEMMA StepSteps == WorkInv /\ [Next]_vars => StepInv'
<1> SUFFICES ASSUME WorkInv, [Next]_vars, NEW x \in Workers
             PROVE  StepOK(x)'
  BY DEF StepInv
<1> USE SidecarConstants
<1>1. TypeOK /\ StepOK(x) /\ work[x] \in Jobs /\ None \notin Rows
  BY TypeParts DEF WorkInv, HeldInv, TypeInv, StepInv
<1>2. CASE work'[x] = work[x]
  BY <1>1, <1>2 DEF StepOK
<1>3. CASE UNCHANGED vars
  BY <1>2, <1>3 DEF vars
<1>4. ASSUME Steps(x) \/ Breaks(x) PROVE StepOK(x)'
  <2>1. CASE Writes(x)
    BY <1>1, <2>1, Noted DEF StepOK, Merging
  <2>2. CASE Dumps(x) \/ Redumps(x)
    BY <1>1, <2>2, Noted DEF StepOK, Merging
  <2>3. CASE Compares(x)
    BY <1>1, <2>3, Noted DEF StepOK, Merging
  <2>4. CASE Admits(x)
    BY <1>1, <2>4, Edges DEF StepOK, Merging, Moves, Keeps
  <2>5. CASE Locks(x) \/ Commits(x) \/ Fetches(x)
    BY <1>1, <2>5, Edges DEF StepOK, Merging, Moves, Keeps
  <2>6. CASE BeginsMerge(x) \/ Imports(x) \/ CommitsMerge(x)
    BY <1>1, <2>6, Edges DEF StepOK, Merging, Moves, Keeps
  <2>7. CASE FetchesToPush(x) \/ Pushes(x)
    BY <1>1, <2>7, Edges DEF StepOK, Merging, Moves, Keeps
  <2>8. CASE Breaks(x)
    BY <1>1, <2>8, Edges DEF StepOK, Merging, Moves, Keeps
  <2> QED BY <1>4, <2>1, <2>2, <2>3, <2>4, <2>5, <2>6, <2>7, <2>8 DEF Steps
<1> QED BY <1>1, <1>2, <1>3, <1>4, WorkMoves DEF Next

LEMMA WorkAlways == Spec => []WorkInv
<1>1. Init => StepInv
  BY DEF Init, Idle, StepInv, StepOK, Merging
<1>2. WorkInv /\ [Next]_vars => StepInv'
  BY StepSteps
<1> QED BY <1>1, <1>2, LockAlways, PTL DEF Spec, WorkInv

-----------------------------------------------------------------------------
(* A machine at rest                                                       *)

\* Commands that have yet to dump, or that failed to.
PendingAt(w) ==
  /\ work[w].at \in {"waiting", "locked", "imported", "failed"}
  /\ work[w].at = "waiting" => KindOf[w] # "push"
Pending(m) == \E w \in Workers : MachineOf[w] = m /\ PendingAt(w)
LEMMA ContentsStay ==
  ASSUME TypeOK, [Next]_vars, NEW c \in Ids PROVE Content(c)' = Content(c) /\ Anc(c)' = Anc(c)
BY CommitsStay DEF Content, Anc

\* A step leaves the other machines' work, databases and branches alone.
LEMMA OtherMachines ==
  ASSUME TypeOK, NEW w \in Workers, Steps(w) \/ Breaks(w), NEW m \in Machines, m # MachineOf[w]
  PROVE  /\ db'[m] = db[m] /\ head'[m] = head[m] /\ tracking'[m] = tracking[m]
         /\ mergeHead'[m] = mergeHead[m] /\ (m \in unimported' <=> m \in unimported)
         /\ \A x \in Workers : MachineOf[x] = m => work'[x] = work[x]
<1> USE SidecarConstants
<1>1. db \in [Machines -> Tables] /\ ClonesTyped /\ MachineOf[w] \in Machines
  BY TypeParts
<1>2. db'[m] = db[m]
  <2>1. CASE Writes(w)
    BY <1>1, <2>1, Noted
  <2>2. CASE Imports(w)
    BY <1>1, <2>2 DEF Imports
  <2>3. CASE ~Writes(w) /\ ~Imports(w)
    <3>1. UNCHANGED db
      BY <2>3 DEF Steps, Breaks, Admits, Locks, Dumps, Commits, Fetches, Compares, BeginsMerge,
           Redumps, CommitsMerge, FetchesToPush, Pushes
    <3> QED BY <3>1
  <2> QED BY <2>1, <2>2, <2>3
<1>3. /\ head'[m] = head[m] /\ tracking'[m] = tracking[m] /\ mergeHead'[m] = mergeHead[m]
      /\ (m \in unimported' <=> m \in unimported)
  <2>1. CASE UNCHANGED branches /\ (Imports(w) \/ UNCHANGED unimported)
    BY <1>1, <2>1 DEF branches, Imports
  <2>2. CASE Tracks(MachineOf[w])
    BY <1>1, <2>2 DEF Tracks, ClonesTyped
  <2>3. CASE Begins(w)
    BY <1>1, <2>3 DEF Begins, ClonesTyped
  <2>4. CASE CommitsDump(w)
    BY <1>1, <2>4 DEF CommitsDump, Commit, ClonesTyped
  <2>5. CASE Publishes(w)
    BY <1>1, <2>5 DEF Publishes, ClonesTyped
  <2> QED BY <2>1, <2>2, <2>3, <2>4, <2>5, CloneMoves
<1> QED BY <1>2, <1>3, WorkMoves

Quiet(m) == Unguarded(m) \/
  /\ \/ db[m] = Content(head[m]) \/ Pending(m)
     \/ \E w \in Workers : MachineOf[w] = m /\ work[w].at \in Dumped
  /\ \A w \in Workers : MachineOf[w] = m /\ work[w].at \in Dumped => work[w].dump = db[m] \/ Pending(m)

LEMMA QuietStep ==
  ASSUME WorkInv, NEW m \in Machines, Quiet(m), [Next]_vars
  PROVE  Quiet(m)'
<1> USE SidecarConstants
<1>0. SUFFICES ASSUME ~Unguarded(m)' PROVE Quiet(m)'
  BY DEF Quiet
<1>1. /\ TypeOK /\ ClonesTyped /\ db \in [Machines -> Tables] /\ work \in [Workers -> Jobs]
      /\ head[m] \in Ids /\ HeldInv /\ ~Unguarded(m)
  BY <1>0, TypeParts, LocksMissed DEF WorkInv, HeldInv, TypeInv, ClonesTyped
<1>2. \A c \in Ids : commits'[c].rows = commits[c].rows
  BY <1>1, CommitsStay
<1>3. CASE UNCHANGED vars
  BY <1>1, <1>2, <1>3 DEF vars, Quiet, Pending, PendingAt, Content
<1>4. ASSUME NEW w \in Workers, Steps(w) \/ Breaks(w), MachineOf[w] # m PROVE Quiet(m)'
  BY <1>1, <1>2, <1>4, OtherMachines DEF Quiet, Pending, PendingAt, Content
<1>5. ASSUME NEW w \in Workers, Steps(w) \/ Breaks(w), MachineOf[w] = m PROVE Quiet(m)'
  <2>1. \A x \in Workers \ {w} : work'[x] = work[x]
    BY <1>1, <1>5, WorkMoves
  <2>2. ASSUME PendingAt(w)' PROVE Quiet(m)'
    BY <1>5, <2>2 DEF Quiet, Pending
  <2>3. CASE Writes(w)
    <3>1. KindOf[w] # "push"
      BY <1>5, <2>3 DEF WorkInv, StepInv, StepOK, Writes, Writers
    <3> QED BY <1>1, <2>2, <2>3, <3>1, Noted DEF PendingAt
  <2>4. CASE Imports(w) \/ Breaks(w) \/ (Locks(w) /\ KindOf[w] # "push")
    BY <1>1, <2>2, <2>4, Edges DEF PendingAt, Moves
  <2>5. CASE Dumps(w) \/ Redumps(w)
    <3>1. /\ db' = db /\ work'[w].dump = db[m] /\ work'[w].at \in Dumped /\ work[w].at \in Holding
      BY <1>1, <1>5, <2>5, Noted DEF Dumps, Redumps, Dumped, Holding, Working
    <3>2. \A x \in Workers : MachineOf[x] = m /\ work'[x].at \in Dumped => x = w
      <4>1. Dumped \subseteq Holding
        BY DEF Dumped, Holding, Working
      <4> QED BY <1>1, <1>5, <2>1, <3>1, <4>1, Alone
    <3> QED BY <1>5, <3>1, <3>2 DEF Quiet
  <2>6. CASE Commits(w) \/ CommitsMerge(w)
    <3>1. work[w].at \in Dumped /\ work'[w].at \notin Dumped /\ ~PendingAt(w) /\ db' = db
      BY <1>1, <2>6, Edges DEF Moves, Dumped, PendingAt, Commits, CommitsMerge
    <3>2. CASE Pending(m)
      <4>1. PICK x \in Workers : MachineOf[x] = m /\ PendingAt(x)
        BY <3>2 DEF Pending
      <4>2. PendingAt(x)'
        BY <2>1, <3>1, <4>1 DEF PendingAt
      <4> QED BY <4>1, <4>2 DEF Quiet, Pending
    <3>3. CASE ~Pending(m)
      <4>1. work[w].dump = db[m]
        BY <1>1, <1>5, <3>1, <3>3 DEF Quiet
      <4>2. db'[m] = Content(head[m])'
        <5>1. CASE UNCHANGED clones /\ work[w].dump = Content(head[m])
          BY <3>1, <4>1, <5>1 DEF clones, Content
        <5>2. CASE Commit(m, work[w].dump)
          <6>1. work[w].dump \in Tables
            BY <1>1 DEF Jobs
          <6>2. commits'[head'[m]].rows = work[w].dump
            BY <1>1, <5>2, <6>1, CommitAdds DEF ClonesTyped
          <6> QED BY <3>1, <4>1, <6>2 DEF Content
        <5>3. Exported(w) = {work[w].dump}
          BY <1>1, <1>5, <3>1, OwnDump
        <5> QED BY <1>5, <2>6, <5>1, <5>2, <5>3 DEF Commits, CommitsMerge, Local
      <4>3. \A x \in Workers : MachineOf[x] = m => work'[x].at \notin Dumped
        <5>1. Dumped \subseteq Holding
          BY DEF Dumped, Holding, Working
        <5> QED BY <1>1, <1>5, <2>1, <3>1, <5>1, Alone
      <4> QED BY <4>2, <4>3 DEF Quiet
    <3> QED BY <3>2, <3>3
  <2>7. CASE \/ Admits(w) \/ (Locks(w) /\ KindOf[w] = "push") \/ Fetches(w) \/ Compares(w)
             \/ BeginsMerge(w) \/ FetchesToPush(w) \/ Pushes(w)
    <3>1. UNCHANGED <<commits, head, db>>
      BY <2>7 DEF Admits, Locks, Fetches, Compares, BeginsMerge, FetchesToPush, Pushes, clones
    <3>2. ~PendingAt(w) /\ work[w].at \notin Dumped /\ work'[w].at \notin Dumped
      <4>1. CASE Compares(w)
        BY <1>1, <4>1, Noted DEF PendingAt, Dumped
      <4>2. CASE Admits(w) \/ (Locks(w) /\ KindOf[w] = "push") \/ Fetches(w)
        BY <1>1, <4>2, Edges DEF PendingAt, Dumped, Moves
      <4>3. CASE BeginsMerge(w) \/ FetchesToPush(w) \/ Pushes(w)
        BY <1>1, <4>3, Edges DEF PendingAt, Dumped, Moves
      <4> QED BY <2>7, <4>1, <4>2, <4>3
    <3>3. Pending(m) => Pending(m)'
      BY <2>1, <3>2 DEF Pending, PendingAt
    <3>4. \A x \in Workers : work'[x].at \in Dumped <=> work[x].at \in Dumped
      BY <2>1, <3>2
    <3>5. \A x \in Workers : work[x].at \in Dumped => work'[x].dump = work[x].dump
      BY <2>1, <3>2
    <3> QED BY <1>1, <3>1, <3>3, <3>4, <3>5 DEF Quiet, Content
  <2> QED BY <1>5, <2>3, <2>4, <2>5, <2>6, <2>7 DEF Steps
<1> QED BY <1>3, <1>4, <1>5 DEF Next

\* When no command of a machine is at work and none has failed, the database says
\* what the machine's branch says: the dump and the commit after each write leave
\* nothing of it behind, whichever command came to them first.
THEOREM QuietMachinesCommit == Spec => []QuietMachinesAreCommitted
<1> DEFINE AllQuiet == \A m \in Machines : Quiet(m)
<1>1. Init => AllQuiet
  BY DEF Init, Idle, Quiet, Dumped, Content
<1>2. WorkInv /\ AllQuiet /\ [Next]_vars => AllQuiet'
  BY QuietStep
<1>3. AllQuiet => QuietMachinesAreCommitted
  BY DEF Quiet, QuietMachinesAreCommitted, Pending, PendingAt, Dumped, Succeeded
<1> HIDE DEF AllQuiet
<1> QED BY <1>1, <1>2, <1>3, WorkAlways, PTL DEF Spec

-----------------------------------------------------------------------------
(* The graph of commits                                                    *)

\* A commit's ancestors are it and theirs; the first commit is everyone's.
AncestorsOK ==
  \A c \in Ids : /\ c \in Anc(c) /\ 1 \in Anc(c) /\ Anc(c) \subseteq 1 .. c
                 /\ \A d \in Anc(c) : Anc(d) \subseteq Anc(c)

RemoteBehind ==
  \A m \in Machines :
    /\ tracking[m] \in Anc(remote)
    /\ mergeHead[m] # 0 => mergeHead[m] \in Anc(tracking[m]) \ Anc(head[m])

\* What two machines have in common is published.
CommonPublished ==
  \A m, n \in Machines : m # n => Anc(head[m]) \intersect Anc(head[n]) \subseteq Anc(remote)

\* A machine has in common with the shared branch what it had when it was last
\* in step with it.
Synced(m, s) ==
  /\ Anc(head[m]) \intersect Anc(remote) = Anc(s)
  /\ s \in Anc(tracking[m])
  /\ mergeHead[m] # 0 => s \in Anc(mergeHead[m])
InStep == \A m \in Machines : \E s \in Ids : Synced(m, s)

\* What a command has compared with its clone is behind what the clone follows.
UpFollowed == \A w \in Workers : work[w].up # 0 => work[w].up \in Anc(tracking[MachineOf[w]])

\* The commits that are or were the tip of the shared branch, as far as anyone
\* remembers them: of two, one descends from the other.
Tip(c) ==
  \/ c = remote
  \/ \E m \in Machines : c = tracking[m] \/ (mergeHead[m] # 0 /\ c = mergeHead[m]) \/ Synced(m, c)
  \/ \E w \in Workers : work[w].up # 0 /\ c = work[w].up
TipsInLine == \A c, d \in Ids : Tip(c) /\ Tip(d) => c \in Anc(d) \/ d \in Anc(c)

\* A merge that has been compared, and one that has been begun, where every command
\* has had the lock.
Compared(m, s, up) ==
  /\ up \in Anc(tracking[m]) \ Anc(head[m])
  /\ s \in Anc(up) /\ Synced(m, s)
  /\ \A r \in Rows : ~Differs(Content(s)[r], Content(head[m])[r], Content(up)[r])
Plan(w, s) ==
  /\ Compared(MachineOf[w], s, work[w].up)
  /\ work[w].dump = [r \in Rows |-> MergedRow(Content(s)[r], Content(Local(w))[r], Content(work[w].up)[r])]
PlanInv ==
  \A w \in Workers : ~Unguarded(MachineOf[w]) =>
    /\ work[w].at \in {"compared", "begun"} => \E s \in Ids : Plan(w, s)
    /\ work[w].at = "begun" => mergeHead[MachineOf[w]] = work[w].up
MergePlanned ==
  \A m \in Machines : mergeHead[m] # 0 /\ ~Unguarded(m) =>
    \E s \in Ids : Compared(m, s, mergeHead[m])

Graph == AncestorsOK /\ RemoteBehind /\ CommonPublished

LEMMA Older ==
  ASSUME TypeOK, AncestorsOK, NEW c \in Ids
  PROVE  /\ Anc(c) \subseteq Ids /\ c \in Anc(c) /\ 1 \in Anc(c)
         /\ \A d \in Anc(c) : d \in Ids /\ d <= c /\ Anc(d) \subseteq Anc(c)
<1>1. Ids = 1 .. Len(commits) /\ Len(commits) \in Nat
  BY CommitsTyped
<1>2. c \in Anc(c) /\ 1 \in Anc(c) /\ Anc(c) \subseteq 1 .. c /\ \A d \in Anc(c) : Anc(d) \subseteq Anc(c)
  BY DEF AncestorsOK
<1> QED BY <1>1, <1>2

\* A commit is known by its ancestors.
LEMMA SameAncestors ==
  ASSUME TypeOK, AncestorsOK, NEW c \in Ids, NEW d \in Ids, Anc(c) = Anc(d)
  PROVE  c = d
<1>1. c <= d /\ d <= c
  BY Older
<1> QED BY <1>1, CommitsTyped

LEMMA Branches ==
  ASSUME TypeOK, NEW m \in Machines
  PROVE  head[m] \in Ids /\ tracking[m] \in Ids /\ remote \in Ids /\ mergeHead[m] \in {0} \union Ids /\ 0 \notin Ids
BY TypeParts, CommitsTyped DEF ClonesTyped

\* What a clone follows is on the shared branch.
LEMMA Behind ==
  ASSUME TypeOK, Graph, NEW m \in Machines
  PROVE  /\ tracking[m] \in Anc(remote) /\ Anc(tracking[m]) \subseteq Anc(remote)
         /\ mergeHead[m] # 0 =>
              /\ mergeHead[m] \in Anc(tracking[m]) \ Anc(head[m])
              /\ Anc(mergeHead[m]) \subseteq Anc(tracking[m])
<1>1. /\ tracking[m] \in Anc(remote)
      /\ mergeHead[m] # 0 => mergeHead[m] \in Anc(tracking[m]) \ Anc(head[m])
  BY DEF Graph, RemoteBehind
<1> QED BY <1>1, Branches, Older DEF Graph

\* A clone that can push has no merge under way, and was last in step with what is shared.
LEMMA Pushable ==
  ASSUME TypeOK, Graph, NEW m \in Machines, remote \in Anc(head[m])
  PROVE  /\ Anc(remote) \subseteq Anc(head[m]) /\ mergeHead[m] = 0
         /\ \A s \in Ids : Synced(m, s) => s = remote
<1>1. Anc(remote) \subseteq Anc(head[m])
  BY Branches, Older DEF Graph
<1>2. mergeHead[m] = 0
  BY <1>1, Behind
<1>3. ASSUME NEW s \in Ids, Synced(m, s) PROVE s = remote
  <2>1. Anc(s) = Anc(remote)
    BY <1>1, <1>3 DEF Synced
  <2> QED BY <2>1, Branches, SameAncestors DEF Graph
<1> QED BY <1>1, <1>2, <1>3

LEMMA SyncedOnce ==
  ASSUME TypeOK, AncestorsOK, NEW m \in Machines, NEW s \in Ids, NEW t \in Ids, Synced(m, s), Synced(m, t)
  PROVE  s = t
<1>1. Anc(s) = Anc(t)
  BY DEF Synced
<1> QED BY <1>1, SameAncestors

\* The common history of a clone and what it follows is that of the commit it was
\* last in step with, which is their only merge base.
LEMMA MergeBase ==
  ASSUME TypeOK, Graph, NEW m \in Machines, NEW s \in Ids, Synced(m, s)
  PROVE  /\ Anc(head[m]) \intersect Anc(tracking[m]) = Anc(s)
         /\ \A b \in Bases(head[m], tracking[m]) : b = s
<1>1. Anc(head[m]) \intersect Anc(remote) = Anc(s) /\ s \in Anc(tracking[m])
  BY DEF Synced
<1>2. Anc(s) \subseteq Anc(tracking[m])
  BY <1>1, Branches, Older DEF Graph
<1>3. Anc(head[m]) \intersect Anc(tracking[m]) = Anc(s)
  BY <1>1, <1>2, Behind
<1>4. s \in Anc(s)
  BY Older DEF Graph
<1>5. ASSUME NEW b \in Bases(head[m], tracking[m]) PROVE b = s
  BY <1>3, <1>4 DEF Bases, Anc, IsIn
<1> QED BY <1>3, <1>5

\* A commit's ancestors are its parents' and itself.
LEMMA AncestorsStep ==
  ASSUME TypeOK, Graph, [Next]_vars
  PROVE  AncestorsOK'
<1>1. CASE commits' = commits
  BY <1>1 DEF Graph, AncestorsOK, Anc, Ids
<1>2. ASSUME NEW w \in Workers, CommitsDump(w) PROVE AncestorsOK'
  <2> DEFINE n == MachineOf[w]
  <2>0. PICK new : new = Len(commits) + 1
    OBVIOUS
  <2>1. n \in Machines
    BY SidecarConstants
  <2>2. /\ Ids' = Ids \union {new} /\ \A c \in Ids : commits'[c] = commits[c]
        /\ commits'[new].anc = {new} \union Anc(head[n])
                               \union (IF mergeHead[n] = 0 THEN {} ELSE Anc(mergeHead[n]))
    BY <1>2, <2>0, <2>1, ExportedTyped, CommitAdds DEF CommitsDump
  <2>3. Ids = 1 .. Len(commits) /\ Len(commits) \in Nat
    BY CommitsTyped
  <2>4. /\ head[n] \in Ids /\ mergeHead[n] \in {0} \union Ids
    BY <2>1, Branches
  <2>5. \A c \in Ids : /\ Anc(c) \subseteq Ids /\ c \in Anc(c) /\ 1 \in Anc(c)
                       /\ Anc(c) \subseteq 1 .. c /\ \A d \in Anc(c) : Anc(d) \subseteq Anc(c)
    BY Older DEF Graph, AncestorsOK
  <2>6. \A c \in Ids : Anc(c)' = Anc(c)
    BY <2>2 DEF Anc
  <2>7. new \in Anc(new)' /\ 1 \in Anc(new)' /\ Anc(new)' \subseteq 1 .. new
    <3>1. Anc(new)' = {new} \union Anc(head[n])
                               \union (IF mergeHead[n] = 0 THEN {} ELSE Anc(mergeHead[n]))
      BY <2>2 DEF Anc
    <3>2. Ids \subseteq 1 .. new /\ new \in 1 .. new
      BY <2>0, <2>3
    <3> QED BY <2>4, <2>5, <3>1, <3>2
  <2>8. \A d \in Anc(new)' : Anc(d)' \subseteq Anc(new)'
    <3>1. Anc(new)' = {new} \union Anc(head[n])
                               \union (IF mergeHead[n] = 0 THEN {} ELSE Anc(mergeHead[n]))
      BY <2>2 DEF Anc
    <3>2. ASSUME NEW d, d \in Anc(head[n]) \/ (mergeHead[n] # 0 /\ d \in Anc(mergeHead[n]))
          PROVE  Anc(d)' \subseteq Anc(new)'
      BY <2>4, <2>5, <2>6, <3>1, <3>2
    <3> QED BY <3>1, <3>2
  <2>9. \A c \in Ids' : /\ (c \in Anc(c) /\ 1 \in Anc(c) /\ Anc(c) \subseteq 1 .. c)'
                        /\ \A d \in Anc(c)' : Anc(d)' \subseteq Anc(c)'
    BY <2>2, <2>5, <2>6, <2>7, <2>8
  <2> QED BY <2>9 DEF AncestorsOK
<1> QED BY <1>1, <1>2, CloneMoves DEF Next, branches, vars, Tracks, Begins, Publishes

LEMMA StillGraph ==
  ASSUME TypeOK, Graph, UNCHANGED branches
  PROVE  /\ RemoteBehind' /\ CommonPublished'
         /\ \A m \in Machines, s \in Ids : Synced(m, s) => Synced(m, s)'
BY DEF branches, Graph, RemoteBehind, CommonPublished, Synced, Anc

LEMMA TracksGraph ==
  ASSUME TypeOK, Graph, NEW n \in Machines, Tracks(n)
  PROVE  /\ RemoteBehind' /\ CommonPublished'
         /\ \A m \in Machines, s \in Ids : Synced(m, s) => Synced(m, s)'
<1>1. /\ UNCHANGED <<commits, head, mergeHead, remote>>
      /\ \A m \in Machines : tracking'[m] = IF m = n THEN remote ELSE tracking[m]
  BY TypeParts DEF Tracks, ClonesTyped
<1>2. \A c : Anc(c)' = Anc(c)
  BY <1>1 DEF Anc
<1>3. ASSUME NEW m \in Machines
      PROVE  /\ tracking'[m] \in Anc(remote) /\ Anc(tracking[m]) \subseteq Anc(tracking'[m])
             /\ mergeHead[m] # 0 => mergeHead[m] \in Anc(tracking'[m]) \ Anc(head[m])
  <2>1. remote \in Anc(remote)
    BY Branches, Older DEF Graph
  <2> QED BY <1>1, <2>1, Behind
<1>4. RemoteBehind' /\ CommonPublished'
  <2>1. RemoteBehind'
    BY <1>1, <1>3 DEF RemoteBehind, Anc
  <2>2. CommonPublished'
    BY <1>1 DEF Graph, CommonPublished, Anc
  <2> QED BY <2>1, <2>2
<1>5. ASSUME NEW m \in Machines, NEW s \in Ids, Synced(m, s) PROVE Synced(m, s)'
  <2>1. Anc(tracking[m]) \subseteq Anc(tracking'[m])
    BY <1>3
  <2> QED BY <1>1, <1>5, <2>1 DEF Synced, Anc
<1> QED BY <1>4, <1>5

\* What a machine was last in step with is behind what it is about to merge.
LEMMA InStepBehind ==
  ASSUME TypeOK, Graph, TipsInLine, NEW w \in Workers, work[w].up \in Ids, ~IsIn(work[w].up, Local(w)),
         NEW s \in Ids, Synced(MachineOf[w], s)
  PROVE  s \in Anc(work[w].up)
<1> DEFINE m == MachineOf[w]
           up == work[w].up
<1>1. m \in Machines /\ up # 0
  BY SidecarConstants, CommitsTyped
<1>2. Tip(s) /\ Tip(up)
  BY <1>1 DEF Tip
<1>3. up \notin Anc(s)
  BY DEF Synced, IsIn, Local, Anc
<1> QED BY <1>2, <1>3 DEF TipsInLine

LEMMA BeginsGraph ==
  ASSUME TypeOK, Graph, TipsInLine, UpFollowed, NEW w \in Workers, Begins(w), work[w].up \in Ids
  PROVE  /\ RemoteBehind' /\ CommonPublished'
         /\ \A m \in Machines, s \in Ids : Synced(m, s) => Synced(m, s)'
<1> DEFINE n == MachineOf[w]
           up == work[w].up
<1>0. n \in Machines
  BY SidecarConstants
<1>1. /\ UNCHANGED <<commits, head, tracking, remote>>
      /\ \A m \in Machines : mergeHead'[m] = IF m = n THEN up ELSE mergeHead[m]
  BY <1>0, TypeParts DEF Begins, ClonesTyped
<1>2. up \in Anc(tracking[n]) \ Anc(head[n])
  BY CommitsTyped DEF UpFollowed, Begins, IsIn, Local, Anc
<1>3. RemoteBehind'
  <2>1. \A m \in Machines : /\ tracking[m] \in Anc(remote)
                            /\ mergeHead'[m] # 0 => mergeHead'[m] \in Anc(tracking[m]) \ Anc(head[m])
    BY <1>1, <1>2 DEF Graph, RemoteBehind
  <2> QED BY <1>1, <2>1 DEF RemoteBehind, Anc
<1>4. CommonPublished'
  BY <1>1 DEF Graph, CommonPublished, Anc
<1>5. ASSUME NEW m \in Machines, NEW s \in Ids, Synced(m, s) PROVE Synced(m, s)'
  <2>1. m = n => s \in Anc(up)
    BY <1>5, InStepBehind DEF Begins
  <2>2. mergeHead'[m] # 0 => s \in Anc(mergeHead'[m])
    BY <1>1, <1>5, <2>1 DEF Synced
  <2> QED BY <1>1, <1>5, <2>2 DEF Synced, Anc
<1> QED BY <1>3, <1>4, <1>5

LEMMA CommitGraph ==
  ASSUME TypeOK, Graph, NEW w \in Workers, CommitsDump(w)
  PROVE  /\ RemoteBehind' /\ CommonPublished'
         /\ \A m \in Machines, s \in Ids :
              Synced(m, s) => IF m = MachineOf[w] /\ mergeHead[m] # 0
                              THEN \A c : c = mergeHead[m] => Synced(m, c)' ELSE Synced(m, s)'
<1> DEFINE n == MachineOf[w]
<1>0. PICK new : new = Len(commits) + 1
  OBVIOUS
<1>1. n \in Machines
  BY SidecarConstants
<1>2. /\ new \notin Ids /\ UNCHANGED <<tracking, remote>> /\ \A c \in Ids : commits'[c] = commits[c]
      /\ commits'[new].anc = {new} \union Anc(head[n])
                             \union (IF mergeHead[n] = 0 THEN {} ELSE Anc(mergeHead[n]))
      /\ head' = [head EXCEPT ![n] = new] /\ mergeHead' = [mergeHead EXCEPT ![n] = 0]
  BY <1>0, <1>1, ExportedTyped, CommitAdds DEF CommitsDump, Commit
<1>3. \A m \in Machines : /\ head'[m] = IF m = n THEN new ELSE head[m]
                          /\ mergeHead'[m] = IF m = n THEN 0 ELSE mergeHead[m]
  BY <1>2, TypeParts DEF ClonesTyped
<1>4. \A c \in Ids : Anc(c)' = Anc(c) /\ Anc(c) \subseteq Ids
  BY <1>2, Older DEF Anc, Graph
<1>5. Anc(new)' = {new} \union Anc(head[n])
                             \union (IF mergeHead[n] = 0 THEN {} ELSE Anc(mergeHead[n]))
  BY <1>2 DEF Anc
<1>6. mergeHead[n] # 0 => Anc(mergeHead[n]) \subseteq Anc(remote) /\ Anc(mergeHead[n]) \subseteq Anc(tracking[n])
  BY <1>1, Behind
<1>7. RemoteBehind'
  <2>1. ASSUME NEW m \in Machines
        PROVE  /\ tracking[m] \in Anc(remote)'
               /\ mergeHead'[m] # 0 => mergeHead'[m] \in Anc(tracking[m])' \ Anc(head[m])'
    <3>1. Anc(remote)' = Anc(remote) /\ Anc(tracking[m])' = Anc(tracking[m])
      BY <1>2, <1>4, Branches DEF Anc
    <3>2. mergeHead'[m] # 0 => m # n
      BY <1>3
    <3>3. m # n => Anc(head[m])' = Anc(head[m])
      BY <1>2, <1>3, <1>4, Branches DEF Anc
    <3> QED BY <1>3, <3>1, <3>2, <3>3, Behind
  <2> QED BY <1>2, <1>3, <2>1 DEF RemoteBehind
<1>8. Anc(remote)' = Anc(remote)
  BY <1>2, <1>4, <1>1, Branches DEF Anc
<1>9. \A m \in Machines : m # n => Anc(head[m])' = Anc(head[m])
  BY <1>2, <1>3, Branches DEF Anc
<1>10. Anc(head[n])' = Anc(new)'
  BY <1>1, <1>3 DEF Anc
<1>11. CommonPublished'
  <2>1. ASSUME NEW m \in Machines, m # n
        PROVE  Anc(head[m])' \intersect Anc(head[n])' \subseteq Anc(remote)'
    <3>1. Anc(head[m]) \subseteq Ids
      BY <1>4, Branches
    <3>2. Anc(head[m]) \intersect Anc(head[n]) \subseteq Anc(remote)
      BY <1>1, <2>1 DEF Graph, CommonPublished
    <3> QED BY <1>2, <1>5, <1>6, <1>8, <1>9, <1>10, <2>1, <3>1, <3>2
  <2>2. ASSUME NEW m \in Machines, NEW k \in Machines, m # k, m # n, k # n
        PROVE  Anc(head[m])' \intersect Anc(head[k])' \subseteq Anc(remote)'
    BY <1>8, <1>9, <2>2 DEF Graph, CommonPublished
  <2> QED BY <2>1, <2>2 DEF CommonPublished
<1>12. ASSUME NEW m \in Machines, NEW s \in Ids, Synced(m, s)
       PROVE  IF m = n /\ mergeHead[m] # 0 THEN \A c : c = mergeHead[m] => Synced(m, c)' ELSE Synced(m, s)'
  <2>1. Anc(head[m]) \intersect Anc(remote) = Anc(s) /\ s \in Anc(tracking[m])
        /\ (mergeHead[m] # 0 => s \in Anc(mergeHead[m]))
    BY <1>12 DEF Synced
  <2>2. Anc(tracking[m])' = Anc(tracking[m]) /\ Anc(remote) \subseteq Ids
    BY <1>2, <1>4, Branches DEF Anc
  <2>3. CASE m # n
    <3>1. mergeHead'[m] # 0 => Anc(mergeHead[m])' = Anc(mergeHead[m])
      BY <1>2, <1>3, <2>3, Branches DEF Anc
    <3>2. Anc(s)' = Anc(s) /\ mergeHead'[m] = mergeHead[m]
      BY <1>3, <1>4, <2>3
    <3> QED BY <1>8, <1>9, <2>1, <2>2, <2>3, <3>1, <3>2 DEF Synced
  <2>4. CASE m = n /\ mergeHead[n] = 0
    <3>1. Anc(head[n])' \intersect Anc(remote)' = Anc(s)'
      BY <1>2, <1>4, <1>5, <1>8, <1>10, <2>1, <2>2, <2>4
    <3> QED BY <1>1, <1>3, <2>1, <2>2, <2>4, <3>1 DEF Synced
  <2>5. CASE m = n /\ mergeHead[n] # 0
    <3> DEFINE M == mergeHead[n]
    <3>1. M \in Ids /\ Anc(s) \subseteq Anc(M)
      BY <1>1, <2>1, <2>5, Branches, Older DEF Graph
    <3>2. PICK c : c = mergeHead[n]
      OBVIOUS
    <3>3. Anc(head[n])' \intersect Anc(remote)' = Anc(c)
      BY <1>2, <1>5, <1>6, <1>8, <1>10, <2>1, <2>2, <2>5, <3>1, <3>2
    <3>4. c \in Anc(tracking[n])'
      BY <1>1, <2>2, <2>5, <3>2, Behind
    <3>5. Synced(n, c)'
      BY <1>1, <1>3, <1>4, <3>1, <3>2, <3>3, <3>4 DEF Synced
    <3> QED BY <2>5, <3>2, <3>5
  <2> QED BY <2>3, <2>4, <2>5
<1> QED BY <1>7, <1>11, <1>12

LEMMA PublishGraph ==
  ASSUME TypeOK, Graph, NEW w \in Workers, Publishes(w)
  PROVE  /\ RemoteBehind' /\ CommonPublished'
         /\ \A m \in Machines, s \in Ids :
              Synced(m, s) => IF m = MachineOf[w] THEN \A c : c = head[m] => Synced(m, c)'
                                                  ELSE Synced(m, s)'
<1> DEFINE n == MachineOf[w]
<1>1. n \in Machines /\ remote \in Anc(head[n])
  BY SidecarConstants DEF Publishes, Local, IsIn, Anc
<1>2. /\ UNCHANGED <<commits, head, mergeHead>> /\ remote' = head[n]
      /\ \A m \in Machines : tracking'[m] = IF m = n THEN head[n] ELSE tracking[m]
  BY <1>1, TypeParts DEF Publishes, Local, ClonesTyped
<1>3. /\ Anc(remote) \subseteq Anc(head[n]) /\ mergeHead[n] = 0 /\ head[n] \in Anc(head[n])
  BY <1>1, Pushable, Branches, Older DEF Graph
<1>4. /\ \A m \in Machines : Anc(head[m])' = Anc(head[m]) /\ Anc(mergeHead[m])' = Anc(mergeHead[m])
      /\ Anc(remote)' = Anc(head[n]) /\ \A c : Anc(c)' = Anc(c)
      /\ \A m \in Machines : m # n => Anc(tracking[m])' = Anc(tracking[m])
      /\ Anc(tracking[n])' = Anc(head[n])
  BY <1>1, <1>2 DEF Anc
<1>5. RemoteBehind'
  <2>1. ASSUME NEW m \in Machines
        PROVE  /\ tracking'[m] \in Anc(remote)'
               /\ mergeHead'[m] # 0 => mergeHead'[m] \in Anc(tracking[m])' \ Anc(head[m])'
    BY <1>2, <1>3, <1>4, Behind
  <2> QED BY <2>1 DEF RemoteBehind
<1>6. CommonPublished'
  <2>1. ASSUME NEW m \in Machines, NEW k \in Machines, m # k
        PROVE  Anc(head[m])' \intersect Anc(head[k])' \subseteq Anc(remote)'
    BY <1>3, <1>4, <2>1 DEF Graph, CommonPublished
  <2> QED BY <2>1 DEF CommonPublished
<1>7. ASSUME NEW m \in Machines, m # n, NEW s \in Ids, Synced(m, s) PROVE Synced(m, s)'
  <2>1. Anc(head[m]) \intersect Anc(head[n]) \subseteq Anc(remote)
    BY <1>1, <1>7 DEF Graph, CommonPublished
  <2>2. Anc(head[m]) \intersect Anc(head[n]) = Anc(s)
    BY <1>3, <1>7, <2>1 DEF Synced
  <2> QED BY <1>2, <1>4, <1>7, <2>2 DEF Synced
<1>8. \A c : c = head[n] => Synced(n, c)'
  BY <1>1, <1>2, <1>3, <1>4 DEF Synced
<1> QED BY <1>5, <1>6, <1>7, <1>8

-----------------------------------------------------------------------------
(* The tips of the shared branch, and merges compared and begun            *)

GraphInv == WorkInv /\ Graph /\ InStep /\ UpFollowed /\ TipsInLine /\ PlanInv /\ MergePlanned

LEMMA GraphInvParts ==
  ASSUME GraphInv
  PROVE  /\ TypeOK /\ PlansTyped /\ Graph /\ AncestorsOK /\ HeldInv /\ WorkInv /\ StepInv
         /\ UpFollowed /\ TipsInLine /\ PlanInv /\ MergePlanned
         /\ \A m \in Machines : \E s \in Ids : Synced(m, s)
BY DEF GraphInv, WorkInv, HeldInv, TypeInv, InStep, Graph

\* The clones of a machine keep a plan unless its own command commits or pushes.
LEMMA PlanKept ==
  ASSUME GraphInv, [Next]_vars, NEW m \in Machines, NEW s \in Ids, NEW up \in Ids, Compared(m, s, up),
         Synced(m, s)', head'[m] = head[m], Anc(tracking[m]) \subseteq Anc(tracking[m])'
  PROVE  Compared(m, s, up)'
<1>1. TypeOK /\ head[m] \in Ids
  BY GraphInvParts, Branches
<1>2. \A c \in Ids : commits'[c] = commits[c]
  BY <1>1, CommitsStay
<1>3. Anc(head[m])' = Anc(head[m]) /\ Anc(up)' = Anc(up) /\ Content(head[m])' = Content(head[m])
      /\ Content(s)' = Content(s) /\ Content(up)' = Content(up)
  BY <1>1, <1>2 DEF Anc, Content
<1> QED BY <1>3 DEF Compared

\* What a step does to the plans of its machine: they stay while what it is in step
\* with does, and there are none when it commits or pushes.
LEMMA PlansOf ==
  ASSUME GraphInv, NEW w \in Workers, Steps(w) \/ Breaks(w), NEW m \in Machines
  PROVE  \/ /\ \A s \in Ids : Synced(m, s) => Synced(m, s)'
            /\ head'[m] = head[m] /\ Anc(tracking[m]) \subseteq Anc(tracking[m])'
            /\ mergeHead'[m] = mergeHead[m] \/ (m = MachineOf[w] /\ BeginsMerge(w) /\ Begins(w))
         \/ /\ m = MachineOf[w] /\ mergeHead'[m] = 0
            /\ work[w].at \in {"dumped", "redumped", "pushing"}
<1> USE SidecarConstants
<1>1. /\ TypeOK /\ PlansTyped /\ Graph /\ ClonesTyped /\ UpFollowed /\ TipsInLine
      /\ MachineOf[w] \in Machines
  BY GraphInvParts, TypeParts
<1>2. \A c \in Ids : commits'[c] = commits[c]
  BY <1>1, CommitsStay DEF Next
<1>3. m # MachineOf[w] => /\ head'[m] = head[m] /\ tracking'[m] = tracking[m]
                          /\ mergeHead'[m] = mergeHead[m] /\ Anc(tracking[m])' = Anc(tracking[m])
  BY <1>1, <1>2, OtherMachines, Branches DEF Anc
<1>4. CASE UNCHANGED branches
  BY <1>1, <1>4, StillGraph DEF branches, Anc
<1>5. CASE Tracks(MachineOf[w])
  <2>1. UNCHANGED <<commits, head, mergeHead>> /\ \A s \in Ids : Synced(m, s) => Synced(m, s)'
    BY <1>1, <1>5, TracksGraph DEF Tracks
  <2>2. m = MachineOf[w] => tracking'[m] = remote
    BY <1>1, <1>5 DEF Tracks, ClonesTyped
  <2>3. m = MachineOf[w] => Anc(tracking[m])' = Anc(remote)
    BY <2>1, <2>2 DEF Anc
  <2> QED BY <1>1, <1>3, <2>1, <2>3, Behind
<1>6. CASE BeginsMerge(w) /\ Begins(w)
  <2>1. work[w].up \in Ids
    BY <1>1, <1>6 DEF Begins, PlansTyped
  <2>2. \A s \in Ids : Synced(m, s) => Synced(m, s)'
    BY <1>1, <1>6, <2>1, BeginsGraph
  <2> QED BY <1>3, <1>6, <2>2 DEF Begins, Anc
<1>7. CASE CommitsDump(w)
  <2>1. CASE m = MachineOf[w]
    BY <1>1, <1>7, <2>1 DEF CommitsDump, Commit, ClonesTyped, Dumped
  <2>2. CASE m # MachineOf[w]
    BY <1>1, <1>3, <1>7, <2>2, CommitGraph
  <2> QED BY <2>1, <2>2
<1>8. CASE Publishes(w)
  <2>1. CASE m = MachineOf[w]
    BY <1>1, <1>8, <2>1, Pushable DEF Publishes, IsIn, Local, Anc
  <2>2. CASE m # MachineOf[w]
    BY <1>1, <1>3, <1>8, <2>2, PublishGraph
  <2> QED BY <2>1, <2>2
<1> QED BY <1>1, <1>4, <1>5, <1>6, <1>7, <1>8, CloneMoves

LEMMA GraphSteps ==
  ASSUME GraphInv, [Next]_vars
  PROVE  Graph' /\ InStep'
<1> USE SidecarConstants
<1>1. /\ TypeOK /\ PlansTyped /\ Graph /\ UpFollowed /\ TipsInLine
      /\ \A m \in Machines : \E s \in Ids : Synced(m, s)
  BY GraphInvParts
<1>2. Ids \subseteq Ids' /\ AncestorsOK'
  BY <1>1, CommitsStay, AncestorsStep
<1>3. \A m \in Machines : mergeHead[m] # 0 => mergeHead[m] \in Ids'
  BY <1>1, <1>2, Branches
<1>4. \A m \in Machines : head[m] \in Ids'
  BY <1>1, <1>2, Branches
<1>5. CASE UNCHANGED branches
  BY <1>1, <1>2, <1>5, StillGraph DEF Graph, InStep
<1>6. ASSUME NEW w \in Workers, Steps(w) \/ Breaks(w) PROVE Graph' /\ InStep'
  <2>1. CASE UNCHANGED branches
    BY <1>5, <2>1
  <2>2. CASE Tracks(MachineOf[w])
    BY <1>1, <1>2, <2>2, TracksGraph DEF Graph, InStep
  <2>3. CASE Begins(w)
    <3>1. work[w].up \in Ids
      BY <1>1, <2>3 DEF Begins, PlansTyped
    <3> QED BY <1>1, <1>2, <2>3, <3>1, BeginsGraph DEF Graph, InStep
  <2>4. CASE CommitsDump(w)
    <3>1. RemoteBehind' /\ CommonPublished'
      BY <1>1, <2>4, CommitGraph
    <3>2. ASSUME NEW m \in Machines PROVE \E s \in Ids' : Synced(m, s)'
      <4>1. PICK s \in Ids : Synced(m, s)
        BY <1>1
      <4>2. PICK c : c = mergeHead[m]
        OBVIOUS
      <4>3. Synced(m, s)' \/ (mergeHead[m] # 0 /\ Synced(m, c)')
        BY <1>1, <2>4, <4>1, <4>2, CommitGraph
      <4> QED BY <1>2, <1>3, <4>1, <4>2, <4>3
    <3> QED BY <1>2, <3>1, <3>2 DEF Graph, InStep
  <2>5. CASE Publishes(w)
    <3>1. RemoteBehind' /\ CommonPublished'
      BY <1>1, <2>5, PublishGraph
    <3>2. ASSUME NEW m \in Machines PROVE \E s \in Ids' : Synced(m, s)'
      <4>1. PICK s \in Ids : Synced(m, s)
        BY <1>1
      <4>2. PICK c : c = head[m]
        OBVIOUS
      <4>3. Synced(m, s)' \/ Synced(m, c)'
        BY <1>1, <2>5, <4>1, <4>2, PublishGraph
      <4> QED BY <1>2, <1>4, <4>1, <4>2, <4>3
    <3> QED BY <1>2, <3>1, <3>2 DEF Graph, InStep
  <2> QED BY <1>1, <1>6, <2>1, <2>2, <2>3, <2>4, <2>5, CloneMoves
<1>7. UNCHANGED vars => UNCHANGED branches
  BY DEF vars, branches
<1> QED BY <1>5, <1>6, <1>7 DEF Next

LEMMA SyncedOnceNext ==
  ASSUME AncestorsOK', NEW m \in Machines, NEW s \in Ids', NEW t \in Ids', Synced(m, s)', Synced(m, t)'
  PROVE  s = t
<1>1. Anc(s)' = Anc(t)'
  BY DEF Synced
<1>2. s \in Anc(s)' /\ t \in Anc(t)' /\ Anc(s)' \subseteq 1 .. s /\ Anc(t)' \subseteq 1 .. t
  BY DEF AncestorsOK
<1> QED BY <1>1, <1>2

\* The commit a clone is in step with after a step: the one of before, unless its
\* machine has concluded a merge or pushed.
LEMMA SyncedBefore ==
  ASSUME GraphInv, NEW w \in Workers, Steps(w) \/ Breaks(w), NEW m \in Machines, NEW s \in Ids', Synced(m, s)'
  PROVE  \/ s \in Ids /\ Synced(m, s)
         \/ m = MachineOf[w] /\ CommitsDump(w) /\ mergeHead[m] # 0 /\ s = mergeHead[m]
         \/ m = MachineOf[w] /\ Publishes(w) /\ s = head[m]
<1>1. [Next]_vars
  BY DEF Next
<1>2. TypeOK /\ Graph /\ Ids \subseteq Ids' /\ AncestorsOK'
  BY <1>1, GraphInvParts, CommitsStay, AncestorsStep
<1>3. PICK t \in Ids : Synced(m, t)
  BY GraphInvParts
<1>4. PICK h, u : h = head[m] /\ u = mergeHead[m]
  OBVIOUS
<1>5. h \in Ids /\ u \in {0} \union Ids
  BY <1>2, <1>4, Branches
<1>6. CASE Synced(m, t)'
  BY <1>2, <1>3, <1>6, SyncedOnceNext
<1>7. CASE ~Synced(m, t)'
  <2>1. m = MachineOf[w] /\ work[w].at \in {"dumped", "redumped", "pushing"}
    BY <1>3, <1>7, PlansOf
  <2>2. CASE CommitsDump(w)
    <3>1. u # 0 /\ Synced(m, u)'
      BY <1>2, <1>3, <1>4, <1>7, <2>1, <2>2, CommitGraph
    <3> QED BY <1>2, <1>4, <1>5, <2>1, <2>2, <3>1, SyncedOnceNext
  <2>3. CASE Publishes(w)
    <3>1. Synced(m, h)'
      BY <1>2, <1>3, <1>4, <2>1, <2>3, PublishGraph
    <3> QED BY <1>2, <1>4, <1>5, <2>1, <2>3, <3>1, SyncedOnceNext
  <2>4. CASE ~CommitsDump(w) /\ ~Publishes(w)
    <3>1. MachineOf[w] \in Machines
      BY SidecarConstants
    <3>2. UNCHANGED branches \/ Tracks(MachineOf[w])
      BY <1>2, <2>1, <2>4, CloneMoves DEF Begins
    <3> QED BY <1>2, <1>3, <1>7, <3>1, <3>2, StillGraph, TracksGraph
  <2> QED BY <2>2, <2>3, <2>4
<1> QED BY <1>6, <1>7

\* The tips that anyone remembers are on the shared branch.
LEMMA TipShared ==
  ASSUME TypeOK, Graph, UpFollowed, NEW c \in Ids, Tip(c)
  PROVE  c \in Anc(remote)
<1>1. c = remote => c \in Anc(remote)
  BY Older DEF Graph
<1>2. ASSUME NEW m \in Machines, c = tracking[m] \/ (mergeHead[m] # 0 /\ c = mergeHead[m])
      PROVE  c \in Anc(remote)
  BY <1>2, Behind
<1>3. ASSUME NEW m \in Machines, Synced(m, c) PROVE c \in Anc(remote)
  BY <1>3, Older DEF Synced, Graph
<1>4. ASSUME NEW w \in Workers, work[w].up # 0, c = work[w].up PROVE c \in Anc(remote)
  <2>1. MachineOf[w] \in Machines /\ c \in Anc(tracking[MachineOf[w]])
    BY <1>4, SidecarConstants DEF UpFollowed
  <2> QED BY <2>1, Behind
<1> QED BY <1>1, <1>2, <1>3, <1>4 DEF Tip

\* What a step may make of the branches, and of what a command merges.
LEMMA BranchSteps ==
  ASSUME GraphInv, NEW w \in Workers, Steps(w) \/ Breaks(w)
  PROVE  /\ remote \in Anc(remote)' /\ Anc(remote) \subseteq Anc(remote)'
         /\ \A m \in Machines : /\ tracking'[m] \in {tracking[m], remote, remote'}
                               /\ Anc(tracking[m]) \subseteq Anc(tracking[m])'
                               /\ mergeHead'[m] \in {0, mergeHead[m], work[w].up}
         /\ \A x \in Workers : work'[x].up \in {work[x].up, tracking[MachineOf[x]]}
<1> USE SidecarConstants
<1>1. /\ TypeOK /\ Graph /\ ClonesTyped /\ MachineOf[w] \in Machines
      /\ \A c \in Ids : commits'[c] = commits[c] /\ c \in Anc(c)
      /\ \A m \in Machines : Anc(tracking[m]) \subseteq Anc(remote)
  BY GraphInvParts, TypeParts, CommitsStay, Behind, Older DEF Next, Graph
<1>2. ASSUME NEW x \in Workers PROVE work'[x].up \in {work[x].up, tracking[MachineOf[x]]}
  <2>1. CASE x # w
    BY <1>1, <2>1, WorkMoves
  <2>2. CASE x = w
    <3>1. CASE Writes(w) \/ Dumps(w) \/ Redumps(w) \/ Compares(w)
      BY <1>1, <2>2, <3>1, Noted DEF Upstream
    <3>2. CASE ~(Writes(w) \/ Dumps(w) \/ Redumps(w) \/ Compares(w))
      BY <1>1, <2>2, <3>2, Edges DEF Moves, Keeps, Steps
    <3> QED BY <3>1, <3>2
  <2> QED BY <2>1, <2>2
<1> DEFINE Good(m) ==
      /\ tracking'[m] \in {tracking[m], remote, remote'}
      /\ Anc(tracking[m]) \subseteq Anc(tracking[m])'
      /\ mergeHead'[m] \in {0, mergeHead[m], work[w].up}
<1>3. ASSUME UNCHANGED <<commits, remote, tracking>>,
             \A m \in Machines : mergeHead'[m] \in {0, mergeHead[m], work[w].up}
      PROVE  Anc(remote) \subseteq Anc(remote)' /\ \A m \in Machines : Good(m)
  BY <1>3 DEF Anc
<1>4. Anc(remote) \subseteq Anc(remote)' /\ \A m \in Machines : Good(m)
  <2>1. CASE UNCHANGED branches
    BY <1>3, <2>1 DEF branches
  <2>2. CASE Tracks(MachineOf[w])
    <3>1. UNCHANGED <<commits, mergeHead, remote>>
          /\ \A m \in Machines : tracking'[m] = IF m = MachineOf[w] THEN remote ELSE tracking[m]
      BY <1>1, <2>2 DEF Tracks, ClonesTyped
    <3>2. Anc(remote)' = Anc(remote)
          /\ \A m \in Machines : Anc(tracking[m])' = IF m = MachineOf[w] THEN Anc(remote) ELSE Anc(tracking[m])
      BY <3>1 DEF Anc
    <3> QED BY <1>1, <3>1, <3>2
  <2>3. CASE Begins(w)
    <3>1. UNCHANGED <<commits, tracking, remote>>
          /\ \A m \in Machines : mergeHead'[m] = IF m = MachineOf[w] THEN work[w].up ELSE mergeHead[m]
      BY <1>1, <2>3 DEF Begins, ClonesTyped
    <3> QED BY <1>3, <3>1
  <2>4. CASE CommitsDump(w)
    <3>1. UNCHANGED <<tracking, remote>>
          /\ \A m \in Machines : mergeHead'[m] = IF m = MachineOf[w] THEN 0 ELSE mergeHead[m]
      BY <1>1, <2>4 DEF CommitsDump, Commit, ClonesTyped
    <3>2. Anc(remote)' = Anc(remote) /\ \A m \in Machines : Anc(tracking[m])' = Anc(tracking[m])
      BY <1>1, <3>1, Branches DEF Anc
    <3> QED BY <3>1, <3>2
  <2>5. CASE Publishes(w)
    <3>1. /\ UNCHANGED <<commits, mergeHead>> /\ remote' = head[MachineOf[w]]
          /\ \A m \in Machines : tracking'[m] = IF m = MachineOf[w] THEN remote' ELSE tracking[m]
      BY <1>1, <2>5 DEF Publishes, ClonesTyped, Local
    <3>2. Anc(remote) \subseteq Anc(head[MachineOf[w]])
      <4>1. remote \in Anc(head[MachineOf[w]])
        BY <2>5 DEF Publishes, IsIn, Local, Anc
      <4> QED BY <1>1, <4>1, Pushable
    <3>3. Anc(remote)' = Anc(head[MachineOf[w]])
          /\ \A m \in Machines : Anc(tracking[m])' = IF m = MachineOf[w] THEN Anc(head[m]) ELSE Anc(tracking[m])
      BY <3>1 DEF Anc
    <3> QED BY <1>1, <3>1, <3>2, <3>3
  <2> HIDE DEF Good
  <2> QED BY <1>1, <2>1, <2>2, <2>3, <2>4, <2>5, CloneMoves
<1>5. remote \in Anc(remote)
  BY <1>1, Branches
<1> QED BY <1>2, <1>4, <1>5

\* A tip is one of before, or the tip that has just been pushed, which all of them
\* are behind.
LEMMA TipsStep ==
  ASSUME GraphInv, [Next]_vars
  PROVE  UpFollowed' /\ TipsInLine'
<1> USE SidecarConstants
<1>1. /\ TypeOK /\ PlansTyped /\ Graph /\ UpFollowed /\ TipsInLine /\ AncestorsOK'
      /\ Ids \subseteq Ids' /\ 0 \notin Ids
      /\ \A c \in Ids : commits'[c] = commits[c]
  BY GraphInvParts, CommitsStay, CommitsTyped, AncestorsStep
<1>2. CASE UNCHANGED vars
  <2>1. UpFollowed'
    BY <1>1, <1>2 DEF vars, UpFollowed, Anc
  <2>2. \A c : Tip(c)' = Tip(c)
    BY <1>2 DEF vars, Tip, Synced, Anc
  <2> QED BY <1>1, <1>2, <2>1, <2>2 DEF TipsInLine, vars, Ids, Anc
<1>3. ASSUME NEW w \in Workers, Steps(w) \/ Breaks(w) PROVE UpFollowed' /\ TipsInLine'
  <2>1. UpFollowed'
    <3>1. SUFFICES ASSUME NEW x \in Workers, work'[x].up # 0
                   PROVE  work'[x].up \in Anc(tracking[MachineOf[x]])'
      BY DEF UpFollowed
    <3>2. tracking[MachineOf[x]] \in Anc(tracking[MachineOf[x]])
      BY <1>1, Branches, Older DEF Graph
    <3> QED BY <1>1, <1>3, <3>1, <3>2, BranchSteps DEF UpFollowed
  <2>2. ASSUME NEW c \in Ids', Tip(c)' PROVE (c \in Ids /\ Tip(c)) \/ c = remote'
    <3>1. ASSUME NEW m \in Machines, c = tracking'[m] PROVE (c \in Ids /\ Tip(c)) \/ c = remote'
      BY <1>1, <1>3, <3>1, BranchSteps, Branches DEF Tip
    <3>2. ASSUME NEW m \in Machines, mergeHead'[m] # 0, c = mergeHead'[m] PROVE c \in Ids /\ Tip(c)
      <4>1. work[w].up \in {0} \union Ids
        BY <1>1, TypeParts DEF Jobs
      <4> QED BY <1>1, <1>3, <3>2, <4>1, BranchSteps, Branches DEF Tip
    <3>3. ASSUME NEW m \in Machines, Synced(m, c)' PROVE (c \in Ids /\ Tip(c)) \/ c = remote'
      <4>1. CASE c \in Ids /\ Synced(m, c)
        BY <4>1 DEF Tip
      <4>2. CASE mergeHead[m] # 0 /\ c = mergeHead[m]
        BY <1>1, <4>2, Branches DEF Tip
      <4>3. CASE m = MachineOf[w] /\ Publishes(w) /\ c = head[m]
        BY <4>3 DEF Publishes, Local
      <4> QED BY <1>3, <3>3, <4>1, <4>2, <4>3, SyncedBefore
    <3>4. ASSUME NEW x \in Workers, work'[x].up # 0, c = work'[x].up PROVE c \in Ids /\ Tip(c)
      <4>1. work[x].up \in {0} \union Ids /\ MachineOf[x] \in Machines
        BY <1>1, TypeParts DEF Jobs
      <4> QED BY <1>1, <1>3, <3>4, <4>1, BranchSteps, Branches DEF Tip
    <3>5. \/ c = remote'
          \/ \E m \in Machines : c = tracking'[m] \/ (mergeHead'[m] # 0 /\ c = mergeHead'[m]) \/ Synced(m, c)'
          \/ \E x \in Workers : work'[x].up # 0 /\ c = work'[x].up
      BY <2>2 DEF Tip
    <3> QED BY <3>1, <3>2, <3>3, <3>4, <3>5
  <2>3. ASSUME NEW c \in Ids, Tip(c) PROVE c \in Anc(remote)'
    BY <1>1, <1>3, <2>3, TipShared, BranchSteps
  <2>4. \A c \in Ids : Anc(c)' = Anc(c)
    BY <1>1 DEF Anc
  <2>5. ASSUME NEW c \in Ids', NEW d \in Ids', Tip(c)', Tip(d)'
        PROVE  c \in Anc(d)' \/ d \in Anc(c)'
    <3>1. CASE c \in Ids /\ Tip(c) /\ d \in Ids /\ Tip(d)
      BY <1>1, <2>4, <3>1 DEF TipsInLine
    <3>2. c = remote' => Anc(c)' = Anc(remote)'
      BY DEF Anc
    <3>3. d = remote' => Anc(d)' = Anc(remote)'
      BY DEF Anc
    <3>4. c \in Anc(c)' /\ d \in Anc(d)'
      BY <1>1 DEF AncestorsOK
    <3> QED BY <2>2, <2>3, <2>5, <3>1, <3>2, <3>3, <3>4
  <2> QED BY <2>1, <2>5 DEF TipsInLine
<1> QED BY <1>2, <1>3 DEF Next

\* The comparison of a clone with what it follows is against their last shared commit.
LEMMA ComparedNow ==
  ASSUME GraphInv, NEW w \in Workers, Compares(w), work'[w].at # "merged"
  PROVE  \E s \in Ids :
           /\ Synced(MachineOf[w], s) /\ Anc(Local(w)) \intersect Anc(Upstream(w)) = Anc(s)
           /\ work'[w].at = "compared" =>
                /\ work'[w].up = Upstream(w) /\ Compared(MachineOf[w], s, Upstream(w))
                /\ work'[w].dump = [r \in Rows |-> MergedRow(Content(s)[r], Content(Local(w))[r],
                                                            Content(Upstream(w))[r])]
           /\ work'[w].at = "conflict" =>
                \E r \in Rows : Differs(Content(s)[r], Content(Local(w))[r], Content(Upstream(w))[r])
<1> DEFINE m == MachineOf[w]
<1>1. TypeOK /\ Graph /\ m \in Machines /\ \E s \in Ids : Synced(m, s)
  BY SidecarConstants, GraphInvParts
<1>2. Local(w) = head[m] /\ Upstream(w) = tracking[m]
  BY DEF Local, Upstream
<1>3. PICK s \in Ids : Synced(m, s)
  BY <1>1
<1>4. \A b \in Bases(Local(w), Upstream(w)) : b = s
  BY <1>1, <1>2, <1>3, MergeBase
<1>5. tracking[m] \notin Anc(head[m])
  BY <1>1, <1>2, Noted DEF IsIn, Anc
<1> DEFINE merged(b) == [r \in Rows |-> MergedRow(Content(b)[r], Content(Local(w))[r], Content(Upstream(w))[r])]
           Differ(b) == \E r \in Rows : Differs(Content(b)[r], Content(Local(w))[r], Content(Upstream(w))[r])
<1>6. work'[w].at = "conflict" => Differ(s)
  <2>1. work'[w].at = "conflict" => \E b \in Bases(Local(w), Upstream(w)) : Differ(b)
    BY <1>1, Noted
  <2> HIDE DEF Differ
  <2> QED BY <1>4, <2>1
<1>7. work'[w].at = "compared" => ~Differ(s) /\ work'[w].up = Upstream(w) /\ work'[w].dump = merged(s)
  <2>1. work'[w].at = "compared" => \E b \in Bases(Local(w), Upstream(w)) :
          ~Differ(b) /\ work'[w].up = Upstream(w) /\ work'[w].dump = merged(b)
    BY <1>1, Noted
  <2> HIDE DEF Differ, merged
  <2> QED BY <1>4, <2>1
<1>8. tracking[m] \in Anc(tracking[m])
  BY <1>1, Branches, Older DEF Graph
<1>9. Anc(head[m]) \intersect Anc(tracking[m]) = Anc(s) /\ s \in Anc(tracking[m])
  BY <1>1, <1>3, MergeBase DEF Synced
<1>10. ASSUME work'[w].at = "compared" PROVE Compared(m, s, Upstream(w))
  BY <1>2, <1>3, <1>5, <1>8, <1>9, <1>10, <1>7 DEF Compared
<1> HIDE DEF m, Differ, merged
<1> QED BY <1>2, <1>3, <1>9, <1>10, <1>6, <1>7 DEF m, Differ, merged

LEMMA PlanSteps ==
  ASSUME GraphInv, [Next]_vars
  PROVE  PlanInv' /\ MergePlanned'
<1> USE SidecarConstants
<1>1. /\ TypeOK /\ PlansTyped /\ Graph /\ PlanInv /\ MergePlanned /\ HeldInv
      /\ Ids \subseteq Ids' /\ \A c \in Ids : commits'[c] = commits[c]
      /\ \A m \in Machines : ~Unguarded(m)' => ~Unguarded(m)
  BY GraphInvParts, CommitsStay, LocksMissed
<1>2. CASE UNCHANGED vars
  BY <1>1, <1>2 DEF vars, PlanInv, MergePlanned, Plan, Compared, Synced, Anc, Content, Ids, Local,
     Unguarded
<1>3. ASSUME NEW w \in Workers, Steps(w) \/ Breaks(w), NEW x \in Workers,
             ~Unguarded(MachineOf[x])', work'[x].at \in {"compared", "begun"}
      PROVE  /\ \E s \in Ids' : Plan(x, s)'
             /\ work'[x].at = "begun" => mergeHead'[MachineOf[x]] = work'[x].up
  <2> DEFINE m == MachineOf[x]
             merged(s, up) == [r \in Rows |-> MergedRow(Content(s)[r], Content(head[m])[r], Content(up)[r])]
  <2>0. m \in Machines /\ ~Unguarded(m) /\ head[m] \in Ids
    BY <1>1, <1>3, Branches
  <2>1. ASSUME NEW s \in Ids, NEW up \in Ids, Compared(m, s, up)', head'[m] = head[m],
               work'[x].up = up, work'[x].dump = merged(s, up)
        PROVE  \E t \in Ids' : Plan(x, t)'
    <3>1. merged(s, up)' = merged(s, up)
      BY <1>1, <2>0, <2>1 DEF Content
    <3>2. Plan(x, s)'
      BY <2>1, <3>1 DEF Plan, Compared, Local
    <3> QED BY <1>1, <3>2
  <2>2. CASE x = w /\ Compares(w)
    <3>1. work'[w].at = "compared" /\ UNCHANGED clones
      BY <1>1, <1>3, <2>2, Noted DEF Compares
    <3>2. PICK s \in Ids : /\ work'[w].up = Upstream(w) /\ Compared(m, s, Upstream(w))
                           /\ work'[w].dump = merged(s, Upstream(w))
      BY <2>2, <3>1, ComparedNow DEF Local
    <3>3. \A up : Compared(m, s, up) => Compared(m, s, up)'
      BY <3>1 DEF clones, Compared, Synced, Anc, Content
    <3>4. PICK up \in Ids : up = Upstream(w)
      BY <1>1, <2>0, <2>2, Branches DEF Upstream
    <3>5. Compared(m, s, up)' /\ work'[x].up = up /\ work'[x].dump = merged(s, up) /\ head' = head
      BY <2>2, <3>1, <3>2, <3>3, <3>4 DEF clones
    <3> QED BY <2>1, <2>2, <3>1, <3>5
  <2>3. CASE x = w /\ ~Compares(w)
    <3>1. BeginsMerge(w) /\ work[w].at = "compared" /\ work'[w].at = "begun" /\ Keeps(w)
      <4>1. ~Writes(w) /\ ~Dumps(w) /\ ~Redumps(w)
        BY <1>1, <1>3, <2>3, Noted
      <4> QED BY <1>1, <1>3, <2>3, <4>1, Edges DEF Moves, Steps
    <3>2. work[w].up \in Ids
      BY <1>1, <3>1 DEF PlansTyped
    <3>3. PICK up \in Ids : up = work[w].up
      BY <3>2
    <3>4. PICK s \in Ids : Compared(m, s, up) /\ work[w].dump = merged(s, up)
      BY <1>1, <2>0, <2>3, <3>1, <3>3 DEF PlanInv, Plan, Local
    <3>5. Begins(w)
      <4>1. ~EndsWithIssue(w)
        BY <1>1, <3>1, Edges DEF Moves
      <4>2. ~IsIn(up, Local(w))
        BY <2>3, <3>4 DEF Compared, IsIn, Local, Anc
      <4> QED BY <3>1, <3>3, <4>1, <4>2 DEF BeginsMerge, Begins
    <3>6. Synced(m, s)' /\ head'[m] = head[m] /\ Anc(tracking[m]) \subseteq Anc(tracking[m])'
      <4>1. UNCHANGED <<commits, head, tracking>>
        BY <3>5 DEF Begins
      <4>2. Synced(m, s)'
        BY <1>1, <2>0, <2>3, <3>2, <3>4, <3>5, BeginsGraph, GraphInvParts DEF Compared
      <4> QED BY <4>1, <4>2 DEF Anc
    <3>7. Compared(m, s, up)'
      BY <1>3, <2>0, <3>4, <3>6, PlanKept DEF Next
    <3>8. mergeHead'[m] = up
      BY <1>1, <2>0, <2>3, <3>3, <3>5, TypeParts DEF Begins, ClonesTyped
    <3> QED BY <2>1, <2>3, <3>1, <3>3, <3>4, <3>6, <3>7, <3>8 DEF Keeps
  <2>4. CASE x # w
    <3>1. work'[x] = work[x]
      BY <1>1, <1>3, <2>4, WorkMoves
    <3>2. PICK up \in Ids : up = work[x].up
      BY <1>1, <1>3, <3>1 DEF PlansTyped
    <3>3. PICK s \in Ids : Compared(m, s, up) /\ work[x].dump = merged(s, up)
      BY <1>1, <1>3, <2>0, <3>1, <3>2 DEF PlanInv, Plan, Local
    <3>4. ~(m = MachineOf[w] /\ work[w].at \in Holding)
      <4>1. work[x].at \in Holding
        BY <1>3, <3>1 DEF Holding, Working
      <4> QED BY <1>1, <2>0, <2>4, <4>1, Alone
    <3>5. work[w].at \notin {"dumped", "redumped", "pushing", "compared"} \/ m # MachineOf[w]
      BY <3>4 DEF Holding, Working
    <3>6. /\ \A t \in Ids : Synced(m, t) => Synced(m, t)'
          /\ head'[m] = head[m] /\ Anc(tracking[m]) \subseteq Anc(tracking[m])'
          /\ mergeHead'[m] = mergeHead[m]
      BY <1>3, <2>0, <3>5, PlansOf DEF Begins
    <3>7. Compared(m, s, up)'
      BY <1>3, <2>0, <3>3, <3>6, PlanKept DEF Next, Compared
    <3>8. work[x].at = "begun" => mergeHead[m] = up
      BY <1>1, <2>0, <3>2 DEF PlanInv
    <3> QED BY <2>1, <3>1, <3>2, <3>3, <3>6, <3>7, <3>8
  <2> QED BY <2>2, <2>3, <2>4
<1>4. ASSUME NEW w \in Workers, Steps(w) \/ Breaks(w), NEW m \in Machines, mergeHead'[m] # 0,
             ~Unguarded(m)'
      PROVE  \E s \in Ids' : \A c : c = mergeHead'[m] => Compared(m, s, c)'
  <2>1. /\ \A s \in Ids : Synced(m, s) => Synced(m, s)'
        /\ head'[m] = head[m] /\ Anc(tracking[m]) \subseteq Anc(tracking[m])'
        /\ mergeHead'[m] = mergeHead[m] \/ (m = MachineOf[w] /\ BeginsMerge(w) /\ Begins(w))
    BY <1>4, PlansOf
  <2>2. \E s \in Ids, up \in Ids : Compared(m, s, up) /\ mergeHead'[m] = up
    <3>1. CASE mergeHead'[m] = mergeHead[m]
      BY <1>1, <1>4, <3>1, Branches DEF MergePlanned
    <3>2. CASE m = MachineOf[w] /\ BeginsMerge(w) /\ Begins(w)
      <4>1. mergeHead'[m] = work[w].up /\ work[w].up \in Ids
        BY <1>1, <3>2, TypeParts DEF Begins, ClonesTyped, PlansTyped
      <4>2. \E s \in Ids : Compared(m, s, work[w].up)
        BY <1>1, <1>4, <3>2 DEF Begins, PlanInv, Plan
      <4> QED BY <4>1, <4>2
    <3> QED BY <2>1, <3>1, <3>2
  <2>3. PICK s \in Ids, up \in Ids : Compared(m, s, up) /\ mergeHead'[m] = up
    BY <2>2
  <2>4. Compared(m, s, up)'
    BY <1>4, <2>1, <2>3, PlanKept DEF Next, Compared
  <2> QED BY <1>1, <2>3, <2>4
<1>5. ASSUME NEW w \in Workers, Steps(w) \/ Breaks(w) PROVE PlanInv' /\ MergePlanned'
  <2>1. PlanInv'
    BY <1>3, <1>5 DEF PlanInv
  <2>2. MergePlanned'
    BY <1>4, <1>5 DEF MergePlanned
  <2> QED BY <2>1, <2>2
<1> QED BY <1>2, <1>5 DEF Next

LEMMA GraphAlways == Spec => []GraphInv
<1>1. Init => Graph /\ InStep /\ UpFollowed /\ TipsInLine /\ PlanInv /\ MergePlanned
  <2> SUFFICES ASSUME Init PROVE Graph /\ InStep /\ UpFollowed /\ TipsInLine /\ PlanInv /\ MergePlanned
    OBVIOUS
  <2>1. /\ Ids = {1} /\ Anc(1) = {1} /\ remote = 1
        /\ \A m \in Machines : head[m] = 1 /\ tracking[m] = 1 /\ mergeHead[m] = 0
        /\ \A w \in Workers : work[w].up = 0 /\ work[w].at = "idle"
    BY DEF Init, Ids, Anc, First, Idle
  <2>2. Graph
    BY <2>1 DEF Graph, AncestorsOK, RemoteBehind, CommonPublished
  <2>3. InStep
    <3>1. \A m \in Machines : Synced(m, 1)
      BY <2>1 DEF Synced
    <3> QED BY <2>1, <3>1 DEF InStep
  <2>4. UpFollowed
    BY <2>1 DEF UpFollowed
  <2>5. TipsInLine
    <3>1. \A c, d \in Ids : c \in Anc(d)
      BY <2>1
    <3> QED BY <3>1 DEF TipsInLine
  <2>6. PlanInv /\ MergePlanned
    BY <2>1 DEF PlanInv, MergePlanned
  <2> QED BY <2>2, <2>3, <2>4, <2>5, <2>6
<1>2. GraphInv /\ [Next]_vars => (Graph /\ InStep /\ UpFollowed /\ TipsInLine /\ PlanInv /\ MergePlanned)'
  BY GraphSteps, TipsStep, PlanSteps
<1> QED BY <1>1, <1>2, WorkAlways, PTL DEF Spec, GraphInv

-----------------------------------------------------------------------------
(* Conflicts                                                               *)

\* The last commit two share is theirs when they have all its ancestors in common.
LEMMA LastSharedIs ==
  ASSUME TypeOK, AncestorsOK, NEW c \in Ids, NEW d \in Ids, NEW s \in Ids, Anc(c) \intersect Anc(d) = Anc(s)
  PROVE  LastShared(c, d) = s
<1> DEFINE Last(b) == \A e \in Anc(s) : Cardinality(Anc(e)) <= Cardinality(Anc(b))
<1>1. Ids = 1 .. Len(commits) /\ Len(commits) \in Nat
  BY CommitsTyped
<1>2. IsFiniteSet(Anc(s))
  <2>1. Anc(s) \subseteq Ids
    BY Older
  <2>2. IsFiniteSet(Ids)
    BY <1>1, FS_Interval
  <2> QED BY <2>1, <2>2, FS_Subset
<1>3. s \in Anc(s) /\ \A e \in Anc(s) : e \in Ids /\ Anc(e) \subseteq Anc(s)
  BY Older
<1>4. Cardinality(Anc(s)) \in Nat /\ \A e \in Anc(s) : Cardinality(Anc(e)) \in Nat
  BY <1>2, <1>3, FS_Subset, FS_CardinalityType
<1>5. Last(s)
  BY <1>2, <1>3, FS_Subset
<1>6. ASSUME NEW b \in Anc(s), Last(b) PROVE b = s
  <2>1. Cardinality(Anc(s)) <= Cardinality(Anc(b)) /\ Cardinality(Anc(b)) <= Cardinality(Anc(s))
    BY <1>3, <1>5, <1>6
  <2>2. Cardinality(Anc(b)) = Cardinality(Anc(s))
    BY <1>3, <1>4, <2>1
  <2>3. Anc(b) = Anc(s)
    BY <1>2, <1>3, <2>2, FS_Subset
  <2> QED BY <1>3, <2>3, SameAncestors
<1>7. LastShared(c, d) = CHOOSE b \in Anc(s) : Last(b)
  BY DEF LastShared, Anc
<1> HIDE DEF Last
<1> QED BY <1>3, <1>5, <1>6, <1>7

\* The row comparison of two branches (merge-state) finds a conflict only in a row
\* both have changed since the last commit they share, whatever the order in which
\* the machines fetched, merged and pushed: it is against the right base.
THEOREM ConflictsAreReal == Spec => ConflictNeedsTwoChanges
<1>1. GraphInv /\ [Next]_vars => [\A w \in Workers :
         work[w].at # "conflict" /\ work'[w].at = "conflict" =>
           \E r \in Rows : /\ ChangedTwice(w, r)
                           /\ Content(Local(w))[r] = Content(Upstream(w))[r] =>
                                Content(Local(w))[r] = Absent]_vars
  <2> SUFFICES ASSUME GraphInv, Next, NEW x \in Workers, work[x].at # "conflict", work'[x].at = "conflict"
               PROVE  \E r \in Rows : /\ ChangedTwice(x, r)
                                      /\ Content(Local(x))[r] = Content(Upstream(x))[r] =>
                                           Content(Local(x))[r] = Absent
    OBVIOUS
  <2>1. TypeOK /\ Graph
    BY GraphInvParts
  <2>2. Compares(x)
    <3>1. PICK w \in Workers : Steps(w) \/ Breaks(w)
      BY DEF Next
    <3>2. x = w
      BY <2>1, <3>1, WorkMoves
    <3>3. ~Writes(x) /\ ~Dumps(x) /\ ~Redumps(x)
      BY <2>1, Noted
    <3> QED BY <2>1, <3>1, <3>2, <3>3, Edges DEF Moves, Steps
  <2>3. PICK s \in Ids :
          /\ Anc(Local(x)) \intersect Anc(Upstream(x)) = Anc(s)
          /\ \E r \in Rows : Differs(Content(s)[r], Content(Local(x))[r], Content(Upstream(x))[r])
    BY <2>2, ComparedNow
  <2>4. Local(x) \in Ids /\ Upstream(x) \in Ids
    BY <2>1, SidecarConstants, Branches DEF Local, Upstream
  <2>5. LastShared(Local(x), Upstream(x)) = s
    BY <2>1, <2>3, <2>4, LastSharedIs DEF Graph
  <2> QED BY <2>3, <2>5 DEF Differs, ChangedTwice
<1> QED BY <1>1, GraphAlways, PTL DEF Spec, ConflictNeedsTwoChanges

-----------------------------------------------------------------------------
(* The rows of the commits, the databases and the dumps                    *)

\* A content that the shared branch has, or had.
Published(v, r) == \E c \in Anc(remote) : Content(c)[r] = v

\* A content is what every machine started from, a removal, or of the one command
\* that wrote it, and only its machine has it until it is published.
Genuine(v, r) == v \in {Old, Absent} \/ (v \in Writers /\ work[v].row = r)
Own(m, v, r) ==
  v \in {Old, Absent} \/ (v \in Writers /\ work[v].row = r /\ (MachineOf[v] = m \/ Published(v, r)))
CommitsOK ==
  /\ \A r \in Rows : Content(1)[r] = Old
  /\ \A c \in Ids, r \in Rows : Genuine(Content(c)[r], r)

\* At these steps a command carries rows that it is to commit or import.
Carrying == Dumped \union {"compared", "begun"}
Home ==
  \A m \in Machines, r \in Rows :
    /\ Own(m, db[m][r], r)
    /\ \A c \in Anc(head[m]) : Own(m, Content(c)[r], r)
    /\ \A w \in Workers : MachineOf[w] = m /\ work[w].at \in Carrying => Own(m, work[w].dump[r], r)

\* What a machine's branch says of a row that it has not from the commit it was
\* last in step with was never on the shared branch, unless it has torn commits that
\* are not there yet.
Unshared(m, s) ==
  \A r \in Rows : LET v == Content(head[m])[r] IN
    v \in {Content(s)[r], Absent} \/ ~Published(v, r)
TornAhead(m) == \E c \in Anc(head[m]) \ Anc(remote) : commits[c].torn
HeadsFresh == \A m \in Machines, s \in Ids : Synced(m, s) => Unshared(m, s) \/ TornAhead(m)

\* Nobody has committed it, and a command of machine m has written it.
New(m, v, r) ==
  \/ v = Absent
  \/ /\ v \in Writers /\ MachineOf[v] = m /\ work[v].row = r
     /\ \A c \in Ids : Content(c)[r] # v
\* A command wrote it while the next commit had the parents it has now.
Late(m, v, r) ==
  \E w \in Writers : MachineOf[w] = m /\ work[w].row = r /\ work[w].val = v /\ work[w].onto = Parents(m)

\* A merge is under way that the database has.
HasMerge(m) == mergeHead[m] # 0 /\ m \notin unimported

\* What the next commit of a machine last in step with s is to say of a row: what
\* its branch says, or the merge under way; a command may have written it since.
Due(m, s, r) ==
  IF HasMerge(m) THEN MergedRow(Content(s)[r], Content(head[m])[r], Content(mergeHead[m])[r])
  ELSE Content(head[m])[r]
RowDue(m, s, v, r) == v = Due(m, s, r) \/ (New(m, v, r) /\ (HasMerge(m) => Late(m, v, r)))

\* So for the database and for every dump, and they differ by what is new, where
\* every command has had the lock.
RowOK(m, s, r) ==
  /\ RowDue(m, s, db[m][r], r)
  /\ \A w \in Workers : MachineOf[w] = m /\ work[w].at \in Dumped =>
       RowDue(m, s, work[w].dump[r], r) /\ (db[m][r] = work[w].dump[r] \/ New(m, db[m][r], r))
RowsDue ==
  \A m \in Machines, s \in Ids : ~Unguarded(m) /\ Synced(m, s) => \A r \in Rows : RowOK(m, s, r)

\* A merge commit keeps what either side has changed.
MergeKept(c) ==
  \A p, q \in commits[c].parents : p # q =>
    \E s \in Ids : /\ Anc(p) \intersect Anc(q) = Anc(s)
                   /\ \A r \in Rows : Content(p)[r] = Content(s)[r] =>
                        Content(c)[r] = Content(q)[r] \/ WrittenLate(c, r)
MergesKept == \A c \in Ids : ~commits[c].torn => MergeKept(c)

RowsInv == GraphInv /\ CommitsOK /\ Home /\ HeadsFresh /\ RowsDue /\ MergesKept

\* What a command has written, it does not write again.
LEMMA RowsKept ==
  ASSUME GraphInv, [Next]_vars, NEW x \in Workers, work[x].row \in Rows
  PROVE  work'[x].row = work[x].row /\ work'[x].val = work[x].val /\ work'[x].onto = work[x].onto
<1> USE SidecarConstants
<1>1. TypeOK /\ StepOK(x)
  BY GraphInvParts DEF StepInv
<1>2. ASSUME NEW w \in Workers, Steps(w) \/ Breaks(w)
      PROVE  work'[x].row = work[x].row /\ work'[x].val = work[x].val /\ work'[x].onto = work[x].onto
  <2>1. CASE x # w
    BY <1>1, <1>2, <2>1, WorkMoves
  <2>2. CASE x = w
    <3>1. ~Writes(x)
      BY <1>1 DEF StepOK, Writes
    <3>2. CASE Dumps(x) \/ Redumps(x) \/ Compares(x)
      BY <1>1, <3>2, Noted
    <3>3. CASE ~(Dumps(x) \/ Redumps(x) \/ Compares(x))
      BY <1>1, <1>2, <2>2, <3>1, <3>3, Edges DEF Moves, Keeps, Steps
    <3> QED BY <3>2, <3>3
  <2> QED BY <2>1, <2>2
<1> QED BY <1>2 DEF Next, vars

\* The commit that is made.
LEMMA NewCommit ==
  ASSUME TypeOK, NEW w \in Workers, CommitsDump(w)
  PROVE  LET n == MachineOf[w] IN
         /\ n \in Machines /\ head'[n] \notin Ids /\ Ids' = Ids \union {head'[n]} /\ mergeHead'[n] = 0
         /\ \A c \in Ids : commits'[c] = commits[c]
         /\ commits'[head'[n]].rows \in Exported(w) /\ commits'[head'[n]].by = n
         /\ commits'[head'[n]].parents = Parents(n)
         /\ commits'[head'[n]].torn = (n \in unimported \/ Unguarded(n))
         /\ commits'[head'[n]].anc = {head'[n]} \union Anc(head[n])
                                     \union (IF mergeHead[n] = 0 THEN {} ELSE Anc(mergeHead[n]))
         /\ remote' = remote /\ tracking' = tracking
         /\ \A m \in Machines \ {n} : head'[m] = head[m] /\ mergeHead'[m] = mergeHead[m]
<1>1. PICK rows \in Tables : rows \in Exported(w) /\ Commit(MachineOf[w], rows)
  BY ExportedTyped DEF CommitsDump
<1>2. MachineOf[w] \in Machines
  BY SidecarConstants
<1>3. head \in [Machines -> Ids] /\ mergeHead \in [Machines -> {0} \union Ids]
  BY TypeParts DEF ClonesTyped
<1>4. remote' = remote /\ tracking' = tracking
  BY <1>1 DEF Commit
<1> QED BY <1>1, <1>2, <1>3, <1>4, CommitAdds

\* A content that was on the shared branch still is.
LEMMA PublishedKept ==
  ASSUME GraphInv, NEW w \in Workers, Steps(w) \/ Breaks(w)
  PROVE  /\ \A v, r : Published(v, r) => Published(v, r)'
         /\ ~Publishes(w) => \A v, r : Published(v, r)' => Published(v, r)
         /\ Publishes(w) => \A v, r : Published(v, r)' =>
              \E c \in Anc(head[MachineOf[w]]) : Content(c)[r] = v
<1>1. TypeOK /\ Graph /\ [Next]_vars /\ remote \in Ids
  BY GraphInvParts, Branches DEF Next, TypeOK
<1>2. \A c \in Ids : commits'[c] = commits[c] /\ Anc(c) \subseteq Ids
  BY <1>1, CommitsStay, Older DEF Graph
<1>3. CASE remote' = remote
  <2>1. Anc(remote)' = Anc(remote) /\ \A c \in Anc(remote) : Content(c)' = Content(c)
    BY <1>1, <1>2, <1>3 DEF Anc, Content
  <2>2. ~Publishes(w) \/ head[MachineOf[w]] = remote
    BY <1>3 DEF Publishes, Local
  <2> QED BY <2>1, <2>2 DEF Published
<1>4. CASE Publishes(w)
  <2> DEFINE n == MachineOf[w]
  <2>1. n \in Machines /\ head[n] \in Ids /\ remote \in Anc(head[n])
    BY <1>1, <1>4, SidecarConstants, Branches DEF Publishes, IsIn, Local, Anc
  <2>2. Anc(remote) \subseteq Anc(head[n])
    BY <1>1, <2>1, Pushable
  <2>3. Anc(remote)' = Anc(head[n]) /\ \A c \in Anc(head[n]) : Content(c)' = Content(c)
    BY <1>2, <1>4, <2>1 DEF Anc, Content, Publishes, Local
  <2> QED BY <1>4, <2>2, <2>3 DEF Published
<1>5. remote' = remote \/ Publishes(w)
  <2>1. CASE CommitsDump(w)
    BY <1>1, <2>1, NewCommit
  <2> QED BY <1>1, <2>1, CloneMoves DEF branches, Tracks, Begins
<1> QED BY <1>3, <1>4, <1>5

\* Whose a content is does not change; what the shared branch has is anyone's.
LEMMA OwnKept ==
  ASSUME GraphInv, NEW w \in Workers, Steps(w) \/ Breaks(w), NEW m, NEW v, NEW r \in Rows
  PROVE  /\ Genuine(v, r) => Genuine(v, r)'
         /\ Own(m, v, r) => Own(m, v, r)'
<1>1. \A x \in Workers : work[x].row = r => work'[x].row = r
  BY RowsKept DEF Next
<1>2. Published(v, r) => Published(v, r)'
  BY PublishedKept
<1> QED BY <1>1, <1>2 DEF Genuine, Own, Writers

LEMMA SharedOwn ==
  ASSUME TypeOK, Graph, CommitsOK, NEW c \in Anc(remote), NEW m, NEW r \in Rows
  PROVE  Own(m, Content(c)[r], r)
<1>1. c \in Ids
  <2>1. remote \in Ids
    BY DEF TypeOK
  <2> QED BY <2>1, Older DEF Graph
<1> QED BY <1>1 DEF CommitsOK, Genuine, Own, Published

\* What a command commits is of its machine, or published.
LEMMA ExportedOwn ==
  ASSUME RowsInv, NEW w \in Workers, CommitsDump(w), NEW rows \in Exported(w), NEW r \in Rows
  PROVE  Own(MachineOf[w], rows[r], r)
<1>1. PICK x \in Workers : MachineOf[x] = MachineOf[w] /\ work[x].at \in Carrying /\ rows = work[x].dump
  BY DEF Exported, CommitsDump, Dumped, Carrying
<1> QED BY <1>1, SidecarConstants DEF RowsInv, Home

\* A row that is due has the content of a commit.
LEMMA DueIsCommitted ==
  ASSUME TypeOK, NEW m \in Machines, NEW s \in Ids, NEW r \in Rows
  PROVE  \E c \in {head[m], s} \union ({mergeHead[m]} \ {0}) : c \in Ids /\ Due(m, s, r) = Content(c)[r]
BY Branches DEF Due, HasMerge, MergedRow

\* What a command commits is due, or new, where every command has had the lock.
LEMMA CommitsWhatIsDue ==
  ASSUME RowsInv, NEW w \in Workers, CommitsDump(w), ~Unguarded(MachineOf[w])
  PROVE  LET n == MachineOf[w] IN
         /\ Exported(w) = {work[w].dump}
         /\ \E s \in Ids : /\ Synced(n, s) /\ (mergeHead[n] # 0 => Compared(n, s, mergeHead[n]))
                           /\ \A r \in Rows : RowOK(n, s, r) /\ RowDue(n, s, work[w].dump[r], r)
<1> DEFINE n == MachineOf[w]
<1>1. n \in Machines /\ TypeOK /\ Graph /\ HeldInv /\ MergePlanned /\ \E s \in Ids : Synced(n, s)
  BY SidecarConstants, GraphInvParts DEF RowsInv
<1>2. PICK s \in Ids : Synced(n, s)
  BY <1>1
<1>3. ASSUME mergeHead[n] # 0 PROVE Compared(n, s, mergeHead[n])
  <2>1. PICK t \in Ids : Compared(n, t, mergeHead[n])
    BY <1>1, <1>3 DEF MergePlanned
  <2>2. t = s
    BY <1>1, <1>2, <2>1, SyncedOnce DEF Compared, Graph
  <2> QED BY <2>1, <2>2
<1>4. Exported(w) = {work[w].dump}
  BY <1>1, OwnDump DEF CommitsDump
<1>5. \A r \in Rows : RowOK(n, s, r)
  BY <1>1, <1>2 DEF RowsInv, RowsDue
<1>6. \A r \in Rows : RowDue(n, s, work[w].dump[r], r)
  BY <1>5 DEF RowOK, CommitsDump
<1> QED BY <1>2, <1>3, <1>4, <1>5, <1>6

\* What is new stays new until it is committed.
LEMMA NewKept ==
  ASSUME RowsInv, NEW w \in Workers, Steps(w) \/ Breaks(w), NEW m \in Machines, NEW r \in Rows,
         NEW v, New(m, v, r),
         CommitsDump(w) /\ m = MachineOf[w] => \A rows \in Exported(w) : rows[r] # v
  PROVE  New(m, v, r)'
<1> USE SidecarConstants
<1>1. CASE v = Absent
  BY <1>1 DEF New
<1>2. CASE v # Absent
  <2>1. v \in Writers /\ MachineOf[v] = m /\ work[v].row = r /\ \A c \in Ids : Content(c)[r] # v
    BY <1>2 DEF New
  <2>2. work'[v].row = r
    BY <2>1, RowsKept DEF Next, RowsInv, Writers
  <2>3. TypeOK /\ Graph
    BY GraphInvParts DEF RowsInv
  <2>4. CASE commits' = commits
    BY <2>1, <2>2, <2>4 DEF New, Ids, Content
  <2>5. CASE CommitsDump(w)
    <3>1. ASSUME NEW rows \in Exported(w) PROVE rows[r] # v
      <4>1. CASE MachineOf[w] = m
        BY <2>5, <4>1
      <4>2. CASE MachineOf[w] # m
        <5>1. SUFFICES ASSUME rows[r] = v PROVE FALSE
          OBVIOUS
        <5>2. Own(MachineOf[w], v, r)
          BY <2>5, <5>1, ExportedOwn
        <5>3. Published(v, r)
          BY <1>2, <2>1, <4>2, <5>2 DEF Own, Writers
        <5>4. Anc(remote) \subseteq Ids
          BY <2>3, Branches, Older DEF Graph
        <5> QED BY <2>1, <5>3, <5>4 DEF Published
      <4> QED BY <4>1, <4>2
    <3>2. \A c \in Ids' : commits'[c].rows[r] # v
      BY <2>1, <2>3, <2>5, <3>1, NewCommit DEF Content
    <3> QED BY <2>1, <2>2, <3>2 DEF New, Content
  <2> QED BY <2>3, <2>4, <2>5, CloneMoves DEF branches, Tracks, Begins, Publishes
<1> QED BY <1>1, <1>2

\* What is due to a clone stays due while it neither commits nor takes in a merge.
Same(m) ==
  /\ head'[m] = head[m] /\ (HasMerge(m)' <=> HasMerge(m))
  /\ HasMerge(m) => mergeHead'[m] = mergeHead[m]

LEMMA DueKept ==
  ASSUME RowsInv, NEW w \in Workers, Steps(w) \/ Breaks(w), NEW m \in Machines, NEW s \in Ids, NEW r \in Rows,
         Same(m), ~(CommitsDump(w) /\ m = MachineOf[w])
  PROVE  /\ Due(m, s, r)' = Due(m, s, r)
         /\ \A v : RowDue(m, s, v, r) => RowDue(m, s, v, r)'
<1>1. TypeOK /\ GraphInv /\ [Next]_vars
  BY GraphInvParts DEF RowsInv, Next
<1>2. head[m] \in Ids /\ mergeHead[m] \in {0} \union Ids /\ \A c \in Ids : commits'[c] = commits[c]
  BY <1>1, Branches, CommitsStay
<1>3. Content(head[m])' = Content(head[m]) /\ Content(s)' = Content(s)
      /\ (HasMerge(m) => Content(mergeHead[m])' = Content(mergeHead[m]))
  BY <1>2 DEF Content, Same, HasMerge
<1>4. Due(m, s, r)' = Due(m, s, r)
  BY <1>3 DEF Due, Same
<1>5. ASSUME NEW v, RowDue(m, s, v, r) PROVE RowDue(m, s, v, r)'
  <2>1. CASE v = Due(m, s, r)
    BY <1>4, <2>1 DEF RowDue
  <2>2. CASE v # Due(m, s, r)
    <3>1. New(m, v, r) /\ (HasMerge(m) => Late(m, v, r))
      BY <1>5, <2>2 DEF RowDue
    <3>2. New(m, v, r)'
      BY <3>1, NewKept
    <3>3. ASSUME HasMerge(m)' PROVE Late(m, v, r)'
      <4>1. PICK x \in Writers : MachineOf[x] = m /\ work[x].row = r /\ work[x].val = v
                                 /\ work[x].onto = Parents(m)
        BY <3>1, <3>3 DEF Late, Same
      <4>2. work'[x].row = r /\ work'[x].val = v /\ work'[x].onto = Parents(m)
        BY <1>1, <4>1, RowsKept DEF Writers
      <4>3. Parents(m)' = Parents(m)
        BY <3>3 DEF Parents, Same
      <4> QED BY <4>1, <4>2, <4>3 DEF Late
    <3> QED BY <3>2, <3>3 DEF RowDue
  <2> QED BY <2>1, <2>2
<1> QED BY <1>4, <1>5

\* A row that is as it should be stays so while its machine neither writes it,
\* dumps, commits nor takes in a merge.
LEMMA RowKept ==
  ASSUME RowsInv, NEW w \in Workers, Steps(w) \/ Breaks(w), NEW m \in Machines, NEW s \in Ids, NEW r \in Rows,
         RowOK(m, s, r), db'[m][r] = db[m][r], Same(m), ~(CommitsDump(w) /\ m = MachineOf[w]),
         \A x \in Workers : MachineOf[x] = m /\ work'[x].at \in Dumped =>
            work[x].at \in Dumped /\ work'[x].dump = work[x].dump
  PROVE  RowOK(m, s, r)'
<1>1. RowDue(m, s, db[m][r], r)'
  <2>1. PICK v : v = db[m][r]
    OBVIOUS
  <2>2. RowDue(m, s, v, r)'
    BY <2>1, DueKept DEF RowOK
  <2> QED BY <2>1, <2>2
<1>2. ASSUME NEW x \in Workers, MachineOf[x] = m, work'[x].at \in Dumped
      PROVE  /\ RowDue(m, s, work[x].dump[r], r)'
             /\ db'[m][r] = work'[x].dump[r] \/ New(m, db[m][r], r)'
  <2>1. PICK v, d : v = db[m][r] /\ d = work[x].dump[r]
    OBVIOUS
  <2>2. RowDue(m, s, d, r) /\ (v = d \/ New(m, v, r)) /\ work'[x].dump[r] = d
    BY <1>2, <2>1 DEF RowOK
  <2>3. RowDue(m, s, d, r)' /\ (v = d \/ New(m, v, r)')
    BY <2>2, DueKept, NewKept
  <2> QED BY <2>1, <2>2, <2>3
<1> QED BY <1>1, <1>2 DEF RowOK

\* What a command wrote is new, and late when a merge is under way.
LEMMA RowWritten ==
  ASSUME RowsInv, NEW w \in Workers, Writes(w), NEW m, m = MachineOf[w], ~Unguarded(m),
         NEW s \in Ids, Synced(m, s), NEW r \in Rows
  PROVE  RowOK(m, s, r)'
<1> USE SidecarConstants
<1>1. /\ TypeOK /\ GraphInv /\ m \in Machines /\ w \in Writers /\ work[w].row = None
      /\ db \in [Machines -> Tables]
  BY GraphInvParts, TypeParts DEF RowsInv, StepInv, StepOK, Writes
<1>2. /\ UNCHANGED clones /\ work'[w].at = "waiting"
      /\ work'[w].row \in Rows /\ work'[w].val \in {w, Absent} /\ work'[w].onto = Parents(m)
      /\ db' = [db EXCEPT ![m][work'[w].row] = work'[w].val]
      /\ \A x \in Workers \ {w} : work'[x] = work[x]
  BY <1>1, Noted, WorkMoves DEF Writes, Steps
<1>3. RowOK(m, s, r)
  BY <1>1 DEF RowsInv, RowsDue
<1>4. \A x \in Workers : MachineOf[x] = m /\ work'[x].at \in Dumped =>
            x # w /\ work[x].at \in Dumped /\ work'[x].dump = work[x].dump
  BY <1>2 DEF Dumped
<1>5. Same(m) /\ mergeHead' = mergeHead /\ head' = head /\ ~CommitsDump(w) /\ commits' = commits
  BY <1>2 DEF clones, CommitsDump, Dumped, Writes, Same, HasMerge
<1>6. CASE r # work'[w].row
  <2>1. db'[m][r] = db[m][r]
    BY <1>1, <1>2, <1>6 DEF Tables
  <2> QED BY <1>1, <1>3, <1>4, <1>5, <2>1, RowKept DEF Steps
<1>7. CASE r = work'[w].row
  <2>1. PICK v : v = work'[w].val
    OBVIOUS
  <2>2. db'[m][r] = v
    BY <1>1, <1>2, <1>7, <2>1 DEF Tables
  <2>3. New(m, v, r)'
    <3>1. CASE v = Absent
      BY <3>1 DEF New
    <3>2. CASE v = w
      <4>1. ASSUME NEW c \in Ids PROVE Content(c)[r] # w
        <5>1. Content(c)[r] \in {Old, Absent} \/ work[Content(c)[r]].row = r
          BY DEF RowsInv, CommitsOK, Genuine
        <5> QED BY <1>1, <5>1
      <4>2. \A c \in Ids' : commits'[c].rows[r] # w
        BY <1>5, <4>1 DEF Content, Ids
      <4> QED BY <1>1, <1>7, <3>2, <4>2 DEF New, Content
    <3> QED BY <1>2, <2>1, <3>1, <3>2
  <2>4. Late(m, v, r)'
    <3>1. Parents(m)' = Parents(m)
      BY <1>5 DEF Parents
    <3> QED BY <1>1, <1>2, <1>7, <2>1, <3>1 DEF Late
  <2>5. RowDue(m, s, v, r)'
    BY <2>3, <2>4 DEF RowDue
  <2>6. ASSUME NEW x \in Workers, MachineOf[x] = m, work'[x].at \in Dumped
        PROVE  RowDue(m, s, work[x].dump[r], r)'
    <3>1. PICK d : d = work[x].dump[r]
      OBVIOUS
    <3>2. RowDue(m, s, d, r) /\ work'[x].dump[r] = d
      BY <1>3, <1>4, <2>6, <3>1 DEF RowOK
    <3>3. RowDue(m, s, d, r)'
      BY <1>1, <1>5, <3>2, DueKept DEF Steps
    <3> QED BY <3>2, <3>3
  <2> QED BY <2>2, <2>3, <2>5, <2>6 DEF RowOK
<1> QED BY <1>6, <1>7

\* A command reaches a commit by its dump only.
LEMMA DumpedBefore ==
  ASSUME TypeOK, NEW w \in Workers, Steps(w) \/ Breaks(w), ~Dumps(w), ~Redumps(w)
  PROVE  work'[w].at \notin Dumped
<1>1. CASE Writes(w) \/ Compares(w)
  BY <1>1, Noted DEF Dumped
<1>2. CASE ~(Writes(w) \/ Compares(w))
  BY <1>2, Edges DEF Moves, Steps, Dumped
<1> QED BY <1>1, <1>2

LEMMA RowCommitted ==
  ASSUME RowsInv, NEW w \in Workers, Commits(w) \/ CommitsMerge(w), CommitsDump(w), NEW m, m = MachineOf[w],
         ~Unguarded(m), NEW s \in Ids', NEW r \in Rows
  PROVE  RowOK(m, s, r)'
<1>1. TypeOK /\ HeldInv /\ m \in Machines
  BY GraphInvParts, SidecarConstants DEF RowsInv
<1>2. Exported(w) = {work[w].dump} /\ \E t \in Ids : RowOK(m, t, r)
  BY CommitsWhatIsDue
<1>3. ~HasMerge(m)' /\ commits'[head'[m]].rows = work[w].dump
  BY <1>1, <1>2, NewCommit DEF HasMerge
<1>4. db' = db /\ work[w].at \in Dumped
  BY DEF Commits, CommitsMerge, CommitsDump
<1>5. \A x \in Workers : MachineOf[x] = m => work'[x].at \notin Dumped
  <2>1. work'[w].at \notin Dumped
    BY <1>1, Edges DEF Moves, Dumped
  <2>2. Dumped \subseteq Holding
    BY DEF Dumped, Holding, Working
  <2>3. \A x \in Workers \ {w} : work'[x] = work[x]
    BY <1>1, WorkMoves DEF Steps
  <2> QED BY <1>1, <1>4, <2>1, <2>2, <2>3, Alone
<1>6. PICK v : v = db[m][r]
  OBVIOUS
<1>7. v = work[w].dump[r] \/ New(m, v, r)
  BY <1>2, <1>4, <1>6 DEF RowOK
<1>8. RowDue(m, s, v, r)'
  <2>1. CASE v = work[w].dump[r]
    BY <1>3, <2>1 DEF RowDue, Due, Content
  <2>2. CASE v # work[w].dump[r]
    <3>1. New(m, v, r)'
      BY <1>1, <1>2, <1>7, <2>2, NewKept DEF Steps
    <3> QED BY <1>3, <3>1 DEF RowDue
  <2> QED BY <2>1, <2>2
<1> QED BY <1>4, <1>5, <1>6, <1>8 DEF RowOK

LEMMA RowImported ==
  ASSUME RowsInv, NEW w \in Workers, Imports(w), NEW m, m = MachineOf[w], ~Unguarded(m),
         NEW s \in Ids, Synced(m, s), NEW r \in Rows
  PROVE  RowOK(m, s, r)'
<1>1. TypeOK /\ AncestorsOK /\ HeldInv /\ PlanInv /\ PlansTyped /\ m \in Machines
      /\ db \in [Machines -> Tables] /\ 0 \notin Ids
  BY GraphInvParts, SidecarConstants, TypeParts, CommitsTyped DEF RowsInv
<1>2. work[w].at = "begun" /\ UNCHANGED <<commits, head, mergeHead>> /\ unimported' = unimported \ {m}
  BY DEF Imports
<1>3. mergeHead[m] = work[w].up /\ work[w].up \in Ids /\ \E t \in Ids : Plan(w, t)
  BY <1>1, <1>2 DEF PlanInv, PlansTyped
<1>4. PICK t \in Ids : Plan(w, t)
  BY <1>3
<1>5. t = s
  BY <1>1, <1>4, SyncedOnce DEF Plan, Compared
<1>6. db'[m][r] = MergedRow(Content(s)[r], Content(head[m])[r], Content(mergeHead[m])[r])
  BY <1>1, <1>3, <1>4, <1>5 DEF Imports, Plan, Local
<1>7. HasMerge(m)'
  BY <1>1, <1>2, <1>3 DEF HasMerge
<1>8. db'[m][r] = Due(m, s, r)'
  BY <1>2, <1>6, <1>7 DEF Due, Content
<1>9. \A x \in Workers : MachineOf[x] = m => work'[x].at \notin Dumped
  <2>1. work'[w].at \notin Dumped
    BY <1>1, Edges DEF Moves, Dumped
  <2>2. Dumped \subseteq Holding /\ "begun" \in Holding
    BY DEF Dumped, Holding, Working
  <2>3. \A x \in Workers \ {w} : work'[x] = work[x]
    BY <1>1, WorkMoves DEF Steps
  <2> QED BY <1>1, <1>2, <2>1, <2>2, <2>3, Alone
<1> QED BY <1>8, <1>9 DEF RowOK, RowDue

LEMMA RowDumped ==
  ASSUME RowsInv, NEW w \in Workers, Dumps(w) \/ Redumps(w), NEW m, m = MachineOf[w], ~Unguarded(m),
         NEW s \in Ids, Synced(m, s), NEW r \in Rows, RowOK(m, s, r)
  PROVE  RowOK(m, s, r)'
<1>1. TypeOK /\ HeldInv /\ m \in Machines
  BY GraphInvParts, SidecarConstants DEF RowsInv
<1>2. UNCHANGED clones /\ db' = db /\ work'[w].dump = db[m] /\ work[w].at \in {"locked", "imported"}
  BY <1>1, Noted DEF Dumps, Redumps
<1>3. \A x \in Workers : MachineOf[x] = m /\ work'[x].at \in Dumped => x = w
  <2>1. Dumped \subseteq Holding /\ {"locked", "imported"} \subseteq Holding
    BY DEF Dumped, Holding, Working
  <2>2. \A x \in Workers \ {w} : work'[x] = work[x]
    BY <1>1, WorkMoves DEF Steps
  <2> QED BY <1>1, <1>2, <2>1, <2>2, Alone
<1>4. PICK v : v = db[m][r]
  OBVIOUS
<1>5. Same(m) /\ ~CommitsDump(w)
  BY <1>2 DEF CommitsDump, Dumped, clones, Same, HasMerge
<1>6. RowDue(m, s, v, r)'
  BY <1>1, <1>4, <1>5, DueKept DEF RowOK, Steps
<1> QED BY <1>2, <1>3, <1>4, <1>6 DEF RowOK

LEMMA RowsDueStep ==
  ASSUME RowsInv, NEW w \in Workers, Steps(w) \/ Breaks(w), NEW m \in Machines,
         NEW s \in Ids', ~Unguarded(m)', Synced(m, s)', NEW r \in Rows
  PROVE  RowOK(m, s, r)'
<1> USE SidecarConstants
<1>1. /\ TypeOK /\ Graph /\ HeldInv /\ GraphInv /\ db \in [Machines -> Tables] /\ ClonesTyped
      /\ ~Unguarded(m) /\ \A t \in Ids : Synced(m, t) => RowOK(m, t, r)
  BY GraphInvParts, TypeParts, LocksMissed DEF RowsInv, RowsDue, Next
<1>2. \A x \in Workers \ {w} : work'[x] = work[x]
  BY <1>1, WorkMoves
<1>3. CASE m # MachineOf[w]
  <2>1. s \in Ids /\ Synced(m, s)
    BY <1>1, <1>3, SyncedBefore
  <2>2. /\ db'[m] = db[m] /\ head'[m] = head[m] /\ mergeHead'[m] = mergeHead[m]
        /\ (m \in unimported' <=> m \in unimported)
        /\ \A x \in Workers : MachineOf[x] = m => work'[x] = work[x]
    BY <1>1, <1>3, OtherMachines
  <2>3. Same(m)
    BY <2>2 DEF Same, HasMerge
  <2> QED BY <1>1, <1>3, <2>1, <2>2, <2>3, RowKept
<1>4. CASE m = MachineOf[w] /\ Imports(w)
  <2>1. ~CommitsDump(w) /\ ~Publishes(w)
    BY <1>4 DEF Imports, CommitsDump, Publishes, Dumped
  <2> QED BY <1>1, <1>4, <2>1, SyncedBefore, RowImported
<1>5. CASE m = MachineOf[w] /\ ~Imports(w)
  <2>2. CASE CommitsDump(w)
    <3>1. Commits(w) \/ CommitsMerge(w)
      <4>1. ~(Writes(w) \/ Dumps(w) \/ Redumps(w) \/ Compares(w))
        BY <1>1, <2>2, Noted DEF CommitsDump, Dumped
      <4>2. CASE Breaks(w)
        <5>1. UNCHANGED clones
          BY <4>2 DEF Breaks
        <5>2. head'[m] # head[m]
          BY <1>1, <1>5, <2>2, NewCommit, Branches
        <5> QED BY <5>1, <5>2 DEF clones
      <4> QED BY <1>1, <2>2, <4>1, <4>2, Edges DEF Moves, Steps, CommitsDump, Dumped
    <3> QED BY <1>1, <1>5, <2>2, <3>1, RowCommitted
  <2>3. CASE Publishes(w)
    <3>1. remote \in Anc(head[m])
      BY <1>5, <2>3 DEF Publishes, IsIn, Local, Anc
    <3>2. mergeHead[m] = 0 /\ s \in Ids
      <4>1. ~CommitsDump(w)
        BY <2>3 DEF Publishes, CommitsDump, Dumped
      <4>2. mergeHead[m] = 0 /\ head[m] \in Ids
        BY <1>1, <3>1, Pushable, Branches
      <4> QED BY <1>1, <4>1, <4>2, SyncedBefore
    <3>3. PICK t \in Ids : RowOK(m, t, r)
      BY <1>1, GraphInvParts
    <3>4. RowOK(m, s, r)
      BY <3>2, <3>3 DEF RowOK, RowDue, Due, HasMerge
    <3>5. work[w].at = "pushing" /\ UNCHANGED <<head, mergeHead, unimported>> /\ ~Dumps(w) /\ ~Redumps(w)
          /\ ~Writes(w) /\ ~CommitsDump(w)
      BY <2>3 DEF Publishes, Dumps, Redumps, Writes, CommitsDump, Dumped
    <3>6. db' = db
      BY <1>5, <3>5 DEF Steps, Breaks, Admits, Locks, Commits, Fetches, Compares, BeginsMerge,
           CommitsMerge, FetchesToPush, Pushes
    <3>7. \A x \in Workers : MachineOf[x] = m /\ work'[x].at \in Dumped =>
            work[x].at \in Dumped /\ work'[x].dump = work[x].dump
      BY <1>1, <1>2, <3>5, DumpedBefore
    <3>8. Same(m)
      BY <3>5 DEF Same, HasMerge
    <3> QED BY <1>1, <3>2, <3>4, <3>5, <3>6, <3>7, <3>8, RowKept
  <2>4. CASE ~CommitsDump(w) /\ ~Publishes(w)
    <3>1. s \in Ids /\ Synced(m, s)
      BY <1>1, <2>4, SyncedBefore
    <3>2. RowOK(m, s, r)
      BY <1>1, <3>1
    <3>3. CASE Writes(w)
      BY <1>1, <1>5, <3>1, <3>3, RowWritten
    <3>4. CASE Dumps(w) \/ Redumps(w)
      BY <1>1, <1>5, <3>1, <3>2, <3>4, RowDumped
    <3>5. CASE ~(Writes(w) \/ Dumps(w) \/ Redumps(w))
      <4>1. \A x \in Workers : MachineOf[x] = m /\ work'[x].at \in Dumped =>
              work[x].at \in Dumped /\ work'[x].dump = work[x].dump
        BY <1>1, <1>2, <3>5, DumpedBefore
      <4>2. db' = db
        BY <1>5, <3>5 DEF Steps, Breaks, Admits, Locks, Commits, Fetches, Compares, BeginsMerge,
             CommitsMerge, FetchesToPush, Pushes
      <4>3. Same(m)
        <5>1. CASE Begins(w)
          BY <1>1, <1>5, <5>1 DEF Begins, Same, HasMerge, ClonesTyped
        <5>2. CASE ~Begins(w)
          BY <1>1, <1>5, <2>4, <5>2, CloneMoves DEF branches, Tracks, Same, HasMerge
        <5> QED BY <5>1, <5>2
      <4> QED BY <1>1, <2>4, <3>1, <3>2, <4>1, <4>2, <4>3, RowKept
    <3> QED BY <3>3, <3>4, <3>5
  <2> QED BY <2>2, <2>3, <2>4
<1> QED BY <1>3, <1>4, <1>5

LEMMA CommitsOKStep ==
  ASSUME RowsInv, [Next]_vars
  PROVE  CommitsOK'
<1>1. TypeOK /\ GraphInv
  BY GraphInvParts DEF RowsInv
<1>2. ASSUME NEW c \in Ids, NEW r \in Rows, NEW v, v = commits'[c].rows[r] PROVE Genuine(v, r)
  <2>1. v = Content(c)[r]
    BY <1>1, <1>2, CommitsStay DEF Content
  <2> QED BY <2>1 DEF RowsInv, CommitsOK
<1>3. CASE UNCHANGED vars
  BY <1>3 DEF RowsInv, CommitsOK, Genuine, Content, Ids, vars
<1>4. ASSUME NEW w \in Workers, Steps(w) \/ Breaks(w) PROVE CommitsOK'
  <2> DEFINE n == MachineOf[w]
  <2>0. \A r \in Rows : Content(1)'[r] = Old
    <3>1. commits'[1] = commits[1]
      BY <1>1, <1>4, CommitsStay, CommitsTyped DEF Next
    <3> QED BY <3>1 DEF RowsInv, CommitsOK, Content
  <2>1. ASSUME NEW c \in Ids', NEW r \in Rows, NEW v, v = commits'[c].rows[r], c \in Ids \/ Genuine(v, r)
        PROVE  Genuine(v, r)'
    BY <1>1, <1>2, <1>4, <2>1, OwnKept
  <2>2. CASE commits' = commits
    BY <2>0, <2>1, <2>2 DEF CommitsOK, Content, Ids
  <2>3. CASE CommitsDump(w)
    <3>1. PICK h : h = head'[n]
      OBVIOUS
    <3>2. Ids' = Ids \union {h} /\ commits'[h].rows \in Exported(w)
      BY <1>1, <2>3, <3>1, NewCommit
    <3>3. ASSUME NEW r \in Rows, NEW v, v = commits'[h].rows[r] PROVE Genuine(v, r)
      <4>1. Own(n, v, r)
        BY <2>3, <3>2, <3>3, ExportedOwn
      <4> QED BY <4>1 DEF Own, Genuine
    <3> QED BY <2>0, <2>1, <3>2, <3>3 DEF CommitsOK, Content
  <2> QED BY <1>1, <1>4, <2>2, <2>3, CloneMoves DEF branches, Tracks, Begins, Publishes
<1> QED BY <1>3, <1>4 DEF Next

\* What a machine has is its own, or published: so the database,
LEMMA HomeDb ==
  ASSUME RowsInv, NEW w \in Workers, Steps(w) \/ Breaks(w), NEW m \in Machines, NEW r \in Rows
  PROVE  Own(m, db[m][r], r)'
<1> USE SidecarConstants
<1>1. TypeOK /\ GraphInv /\ db \in [Machines -> Tables] /\ MachineOf[w] \in Machines
  BY GraphInvParts, TypeParts DEF RowsInv
<1>2. PICK v : v = db'[m][r]
  OBVIOUS
<1>3. CASE Own(m, v, r)
  <2>1. Own(m, v, r)'
    BY <1>1, <1>3, OwnKept
  <2> QED BY <1>2, <2>1
<1>4. CASE Writes(w) /\ m = MachineOf[w] /\ r = work'[w].row
  <2>1. v \in {w, Absent} /\ w \in Writers
    BY <1>1, <1>2, <1>4, Noted, GraphInvParts DEF Tables, StepInv, StepOK
  <2>2. Own(m, v, r)'
    BY <1>4, <2>1 DEF Own
  <2> QED BY <1>2, <2>2
<1>5. CASE Imports(w) /\ m = MachineOf[w]
  <2>1. v = work[w].dump[r] /\ work[w].at \in Carrying
    BY <1>1, <1>2, <1>5 DEF Imports, Carrying
  <2> QED BY <1>3, <1>5, <2>1 DEF RowsInv, Home
<1>6. CASE db'[m][r] = db[m][r]
  BY <1>2, <1>3, <1>6 DEF RowsInv, Home
<1>7. CASE ~Imports(w) /\ ~Writes(w)
  <2>1. db' = db
    BY <1>7 DEF Steps, Breaks, Admits, Locks, Dumps, Commits, Fetches, Compares, BeginsMerge, Redumps,
       CommitsMerge, FetchesToPush, Pushes
  <2> QED BY <1>6, <2>1
<1>8. m # MachineOf[w] => db'[m][r] = db[m][r]
  BY <1>1, OtherMachines
<1>9. Writes(w) /\ r # work'[w].row => db'[m][r] = db[m][r]
  BY <1>1, Noted DEF Tables
<1> QED BY <1>4, <1>5, <1>6, <1>7, <1>8, <1>9

\* the rows that a command carries,
LEMMA HomeDumps ==
  ASSUME RowsInv, NEW w \in Workers, Steps(w) \/ Breaks(w), NEW m \in Machines, NEW r \in Rows,
         NEW x \in Workers, MachineOf[x] = m, work'[x].at \in Carrying
  PROVE  Own(m, work[x].dump[r], r)'
<1> USE SidecarConstants
<1>1. TypeOK /\ Graph /\ GraphInv
  BY GraphInvParts DEF RowsInv
<1>2. PICK v : v = work'[x].dump[r]
  OBVIOUS
<1>3. ASSUME Own(m, v, r) PROVE Own(m, work[x].dump[r], r)'
  <2>1. Own(m, v, r)'
    BY <1>1, <1>3, OwnKept
  <2> QED BY <1>2, <2>1
<1>4. CASE work[x].at \in Carrying /\ work'[x].dump = work[x].dump
  BY <1>2, <1>3, <1>4 DEF RowsInv, Home
<1>5. CASE x # w
  BY <1>1, <1>4, <1>5, WorkMoves
<1>6. CASE x = w /\ (Dumps(w) \/ Redumps(w))
  <2>1. v = db[m][r]
    BY <1>1, <1>2, <1>6, Noted
  <2> QED BY <1>3, <2>1 DEF RowsInv, Home
<1>7. CASE x = w /\ Compares(w)
  <2>1. work'[w].at = "compared"
    BY <1>1, <1>7, Noted DEF Carrying, Dumped
  <2>2. PICK s \in Ids : work'[w].dump = [i \in Rows |-> MergedRow(Content(s)[i], Content(Local(w))[i],
                                                                  Content(Upstream(w))[i])]
    BY <1>1, <1>7, <2>1, ComparedNow
  <2>3. v \in {Content(head[m])[r], Content(tracking[m])[r]}
    BY <1>2, <1>7, <2>2 DEF MergedRow, Local, Upstream
  <2>4. head[m] \in Anc(head[m]) /\ tracking[m] \in Anc(remote)
    BY <1>1, Branches, Older, Behind DEF Graph
  <2>5. Own(m, Content(head[m])[r], r)
    BY <2>4 DEF RowsInv, Home
  <2>6. Own(m, Content(tracking[m])[r], r)
    BY <1>1, <2>4, SharedOwn DEF RowsInv
  <2> QED BY <1>3, <2>3, <2>5, <2>6
<1>8. CASE x = w /\ ~(Dumps(w) \/ Redumps(w) \/ Compares(w))
  <2>1. ~Writes(w)
    BY <1>1, <1>8, Noted DEF Carrying, Dumped
  <2>2. work'[w].at \in Carrying => work[w].at = "compared" /\ Keeps(w)
    BY <1>1, <1>8, <2>1, Edges DEF Moves, Steps, Carrying, Dumped
  <2> QED BY <1>4, <1>8, <2>2 DEF Keeps, Carrying
<1> QED BY <1>5, <1>6, <1>7, <1>8

\* and the branch.
LEMMA HomeHead ==
  ASSUME RowsInv, NEW w \in Workers, Steps(w) \/ Breaks(w), NEW m \in Machines, NEW r \in Rows,
         NEW c \in Anc(head[m])'
  PROVE  Own(m, Content(c)[r], r)'
<1> USE SidecarConstants
<1>1. TypeOK /\ Graph /\ GraphInv /\ \A d \in Ids : commits'[d] = commits[d]
  BY GraphInvParts, CommitsStay DEF RowsInv, Next
<1>2. PICK v : v = commits'[c].rows[r]
  OBVIOUS
<1>3. ASSUME Own(m, v, r) PROVE Own(m, Content(c)[r], r)'
  <2>1. Own(m, v, r)'
    BY <1>1, <1>3, OwnKept
  <2> QED BY <1>2, <2>1 DEF Content
<1>4. head[m] \in Ids /\ Anc(head[m]) \subseteq Ids
  BY <1>1, Branches, Older DEF Graph
<1>5. CASE c \in Anc(head[m])
  <2>1. v = Content(c)[r]
    BY <1>1, <1>2, <1>4, <1>5 DEF Content
  <2> QED BY <1>3, <1>5, <2>1 DEF RowsInv, Home
<1>6. CASE head'[m] = head[m]
  <2>1. Anc(head[m])' = Anc(head[m])
    BY <1>1, <1>4, <1>6 DEF Anc
  <2> QED BY <1>5, <2>1
<1>7. CASE m = MachineOf[w] /\ CommitsDump(w)
  <2>1. PICK h : h = head'[m]
    OBVIOUS
  <2>2. /\ commits'[h].rows \in Exported(w)
        /\ commits'[h].anc = {h} \union Anc(head[m])
                                   \union (IF mergeHead[m] = 0 THEN {} ELSE Anc(mergeHead[m]))
    BY <1>1, <1>7, <2>1, NewCommit
  <2>3. c \in commits'[h].anc
    BY <2>1 DEF Anc
  <2>4. CASE c = h
    BY <1>2, <1>3, <1>7, <2>2, <2>4, ExportedOwn
  <2>5. CASE mergeHead[m] # 0 /\ c \in Anc(mergeHead[m])
    <3>1. c \in Anc(remote) /\ c \in Ids
      BY <1>1, <2>5, Behind, Branches, Older DEF Graph
    <3>2. v = Content(c)[r]
      BY <1>1, <1>2, <3>1 DEF Content
    <3>3. Own(m, Content(c)[r], r)
      BY <1>1, <3>1, SharedOwn DEF RowsInv
    <3> QED BY <1>3, <3>2, <3>3
  <2> QED BY <1>5, <2>2, <2>3, <2>4, <2>5
<1>8. head'[m] = head[m] \/ (m = MachineOf[w] /\ CommitsDump(w))
  BY <1>1, OtherMachines, CloneMoves DEF branches, Tracks, Begins, Publishes
<1> QED BY <1>6, <1>7, <1>8

LEMMA HomeStep ==
  ASSUME RowsInv, [Next]_vars
  PROVE  Home'
<1>1. CASE UNCHANGED vars
  <2>1. \A m, v, r : Own(m, v, r)' = Own(m, v, r)
    BY <1>1 DEF vars, Own, Published, Anc, Content
  <2> QED BY <1>1, <2>1 DEF RowsInv, Home, vars, Anc, Content
<1>2. ASSUME NEW w \in Workers, Steps(w) \/ Breaks(w) PROVE Home'
  BY <1>2, HomeDb, HomeDumps, HomeHead DEF Home
<1> QED BY <1>1, <1>2 DEF Next

\* A torn commit that its machine has not published stays so until it does.
LEMMA TornKept ==
  ASSUME RowsInv, NEW w \in Workers, Steps(w) \/ Breaks(w), NEW m \in Machines, TornAhead(m),
         ~(m = MachineOf[w] /\ Publishes(w))
  PROVE  TornAhead(m)'
<1>1. /\ TypeOK /\ GraphInv /\ Graph /\ head[m] \in Ids /\ remote \in Ids /\ MachineOf[w] \in Machines
      /\ \A c \in Ids : commits'[c] = commits[c] /\ Anc(c) \subseteq Ids
  BY GraphInvParts, Branches, CommitsStay, Older, SidecarConstants DEF RowsInv, Next, Graph
<1>2. PICK c \in Anc(head[m]) \ Anc(remote) : commits[c].torn
  BY DEF TornAhead
<1>3. commits'[c].torn
  BY <1>1, <1>2
<1>4. c \in Anc(head[m])'
  <2>1. CASE head'[m] = head[m]
    BY <1>1, <1>2, <2>1 DEF Anc
  <2>2. CASE m = MachineOf[w] /\ CommitsDump(w)
    <3>1. PICK h : h = head'[m]
      OBVIOUS
    <3>2. Anc(head[m]) \subseteq commits'[h].anc
      BY <1>1, <2>2, <3>1, NewCommit
    <3> QED BY <1>2, <3>1, <3>2 DEF Anc
  <2> QED BY <1>1, <2>1, <2>2, OtherMachines, CloneMoves DEF branches, Tracks, Begins, Publishes
<1>5. c \notin Anc(remote)'
  <2>1. CASE Publishes(w)
    <3>1. m # MachineOf[w] /\ remote' = head[MachineOf[w]] /\ head[MachineOf[w]] \in Ids
      BY <1>1, <2>1, Branches DEF Publishes, Local
    <3>2. c \notin Anc(head[MachineOf[w]])
      BY <1>1, <1>2, <3>1 DEF Graph, CommonPublished
    <3> QED BY <1>1, <3>1, <3>2 DEF Anc
  <2>2. CASE remote' = remote
    BY <1>1, <1>2, <2>2 DEF Anc
  <2>3. CommitsDump(w) => remote' = remote
    BY <1>1, NewCommit
  <2> QED BY <1>1, <2>1, <2>2, <2>3, CloneMoves DEF branches, Tracks, Begins
<1> QED BY <1>3, <1>4, <1>5 DEF TornAhead

LEMMA HeadsFreshStep ==
  ASSUME RowsInv, NEW w \in Workers, Steps(w) \/ Breaks(w), NEW m \in Machines, NEW s \in Ids', Synced(m, s)',
         ~TornAhead(m)'
  PROVE  Unshared(m, s)'
<1> USE SidecarConstants
<1> DEFINE n == MachineOf[w]
           OK(t, v, r) == v \in {Content(t)[r], Absent} \/ ~Published(v, r)
<1>1. /\ TypeOK /\ GraphInv /\ Graph /\ n \in Machines /\ head[m] \in Ids
      /\ \A c \in Ids : commits'[c] = commits[c]
  BY GraphInvParts, Branches, CommitsStay DEF RowsInv, Next
<1>2. ~(m = n /\ Publishes(w)) =>
        \A t \in Ids : Synced(m, t) => \A r \in Rows : OK(t, Content(head[m])[r], r)
  BY TornKept DEF RowsInv, HeadsFresh, Unshared
<1>3. CASE m = n /\ Publishes(w)
  <2>1. UNCHANGED <<commits, head, mergeHead>> /\ s = head[m]
    <3>1. PICK t \in Ids : Synced(m, t)
      BY <1>1, GraphInvParts
    <3>2. PICK h : h = head[m]
      OBVIOUS
    <3>3. Synced(m, h)'
      BY <1>1, <1>3, <3>1, <3>2, PublishGraph
    <3>4. AncestorsOK' /\ h \in Ids'
      BY <1>1, <3>2, CommitsStay, AncestorsStep DEF Next
    <3> QED BY <1>3, <3>2, <3>3, <3>4, SyncedOnceNext DEF Publishes
  <2> QED BY <2>1 DEF Unshared, Content
<1>4. CASE m = n /\ CommitsDump(w)
  <2>1. m \notin unimported /\ ~Unguarded(m) /\ ~Publishes(w)
    <3>1. PICK h : h = head'[m]
      OBVIOUS
    <3>2. /\ commits'[h].torn = (m \in unimported \/ Unguarded(m))
          /\ h \in commits'[h].anc /\ h \notin Ids /\ remote' = remote /\ remote \in Ids
      BY <1>1, <1>4, <3>1, NewCommit, Branches
    <3>3. h \notin Anc(remote)'
      BY <1>1, <3>2, Older DEF Graph, Anc
    <3>4. ~commits'[h].torn
      BY <3>1, <3>2, <3>3 DEF TornAhead, Anc
    <3> QED BY <1>4, <3>2, <3>4 DEF Publishes, CommitsDump, Dumped
  <2>2. PICK t \in Ids : /\ Exported(w) = {work[w].dump}
                         /\ Synced(m, t) /\ (mergeHead[m] # 0 => Compared(m, t, mergeHead[m]))
                         /\ \A r \in Rows : RowDue(m, t, work[w].dump[r], r)
    BY <1>4, <2>1, CommitsWhatIsDue
  <2>3. PICK u : u = IF mergeHead[m] = 0 THEN t ELSE mergeHead[m]
    OBVIOUS
  <2>4. u \in Ids
    BY <1>1, <2>3, Branches
  <2>5. s = u
    <3>1. Synced(m, u)'
      BY <1>1, <1>4, <2>2, <2>3, CommitGraph
    <3>2. AncestorsOK' /\ u \in Ids'
      BY <1>1, <2>4, CommitsStay, AncestorsStep DEF Next
    <3> QED BY <3>1, <3>2, SyncedOnceNext
  <2>6. ASSUME NEW r \in Rows, NEW v, v = work[w].dump[r] PROVE OK(u, v, r)
    <3>1. CASE New(m, v, r)
      <4>1. Anc(remote) \subseteq Ids
        BY <1>1, Branches, Older DEF Graph
      <4> QED BY <3>1, <4>1 DEF New, Published
    <3>2. CASE v = Due(m, t, r) /\ mergeHead[m] = 0
      BY <1>2, <1>4, <2>1, <2>2, <2>3, <3>2 DEF Due, HasMerge
    <3>3. CASE v = Due(m, t, r) /\ mergeHead[m] # 0
      <4>1. /\ ~Differs(Content(t)[r], Content(head[m])[r], Content(u)[r])
            /\ v = MergedRow(Content(t)[r], Content(head[m])[r], Content(u)[r])
            /\ OK(t, Content(head[m])[r], r)
        BY <1>2, <1>4, <2>1, <2>2, <2>3, <3>3 DEF Due, HasMerge, Compared
      <4> QED BY <4>1 DEF MergedRow, Differs
    <3> QED BY <2>2, <2>6, <3>1, <3>2, <3>3 DEF RowDue
  <2>7. Content(head[m])' = work[w].dump /\ Content(u)' = Content(u)
    BY <1>1, <1>4, <2>2, <2>4, NewCommit DEF Content
  <2>8. ASSUME NEW r \in Rows, NEW v, v = work[w].dump[r]
        PROVE  v \in {Content(u)[r]', Absent} \/ ~Published(v, r)'
    BY <1>1, <2>1, <2>6, <2>7, <2>8, PublishedKept
  <2> QED BY <2>5, <2>7, <2>8 DEF Unshared
<1>5. CASE ~(m = n /\ (Publishes(w) \/ CommitsDump(w)))
  <2>1. s \in Ids /\ Synced(m, s)
    BY <1>1, <1>5, SyncedBefore
  <2>2. head'[m] = head[m]
    BY <1>1, <1>5, OtherMachines, CloneMoves DEF branches, Tracks, Begins
  <2>3. Content(head[m])' = Content(head[m]) /\ Content(s)' = Content(s)
    BY <1>1, <2>1, <2>2 DEF Content
  <2>4. ASSUME NEW r \in Rows, NEW v, v = Content(head[m])[r], v \notin {Content(s)[r], Absent}
        PROVE  ~Published(v, r)'
    <3>1. ~Published(v, r)
      BY <1>2, <1>5, <2>1, <2>4
    <3>2. CASE ~Publishes(w)
      BY <1>1, <3>1, <3>2, PublishedKept
    <3>3. CASE Publishes(w)
      <4>1. SUFFICES ASSUME Published(v, r)' PROVE FALSE
        OBVIOUS
      <4>2. PICK c \in Anc(head[n]) : Content(c)[r] = v
        BY <1>1, <3>3, <4>1, PublishedKept
      <4>3. v # Old
        <5>1. 1 \in Anc(remote) /\ Content(1)[r] = Old
          BY <1>1, Branches, Older DEF Graph, RowsInv, CommitsOK
        <5> QED BY <3>1, <5>1 DEF Published
      <4>4. Own(n, v, r)
        BY <1>1, <4>2 DEF RowsInv, Home
      <4>5. head[m] \in Anc(head[m])
        BY <1>1, Older DEF Graph
      <4>6. Own(m, v, r)
        BY <2>4, <4>5 DEF RowsInv, Home
      <4>7. MachineOf[v] = n /\ MachineOf[v] = m
        BY <2>4, <3>1, <4>3, <4>4, <4>6 DEF Own
      <4> QED BY <1>5, <3>3, <4>7
    <3> QED BY <3>2, <3>3
  <2> QED BY <2>3, <2>4 DEF Unshared
<1> QED BY <1>3, <1>4, <1>5

LEMMA MergesKeptStep ==
  ASSUME RowsInv, [Next]_vars
  PROVE  MergesKept'
<1> USE SidecarConstants
<1>1. TypeOK /\ GraphInv /\ Graph
      /\ \A c \in Ids : commits'[c] = commits[c] /\ commits[c].parents \subseteq Ids /\ Anc(c)' = Anc(c)
  <2>1. TypeOK
    BY GraphInvParts DEF RowsInv
  <2> QED BY <2>1, GraphInvParts, CommitsStay, CommitsTyped DEF RowsInv, CommitRecords, Anc
<1>2. ASSUME NEW c \in Ids, NEW r \in Rows, WrittenLate(c, r) PROVE WrittenLate(c, r)'
  <2>1. PICK x \in Writers : /\ MachineOf[x] = commits[c].by
                             /\ work[x].row = r /\ work[x].val = Content(c)[r]
                             /\ work[x].onto = commits[c].parents
    BY <1>2 DEF WrittenLate
  <2>2. work'[x].row = r /\ work'[x].val = work[x].val /\ work'[x].onto = work[x].onto
    BY <1>1, <2>1, RowsKept DEF Writers
  <2> QED BY <1>1, <2>1, <2>2 DEF WrittenLate, Content
<1>3. ASSUME NEW c \in Ids, ~commits'[c].torn PROVE MergeKept(c)'
  <2>1. MergeKept(c)
    BY <1>1, <1>3 DEF RowsInv, MergesKept
  <2>2. SUFFICES ASSUME NEW p \in commits[c].parents, NEW q \in commits[c].parents, p # q
                 PROVE  \E s \in Ids' : /\ Anc(p)' \intersect Anc(q)' = Anc(s)'
                          /\ \A r \in Rows : Content(p)'[r] = Content(s)'[r] =>
                               Content(c)'[r] = Content(q)'[r] \/ WrittenLate(c, r)'
    BY <1>1 DEF MergeKept
  <2>3. PICK s \in Ids : /\ Anc(p) \intersect Anc(q) = Anc(s)
                         /\ \A r \in Rows : Content(p)[r] = Content(s)[r] =>
                              Content(c)[r] = Content(q)[r] \/ WrittenLate(c, r)
    BY <2>1, <2>2 DEF MergeKept
  <2>4. p \in Ids /\ q \in Ids /\ s \in Ids'
    BY <1>1, <2>2, <2>3, CommitsStay
  <2>5. Content(p)' = Content(p) /\ Content(q)' = Content(q) /\ Content(s)' = Content(s)
        /\ Content(c)' = Content(c)
    BY <1>1, <2>3, <2>4 DEF Content
  <2> QED BY <1>1, <1>2, <2>3, <2>4, <2>5
<1>4. CASE commits' = commits
  BY <1>1, <1>3, <1>4 DEF MergesKept, Ids
<1>5. ASSUME NEW w \in Workers, Steps(w) \/ Breaks(w), CommitsDump(w) PROVE MergesKept'
  <2> DEFINE n == MachineOf[w]
  <2>1. PICK h, P, l, u : h = head'[n] /\ P = Parents(n) /\ l = head[n] /\ u = mergeHead[n]
    OBVIOUS
  <2>2. /\ n \in Machines /\ Ids' = Ids \union {h} /\ commits'[h].parents = P /\ commits'[h].by = n
        /\ commits'[h].rows \in Exported(w) /\ commits'[h].torn = (n \in unimported \/ Unguarded(n))
    BY <1>1, <1>5, <2>1, NewCommit
  <2>3. ASSUME ~commits'[h].torn PROVE MergeKept(h)'
    <3>1. n \notin unimported /\ Exported(w) = {work[w].dump} /\ commits'[h].rows = work[w].dump
      BY <1>5, <2>2, <2>3, CommitsWhatIsDue
    <3>2. l \in Ids /\ u \in {0} \union Ids /\ P = {l} \union ({u} \ {0})
      BY <1>1, <2>1, <2>2, <3>1, Branches DEF Parents
    <3>3. PICK s \in Ids : /\ Synced(n, s) /\ \A r \in Rows : RowDue(n, s, work[w].dump[r], r)
      BY <1>5, <2>2, <2>3, CommitsWhatIsDue
    <3>4. ASSUME u # 0 PROVE Anc(l) \intersect Anc(u) = Anc(s)
      <4>1. Anc(u) \subseteq Anc(remote) /\ u \in Ids
        BY <1>1, <2>2, <2>1, <3>2, <3>4, Behind
      <4>2. Anc(l) \intersect Anc(remote) = Anc(s) /\ s \in Anc(u)
        BY <2>1, <3>3, <3>4 DEF Synced
      <4>3. Anc(s) \subseteq Anc(u)
        BY <1>1, <4>1, <4>2, Older DEF Graph
      <4> QED BY <4>1, <4>2, <4>3
    <3>5. ASSUME u # 0, NEW r \in Rows, NEW v, v = work[w].dump[r]
          PROVE  v = MergedRow(Content(s)[r], Content(l)[r], Content(u)[r]) \/ WrittenLate(h, r)'
      <4>1. CASE v = Due(n, s, r)
        BY <2>1, <3>1, <3>5, <4>1 DEF Due, HasMerge
      <4>2. CASE v # Due(n, s, r)
        <5>1. Late(n, v, r)
          BY <2>1, <3>1, <3>3, <3>5, <4>2 DEF RowDue, HasMerge
        <5>2. PICK x \in Writers : MachineOf[x] = n /\ work[x].row = r /\ work[x].val = v
                                   /\ work[x].onto = P
          BY <2>1, <5>1 DEF Late
        <5>3. work'[x].row = r /\ work'[x].val = v /\ work'[x].onto = P
          BY <1>1, <5>2, RowsKept DEF Writers
        <5> QED BY <2>2, <3>1, <3>5, <5>2, <5>3 DEF WrittenLate, Content
      <4> QED BY <4>1, <4>2
    <3> QED
      <4>1. SUFFICES ASSUME NEW p \in P, NEW q \in P, p # q
                     PROVE  \E t \in Ids' : /\ Anc(p)' \intersect Anc(q)' = Anc(t)'
                              /\ \A r \in Rows : Content(p)'[r] = Content(t)'[r] =>
                                   Content(h)'[r] = Content(q)'[r] \/ WrittenLate(h, r)'
        BY <2>2, <3>1 DEF MergeKept
      <4>2. u # 0 /\ u \in Ids /\ {p, q} = {l, u}
        BY <3>2, <4>1
      <4>3. Anc(p)' \intersect Anc(q)' = Anc(s)'
        BY <1>1, <3>2, <3>3, <3>4, <4>2
      <4>4. Content(p)' = Content(p) /\ Content(q)' = Content(q) /\ Content(s)' = Content(s)
            /\ Content(h)' = work[w].dump
        BY <1>1, <2>2, <3>1, <3>2, <3>3, <4>2 DEF Content
      <4>5. ASSUME NEW r \in Rows, Content(p)[r] = Content(s)[r]
            PROVE  work[w].dump[r] = Content(q)[r] \/ WrittenLate(h, r)'
        BY <3>5, <4>2, <4>5 DEF MergedRow
      <4> QED BY <2>2, <3>1, <3>3, <4>3, <4>4, <4>5
  <2> QED BY <1>1, <1>3, <2>2, <2>3 DEF MergesKept
<1>6. UNCHANGED vars => commits' = commits
  BY DEF vars
<1> QED BY <1>1, <1>4, <1>5, <1>6, CloneMoves DEF Next, branches, Tracks, Begins, Publishes

LEMMA RowsStay ==
  ASSUME RowsInv, UNCHANGED vars
  PROVE  HeadsFresh' /\ RowsDue'
<1> USE DEF vars, RowsInv
<1>1. HeadsFresh'
  BY DEF HeadsFresh, Unshared, TornAhead, Synced, Anc, Content, Published, Ids
<1>2. RowsDue'
  <2>1. \A m, s, r : Synced(m, s)' = Synced(m, s) /\ HasMerge(m)' = HasMerge(m)
                     /\ Unguarded(m)' = Unguarded(m)
    BY DEF Synced, HasMerge, Unguarded, Anc
  <2>2. \A m, v, r : New(m, v, r)' = New(m, v, r) /\ Late(m, v, r)' = Late(m, v, r)
    BY DEF New, Late, Parents, Content, Ids
  <2>3. \A m, s, v, r : RowDue(m, s, v, r)' = RowDue(m, s, v, r)
    BY <2>1, <2>2 DEF RowDue, Due, Content
  <2>4. ASSUME NEW m \in Machines, NEW s \in Ids, ~Unguarded(m), Synced(m, s), NEW r \in Rows
        PROVE  RowOK(m, s, r)'
    <3>1. RowOK(m, s, r)
      BY <2>4 DEF RowsDue
    <3> QED BY <2>2, <2>3, <3>1 DEF RowOK
  <2> QED BY <2>1, <2>4 DEF RowsDue, Ids
<1> QED BY <1>1, <1>2

LEMMA RowsAlways == Spec => []RowsInv
<1>1. Init => CommitsOK /\ Home /\ HeadsFresh /\ RowsDue /\ MergesKept
  <2> SUFFICES ASSUME Init PROVE CommitsOK /\ Home /\ HeadsFresh /\ RowsDue /\ MergesKept
    OBVIOUS
  <2>1. /\ Ids = {1} /\ Anc(1) = {1} /\ remote = 1 /\ commits[1] = First
        /\ \A m \in Machines : head[m] = 1 /\ tracking[m] = 1 /\ mergeHead[m] = 0 /\ db[m] = First.rows
        /\ \A w \in Workers : work[w].at = "idle"
    BY DEF Init, Ids, Anc, First, Idle
  <2>2. \A r \in Rows : First.rows[r] = Old
    BY DEF First
  <2>3. Content(1) = First.rows /\ First.parents = {}
    BY <2>1 DEF Content, First
  <2>4. CommitsOK
    BY <2>1, <2>2, <2>3 DEF CommitsOK, Genuine
  <2>5. Home
    BY <2>1, <2>2, <2>3 DEF Home, Own, Carrying, Dumped
  <2>6. HeadsFresh
    BY <2>1 DEF HeadsFresh, Unshared
  <2>7. RowsDue
    BY <2>1, <2>3 DEF RowsDue, RowOK, RowDue, Due, HasMerge, Dumped
  <2>8. MergesKept
    BY <2>1, <2>3 DEF MergesKept, MergeKept
  <2> QED BY <2>4, <2>5, <2>6, <2>7, <2>8
<1>2. RowsInv /\ [Next]_vars => (CommitsOK /\ Home /\ HeadsFresh /\ RowsDue /\ MergesKept)'
  <2> SUFFICES ASSUME RowsInv, [Next]_vars
               PROVE  (CommitsOK /\ Home /\ HeadsFresh /\ RowsDue /\ MergesKept)'
    OBVIOUS
  <2>1. HeadsFresh' /\ RowsDue'
    <3>1. CASE UNCHANGED vars
      BY <3>1, RowsStay
    <3>2. ASSUME NEW w \in Workers, Steps(w) \/ Breaks(w) PROVE HeadsFresh' /\ RowsDue'
      BY <3>2, HeadsFreshStep, RowsDueStep DEF HeadsFresh, RowsDue
    <3> QED BY <3>1, <3>2 DEF Next
  <2> QED BY <2>1, CommitsOKStep, HomeStep, MergesKeptStep
<1> QED BY <1>1, <1>2, GraphAlways, PTL DEF Spec, RowsInv

\* A merge commit has what either side changed, unless a command of its machine wrote
\* the row after the merge had begun, whatever commands break and whoever syncs without
\* the gate.  Not so of a commit that concludes a merge which its machine's database
\* has not, as when the command broke between `git merge --no-commit` and the import,
\* nor of one made where a command had gone on without the lock of the clone.
THEOREM MergesKeepBoth == Spec => []MergesKeepBothSides
<1>1. RowsInv => MergesKeepBothSides
  <2> SUFFICES ASSUME RowsInv, NEW c \in Ids, ~commits[c].torn,
                      NEW p \in commits[c].parents, NEW q \in commits[c].parents,
                      p # q, NEW r \in Rows, Content(p)[r] = Content(LastShared(p, q))[r]
               PROVE  Content(c)[r] = Content(q)[r] \/ WrittenLate(c, r)
    BY DEF MergesKeepBothSides, KeepsBothSides
  <2>1. TypeOK /\ AncestorsOK
    BY GraphInvParts DEF RowsInv
  <2>2. p \in Ids /\ q \in Ids
    BY <2>1, CommitsTyped DEF CommitRecords
  <2>3. PICK s \in Ids : /\ Anc(p) \intersect Anc(q) = Anc(s)
                         /\ \A i \in Rows : Content(p)[i] = Content(s)[i] =>
                              Content(c)[i] = Content(q)[i] \/ WrittenLate(c, i)
    BY DEF RowsInv, MergesKept, MergeKept
  <2>4. LastShared(p, q) = s
    BY <2>1, <2>2, <2>3, LastSharedIs
  <2> QED BY <2>3, <2>4
<1> QED BY <1>1, RowsAlways, PTL

\* A push that brings back what the shared branch had replaced publishes a torn commit:
\* with any other a row has there what it had, a removal, or what no commit of it had.
THEOREM SharedRowsStand == Spec => PublishedRowsNeverRevert
<1>1. RowsInv /\ [Next]_vars =>
        [(\E r \in Rows : Reverts(r)) =>
            \E c \in (commits[remote].anc)' \ commits[remote].anc : commits[c].torn]_vars
  <2> SUFFICES ASSUME RowsInv, Next, NEW r \in Rows, Reverts(r)
               PROVE  \E c \in (commits[remote].anc)' \ commits[remote].anc : commits[c].torn
    OBVIOUS
  <2>1. PICK w \in Workers : Steps(w) \/ Breaks(w)
    BY DEF Next
  <2>2. /\ TypeOK /\ Graph /\ remote \in Ids
        /\ \A c \in Ids : commits'[c] = commits[c] /\ Anc(c) \subseteq Ids
    BY GraphInvParts, CommitsStay, Older DEF RowsInv, TypeOK, Graph
  <2>3. remote' # remote
    <3>1. remote' = remote => (Content(remote)[r])' = Content(remote)[r]
      BY <2>2 DEF Content
    <3> QED BY <3>1 DEF Reverts
  <2>4. Publishes(w)
    <3>1. CASE CommitsDump(w)
      BY <2>2, <2>3, <3>1, NewCommit
    <3> QED BY <2>1, <2>2, <2>3, <3>1, CloneMoves DEF branches, Tracks, Begins
  <2> DEFINE n == MachineOf[w]
  <2>5. n \in Machines /\ head[n] \in Ids /\ remote \in Anc(head[n]) /\ remote' = head[n]
    BY <2>2, <2>4, SidecarConstants, Branches DEF Publishes, IsIn, Local, Anc
  <2>6. Synced(n, remote)
    BY <2>2, <2>5, Pushable, GraphInvParts DEF RowsInv
  <2>7. (Content(remote)[r])' = Content(head[n])[r]
    BY <2>2, <2>5 DEF Content
  <2>8. ~Unshared(n, remote)
    BY <2>7 DEF Reverts, Unshared, Published, Anc
  <2>9. TornAhead(n)
    BY <2>2, <2>5, <2>6, <2>8 DEF RowsInv, HeadsFresh
  <2>10. (commits[remote].anc)' = Anc(head[n])
    BY <2>2, <2>5 DEF Anc
  <2> QED BY <2>9, <2>10 DEF TornAhead, Anc
<1> QED BY <1>1, RowsAlways, PTL DEF Spec, PublishedRowsNeverRevert

-----------------------------------------------------------------------------
(* Checkpoints                                                             *)

\* Another command of the machine has written the same row.
Rival(w) == \E x \in Writers \ {w} : MachineOf[x] = MachineOf[w] /\ work[x].row = work[w].row

\* An import by another command, which the gate does not keep from w, replaced what
\* w wrote before it was dumped.
Lost(w) ==
  /\ w \in replaced
  /\ \E x \in Workers \ {w} : /\ MachineOf[x] = MachineOf[w] /\ GoesOn(x)
                              /\ {KindOf[w], KindOf[x]} # {"atomic"}
Excused(w) == Rival(w) \/ Unguarded(MachineOf[w]) \/ Lost(w)

\* What was replaced stays noted.
LEMMA ReplacedStay ==
  ASSUME [Next]_vars
  PROVE  replaced \subseteq replaced'
<1>1. CASE UNCHANGED vars
  BY <1>1 DEF vars
<1>2. ASSUME NEW w \in Workers, Steps(w) \/ Breaks(w) PROVE replaced \subseteq replaced'
  <2>1. CASE Imports(w)
    BY <2>1 DEF Imports
  <2>2. CASE ~Imports(w)
    BY <1>2, <2>2 DEF Steps, Breaks, Admits, Writes, Locks, Dumps, Commits, Fetches, Compares,
       BeginsMerge, Redumps, CommitsMerge, FetchesToPush, Pushes, notes
  <2> QED BY <2>1, <2>2
<1> QED BY <1>1, <1>2 DEF Next

LEMMA HistoryGrows ==
  ASSUME GraphInv, [Next]_vars, NEW m \in Machines
  PROVE  \A c \in Anc(head[m]) : c \in Anc(head[m])' /\ Content(c)' = Content(c)
<1>1. TypeOK /\ Graph /\ head[m] \in Ids
  BY GraphInvParts, Branches
<1>2. \A c \in Ids : commits'[c] = commits[c]
  BY <1>1, CommitsStay
<1>3. Anc(head[m]) \subseteq Ids
  BY <1>1, Older DEF Graph
<1>4. \A c \in Anc(head[m]) : Content(c)' = Content(c)
  BY <1>2, <1>3 DEF Content
<1>5. CASE head'[m] = head[m]
  BY <1>1, <1>2, <1>4, <1>5 DEF Anc
<1>6. ASSUME NEW w \in Workers, CommitsDump(w) PROVE Anc(head[m]) \subseteq Anc(head[m])'
  BY <1>1, <1>2, <1>6, NewCommit DEF Anc
<1> QED BY <1>1, <1>4, <1>5, <1>6, CloneMoves DEF Next, vars, branches, Tracks, Begins, Publishes

Recorded(w) ==
  /\ work[w].at \in {"waiting", "locked"} => db[MachineOf[w]][work[w].row] = work[w].val
  /\ work[w].at = "dumped" => work[w].dump[work[w].row] = work[w].val
  /\ work[w].at \in Merging \union {"merged", "pushing"} \union Succeeded \union {"conflict"} =>
       \E c \in Anc(head[MachineOf[w]]) : Content(c)[work[w].row] = work[w].val

LEMMA RecordedStep ==
  ASSUME GraphInv, NEW x \in Writers, Excused(x) \/ Recorded(x), [Next]_vars
  PROVE  (Excused(x) \/ Recorded(x))'
<1> USE SidecarConstants
<1> DEFINE m == MachineOf[x]
<1>0. x \in Workers /\ m \in Machines /\ KindOf[x] # "push"
  BY DEF Writers
<1>1. /\ TypeOK /\ HeldInv /\ StepInv /\ StepOK(x) /\ work[x] \in Jobs /\ db \in [Machines -> Tables]
      /\ head[m] \in Ids
  BY <1>0, GraphInvParts, TypeParts, Branches DEF StepInv
<1>2. \A y \in Workers : work[y].row \in Rows =>
         work'[y].row = work[y].row /\ work'[y].val = work[y].val
  BY RowsKept
<1>3. CASE UNCHANGED vars
  BY <1>3 DEF vars, Excused, Rival, Unguarded, Lost, Recorded, Anc, Content
<1>4. ASSUME NEW w \in Workers, Steps(w) \/ Breaks(w), ~Rival(x)', ~Unguarded(m)', ~Lost(x)'
      PROVE  Recorded(x)'
  <2>1. CASE work'[x].at \in {"idle", "admitted", "failed"}
    BY <2>1 DEF Recorded, Merging, Succeeded
  <2>2. CASE x = w /\ Writes(x)
    <3>1. /\ work'[x].at = "waiting" /\ work'[x].row \in Rows
          /\ db' = [db EXCEPT ![m][work'[x].row] = work'[x].val]
      BY <1>0, <1>1, <2>2, Noted
    <3>2. db'[m][work'[x].row] = work'[x].val
      BY <1>0, <1>1, <3>1 DEF Tables
    <3> QED BY <3>1, <3>2 DEF Recorded, Merging, Succeeded
  <2>3. CASE /\ ~(x = w /\ Writes(x))
             /\ work'[x].at \notin {"idle", "admitted", "failed"}
    <3>1. work[x].at \notin {"idle", "admitted", "failed"}
      <4>1. CASE x # w
        BY <1>0, <1>1, <1>4, <2>3, <4>1, WorkMoves
      <4>2. CASE x = w
        <5>1. work[x].at # "failed"
          BY <1>1, <1>4, <4>2, WorkMoves DEF Working
        <5>2. work[x].at \in {"idle", "admitted"} => Admits(x) \/ Breaks(x)
          <6>1. ~Dumps(x) \/ work[x].at = "locked"
            BY DEF Dumps
          <6> QED BY <1>0, <1>1, <1>4, <2>3, <4>2, Edges, Noted DEF Moves, Steps
        <5> QED BY <1>0, <1>1, <2>3, <5>1, <5>2, Edges DEF Moves
      <4> QED BY <4>1, <4>2
    <3>2. work[x].row \in Rows
      BY <1>1, <3>1 DEF StepOK, Jobs
    <3>3. work'[x].row = work[x].row /\ work'[x].val = work[x].val
      BY <1>0, <1>2, <3>2
    <3>4. ~Rival(x)
      <4>1. SUFFICES ASSUME NEW y \in Writers \ {x}, MachineOf[y] = m, work[y].row = work[x].row
                     PROVE  FALSE
        BY DEF Rival
      <4>2. y \in Workers /\ work'[y].row = work[x].row
        BY <1>2, <3>2, <4>1 DEF Writers
      <4> QED BY <1>4, <3>3, <4>1, <4>2 DEF Rival
    <3>5. Recorded(x) /\ ~Unguarded(m)
      <4>1. ~Unguarded(m) /\ ~Lost(x)
        BY <1>0, <1>4, LocksMissed, ReplacedStay DEF Lost
      <4> QED BY <3>4, <4>1 DEF Excused
    <3> DEFINE Made == \E c \in Anc(head[m]) : Content(c)[work[x].row] = work[x].val
    <3>6. Made => Recorded(x)' \/ work'[x].at \in {"waiting", "locked", "dumped"}
      <4>1. ASSUME NEW c \in Anc(head[m]), Content(c)[work[x].row] = work[x].val
            PROVE  c \in Anc(head[m])' /\ Content(c)'[work'[x].row] = work'[x].val
        BY <1>0, <3>3, <4>1, HistoryGrows, <1>4 DEF Next
      <4> QED BY <4>1 DEF Recorded
    <3>7. CASE x # w
      <4>1. work'[x] = work[x]
        BY <1>0, <1>1, <1>4, <3>7, WorkMoves
      <4>2. CASE work[x].at \in {"waiting", "locked"}
        <5>1. db[m][work[x].row] = work[x].val
          BY <3>5, <4>2 DEF Recorded
        <5>2. CASE MachineOf[w] # m
          <6>1. db'[m] = db[m]
            BY <1>0, <1>1, <1>4, <5>2, OtherMachines
          <6> QED BY <4>1, <4>2, <5>1, <6>1 DEF Recorded, Merging, Succeeded
        <5>3. CASE MachineOf[w] = m /\ Writes(w)
          <6>1. /\ w \in Writers /\ work'[w].row \in Rows
                /\ db' = [db EXCEPT ![m][work'[w].row] = work'[w].val]
            BY <1>1, <5>3, Noted DEF StepInv, StepOK, Writes
          <6>2. work'[w].row # work'[x].row
            BY <1>4, <3>7, <5>3, <6>1 DEF Rival
          <6>3. db'[m][work[x].row] = db[m][work[x].row]
            BY <1>0, <1>1, <3>2, <3>3, <6>1, <6>2 DEF Tables
          <6> QED BY <4>1, <4>2, <5>1, <6>3 DEF Recorded, Merging, Succeeded
        <5>4. CASE MachineOf[w] = m /\ Imports(w)
          <6>1. work[w].at = "begun" /\ GoesOn(w)
            BY <1>1, <5>4 DEF Imports, StepInv, StepOK, Merging
          <6>2. CASE {KindOf[x], KindOf[w]} = {"atomic"}
            <7>1. KindOf[w] = "atomic" /\ KindOf[x] = "atomic"
              BY <6>2
            <7>2. gate[m] = w /\ gate[m] = x
              BY <1>0, <1>1, <4>2, <5>4, <6>1, <7>1 DEF HeldInv, LockInv, Working
            <7> QED BY <3>7, <7>2
          <6>3. CASE {KindOf[x], KindOf[w]} # {"atomic"}
            <7>1. x \notin replaced'
              BY <1>4, <3>7, <5>4, <6>1, <6>3 DEF Lost, GoesOn
            <7>2. x \notin Replaces(m, work[w].dump)
              BY <5>4, <7>1 DEF Imports
            <7>3. work[w].dump[work[x].row] = work[x].val
              BY <4>2, <5>1, <7>2 DEF Replaces
            <7>4. db'[m] = work[w].dump
              BY <1>0, <1>1, <5>4 DEF Imports
            <7> QED BY <4>1, <4>2, <7>3, <7>4 DEF Recorded, Merging, Succeeded
          <6> QED BY <6>2, <6>3
        <5>5. CASE ~Writes(w) /\ ~Imports(w)
          <6>1. db' = db
            BY <1>4, <5>5 DEF Steps, Breaks, Admits, Locks, Dumps, Commits, Fetches, Compares,
                 BeginsMerge, Redumps, CommitsMerge, FetchesToPush, Pushes
          <6> QED BY <4>1, <4>2, <5>1, <6>1 DEF Recorded, Merging, Succeeded
        <5> QED BY <5>2, <5>3, <5>4, <5>5
      <4>3. CASE work[x].at = "dumped"
        BY <3>5, <4>1, <4>3 DEF Recorded, Merging, Succeeded
      <4>4. CASE work[x].at \notin {"waiting", "locked", "dumped"}
        <5>1. Made
          BY <1>1, <3>1, <3>5, <4>4 DEF Recorded, Jobs, Working, Ended, Merging, Succeeded
        <5> QED BY <3>6, <4>1, <4>4, <5>1
      <4> QED BY <4>2, <4>3, <4>4
    <3>8. CASE x = w
      <4>1. CASE Locks(x)
        <5>1. work[x].at = "waiting" /\ work'[x].at = "locked" /\ db' = db
          BY <1>0, <1>1, <4>1, Edges DEF Moves, Locks
        <5> QED BY <3>3, <3>5, <5>1 DEF Recorded, Merging, Succeeded
      <4>2. CASE Dumps(x)
        <5>1. work[x].at = "locked" /\ work'[x].at = "dumped" /\ work'[x].dump = db[m]
          BY <1>0, <1>1, <4>2, Noted DEF Dumps
        <5> QED BY <3>3, <3>5, <5>1 DEF Recorded, Merging, Succeeded
      <4>3. CASE Commits(x)
        <5>1. /\ work[x].at = "dumped" /\ work'[x].at \notin {"waiting", "locked", "dumped"}
              /\ work[x].dump[work[x].row] = work[x].val
          BY <1>0, <1>1, <3>5, <4>3, Edges DEF Moves, Recorded
        <5>2. Content(head[m])' = work[x].dump /\ head'[m] \in Anc(head[m])'
          <6>0. Exported(x) = {work[x].dump}
            BY <1>0, <1>1, <3>5, <5>1, OwnDump DEF Dumped
          <6>1. CASE UNCHANGED clones /\ work[x].dump = Content(head[m])
            BY <1>1, <6>1, GraphInvParts, Older DEF clones, Content, Anc
          <6>2. CASE Commit(m, work[x].dump)
            <7>1. CommitsDump(x)
              BY <5>1, <6>0, <6>2 DEF CommitsDump, Dumped
            <7>2. PICK h : h = head'[m]
              OBVIOUS
            <7>3. commits'[h].rows = work[x].dump /\ h \in commits'[h].anc
              BY <1>0, <1>1, <6>0, <7>1, <7>2, NewCommit
            <7> QED BY <7>2, <7>3 DEF Content, Anc
          <6> QED BY <4>3, <6>0, <6>1, <6>2 DEF Commits, Local
        <5> QED BY <3>3, <5>1, <5>2 DEF Recorded
      <4>4. CASE ~Locks(x) /\ ~Dumps(x) /\ ~Commits(x)
        <5>1. /\ work[x].at \notin {"waiting", "locked", "dumped"}
              /\ work'[x].at \notin {"waiting", "locked", "dumped"}
          <6>1. CASE Redumps(x) \/ Compares(x)
            BY <1>0, <1>1, <6>1, Noted DEF Redumps
          <6>2. CASE ~(Redumps(x) \/ Compares(x))
            BY <1>0, <1>1, <1>4, <2>3, <3>1, <3>8, <4>4, <6>2, Edges DEF Moves, Steps
          <6> QED BY <6>1, <6>2
        <5>2. Made
          BY <1>1, <3>1, <3>5, <5>1 DEF Recorded, Jobs, Working, Ended, Merging, Succeeded
        <5> QED BY <3>6, <5>1, <5>2
      <4> QED BY <4>1, <4>2, <4>3, <4>4
    <3> QED BY <3>7, <3>8
  <2> QED BY <2>1, <2>2, <2>3
<1> QED BY <1>3, <1>4 DEF Next, Excused

\* One that was answered with success, or with a conflict, has what it wrote in the
\* history of its machine's branch, unless another command of the machine wrote the row
\* too, or a command of the machine has gone on without the lock of the clone: only an
\* import that came before its dump has taken it away, by a command that merges and
\* that the gate does not keep from it, as `sync` is and an external command.
THEOREM OnlyImportsLose == Spec => []OnlyImportsLoseWrites
<1> DEFINE Check == \A x \in Writers : Excused(x) \/ Recorded(x)
<1>1. Init => Check
  BY DEF Init, Idle, Recorded, Merging, Succeeded, Writers
<1>2. GraphInv /\ Check /\ [Next]_vars => Check'
  BY RecordedStep
<1>3. Check => OnlyImportsLoseWrites
  BY DEF OnlyImportsLoseWrites, Answered, Checkpointed, Excused, Lost, Recorded, Rival, Local, Anc
<1> HIDE DEF Check
<1> QED BY <1>1, <1>2, <1>3, GraphAlways, PTL DEF Spec
=============================================================================
