----------------------------- MODULE MCRfcViews -----------------------------
(* Worktrees of one repository, a published RFC and one that is not.        *)
EXTENDS RfcViews, TLC

CONSTANTS e, x, t1, t2, main, p1, p2

Published == [place |-> 0, text |-> t1, feature |-> None]
MCFirstTree == [a \in Anchors |-> IF a = e THEN Published ELSE None]
\* A database from before the two views, which any worktree wrote to: it holds
\* the row of an unmerged RFC, and of the published one that of another draft.
Draft == [place |-> 1, text |-> t2, feature |-> None]
MCFirstRows == {[a \in Anchors |-> IF a = e THEN r ELSE IF a = x THEN Published ELSE None] :
                  r \in {Published, Draft}}
MCMarked == [t \in Texts |-> t2]
MCFirstBranch == [w \in Worktrees |-> main]
\* A daemon that serves readers, and a command run beside it.
MCKindsOf == [p \in Procs |-> IF p = p1 THEN {"list", "show"} ELSE Kinds \ {"list"}]
Symmetry == Permutations(Worktrees)
=============================================================================
