--------------------------- MODULE MCPlanningState ---------------------------
(* Worktrees of one project, each with a process in it that claims in its    *)
(* name, and a branch that is gone.                                          *)
EXTENDS PlanningState, TLC

CONSTANTS e1, gone, g1, p1, w1, w2

MCAt      == [x \in Procs |-> x]
MCOwnerOf == [w \in Workspaces |-> w]
MCEpochOf == [p \in Phases |-> e1]
MCLaneIn  == [l \in Lanes |-> p1]
MCTaskIn  == [t \in Tasks |-> g1]
Symmetry  == Permutations(Workspaces)
=============================================================================
