---------------------------- MODULE MCSidecarSync ----------------------------
(* Two machines; what runs on each is in the configuration.                 *)
EXTENDS SidecarSync, TLC

CONSTANTS m1, m2, a1, a2, b1, b2, c1, e1, p1, s1

MCMachineOf == [w \in Workers |-> IF w \in {b1, b2} THEN m2 ELSE m1]
MCKindOf ==
  [w \in Workers |-> CASE w = e1 -> "external" [] w = p1 -> "push" [] w = s1 -> "sync" [] w = c1 -> "commit"
                       [] OTHER -> "atomic"]
Anywhere     == Working
Symmetry     == Permutations({b1, b2}) \union Permutations(Rows)
=============================================================================
