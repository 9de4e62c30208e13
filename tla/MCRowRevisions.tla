--------------------------- MODULE MCRowRevisions ---------------------------
(* A parent table and its child, for TLC. *)
EXTENDS RowRevisions, TLC

CONSTANTS parent, child, k1, k2, k3

MCParent == (parent :> None) @@ (child :> parent)

MCKeys == (parent :> {k1, k2}) @@ (child :> {k3})

MCMaxCounter == (parent :> 2) @@ (child :> 1)

Symmetry == Permutations(Rows) \union Permutations({k1, k2})
=============================================================================
