------------------------- MODULE MCRequestOutcomes -------------------------
(***************************************************************************)
(* Instances of RequestOutcomes for TLC: which class each payload has, the *)
(* symmetry of the workers, and the refinement of AtMostOnce.              *)
(***************************************************************************)
EXTENDS RequestOutcomes, TLC

CONSTANTS AtomicLoads, LaunchLoads

\* The class of each payload of the configuration; the rest is external.
MCClassOf == [load \in Loads |-> IF load \in AtomicLoads THEN "atomic"
                                 ELSE IF load \in LaunchLoads THEN "launch"
                                 ELSE "external"]

Symmetry == Permutations(Workers)
=============================================================================
