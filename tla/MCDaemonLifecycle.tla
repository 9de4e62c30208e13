------------------------- MODULE MCDaemonLifecycle -------------------------
(***************************************************************************)
(* Instances of DaemonLifecycle for TLC.                                   *)
(***************************************************************************)
EXTENDS DaemonLifecycle, TLC

CONSTANTS Upgraded

\* The clients of the configuration that run the newer executable.
MCVersionOf == [c \in Clients |-> IF c \in Upgraded THEN 2 ELSE 1]

\* Process numbers and clients of one executable are interchangeable.
Numbers  == Permutations(Pids)
Symmetry == Numbers \union Permutations(Clients)
=============================================================================
