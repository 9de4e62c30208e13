------------------------- MODULE MCOutcomeWaiters -------------------------
(* Four requests under two ids; one of them has another payload.            *)
EXTENDS OutcomeWaiters

CONSTANTS r1, r2, r3, r4, i, j, a, b

MCIdOf   == [r \in Requests |-> IF r = r4 THEN j ELSE i]
MCLoadOf == [r \in Requests |-> IF r = r3 THEN b ELSE a]
=============================================================================
