----------------------------- MODULE AtMostOnce -----------------------------
(***************************************************************************)
(* What the request outcomes promise a client, without daemons, ledgers or *)
(* workers: a request may be executed once, success is only reported after *)
(* that, and only a request whose retention ran out may be executed again. *)
(***************************************************************************)
EXTENDS Naturals

CONSTANTS
  Requests,    \* what a client may send and send again
  Permanent    \* those of them that are never forgotten

VARIABLES
  effects,     \* request -> how often it was executed
  succeeded,   \* the requests a client was told succeeded
  forgotten    \* the requests whose retention ran out

vars == <<effects, succeeded, forgotten>>

Init ==
  /\ effects \in [Requests -> {0, 1}]   \* an earlier daemon may have run it
  /\ succeeded = {}
  /\ forgotten = {}

\* The command runs: for the first time, or after it was forgotten.
Execute(r) ==
  /\ effects[r] = 0 \/ (r \in forgotten \ Permanent)
  /\ effects' = [effects EXCEPT ![r] = IF @ < 2 THEN @ + 1 ELSE @]
  /\ UNCHANGED <<succeeded, forgotten>>

\* A client is told that the request succeeded.
Tell(r) ==
  /\ effects[r] > 0
  /\ succeeded' = succeeded \union {r}
  /\ UNCHANGED <<effects, forgotten>>

\* Retention runs out for some requests at once.
Forget ==
  /\ forgotten' \in SUBSET Requests
  /\ forgotten \subseteq forgotten'
  /\ UNCHANGED <<effects, succeeded>>

Next ==
  \/ \E r \in Requests : Execute(r) \/ Tell(r)
  \/ Forget

Spec == Init /\ [][Next]_vars
=============================================================================
