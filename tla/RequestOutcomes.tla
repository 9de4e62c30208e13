-------------------------- MODULE RequestOutcomes --------------------------
(***************************************************************************)
(* The daemon's durable request outcomes: how a mutating request that a    *)
(* client may send again, over a new connection or to a new daemon, is     *)
(* executed at most once (tools/exo/src/daemon_outcomes.rs, driven by the  *)
(* dispatcher of run_daemon in tools/exo/src/daemon.rs).                   *)
(*                                                                         *)
(* Two SQLite tables are durable.  The runtime ledger has a row per        *)
(* request id: the reservation, then the response.  The canonical table of *)
(* the project database ("V021") has a row per committed atomic request,   *)
(* written in the transaction that changes the project state.              *)
(*                                                                         *)
(* A worker is one blocking task of a daemon instance serving one request. *)
(* It moves from step to step through pc; every step is one SQLite         *)
(* transaction, one lock operation or one run of the command handler.      *)
(***************************************************************************)
EXTENDS Naturals, FiniteSets

CONSTANTS
  Ids,              \* request ids
  Loads,            \* request payloads: what request_hash tells apart
  ClassOf,          \* the recovery class of each payload's command
  ExecLoads,        \* payloads of commands whose effect is Exec, not Write
  Workers,          \* blocking tasks
  MaxInstances,     \* bound: daemon instances started one after the other
  MaxAttempts,      \* bound: requests received
  MaxFaults,        \* bound: failed ledger or database calls, and panics
  AdmissionLimit,   \* DEFAULT_DAEMON_MAX_IN_FLIGHT_REQUESTS
  LegacyIds,        \* ids whose reservation an older daemon left unresolved
  Draining,         \* TRUE: a stopped daemon's workers may outlive its lock
  None              \* the null value

Classes   == {"atomic", "external", "launch"}
Instances == 1..MaxInstances
Writes    == {"reported", "unreported"}  \* what the response says of a write
Steps     == {"idle", "probe", "unconfirm", "gate", "reprobe", "prepare",
              "reserve", "wait", "core", "exec", "run", "retain", "finalize",
              "complete", "abandon", "prune", "publish"}

\* What a worker holds as the response: "busy", "retry", "conflict" and
\* "unfinished" are never stored; "unsure" says the mutation may have run.
Responses == {"none", "ok", "refused", "confirm", "busy", "retry",
              "conflict", "unfinished", "unsure"}
Stored    == {"none", "ok", "refused", "confirm", "marker"}

Rows       == [load : Loads, owner : 0..MaxInstances, old : BOOLEAN,
               class : {"atomic", "external", "unknown"}, resp : Stored]
Canonicals == [load : Loads, old : BOOLEAN]
Attempts   == [id : Ids, load : Loads, auth : BOOLEAN, inst : Instances,
               owns : BOOLEAN, resp : Responses, fresh : BOOLEAN]
Tellings   == [id : Ids, load : Loads, kind : {"ok", "swallowed"}]

ASSUME BoundsAssumption ==
  /\ MaxInstances \in Nat \ {0}
  /\ MaxAttempts \in Nat
  /\ MaxFaults \in Nat
  /\ AdmissionLimit \in Nat \ {0}
ASSUME ConstantsAssumption ==
  /\ ClassOf \in [Loads -> Classes]
  /\ ExecLoads \subseteq {load \in Loads : ClassOf[load] = "external"}
  /\ LegacyIds \subseteq Ids
  /\ Draining \in BOOLEAN
ASSUME NoneAssumption ==
  None \notin (Rows \union Canonicals \union Attempts \union Workers)

VARIABLES
  runtime,    \* daemon_request_outcomes: id -> row or None
  canonical,  \* atomic_request_outcomes: id -> committed payload or None
  txn,        \* the worker holding the project database's write lock
  status,     \* instance -> off, serving, draining, dead
  gate,       \* instance -> the worker holding project_state_gate
  poisoned,   \* instances whose project_state_gate is poisoned
  replays,    \* instance -> id -> launch replay: never, held, gone
  behind,     \* writes of an instance since it last advanced its revision
  pc,         \* worker -> step
  att,        \* worker -> the attempt it serves, or None
  told,       \* history: answers that claim a success or swallow an approval
  applied,    \* history: id -> payload -> times the effect happened, up to 2
  finalized,  \* history: ids whose commit was followed by finalization
  lapsed,     \* history: ids forgotten because their retention ran out
  leaked,     \* history: ids whose reservation a failure left behind
  bypassed,   \* history: ids executed although the ledger was unavailable
  attempts,   \* requests received so far
  faults      \* failures so far

durable == <<runtime, canonical>>
process == <<status, poisoned, replays>>
serving == <<pc, att, gate, told>>
history == <<applied, finalized, lapsed, leaked, bypassed>>
bounds  == <<attempts, faults>>
vars    == <<durable, txn, process, behind, serving, history, bounds>>

-----------------------------------------------------------------------------
Id(w)     == att[w].id
Inst(w)   == att[w].inst
Row(w)    == runtime[Id(w)]
Class(w)  == ClassOf[att[w].load]
Atomic(w) == Class(w) = "atomic"

RowClass(load) == IF ClassOf[load] = "atomic" THEN "atomic" ELSE "external"

Unresolved(row) == row # None /\ row.resp = "none"
Settled(row)    == row # None /\ row.resp # "none"
\* Fault: the stored request hash is not compared.
SameLoad_Any(w, r) == r # None

SameLoad(w, r)  == r # None /\ r.load = att[w].load

Live(i)  == status[i] \in {"serving", "draining"}
Busy(i)  == {w \in Workers : att[w] # None /\ att[w].inst = i}

Goto(w, step) == pc' = [pc EXCEPT ![w] = step]
GotoWith(w, step, resp) ==
  /\ Goto(w, step)
  /\ att' = [att EXCEPT ![w].resp = resp]

\* One more failed call, within the bound.
Fail   == faults < MaxFaults /\ faults' = faults + 1 /\ UNCHANGED attempts

\* The worker answers: its permit and, if it holds it, the gate are released.
Reply(w, kind) ==
  /\ Goto(w, "idle")
  /\ att' = [att EXCEPT ![w] = None]
  /\ gate' = [gate EXCEPT ![Inst(w)] = IF @ = w THEN None ELSE @]
  /\ told' = IF kind \in {"ok", "swallowed"}
               THEN told \union {[id |-> Id(w), load |-> att[w].load,
                                  kind |-> kind]}
               ELSE told

\* The answer that replaying the stored row gives this attempt.
ReplayKind(w) ==
  CASE Row(w).resp = "marker" ->
         IF replays[Inst(w)][Id(w)] = "held" THEN "ok" ELSE "unavailable"
    [] Row(w).resp = "confirm" /\ att[w].auth -> "swallowed"
    [] OTHER -> Row(w).resp

\* What prune_completed deletes: old settled rows, never a launch marker.
Expired(row) == Settled(row) /\ row.old /\ row.resp # "marker"
Pruned(table) ==
  [id \in Ids |-> IF Expired(table[id]) THEN None ELSE table[id]]
\* The ids forgotten by that: no canonical row remembers their commit.
PrunedIds(table) ==
  {id \in Ids : /\ Expired(table[id])
                /\ table[id].class = "atomic" => canonical[id] = None}

\* The effect of (id, load) happens once more.
Apply(id, load) ==
  applied' = [applied EXCEPT ![id][load] = IF @ < 2 THEN @ + 1 ELSE @]

-----------------------------------------------------------------------------
LegacyRow(load) == [load |-> load, owner |-> 0, old |-> FALSE,
                    class |-> "unknown", resp |-> "none"]

\* The first instance serves; a legacy reservation may already have run.
Init ==
  /\ \E L \in [LegacyIds -> Loads] :
       /\ runtime = [id \in Ids |-> IF id \in LegacyIds
                                      THEN LegacyRow(L[id]) ELSE None]
       /\ applied = [id \in Ids |-> [load \in Loads |->
                       IF id \in LegacyIds /\ L[id] = load THEN 1 ELSE 0]]
  /\ canonical = [id \in Ids |-> None]
  /\ txn = None
  /\ status = [i \in Instances |-> IF i = 1 THEN "serving" ELSE "off"]
  /\ gate = [i \in Instances |-> None]
  /\ poisoned = {}
  /\ replays = [i \in Instances |-> [id \in Ids |-> "never"]]
  /\ behind = {}
  /\ pc = [w \in Workers |-> "idle"]
  /\ att = [w \in Workers |-> None]
  /\ told = {}
  /\ finalized = {}
  /\ lapsed = {}
  /\ leaked = {}
  /\ bypassed = {}
  /\ attempts = 0
  /\ faults = 0

-----------------------------------------------------------------------------
(* Admission and the terminal probes                                       *)

\* dispatch_bounded_daemon_request: a permit of the semaphore is taken.  Any
\* request may be a client's resend; auth says it carries an approval.
Receive(w) ==
  /\ att[w] = None
  /\ attempts < MaxAttempts
  /\ attempts' = attempts + 1
  /\ \E i \in Instances, id \in Ids, load \in Loads, auth \in BOOLEAN :
       /\ status[i] = "serving"
       /\ Cardinality(Busy(i)) < AdmissionLimit
       /\ att' = [att EXCEPT ![w] =
                    [id |-> id, load |-> load, auth |-> auth, inst |-> i,
                     owns |-> FALSE, resp |-> "none", fresh |-> TRUE]]
  /\ Goto(w, "probe")
  /\ UNCHANGED <<durable, txn, process, behind, gate, told, history, faults>>

\* Where a probe that found no terminal outcome goes on.
AfterProbe(w) ==
  IF gate[Inst(w)] = w THEN "prepare"
  ELSE IF Atomic(w) THEN "gate" ELSE "reserve"

\* A stored confirmation does not answer an approved request.
Superseded(w) == att[w].auth /\ Row(w).resp = "confirm"

\* terminal_outcome_before_preparation answers from the row.
ProbeAnswers(w) ==
  /\ pc[w] \in {"probe", "reprobe"}
  /\ Row(w) # None
  /\ \/ /\ ~SameLoad(w, Row(w))
        /\ Reply(w, "conflict")
     \/ /\ SameLoad(w, Row(w)) /\ Settled(Row(w)) /\ ~Superseded(w)
        /\ Reply(w, ReplayKind(w))
  /\ UNCHANGED <<durable, txn, process, behind, history, bounds>>

\* The probe read a confirmation this approved request supersedes; the row is
\* deleted by a statement of its own.
ProbeSupersedes(w) ==
  /\ pc[w] \in {"probe", "reprobe"}
  /\ SameLoad(w, Row(w)) /\ Settled(Row(w)) /\ Superseded(w)
  /\ Goto(w, "unconfirm")
  /\ UNCHANGED <<durable, txn, process, behind, att, gate, told, history,
                 bounds>>

\* The delete names the response that was read; no row may match it by now.
DropConfirmation(w) ==
  /\ pc[w] = "unconfirm"
  /\ runtime' = IF SameLoad(w, Row(w)) /\ Row(w).resp = "confirm"
                  THEN [runtime EXCEPT ![Id(w)] = None] ELSE runtime
  /\ Goto(w, AfterProbe(w))
  /\ UNCHANGED <<canonical, txn, process, behind, att, gate, told, history,
                 bounds>>

\* No terminal row, or the lookup failed: the request goes on.
ProbeFindsNothing(w) ==
  /\ pc[w] \in {"probe", "reprobe"}
  /\ \/ /\ Row(w) = None \/ (SameLoad(w, Row(w)) /\ Unresolved(Row(w)))
        /\ UNCHANGED bounds
     \/ Fail
  /\ Goto(w, AfterProbe(w))
  /\ UNCHANGED <<durable, txn, process, behind, att, gate, told, history>>

\* Fault: the terminal probe is not repeated under the gate.
AcquireGate_NoReprobe(w) ==
  /\ pc[w] = "gate"
  /\ gate[Inst(w)] = None
  /\ Inst(w) \notin poisoned
  /\ gate' = [gate EXCEPT ![Inst(w)] = w]
  /\ Goto(w, "prepare")
  /\ UNCHANGED <<durable, txn, process, behind, att, told, history, bounds>>

\* project_state_guard: the mutex that serializes atomic requests.
AcquireGate(w) ==
  /\ pc[w] = "gate"
  /\ gate[Inst(w)] = None
  /\ Inst(w) \notin poisoned
  /\ gate' = [gate EXCEPT ![Inst(w)] = w]
  /\ Goto(w, "reprobe")
  /\ UNCHANGED <<durable, txn, process, behind, att, told, history, bounds>>

\* A poisoned mutex answers every later atomic request with an error.
GatePoisoned(w) ==
  /\ pc[w] = "gate"
  /\ Inst(w) \in poisoned
  /\ Reply(w, "retry")
  /\ UNCHANGED <<durable, txn, process, behind, history, bounds>>

\* atomic_request_needs_preparation: only a request that may execute needs
\* its workspace; one that can only be replayed does not.
NeedsPreparation(w) ==
  /\ \/ Row(w) = None
     \/ /\ SameLoad(w, Row(w)) /\ Unresolved(Row(w))
        /\ Row(w).class = "atomic" /\ Row(w).owner # Inst(w)
  /\ canonical[Id(w)] = None

Prepare(w) ==
  /\ pc[w] = "prepare"
  /\ Goto(w, "reserve")
  /\ UNCHANGED <<durable, txn, process, behind, att, gate, told, history,
                 bounds>>

PreparationFails(w) ==
  /\ pc[w] = "prepare"
  /\ NeedsPreparation(w)
  /\ Reply(w, "retry")
  /\ UNCHANGED <<durable, txn, process, behind, history, bounds>>

-----------------------------------------------------------------------------
(* The reservation (reserve_compatible, one immediate transaction)         *)

Reserving(w) == pc[w] = "reserve"

\* No row: this attempt owns the request and executes it.
ReserveFresh(w) ==
  /\ Reserving(w)
  /\ Row(w) = None
  /\ runtime' = [runtime EXCEPT ![Id(w)] =
                   [load |-> att[w].load, owner |-> Inst(w), old |-> FALSE,
                    class |-> RowClass(att[w].load), resp |-> "none"]]
  /\ att' = [att EXCEPT ![w].owns = TRUE]
  /\ Goto(w, IF Atomic(w) THEN "core" ELSE "run")
  /\ UNCHANGED <<canonical, txn, process, behind, gate, told, history, bounds>>

\* Another payload under the same id, or a settled row: answered from the row.
ReserveAnswers(w) ==
  /\ Reserving(w)
  /\ Row(w) # None
  /\ \/ ~SameLoad(w, Row(w)) /\ Reply(w, "conflict")
     \/ SameLoad(w, Row(w)) /\ Settled(Row(w)) /\ Reply(w, ReplayKind(w))
  /\ UNCHANGED <<durable, txn, process, behind, history, bounds>>

\* The same instance is executing the request: wait for its response.
ReserveJoins(w) ==
  /\ Reserving(w)
  /\ SameLoad(w, Row(w)) /\ Unresolved(Row(w)) /\ Row(w).owner = Inst(w)
  /\ Goto(w, "wait")
  /\ UNCHANGED <<durable, txn, process, behind, att, gate, told, history,
                 bounds>>

\* Fault: every reservation of another instance is taken over.
MayTakeOver_Always(w) == TRUE

\* Fault: a reservation without a recovery class is taken over.
MayTakeOver_Unmarked(w) == Atomic(w)

\* An atomic request whose reservation says so may run again.
MayTakeOver(w) == Atomic(w) /\ Row(w).class = "atomic"

\* Another instance left it unresolved: the canonical table decides whether an
\* atomic request executes; any other is never executed again.
ReserveTakesOver(w) ==
  /\ Reserving(w)
  /\ SameLoad(w, Row(w)) /\ Unresolved(Row(w)) /\ Row(w).owner # Inst(w)
  /\ IF MayTakeOver(w)
       THEN Goto(w, "core") /\ UNCHANGED <<att, gate, told>>
       ELSE Reply(w, "indeterminate")
  /\ UNCHANGED <<durable, txn, process, behind, history, bounds>>

\* The ledger is unavailable: only an atomic request goes on without it.
ReserveFails(w) ==
  /\ Reserving(w)
  /\ Fail
  /\ IF Atomic(w)
       THEN /\ Goto(w, "core")
            /\ bypassed' = bypassed \union {Id(w)}
            /\ UNCHANGED <<att, gate, told>>
       ELSE Reply(w, "retry") /\ UNCHANGED bypassed
  /\ UNCHANGED <<durable, txn, process, behind, applied, finalized, lapsed,
                 leaked>>

\* wait_for_response, abstracted from its condition variable: the row settled,
\* or it now holds another payload, or it cannot be read.
WaitAnswers(w) ==
  /\ pc[w] = "wait"
  /\ \/ /\ SameLoad(w, Row(w)) /\ Settled(Row(w))
        /\ Reply(w, ReplayKind(w)) /\ UNCHANGED bounds
     \/ /\ Row(w) # None /\ ~SameLoad(w, Row(w))
        /\ Reply(w, "retry") /\ UNCHANGED bounds
     \/ Reply(w, "retry") /\ Fail
  /\ UNCHANGED <<durable, txn, process, behind, history>>

\* The owner abandoned the reservation: an external request reserves again,
\* an atomic one reports the lost reservation.
WaitReleased(w) ==
  /\ pc[w] = "wait"
  /\ Row(w) = None
  /\ IF Atomic(w) THEN Reply(w, "retry")
                  ELSE Goto(w, "reserve") /\ UNCHANGED <<att, gate, told>>
  /\ UNCHANGED <<durable, txn, process, behind, history, bounds>>

\* Fault: a waiter waits for its owner without a deadline.
WaitTimesOut_Never(w) == FALSE /\ UNCHANGED vars

\* in_flight_wait elapsed.  A committed atomic request is replayed through the
\* core without owning the reservation; anything else is still pending.
WaitTimesOut(w) ==
  /\ pc[w] = "wait"
  /\ SameLoad(w, Row(w)) /\ Unresolved(Row(w))
  /\ IF Atomic(w) /\ canonical[Id(w)] # None
       THEN Goto(w, "core") /\ UNCHANGED <<att, gate, told>>
       ELSE Reply(w, "pending")
  /\ UNCHANGED <<durable, txn, process, behind, history, bounds>>

-----------------------------------------------------------------------------
(* The atomic core (execute_atomic_core) and its finalization              *)

\* Where an owner, or a worker that owns nothing, goes after a failure.
Release(w) == IF att[w].owns THEN "abandon" ELSE "publish"

\* Fault: the command runs without looking for a canonical row of its id.
CoreBegins_Unchecked(w) ==
  /\ pc[w] = "core"
  /\ txn = None
  /\ txn' = w
  /\ Goto(w, "exec")
  /\ UNCHANGED <<durable, process, behind, att, gate, told, history, bounds>>

\* BEGIN IMMEDIATE, then the canonical row of the id decides.
CoreBegins(w) ==
  /\ pc[w] = "core"
  /\ txn = None
  /\ canonical[Id(w)] = None
  /\ txn' = w
  /\ Goto(w, "exec")
  /\ UNCHANGED <<durable, process, behind, att, gate, told, history, bounds>>

CoreConflicts(w) ==
  /\ pc[w] = "core"
  /\ txn = None
  /\ canonical[Id(w)] # None /\ canonical[Id(w)].load # att[w].load
  /\ GotoWith(w, Release(w), "conflict")
  /\ UNCHANGED <<durable, txn, process, behind, gate, told, history, bounds>>

CoreReplays(w) ==
  /\ pc[w] = "core"
  /\ txn = None
  /\ SameLoad(w, canonical[Id(w)])
  /\ Goto(w, "finalize")
  /\ att' = [att EXCEPT ![w].resp = "ok", ![w].fresh = FALSE]
  /\ UNCHANGED <<durable, txn, process, behind, gate, told, history, bounds>>

\* The transaction cannot begin, or its commit fails and it is rolled back.
CoreFails(w) ==
  /\ \/ pc[w] = "core" /\ UNCHANGED txn
     \/ pc[w] = "exec" /\ txn' = None
  /\ Fail
  /\ GotoWith(w, Release(w), "retry")
  /\ UNCHANGED <<durable, process, behind, gate, told, history>>

\* The handler's response commits: its writes and the canonical row together.
ExecCommits(w) ==
  /\ pc[w] = "exec"
  /\ txn' = None
  /\ canonical' = [canonical EXCEPT ![Id(w)] =
                     [load |-> att[w].load, old |-> FALSE]]
  /\ Apply(Id(w), att[w].load)
  /\ behind' = behind \union {<<Inst(w), "reported">>}
  /\ GotoWith(w, "finalize", "ok")
  /\ UNCHANGED <<runtime, process, gate, told, finalized, lapsed, leaked,
                 bypassed, bounds>>

\* Fault: an error response does not roll the transaction back.
ExecRefuses_Commits(w) ==
  /\ pc[w] = "exec"
  /\ txn' = None
  /\ \E resp \in {"refused", "confirm"} : GotoWith(w, "complete", resp)
  /\ Apply(Id(w), att[w].load)
  /\ UNCHANGED <<durable, process, behind, gate, told, finalized, lapsed,
                 leaked, bypassed, bounds>>

\* An error or a request for confirmation rolls the transaction back.
ExecRefuses(w) ==
  /\ pc[w] = "exec"
  /\ txn' = None
  /\ \E resp \in {"refused", "confirm"} : GotoWith(w, "complete", resp)
  /\ UNCHANGED <<durable, process, behind, gate, told, history, bounds>>

\* finalize_atomic_response_after_commit: projection and checkpoint work.
Finalizes(w) ==
  /\ pc[w] = "finalize"
  /\ finalized' = finalized \union {Id(w)}
  /\ Goto(w, "complete")
  /\ UNCHANGED <<durable, txn, process, behind, att, gate, told, applied,
                 lapsed, leaked, bypassed, bounds>>

\* The error is returned, and a retry replays the commit and finalizes it.
FinalizeFails(w) ==
  /\ pc[w] = "finalize"
  /\ Fail
  /\ GotoWith(w, Release(w), "unfinished")
  /\ UNCHANGED <<durable, txn, process, behind, gate, told, history>>

-----------------------------------------------------------------------------
(* External execution (execute, execute_workbench_launch)                  *)

\* Fault: a busy or unconfirmed external command keeps its reservation.
AfterRun_Kept(w, resp) ==
  CASE resp \in {"confirm", "busy"} -> "publish"
    [] OTHER -> IF Class(w) = "launch" THEN "retain" ELSE "complete"

\* Fault: the launch marker is stored before the response is retained.
AfterRun_MarkerFirst(w, resp) ==
  IF resp \in {"confirm", "busy"} THEN "abandon" ELSE "complete"

\* What follows the handler of an external command.
AfterRun(w, resp) ==
  CASE resp \in {"confirm", "busy"} -> "abandon"
    [] OTHER -> IF Class(w) = "launch" THEN "retain" ELSE "complete"

\* What the response of an external command that acted says of its write: an
\* error, and a success of a command whose effect is Exec, report none.
WriteKind(w, resp) ==
  IF resp = "ok" /\ att[w].load \notin ExecLoads THEN "reported"
                                                 ELSE "unreported"

\* The handler of an external command runs to an answer.  A refused one may
\* have acted before it failed; a busy or unconfirmed one has not.
Runs(w) ==
  /\ pc[w] = "run"
  /\ \E resp \in {"ok", "refused", "confirm", "busy"}, acted \in BOOLEAN :
       /\ resp = "ok" => acted
       /\ resp \in {"confirm", "busy"} => ~acted
       /\ IF acted THEN Apply(Id(w), att[w].load) ELSE UNCHANGED applied
       /\ behind' = IF acted /\ Class(w) = "external"
                      THEN behind \union {<<Inst(w), WriteKind(w, resp)>>}
                      ELSE behind
       /\ GotoWith(w, AfterRun(w, resp), resp)
  /\ UNCHANGED <<durable, txn, process, gate, told, finalized, lapsed, leaked,
                 bypassed, bounds>>

\* retain_launch_replay: only a successful response of a daemon that is not
\* shutting down is kept, and only while its ticket is current.
Retains(w) ==
  /\ pc[w] = "retain"
  /\ \/ /\ att[w].resp = "ok" /\ status[Inst(w)] = "serving"
        /\ replays' = [replays EXCEPT ![Inst(w)][Id(w)] = "held"]
        /\ Goto(w, "complete") /\ UNCHANGED att
     \/ /\ att[w].resp = "ok"
        /\ replays' = [replays EXCEPT ![Inst(w)][Id(w)] = "gone"]
        /\ GotoWith(w, "complete", "unsure")
     \/ /\ att[w].resp = "refused"
        /\ replays' = [replays EXCEPT ![Inst(w)][Id(w)] = "gone"]
        /\ Goto(w, "complete") /\ UNCHANGED att
  /\ UNCHANGED <<durable, txn, status, poisoned, behind, gate, told, history,
                 bounds>>

\* A held replay is dropped: redeemed, revoked or expired.
ReplayExpires(i, id) ==
  /\ replays[i][id] = "held"
  /\ replays' = [replays EXCEPT ![i][id] = "gone"]
  /\ UNCHANGED <<durable, txn, status, poisoned, behind, serving, history,
                 bounds>>

-----------------------------------------------------------------------------
(* Completion, abandonment, retention                                      *)

\* complete updates the row of this id and payload that has no response yet,
\* whoever reserved it.
Completable(w) == SameLoad(w, Row(w)) /\ Unresolved(Row(w))

StoredResponse(w) == IF Class(w) = "launch" THEN "marker" ELSE att[w].resp

Completes(w) ==
  /\ pc[w] = "complete"
  /\ Completable(w)
  /\ LET settled == [runtime EXCEPT ![Id(w)].resp = StoredResponse(w)]
     IN  /\ runtime' = Pruned(settled)
         /\ lapsed' = lapsed \union PrunedIds(settled)
  /\ leaked' = leaked \ {Id(w)}
  /\ Goto(w, IF Atomic(w) THEN "prune" ELSE "publish")
  /\ UNCHANGED <<canonical, txn, process, behind, att, gate, told, applied,
                 finalized, bypassed, bounds>>

\* No row was updated, or the ledger failed.  An atomic owner abandons; an
\* external attempt reports that the mutation may have completed and leaves
\* its reservation, a launch discarding its replay first.
CompleteFails(w) ==
  /\ pc[w] = "complete"
  /\ \/ ~Completable(w) /\ UNCHANGED bounds
     \/ Fail
  /\ IF Atomic(w)
       THEN /\ Goto(w, IF att[w].owns THEN "abandon" ELSE "prune")
            /\ UNCHANGED <<att, replays, leaked>>
       ELSE /\ GotoWith(w, "publish", "unsure")
            /\ replays' = IF Class(w) = "launch"
                            THEN [replays EXCEPT ![Inst(w)][Id(w)] = "gone"]
                            ELSE replays
            /\ leaked' = leaked \union {Id(w)}
  /\ UNCHANGED <<durable, txn, status, poisoned, behind, gate, told, applied,
                 finalized, lapsed, bypassed>>

\* abandon deletes this instance's unresolved row of this id and payload.
Abandonable(w) == Completable(w) /\ Row(w).owner = Inst(w)

\* A response that was to be stored is still returned, after the pruning.
AfterAbandon(w) ==
  IF Atomic(w) /\ att[w].resp \in {"ok", "refused", "confirm"}
    THEN "prune" ELSE "publish"

Abandons(w) ==
  /\ pc[w] = "abandon"
  /\ Abandonable(w)
  /\ runtime' = [runtime EXCEPT ![Id(w)] = None]
  /\ leaked' = leaked \ {Id(w)}
  /\ att' = [att EXCEPT ![w].owns = FALSE]
  /\ Goto(w, AfterAbandon(w))
  /\ UNCHANGED <<canonical, txn, process, behind, gate, told, applied,
                 finalized, lapsed, bypassed, bounds>>

AbandonFails(w) ==
  /\ pc[w] = "abandon"
  /\ \/ ~Abandonable(w) /\ UNCHANGED <<bounds, leaked>>
     \/ Fail /\ leaked' = leaked \union {Id(w)}
  /\ Goto(w, AfterAbandon(w))
  /\ UNCHANGED <<durable, txn, process, behind, att, gate, told, applied,
                 finalized, lapsed, bypassed>>

\* Fault: unresolved reservations do not protect their canonical rows.
Forgettable_Unguarded(id) == canonical[id] # None /\ canonical[id].old

Forgettable(id) ==
  canonical[id] # None /\ canonical[id].old /\ ~Unresolved(runtime[id])

\* prune_canonical_outcomes, holding both write locks: an old canonical row
\* goes unless its request is unresolved.  Contention skips the pass.
PruneCanonical(w) ==
  /\ pc[w] = "prune"
  /\ \/ /\ txn = None
        /\ canonical' = [id \in Ids |-> IF Forgettable(id) THEN None
                                        ELSE canonical[id]]
        /\ lapsed' = lapsed \union {id \in Ids : Forgettable(id)
                                              /\ ~Unresolved(runtime[id])}
     \/ UNCHANGED <<canonical, lapsed>>
  /\ Goto(w, "publish")
  /\ UNCHANGED <<runtime, txn, process, behind, att, gate, told, applied,
                 finalized, leaked, bypassed, bounds>>

\* Fault: only a successful response advances the revision.
Advances_OnSuccess(w) ==
  /\ att[w].fresh /\ Class(w) # "launch" /\ att[w].load \notin ExecLoads
  /\ att[w].resp = "ok"

\* response_committed_write, for a response that was not replayed: its effect
\* is Write, which a refusal and the response of an Exec command are not.
Advances(w) ==
  /\ att[w].fresh /\ Class(w) # "launch" /\ att[w].load \notin ExecLoads
  /\ att[w].resp \in {"ok", "unfinished", "unsure"}

\* The writes the watchers of instance i were not told of, told now.
Told(i) == behind \ ({i} \X Writes)

\* A response that reports a write advances the revision unless it is a replay;
\* then the gate is dropped and the response returned.
Publishes(w) ==
  /\ pc[w] = "publish"
  /\ behind' = IF Advances(w) THEN Told(Inst(w)) ELSE behind
  /\ Reply(w, att[w].resp)
  /\ UNCHANGED <<durable, txn, process, history, bounds>>

-----------------------------------------------------------------------------
(* Failures of a worker, a daemon, and time                                *)

\* The handler or the finalization panics: the transaction rolls back, the
\* gate is poisoned, the permit is released, the reservation stays.
Panics(w) ==
  /\ pc[w] \in {"exec", "run", "finalize"}
  /\ Fail
  /\ txn' = IF txn = w THEN None ELSE txn
  /\ poisoned' = IF gate[Inst(w)] = w THEN poisoned \union {Inst(w)}
                                      ELSE poisoned
  /\ leaked' = leaked \union {Id(w)}
  /\ Reply(w, "panicked")
  /\ UNCHANGED <<durable, status, replays, behind, applied, finalized, lapsed,
                 bypassed>>

\* The process of instance i dies, at any point of any of its requests.
Crash(i) ==
  /\ Live(i)
  /\ status' = [status EXCEPT ![i] = "dead"]
  /\ pc' = [w \in Workers |-> IF w \in Busy(i) THEN "idle" ELSE pc[w]]
  /\ att' = [w \in Workers |-> IF w \in Busy(i) THEN None ELSE att[w]]
  /\ txn' = IF txn \in Busy(i) THEN None ELSE txn
  /\ gate' = [gate EXCEPT ![i] = None]
  /\ replays' = [replays EXCEPT ![i] = [id \in Ids |-> "gone"]]
  /\ behind' = Told(i)
  /\ poisoned' = poisoned \ {i}
  /\ UNCHANGED <<durable, told, history, bounds>>

\* run_daemon returns (idle timeout, signal) and its lock is released while
\* blocking tasks still run: the runtime waits for them as it is dropped.
Shutdown(i) ==
  /\ Draining
  /\ status[i] = "serving"
  /\ status' = [status EXCEPT ![i] = "draining"]
  /\ replays' = [replays EXCEPT ![i] = [id \in Ids |->
                   IF @[id] = "never" THEN "never" ELSE "gone"]]
  /\ UNCHANGED <<durable, txn, poisoned, behind, serving, history, bounds>>

\* The next daemon opens the ledger, which prunes it, and serves.
Start(i) ==
  /\ status[i] = "off"
  /\ \A j \in Instances : /\ j < i => status[j] \in {"draining", "dead"}
                          /\ j > i => status[j] = "off"
  /\ status' = [status EXCEPT ![i] = "serving"]
  /\ runtime' = Pruned(runtime)
  /\ lapsed' = lapsed \union PrunedIds(runtime)
  /\ UNCHANGED <<canonical, txn, poisoned, replays, behind, serving, applied,
                 finalized, leaked, bypassed, bounds>>

\* COMPLETED_OUTCOME_RETENTION_SECS pass for an id no worker is serving.
Age(id) ==
  /\ \A w \in Workers : att[w] # None => Id(w) # id
  /\ Settled(runtime[id]) \/ canonical[id] # None
  /\ runtime' = IF Settled(runtime[id])
                  THEN [runtime EXCEPT ![id].old = TRUE] ELSE runtime
  /\ canonical' = IF canonical[id] # None
                    THEN [canonical EXCEPT ![id].old = TRUE] ELSE canonical
  /\ durable' # durable
  /\ UNCHANGED <<txn, process, behind, serving, history, bounds>>

-----------------------------------------------------------------------------
Probe(w) ==
  \/ ProbeAnswers(w) \/ ProbeSupersedes(w) \/ DropConfirmation(w)
  \/ ProbeFindsNothing(w)
Enter(w) ==
  AcquireGate(w) \/ GatePoisoned(w) \/ Prepare(w) \/ PreparationFails(w)
Reserve(w) ==
  \/ ReserveFresh(w) \/ ReserveAnswers(w) \/ ReserveJoins(w)
  \/ ReserveTakesOver(w) \/ ReserveFails(w)
Wait(w) == WaitAnswers(w) \/ WaitReleased(w) \/ WaitTimesOut(w)
Core(w) ==
  \/ CoreBegins(w) \/ CoreConflicts(w) \/ CoreReplays(w) \/ CoreFails(w)
  \/ ExecCommits(w) \/ ExecRefuses(w) \/ Finalizes(w) \/ FinalizeFails(w)
External(w) == Runs(w) \/ Retains(w)
Settle(w) ==
  \/ Completes(w) \/ CompleteFails(w) \/ Abandons(w) \/ AbandonFails(w)
  \/ PruneCanonical(w) \/ Publishes(w)

\* One step of the worker's own code.
WorkerStep(w) ==
  \/ Probe(w) \/ Enter(w) \/ Reserve(w) \/ Wait(w) \/ Core(w)
  \/ External(w) \/ Settle(w)

Next ==
  \/ \E w \in Workers : Receive(w) \/ WorkerStep(w) \/ Panics(w)
  \/ \E i \in Instances : Crash(i) \/ Shutdown(i) \/ Start(i)
  \/ \E i \in Instances, id \in Ids : ReplayExpires(i, id)
  \/ \E id \in Ids : Age(id)

Spec == Init /\ [][Next]_vars

\* A live process keeps running its blocking tasks.
FairSpec == Spec /\ \A w \in Workers : WF_vars(WorkerStep(w))

-----------------------------------------------------------------------------
TypeOK ==
  /\ runtime \in [Ids -> Rows \union {None}]
  /\ canonical \in [Ids -> Canonicals \union {None}]
  /\ txn \in Workers \union {None}
  /\ status \in [Instances -> {"off", "serving", "draining", "dead"}]
  /\ gate \in [Instances -> Workers \union {None}]
  /\ poisoned \subseteq Instances
  /\ replays \in [Instances -> [Ids -> {"never", "held", "gone"}]]
  /\ behind \subseteq Instances \X Writes
  /\ pc \in [Workers -> Steps]
  /\ att \in [Workers -> Attempts \union {None}]
  /\ told \in SUBSET Tellings
  /\ applied \in [Ids -> [Loads -> 0..2]]
  /\ finalized \subseteq Ids
  /\ lapsed \subseteq Ids
  /\ leaked \subseteq Ids
  /\ bypassed \subseteq Ids
  /\ attempts \in Nat
  /\ faults \in Nat

\* However often a request is sent, to whichever daemon, and whatever crashes
\* in between, its effect happens at most once while its outcome is retained;
\* a workbench launch, whose marker is never pruned, at most once for ever.
\* (Not so for a reservation of a daemon older than the canonical table when
\* the ledger fails: see LegacyStaysIndeterminate.)
AtMostOnce ==
  \A id \in Ids, load \in Loads :
    \/ applied[id][load] <= 1
    \/ id \in lapsed /\ ClassOf[load] # "launch"
    \/ id \in LegacyIds \intersect bypassed

\* A client that reuses a request id for another atomic command never gets
\* both executed, even when the runtime ledger cannot tell it of the conflict.
OnePayloadPerId ==
  \A id \in Ids \ (lapsed \union LegacyIds), a, b \in Loads :
    /\ ClassOf[a] = "atomic" /\ ClassOf[b] = "atomic"
    /\ applied[id][a] > 0 /\ applied[id][b] > 0
    => a = b

\* An answer that reports success, fresh or replayed, is about an effect that
\* happened for that very payload.
SuccessIsReal ==
  \A t \in told : t.kind = "ok" => applied[t.id][t.load] >= 1

\* Stored atomic outcomes are true, and stay so.  A success was committed and
\* finalized: replaying it never skips projection work that a crash or an error
\* had interrupted.  A refusal is the last word: the command was never
\* committed, neither before nor, by an attempt that was overtaken, afterwards,
\* as long as the ledger that holds the refusal could be read.
StoredOutcomesAreTrue ==
  \A id \in Ids :
    runtime[id] # None /\ runtime[id].class = "atomic" =>
      /\ runtime[id].resp = "ok"
         => id \in finalized /\ applied[id][runtime[id].load] >= 1
      /\ runtime[id].resp \in {"refused", "confirm"} /\ id \notin lapsed \union bypassed
         => applied[id][runtime[id].load] = 0

\* Once the recovery of a request that another daemon left unresolved found no
\* canonical outcome and refused it, the interrupted transaction stays
\* uncommitted: absence is the proof that the recovery takes it for.
AbsenceIsProof ==
  \A w \in Workers :
    /\ pc[w] = "complete" /\ Atomic(w) /\ ~att[w].owns
    /\ att[w].resp \in {"refused", "confirm"} /\ Id(w) \notin bypassed
    => canonical[Id(w)] = None

\* A reservation of a daemon older than the canonical table is never executed
\* again while the ledger that holds it can be read, for nothing can prove that
\* it did not commit.
LegacyStaysIndeterminate ==
  \A id \in LegacyIds \ bypassed, load \in Loads :
    Unresolved(runtime[id]) /\ runtime[id].class = "unknown"
      => applied[id][load] <= 1

\* While the ledger works, no approved request is answered with the stored
\* confirmation of the attempt it approves.
ApprovalIsHeard ==
  faults = 0 => \A t \in told : t.kind # "swallowed"

\* Every unresolved reservation of a serving daemon has a worker that will
\* settle or release it, or a failure left it behind: no path forgets it.
ReservationHasOwner ==
  \A id \in Ids \ leaked :
    /\ Unresolved(runtime[id])
    /\ runtime[id].owner \in Instances
    /\ status[runtime[id].owner] = "serving"
    => \E w \in Busy(runtime[id].owner) :
           att[w].owns /\ Id(w) = id /\ SameLoad(w, runtime[id])

\* A launch marker of a serving daemon is durable only once its live response
\* was retained (or lost for good): a waiter woken by the marker finds it.
MarkerAfterRetention ==
  \A id \in Ids :
    runtime[id] # None /\ runtime[id].resp = "marker"
      => \A i \in Instances : runtime[id].owner = i /\ status[i] = "serving"
                                => replays[i][id] # "never"

\* A request of instance i that may write is still being served, or one that
\* panicked under the gate has poisoned it.
MayStillTell(i) ==
  \/ i \in poisoned \/ gate[i] # None
  \/ \E w \in Busy(i) : ~Atomic(w)

\* Once the requests of a daemon that may write are served, its watchers have
\* been told of every write whose response reports one: every atomic commit,
\* whatever fails after it, and every successful external Write command.
RevisionCoversWrites ==
  \A i \in Instances : <<i, "reported">> \in behind => MayStillTell(i)

\* Once the requests of a daemon that may write are served, its watchers have
\* been told of every write, an external command's too.  The code breaks this
\* claim: response_committed_write goes by the effect the response reports,
\* which is Exec for a strike, and none for the error of a command that wrote
\* before it failed.
WatchersSeeEveryWrite ==
  \A i \in Instances :
    (\E kind \in Writes : <<i, kind>> \in behind) => MayStillTell(i)

\* Every request a live daemon admits is answered, unless the daemon dies.
EveryRequestAnswered ==
  \A w \in Workers : att[w] # None ~> att[w] = None

-----------------------------------------------------------------------------
\* The promise of AtMostOnce, kept for every pair of a request id and payload:
\* an effect is the handler's, a success an answer some worker gave, and the
\* forgotten requests those whose rows were pruned.
Promise == INSTANCE AtMostOnce WITH
  Requests  <- Ids \X Loads,
  Permanent <- Ids \X {load \in Loads : ClassOf[load] = "launch"},
  effects   <- [r \in Ids \X Loads |-> applied[r[1]][r[2]]],
  succeeded <- {<<t.id, t.load>> : t \in {u \in told : u.kind = "ok"}},
  forgotten <- lapsed \X Loads

\* The ledger, its workers and its daemons implement that promise.
PromiseKept == Promise!Spec
=============================================================================
