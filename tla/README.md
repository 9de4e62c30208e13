# A verification project for exo

exo keeps the state of a software project (epochs, phases, goals, tasks, RFCs)
in a SQLite database and serves it to command lines, editors, agents and a
browser workbench. One daemon per project executes the requests. This
directory holds TLA+ specifications of the parts of that system whose
correctness depends on the order of things, the TLC configurations that check
them on small instances, and TLAPS proofs of what matters most.

Paths below are relative to `src/`; `exo/` stands for `tools/exo/src/`.

## 1. The system

| component | state it keeps | operations | talks to |
|---|---|---|---|
| Request outcome ledger, `exo/daemon_outcomes.rs`, `crates/exosuit-storage/src/request_transaction.rs`, migration V021 | `daemon_request_outcomes` (runtime ledger: reservation, then response, per request id); `atomic_request_outcomes` (canonical row per committed atomic request, in the project database); a generation counter and condition variable | terminal probe, reserve, wait, execute the atomic core, execute an external command or a launch, complete, abandon, prune both tables | called by the dispatcher; calls the handler and the finalizer |
| Request dispatcher, `exo/daemon.rs` (`run_daemon`, `dispatch_bounded_daemon_request`) | admission semaphore, project gate (a mutex), write revision | admit, probe, take the gate, probe again, prepare the workspace, run one of three arms, advance the revision, answer | ledger, handler, workbench host, watchers |
| Daemon lifecycle, `exo/daemon.rs`, `exo/daemon_transport.rs`, `exo/daemon_client.rs` | lock file and its `flock`, pid file, identity file, endpoint, last-activity clock | client: connect, identify, restart a stale daemon, spawn; daemon: lock, publish pid and identity, bind, serve, idle out, clean up | files shared by every client and daemon of a project |
| Workbench host, `exo/workbench/mod.rs`, `http.rs` | launch tickets, sessions, retained launch responses, the gate | issue and redeem tickets, expire and revoke sessions, retain and replay a launch response | dispatcher, browser |
| Workbench publication, `exo/workbench/publication.rs`, `planning.rs`, `snapshot.rs` | published snapshot per workspace with its revisions | observe, build, retry, publish; mutate under a revision guard | context loader, dispatcher |
| Command registry, `exo/command/traits.rs`, `registry.rs` | none (a table) | recovery class and effect of a command | dispatcher |
| Request handler, `exo/api/handler.rs` | none | execute; finalize an atomic response after its commit | context loader and writer, post-write |
| Planning state and ownership, `exo/state_machine.rs`, `exo/phase_owner.rs`, `exo/command/{epoch,phase_cmd,lane,goal,task,strike,plan}.rs` | status of every phase, goal, task and lane; who claims a phase; what a worktree has pinned and focused | start, finish, claim, release, focus, complete, reopen, move | context writer |
| Context loader and writer, `exo/context.rs`, `context/sqlite_*.rs` | the open database | load, save | storage |
| Post-write and sidecars, `exo/post_write.rs`, `exo/command/sidecar.rs` | projected SQL dump, sidecar repository, checkpoint markers | project, checkpoint, report | finalizer |
| RFC life cycle, `exo/rfc.rs` | RFC files of each worktree; shared rows that follow the default branch; a snapshot per worktree; the set of commits a process has reconciled | create, edit, promote, withdraw, archive, list, show | git, file system, database, `rfc-reconcile` lock |
| Merge driver and dump, `exo/merge_driver.rs`, `crates/exosuit-storage/src/dump.rs` | none | dump, three-way merge | git |
| Storage engine, `crates/exosuit-storage` | revision per table and row, trace of reads, schema version | virtual-table reads and writes, migration, compatibility fence | SQLite |
| Reactivity, `crates/exosuit-reactivity*`, `crates/exosuit-core` | cells, memos with their trace and revision | read, write, validate | storage |
| Clients: MCP server, VS Code extension, cockpit, `packages/*`, `exo/mcp.rs` | connection, pending requests | send, reconnect, resend under the same id | daemon |
| Check runner, process host, history, specs, ULIDs, upgrade, inbox, GitHub, verification commands, templates, docs tooling | little shared state | batch work and I/O | |

`PROJECT.json` lists all of them with what is and is not modelled.

### What is hard, and what makes it correct

* **At-most-once execution** (ledger + dispatcher). A client that loses its
  connection sends the request again under the same id, to the same daemon or
  its successor. A daemon may die anywhere; a stopped one may still run its
  blocking tasks beside its successor; the ledger and the project database are
  two files, so no transaction covers both. Correct means: an effect happens at
  most once while its outcome is retained; a stored success was committed and
  finalized; a stored refusal was never committed; an id never executes two
  payloads; no reservation is forgotten; every request is answered.
* **One daemon per project** (lifecycle). Clients and daemons race on four
  files. Correct means: at most one process serves, whoever holds the lock is
  reachable, a client never kills a healthy daemon, a request accepted before
  an idle exit is answered.
* **What observers see** (revision, traces, publication). A write that its response
  reports is followed by a revision advance before the gate is free; a result somebody kept is called
  valid only if the rows it was made of were the database's; a published
  snapshot is never newer than its revision claims.
* **Shared plans** (planning state, ownership). Several worktrees change one
  plan, some of them call by call: who writes a phase owns it, if its command asks
  at all, and a claim changes hands only when somebody asked for that.
* **State that travels** (post-write, sidecars, merge). A command reports success
  after its write is committed to the sidecar repository; a merge keeps what
  either side changed; the shared branch never goes back. Section 7 says where
  each of the three ends.
* **One view per worktree** (RFCs). Every worktree has its own documents and all
  share one database: shared rows follow the default branch only, and a view
  shows the documents of its own worktree.

## 2. The plan

| module | what it models | abstract specification | status |
|---|---|---|---|
| `AtMostOnce` | the promise to a client that resends | itself | done |
| `RequestOutcomes`, `RequestOutcomesProofs`, `RequestOutcomesGate` | ledger, dispatcher, gate, retention, crashes, draining | implements `AtMostOnce` | done |
| `DaemonLifecycle`, `DaemonLifecycleProofs` | lock, pid, identity and endpoint files; clients that spawn and restart; idle exit | one daemon serves | done |
| `OutcomeWaiters`, `OutcomeWaitersProofs` | the condition variable and generation counter behind `WaitAnswers` | | done |
| `PlanningState`, `PlanningStateProofs` | phases, goals, tasks, lanes, claims, pins and focus, in transactions and call by call | | done |
| `SidecarSync`, `SidecarSyncProofs` | dump, checkpoint, fetch, three-way merge, import, push, and the three locks around them | | done |
| `RowRevisions`, `RowRevisionsProofs` | reactive tables, digests, counters, sweeps, traces and their validation | | done |
| `RfcViews`, `RfcViewsProofs` | shared RFC rows, worktree snapshots, overrides, the commands that change documents | | done |
| `WorkbenchSessions` | launch tickets, sessions, residency | single-use ticket | planned |
| `WorkbenchPublication` | snapshot publication and revision-guarded planning | linear history of snapshots | planned |
| `TraceCache`, `SocketClient` | the editor's cache of traced results; its reconnect and resend | | planned |

A theorem worth proving next: that a repaired clean-up (the lock file left in place)
gives exclusion without the premise of `OneDaemonUntilUnlinked`.

## 3. RequestOutcomes

### State and its source

`runtime` is `daemon_request_outcomes`, `canonical` is `atomic_request_outcomes`;
`txn` is the write lock of the project database (`BEGIN IMMEDIATE`); `gate` and
`poisoned` are the mutex `project_state_gate`; `replays` the launch responses
the workbench retains in memory; `behind` holds the instances that wrote and have not yet
advanced their revision, each with the kind of the write: one that the response
reports (`Advances`), that of an external command whose effect is `Exec`
(`ExecLoads`), or that of a command that wrote and then failed (`WriteKind`). A worker is one `spawn_blocking` task; `pc` and `att`
are its place in the code and what its local variables hold. `told`, `applied`,
`finalized`, `lapsed`, `leaked` and `bypassed` are history, read by properties
only. `att[w].owns` is `owns_runtime_reservation`, `fresh` is `!replayed`.

The steps of a worker follow the code: `Receive` (admission), the terminal probe
(`ProbeAnswers`, `ProbeSupersedes`, `DropConfirmation`, `ProbeFindsNothing`),
the gate and the probe under it (`AcquireGate`, `GatePoisoned`), `Prepare`,
the reservation (`Reserve...`), the wait for another worker's answer (`Wait...`),
the atomic core and finalization (`Core...`, `Exec...`, `Finalize...`), the
external arm (`Runs`, `Retains`), and settlement (`Completes`, `Abandons`,
`PruneCanonical`, `Publishes`). `Panics`, `Crash`, `Shutdown`, `Start`, `Age` and
`ReplayExpires` are the environment.

One action is one SQLite transaction or one autocommitted statement, one lock
operation, or one run of the handler: two connections see nothing finer.
`complete` is one action with the pruning it ends in; the deletion of a
superseded confirmation is a step apart from the read, because it is a
statement of its own in the code.

### What is abstracted

* Requests are ids and payloads; `ClassOf` is the recovery class that
  `recovery_class_for_command` assigns. Responses are the kinds the ledger or
  the revision distinguishes.
* The wait on the condition variable is its outcome: answered, released, timed
  out. `OutcomeWaiters` (section 5) has the rest.
* Retention: `Age` makes a row old, for an id no worker is serving. Seven days
  pass between a row's last write and that; no request lives that long.
* The migration of legacy request hashes, the sanitizing of launch responses
  stored by older daemons, the rewriting of protocol-1 approval ids, and the
  wording of answers are left out; of their effect field the model keeps whether it
  says `Write` (`WriteKind`, `Advances`). So is the arm for reads,
  which touches neither table.
* `Draining = TRUE` lets a stopped daemon's workers run on beside its successor:
  `run_daemon` returns without waiting for its blocking tasks and removes its
  lock, and only the drop of the runtime in `main.rs` joins them.

### Bounds

`MaxInstances` daemons in succession, `MaxAttempts` requests, `MaxFaults` failed
calls or panics, `AdmissionLimit` permits. Two workers make every pair of an
owner and a waiter, of a holder and an overtaker, of a request and its resend;
two instances make a recovery; two payloads a conflict. A third request meets
what two earlier ones left behind, and the second fault reaches the error paths
of error paths (a response that cannot be stored and a reservation that cannot
be released). Retention needs an id whose row ages, not two ids: the rows of
different ids share only the prunings, which look at each row by itself.
`outcomes` has an atomic payload and a launch under one id, so the three
recovery arms that take a reservation are there except the plain external one,
which is in `outcomes_draining` with two atomic payloads and the unmarked
reservation of an older daemon.

### Runs

| run | instance | what it shows |
|---|---|---|
| `outcomes` | one id, an atomic payload and a launch, two daemons one after the other, two faults, fair workers | effects happen at most once (`AtMostOnce`), as the abstract module promises (`PromiseKept`, a refinement); no reservation is forgotten (`ReservationHasOwner`); no launch marker before its retained response (`MarkerAfterRetention`); a stored refusal was never committed and a stored success was finalized (`StoredOutcomesAreTrue`); an approval is not answered with the confirmation it approves (`ApprovalIsHeard`); watchers hear, before the gate is free, of every write that is reported as one: every atomic commit, whatever fails after it, and every successful `Write` command (`RevisionCoversWrites`); every admitted request is answered or its daemon dies (`EveryRequestAnswered`) |
| `outcomes_draining` | two atomic payloads and an external one under one id, a predecessor whose workers run on, an unmarked reservation, no faults | one payload per id (`OnePayloadPerId`); reported successes happened (`SuccessIsReal`); the unmarked reservation is never executed (`LegacyStaysIndeterminate`) |
| `outcomes_overtaken` | a successor beside a draining predecessor | *violated*: `AbsenceIsProof`, see below |

`outcomes` uses no symmetry, because it checks liveness; the other two permute the
workers. Deadlock is not checked: attempts are bounded, and a dead daemon nobody
asks for is a state the system may rest in.

Fairness, for `EveryRequestAnswered` only: weak fairness of each worker's own
steps. A blocking task is an operating-system thread that runs while its process
lives; SQLite's busy timeout and the wait deadline end every blocking call. The
gate is an unfair mutex, but a waiter can be overtaken only by requests, which
are bounded here.

### What the code does otherwise than its texts say

* Finding `outcomes_overtaken`: the code takes the absence of a canonical row as
  proof that an interrupted transaction did not commit. The predecessor's worker
  may still be running: it commits after its successor has refused the request.
  `AtMostOnce` and `OnePayloadPerId` hold all the same, because the canonical row
  and the effect are one transaction.
* The dispatcher advances the revision for a response
  that says `Write` (`daemon.rs`:1811-1813, 3179-3211), and a success says what the effect
  of its command is. `strike start`, `finish` and `abort` have the effect `Exec`
  (`command/strike.rs`:119, 265, 392) and write the plan, so no watcher is told; nor of
  what a command wrote that failed afterwards, whose error says nothing. RFC
  10204:316-319 has such commands "still publish a revision after a committed write".
  `RevisionCoversWrites` is therefore about reported writes, and the next advance,
  for whatever request, covers the others (`Told`); `WatchersSeeEveryWrite` is about all
  writes, and `RequestOutcomes_unreported.cfg` violates it.
* When the reservation itself fails, an atomic request runs without the ledger
  (`daemon_outcomes.rs:976`), even if the ledger holds an unmarked reservation that
  RFC 10195 (`docs/rfcs/stage-1/10195-*.md`:87-89) says remains indeterminate.
  `LegacyStaysIndeterminate` is therefore checked without faults; with one it is
  violated. Of a request that goes around the ledger only the canonical row keeps it
  from being executed twice: `AtMostOnce` includes such ids, and fails if they skip
  the check of that row.

## 4. DaemonLifecycle

### State and its source

Four files of the runtime directory: `lockFile` with the `flock` of each inode
(`lockOf`, and `handle` for who has which inode open), `pidFile`, `identity` and
`endpoint`. Files that record a process record the daemon, so a reader can ask
what the code asks of them: its number, its executable, whether the process
that has the number now is the same (`process_start_id`). `proc` and `pidOf` are
the operating system's process table, `dpc` a daemon's step of `run_daemon`,
`call` a client's call with what it has read so far. `unlinked`, `misfired` and
`disturbed` are history, read by properties only.

A client's call is `ensure_daemon_paths_with_report` or the forced restart:
connect, read the identity, check it, probe or ask (`Connects` to `Discovers`);
`restart_stale_daemon_once` (`Restarts`, `AwaitsExit`, `ExitTimesOut`); lock, drop
the lock, clear the endpoint, spawn, wait (`OpensLock` to `WaitTimesOut`, with the
one retry of `restart_after_socket_wait_failure`); connect again and probe
(`Identifies`, `Reaches`, `Confirms`). A daemon's steps are those of `run_daemon`
from the lock to the bind, and the clean-up path by path. `open` and `flock` are
two steps, because everything interesting happens between them.

### What is abstracted

* Time: with `Slow` every timeout may strike at any moment; without it a wait
  ends by its timeout only if nothing on its way could end it.
* The check of a process and the signal that follows it are one step: the number
  is not reused within those few instructions. Reading the identity and
  `daemon.pid` for one comparison is one step too.
* SIGTERM around the bind either kills the daemon (its handler is not installed
  yet) or starts its clean-up; both are possible from `bind` and `serving`.
* The recognition of a daemon older than the identity file by its command line,
  the health file, the diagnostics, and a bind that completes during the
  clean-up are left out. A daemon is spawned once per name.
* Requests and replies beyond the probe belong to `RequestOutcomes`, whose
  instances follow one another, possibly draining: what this module shows of
  two daemons at once is outside its assumptions. The canonical row and the
  write lock of the database still protect atomic requests then; external
  commands depend on the lock.

### Bounds

Two daemons make a replacement or a race to start, the third a race of a start
with a clean-up. Two clients are needed for every race of calls; two or three
calls for a restart of what an earlier call left. One crash reaches every
half-written combination of files; the process numbers are as many as can be in
use, but one fewer in `lifecycle_recovers`, so that numbers are reused and run
out. Four inodes never run out, since a process has one open. `Slow` is FALSE in
the runs: a forced restart already kills daemons at every step of their start.
The theorems of section 10 on exclusion, on the files and on signals cover slow
processes too; that on failed calls does not.

### Runs

| run | instance | what it shows |
|---|---|---|
| `lifecycle_exclusion` | two clients of different executables, two daemons, a crash anywhere | until a clean-up has removed the lock file's path, one daemon at most is past the lock (`OneDaemonUntilUnlinked`) and the files name the one that serves (`ServerIsIdentified`) |
| `lifecycle_recovers` | one client, three daemons, three calls, a crash, a process number another program may get | whatever files a crash or a clean-up left, an undisturbed call gets its daemon (`FailureHasCause`); no other program is signalled, also not between SIGTERM and SIGKILL (`NoStrangerSignalled`); every call ends (`EveryCallEnds`) |
| `lifecycle_two_daemons` | three daemons, two clients | *violated*: `OneDaemonPerProject`, see below |

Deadlock is not checked: calls are bounded, and a project nobody calls rests.

Fairness, for `EveryCallEnds` only: each client and each daemon keeps running.
Nothing is assumed of crashes, stops, calls or the reuse of numbers.

### What the code does otherwise than its texts say

* Finding `lifecycle_two_daemons`: a clean-up removes the lock file's path before it
  drops the lock. A daemon that opened the file before that locks a file without
  a name; the next one creates the path anew and locks that; both serve.
* A client drops the lock (`daemon.rs:2650`) before `spawn_daemon_after_lock` clears
  the endpoint (`daemon.rs:1999-2000`) and spawns; a comment (`daemon.rs:1608-1610`)
  calls that safe only under the lock. A daemon another client started may have bound the endpoint meanwhile;
  it then holds the lock and serves, but cannot be reached. The clients' wait
  times out and they replace it. `ServerIsReachable` states the contrary; two
  daemons and two clients violate it, and no run checks it.
* The two meet: with two clients a daemon may lose its endpoint to the second
  race and its identity to the late end of its predecessor's clean-up. It can
  then be neither reached nor verified, so no call replaces it, and every call
  fails until it stops for lack of activity. `FailureHasCause` is therefore
  stated over runs with one client, and `disturbed` marks the calls beside which
  another ran.

## 5. OutcomeWaiters

What `RequestOutcomes` keeps of a wait is how it ends. This module has the
mechanism: a row in a database, written under the lock of one connection, and a
generation counter with a condition variable, under a mutex of the daemon. No
lock covers both, so a waiter may read the row, the owner may answer and notify,
and the waiter may then sleep.

| action | code (`exo/daemon_outcomes.rs`) |
|---|---|
| `Probes`, `DropsConfirmation` | `terminal_outcome_before_preparation_with_launch_replay`: a stored answer is replayed; a stored confirmation is deleted, in a second statement, by the request of the same payload that brings its approval (`Supersedes`) |
| `Reserves`, `ReserveFails` | the first statement of `reserve_compatible`; an executor whose reservation failed goes on `beside` the ledger |
| `Completes`, `Abandons` | the update and the deletion of the row, whose conditions name the id, the payload and "unanswered", and not the owner |
| `Notifies` | `notify_waiters`: the generation grows, every sleeper wakes |
| `Observes`, `Reads`, `Sleeps` | the loop of `wait_for_response`: the generation, then the row, then a wait only if the generation is still the one observed |
| `DeadlinePasses`, `WakesLate`, `WakesSpuriously`, `GivesUp` | the deadline, `wait_timeout`, and the row's last reading |
| `ForeignCompletes` | a worker of the daemon before this one answers the row; its notification stays in its own process |

Run `waiters_wakeup`: four requests under two ids, one of them with another
payload, one id that a predecessor's worker may answer. Three requests of an id
make an owner, a waiter and an executor beside the ledger, or an owner that stores a
confirmation, a waiter and an approved resend that deletes it; each request is made
once, so nothing needs a bound. `NoLostWakeUp`: a request asleep on a row that has
changed is about to be notified, unless the answer came from the other daemon.
`AnswersStay`: a final answer stays as it is whatever completes, abandons or recovers,
and a stored confirmation goes only by an approved request of its id and payload.
The deletion notifies nobody; a waiter that sleeps on a row is awake, or about to be
notified, from the moment the confirmation was stored.
`AnswerIsHeard`: a waiting request returns once its id is answered, even if its
deadline never comes. The symmetry would be unsound for that, so there is none.

Fairness: weak fairness of the steps a thread takes by itself (probe, drop a confirmation,
reserve, complete or abandon, notify, observe, read, sleep, give up, wake at a deadline that has
passed). Nothing is assumed of deadlines or spurious wake-ups, so a lost
notification cannot be repaired by either.

## 6. PlanningState

`db` holds the planning tables: the status of phases, goals, tasks and lanes, the
epoch of each phase, the phase of each goal, the owner of each phase, and per worktree the pinned phase
and the focused lane. A command reads the tables when it is loaded and turns into
a list of writer calls. In the daemon the list is one immediate transaction (`InOne`:
`Runs` makes the calls one after the other, and `After` undoes all of them when one
fails);
with `--direct`, and for `phase finish` always, `todo` holds the calls still to be
made, each commits by itself, and any other process may come between them.
`Allowed` and `Effect` are the writer's preconditions and what it writes
(`exo/context/sqlite_writer.rs`); `ReadOwner`, `ClaimOwner` and `ReleaseOwner` are
the compare-and-set of `exo/phase_owner.rs`, whose read and write are separate
statements; the commands themselves are one action each (`PhaseStart` to
`TaskCommand`; `PhaseMove` and `EpochRemove` change and use the epochs of phases), with the checks that the code makes on what it loaded.

Left out: titles, notes and verifications; `epoch add` and `epoch review`; the
completion confirmation, which repeats a command; the daemon's start of a
launched lane; how an identity is derived from git (the constants `OwnerOf` and
`Stale`).

Run `planning_ownership`: two worktrees, one through the daemon and one with
`--direct`; two phases that begin in one epoch, so that one can be left for
the other, and a second epoch to move them to; two goals, one of which `strike start` adds; a task, a lane, and an identity whose
branch is gone and which may hold claims from before. Four commands
(`MaxCommands`) suffice for a claim, a change by the other worktree, a take-over
and a further write; deadlock is not checked because of that bound. What it
shows: `LaneFocusAgrees` (a focused lane exists, its phase is in progress and
pinned by that worktree, whatever another process completes, shelves or removes);
`WritersOwn` (who changes a phase or its lanes, goals or tasks owns the phase, also in
`epoch bankrupt` and `goal move`, unless its owner, epoch or goals changed under the
command, which `moved` records; it is about every command but `epoch remove`, which
does not ask); `TakeOverIsAsked` (a claim
changes hands only through a claim that asked for it and had read the owner it
replaces); `StartedWorkIsNotShelved` (no transaction puts a phase with started work
back to pending, except `plan update-status` when it names that phase and that
status). Section 10 proves these five for any plan and any number of worktrees.

What the code does otherwise than its texts say: `epoch remove` deletes the phases of
its epoch, with their goals and tasks, and asks nobody (`command/epoch.rs`:1082;
`context/sqlite_writer.rs`:156-166). `docs/vision.md`:69-71 makes ownership decide who may
change them; `OwnersDecide` says so of every command, and is violated by a worktree
that removes what another, which is not stale, has claimed (`PlanningState_unasked.cfg`, on
the instance of the run).

Observed while modelling, and in the model as they are:

* `task add` without `--goal` may pick a completed goal, which then has an open task
  (`command/task.rs`:633; RFC 10176:99 asks otherwise).
* `epoch finish` looks for the active epoch, which is never one whose phases are all
  completed (`context.rs`:1412), and then requires that they are
  (`command/epoch.rs`:730): for an epoch with phases it only fails. It writes nothing
  in any case, and is no action.
* `phase finish` does not ask whether its phase's goals are closed.

## 7. SidecarSync

Every machine has the project's database and a clone of the sidecar repository.
`commits` is the commit graph; `head`, `tracking`, `mergeHead` and `remote` are a
clone's branch, remote-tracking branch, `MERGE_HEAD` and the shared branch. A
row's content is named after the command that wrote it, so two contents are equal
only if one was copied. `gate` is the project gate of a daemon (atomic commands
only), `lock` is `.git/exo-state.lock`, `authority` the exclusive lease that an
import takes on the database. `unimported` has the machines whose
`MERGE_HEAD` is of a merge that has not been imported. `work[w].onto` (the parents a
commit would have had when `w` wrote), `unlocked` (who went on without the lock),
`replaced` (whose write an import overtook) and a commit's `torn` are history, read by
properties only.

| action | code |
|---|---|
| `Admits`, `Writes` | the dispatcher and the handler; external commands take no gate |
| `Locks`, `Dumps`, `Commits` | `persist_after_success`, `with_sidecar_runtime_lock`, which goes on without its lock if the file cannot be created, opened or locked; the projection and the checkpoint commit (`exo/post_write.rs`, `exo/command/sidecar.rs`) |
| `Fetches`, `Compares` | the fetch; ahead, behind, diverged; the conflicts of `merge_sql_projection_file` |
| `BeginsMerge`, `Imports`, `Redumps`, `CommitsMerge` | `semantic_merge_upstream_if_needed`: `merge -s ours --no-commit`, the import, a dump of what was imported, the commit |
| `FetchesToPush`, `Pushes` | `push_sidecar_branch_with_recovery`: a push that is refused fetches and merges again |
| `Breaks` | a command is killed, or fails, and its locks go with it |

`MergedRow` is the row-wise three-way merge; `Bases` are the merge bases git may
give. Left out: other projects of one sidecar repository, the marker of who may
write it, its staging index, the SQL files of the working tree (always rewritten
before they are used), setting a repository up, and timeouts of the locks.

Two kinds of fault count against `MaxFaults`: a command breaks at any step (`Fragile` is all of
them), or goes on without the lock. A command without the lock may see its dump
replaced by another's before it commits, so `Exported` lets it commit either; where the
`index.lock` of git then refuses one of two commits, that command breaks.

A commit is *torn* if it concludes a merge whose command broke before the import, or
was made on a machine on which a command had gone on without the lock (`Unguarded`).
What that does is in the violation run; the other properties say what holds of the
rest.

| run | instance | what it shows |
|---|---|---|
| `sidecar_shared` | one machine writes under the gate and syncs without it; the other merges and pushes after each of two gated writes; a fault | a merge commit that is not torn keeps what either side changed since the base (`MergesKeepBothSides`); a success is in the history of its clone, or an import by a command that the gate does not keep from it came before its dump (`OnlyImportsLoseWrites`); a machine at rest has committed its database (`QuietMachinesAreCommitted`); a conflict is about a row that both sides changed (`ConflictNeedsTwoChanges`); a published row never takes a content it had before, unless the push publishes a torn commit (`PublishedRowsNeverRevert`) |
| `sidecar_torn_push` | a write and a push by hand, beside a machine that publishes twice; a fault | *violated*: `NoPushReverts` |

More configurations of `MCSidecarSync`, for a reader who wants to see a case by itself:

| configuration | result |
|---|---|
| `SidecarSync_gated.cfg`: every command that merges is under the gate, and a write is not | `SuccessIsCheckpointed` holds |
| `SidecarSync_syncrace.cfg`: a gated write beside a `sync`, no fault | `SuccessIsCheckpointed` is violated |
| `SidecarSync_sync.cfg`: the same with a checkpoint that has no gate, and a fault | `OnlyImportsLoseWrites` and `MergesKeepBothSides` hold |
| `SidecarSync_torn.cfg`: the instance of `sidecar_torn_push` | `EveryMergeKeepsBothSides` is violated |
| `SidecarSync_bothdeleted.cfg`: two deletions of one row, and a sync | `ConflictNeedsDisagreement` is violated |

Two rows tell a conflict from changes side by side; two commands on a machine make it
merge after a merge; `Deleters` may delete their row. One fault leaves a database ahead
of its clone, a merge begun or imported and not committed, a clone ahead of the shared
branch, or a machine that has lost its lock. Deadlock is not checked: every command is
made once.

What the code does otherwise than its texts say:

* The `sync` command is external and takes no gate (`SidecarSync_syncrace.cfg`). Its
  import replaces every row of the database by those merged from two commits
  (`sidecar.rs`:4941); a write committed since the checkpoint and not yet dumped is
  gone, and its command still reports success, against RFC 10189:109-110.
* Finding `sidecar_torn_push`: a command that fails or dies between
  `merge -s ours --no-commit` (`sidecar.rs`:4926) and the import (4941) leaves `MERGE_HEAD`
  behind and a database without the other side's rows. The next checkpoint commit
  concludes that merge with this side's rows only, the other side's changes count as
  merged, and the push (5651-5656) is a fast-forward that takes them from everybody. RFC
  10189:312-314 and 125-126 say otherwise. A failure after the import and before the
  merge's commit (4959) does no harm: the database already has both sides, and the
  commit that concludes the merge dumps it.
* A row deleted on both sides is reported as a conflict
  (`sidecar.rs`:5122), though the two agree; RFC 10189:231-234 stops on incompatible
  edits only (`SidecarSync_bothdeleted.cfg`). `ConflictNeedsTwoChanges` says what does
  hold: no conflict is about a row that one side left alone.

## 8. RowRevisions

Every reactive table has its rows in a shadow table, a digest of each row and a
counter of changes (`crates/exosuit-storage`). A command that reads through the
virtual tables collects a trace; a client that kept the result asks later whether
the trace is still valid. `db` is what is committed, `work` a transaction's copy,
`sweep` the tables an opening connection has yet to bring up to date, `scan` the
trace being made, `kept` what a client kept, `check` a validation in progress. A
digest is modelled by the row it is computed from: collisions are left out.

`Opens` and `Sweeps` are `Database::new` and `backfill_row_digests`; `Begins`,
`Commits`, `RollsBack` and `Closes` the request transaction and its drop; `Writes`,
`Replaces` and `Deletes` the virtual table's statements with conflict handling,
cascades (`Falls`) and the refresh of digests and counters (`PlainWrite`,
`ReplacingWrite`, `DeletingWrite`, `Shrunk`); `Imports` the import that rewrites the
shadow tables while every other connection is fenced out; `BeginsScan`, `Counts`,
`Fetches` and `EndsScan` a traced read; `BeginsCheck`, `Compares` and `Answers`
`validate-trace`. `Counts` and `Fetches` are two steps, as `xFilter` reads the
counter and the rows in two statements. A statement that fails changes nothing
and is a stutter. The in-memory caches are written and never read by production
code, and are left out, as are migrations and schema rebuilds.

Run `revisions_traces`: a parent table and its child, so that a delete or a replace
cascades; two rows and two keys in the parent, so that `REPLACE` removes another
row than the one it writes; a connection that writes, one that reads or validates,
a client with one result. `MaxCounter` allows two changes of the parent (a change
and its reversal) and one of the child. The initial content is any that an
earlier sweep brought up to date. Rows and keys are interchangeable. Deadlock is
checked: a connection can always be closed. It shows `RevisionsMatch`, `YesIsTrue`
(RFC 10165, section 5: a trace is called valid only if the result is current),
`CountersPinDigests` and `ChangesAreCounted`.

## 9. RfcViews

Worktrees have documents on branches, one database holds a shared row per RFC, and
for each worktree a snapshot of the documents it was last seen to have
(RFC 10196, `docs/rfcs/stage-3/`). `commits` is the default branch as this machine
knows it, `resolves` whether one reference names it; `docs` and `branch` are a
worktree's files; `shared`, `baseline` and `quarantine` are the rows, the first
canonical pass and what was set aside; `snap` and `obs` are a worktree's snapshot;
`cache` is `RECONCILED_RFC_KEYS`; `lock` is the `rfc-reconcile` lock; `work` a process's
command. `origin`, `asked`, `wish` and `raced` are history, read by properties only;
`asked` begins with the features that the first documents declare.

An RFC is its anchor. Of a document the model keeps where it lies, what it says,
and whether it declares a *feature*, which stands for the six optional fields: a
document that does not declare one leaves it to the database.

| action | code (`exo/rfc.rs`) |
|---|---|
| `ListBegins`, `Reconcile`, `ListEnds` | `observe_effective_rfc_view`: lock and source; canonical rows; documents, snapshot, cache. Three steps, because people and git come between the reads |
| `Shows` | `observe_effective_rfc_by_number`, in a transaction committed only if the RFC is found |
| `Begins`, `Edits`, `PromotionMoves`, `PromotionWrites` | `edit_file`, `promote`: read, move, write back what was read; no lock |
| `Retires`, `RetirementWrites` | `withdraw`, `archive`: move the document, then write the lifecycle lines into what lies there by then (`Marked`); a file that has gone becomes one without an anchor, which is no document |
| `Chooses`, `Creates` | `create` |
| `Loads`, `Persists` | `sync_rfc_edit`, `persist_rfc_record`: a record is made of the file and the view, and put over the observation under a later lock |
| `GivesUp`, `Dies` | the five-second limit of the lock; a killed process |
| `HandEdits`, `ChecksOut`, `Merges`, `RefsChange` | people and git; none takes the lock |

The pass of `show` and those of the commands are one step each, since what may come
between the reads of a pass does so in a list. The fallback pass without a
resolvable default branch (`reconcile_workspace_rfcs`), RFC numbers and their
repair, renames, supersession links, diagnostics, detached heads, a default
branch that is rewound, and an import of the SQL projection are left out; a
document that shares its anchor with another is `Broken`. Because the import
is left out, `ReadersSeeTheCommit` says nothing of a
database that is replaced under a running daemon, whose cache would survive that.

Run `rfc_views`: two worktrees that may be on two branches; a daemon that lists and
shows, a process beside it for everything else; a published RFC, a new one, and a
database from before the canonical pass, with the row of an unmerged RFC and, for the
published one, a row that agrees with the default branch or one that does not. Two places
and one for retired documents make a promotion, a move and a wrong stage; two
texts and `Broken` an edit; one feature a declaration and its absence. One command
and two events reach an edit, a merge and a pass, a checkout between the two passes
of a command, a kill inside a pass or between the two steps of a retirement; two commits make an RFC that is deleted, or
changed, on the default branch. Larger bounds were tried while the properties
were found: two commands show the races that `raced` excuses. Deadlock is not
checked, because commands and events are bounded.

It shows: after the first canonical pass every shared row says what
some commit of the default branch says, or is a row of the older database that stays
as it was because the document published for its RFC cannot be read
(`SharedIsPublished`; RFC 10196:213 has that row kept); a row is never taken from an older commit than before, and a
published one never disappears (`PublishedRowsStay`); a reader sees the rows of its
pass's commit, also when the pass is skipped because of the cache
(`ReadersSeeTheCommit`); a list shows the documents of its worktree at that moment
(`ListsFollowTheCheckout`); an optional field is the shared one or one given to that
RFC on that branch of that worktree, and stays until taken over
(`FeaturesAreTheOnesGiven`).

`raced` marks worktrees in which a command made its record before, and stored it
after, a change by somebody else. There the code keeps less: the older record
overwrites a fresher observation, and the snapshot, whose digest is that of the
newer documents, is then considered current (`rfc.rs`:4795); or a feature of one
branch is pinned on another that was checked out in between. Also observed:

* A feature whose marker is removed from a document is still shown on that branch,
  because the former observation counts as an override.
* `promote` writes back what it read: an edit made in between is lost.
* `git_stdout` (`rfc.rs`:787-800) maps any failure of git to "no such reference"; a
  transient one selects the fallback pass, which updates and deletes shared rows
  from one worktree's documents.

## 10. Proofs

### RequestOutcomes

`RequestOutcomesProofs` proves, for all values of the constants that satisfy the
assumptions `BoundsAssumption`, `ConstantsAssumption` and `NoneAssumption`:

* `TypeCorrect`: `Spec => []TypeOK`. `TypeOK` is not inductive, because a step
  writes what the worker holds; `TypeInv` adds `StepOK`: at every step a worker
  holds only the kinds of response that step can have (`Fits`), for instance
  that only a launch reaches the retention step.
* `ExecutedAtMostOnce`: `Spec => []AtMostOnce`. The invariant `OnceInv` says how an
  effect stays witnessed. The effect of an atomic payload leaves a canonical
  row, which only retention may remove, and an executing worker holds the write
  lock and saw no row (`ExecAlone`, `AtomicOnce`). The effect of an external
  payload leaves its runtime row, which only the one worker that holds the
  reservation may release (`HolderOK`, `HolderAlone`, `ExternalOnce`), and it
  releases it only when the command has not acted. `LegacyKept` keeps a legacy
  reservation in place while the ledger works.

Its second half proves what clients are told:

* `SuccessesAreReal` (`SuccessIsReal`). A success is handed from the transaction or
  the handler to the canonical row, the runtime row, the retained response and the
  answer; `AnswersInv` says of each carrier that what it carries happened
  (`WorkersAreTrue`, `CanonicalsAreTrue`, `RowsAreTrue`, `ReplaysAreTrue`).
* `OnePayloadRuns` (`OnePayloadPerId`), by `OnlyPayload`: the canonical row names the only
  payload that ran. `LegacyNeverRunsAgain` (`LegacyStaysIndeterminate`), which says nothing
  of ids executed around an unreadable ledger (`bypassed`), as observed in section 3.
* `MarkersFollowRetention` (`MarkerAfterRetention`), by `MarkerInv`: the worker that is about
  to store a marker made its reservation, and its replay is no longer to come.
* `PromiseIsKept`: `Spec /\ []LegacySafe => PromiseKept`, the refinement of `AtMostOnce`, one
  step or a stutter for each action. `LegacySafe` excludes the one way in which a legacy
  reservation is executed, an unreadable ledger; `PromiseKeptWithoutLegacy` has the
  refinement without it where there are no such reservations (`LegacyIds = {}`).

`RequestOutcomesGate` proves what rests on who is at work:

* `NoReservationForgotten` (`ReservationHasOwner`) and `WatchersAreTold`
  (`RevisionCoversWrites`, which is about writes that their response reports), in every
  behaviour. By `GateInv` an atomic worker past the
  gate holds it, only live daemons work, and an unresolved reservation has a worker
  at a step that leads to its end. `BehindWitness` keeps a worker that will advance
  the revision; it needs that only replayed commits are not fresh (`FreshUntilEnd`).
* `StoredOutcomeTrue`, `AbsenceProvesOne` and `ApprovalHeard`, for each id by itself, under
  the hypothesis `[]NotOvertaken(id)` on the behaviour: the atomic requests of that id that
  are past a gate and undecided are all served by one daemon. Daemons may drain beside
  their successors, and other ids may be overtaken meanwhile. The finding
  `outcomes_overtaken` shows that the hypothesis is needed, and `StoredOutcomesTrue`
  (`StoredOutcomesAreTrue`), `AbsenceProves` (`AbsenceIsProof`) and `ApprovalsAreHeard`
  (`ApprovalIsHeard`) are the same for all ids. By `RecoveryInv(id)` nobody but its worker
  settles the row of a request that is being decided (`CoreRow`), and what that worker
  refuses has not been committed and will not be (`RefusalHeld`, `RefusedRow`).
  `FinalizedWorkers` and
  `FinalizedRows` say that a success is stored after finalization, and `ApprovalInv`
  that without failures an approved request waits for nobody and reserves only where
  it saw no confirmation.

The invariants were checked with TLC on the configurations above before they
were proved. The proofs have one lemma per group of actions and one step per
action.

### DaemonLifecycle

`DaemonLifecycleProofs` proves, from `LifecycleConstants`
(the kinds of constants are disjoint) and `LifecycleBounds`:

* `LifecycleTypeCorrect`: `Spec => []TypeOK`.
* `LockAdmitsOneDaemon`: `Spec => []OneDaemonUntilUnlinked`. `LockInv` is needed
  because exclusion by itself says nothing of the files: a lock belongs to a
  process that has the file open (`HoldersHaveItOpen`), a process has one open at
  the steps between `open` and `close` (`ClientsOpen`, `DaemonsOpen`), a daemon past
  the lock holds the flock of what it opened (`DaemonsHold`), and all have opened
  the file the path names (`OneFile`). The last is what a clean-up destroys,
  hence the premise of the property and the finding above.
* `FilesNameTheServer`: `Spec => []ServerIsIdentified`. `FilesInv` extends it to the
  steps before serving; exclusion makes the writes of one daemon safe from the
  others, and `PastUnlink` excuses a clean-up that removes the identity late.

* `StrangersAreSpared`: `Spec => []NoStrangerSignalled`, slow processes included: before
  SIGTERM and again before SIGKILL the process that has the number is verified to be
  the daemon that was meant (`SignalsSpareOthers`); `TypeOK` is all it needs.
* `StaleFilesLockNobodyOut`: if `~Slow`, `Spec /\ []OneAtATime => []FailureHasCause`, for any
  number of clients whose calls do not overlap; `LoneClientIsServed` for one client.
  Section 4 says what overlapping calls do to each other, and a process slower than the
  timeouts makes a call fail by definition. `RecoveryInv` consists of the above and of:
  process numbers belong to the daemons that run (`ProcessInv`), flocks to processes at
  the steps that hold one (`HolderInv`), a client that waits for a death has a target
  (`TargetInv`); one daemon at most is on its way in or serving, and the endpoint and
  the identity are of the daemon that wrote them last (`TurnInv`); and, for each step of
  an undisturbed call, what it then finds (`CallInv`, `UndisturbedInv`): no daemon between
  the lock and the spawn, a single new one between the spawn and the answer.

### OutcomeWaiters

`OutcomeWaitersProofs` proves, from `WaiterConstants`, `WaitersTypeCorrect`,
`NoWakeUpIsLost` (`Spec => []NoLostWakeUp`) and `StoredAnswersStay` (`AnswersStay`).
`NoLostWakeUp` is not inductive: a waiter that has read and not slept yet could be about to sleep
past a notification. `IInv` adds that generations only grow (`Seen`), that a
sleeper has seen the newest (`Sleepers`), that a waiter has read a row (`Found`),
that one whose generation is still the newest and whose row changed has a
notification coming (`Warned`), that an owner owns its row (`Owned`), which makes
abandonment delete no answer, and that a request about to drop a confirmation is
approved and has read that confirmation (`Confirmed`).

### RowRevisions

`RowRevisionsProofs` proves, from `RevisionConstants`, `ParentsComeFirst` (no table
refers to itself, as the schema has it) and `AbsentIsNoRow`, for any tables, rows and
connections: `RevisionsTypeCorrect`, `DigestsAreOfTheRows`, `ValidTracesAreTrue`,
`CountersSuffice` and `NoChangeIsUncounted`. The invariant: uncommitted copies match
their digests and are only ever ahead of `db` in their counters (`WorksFollow`);
scans belong to open connections (`ScansAreOpen`); what a scan has seen and what a
client kept is pinned by its counter (`SeenArePinned`, `KeptArePinned`); a noted
counter is not newer than the table's (`NotesComeBefore`, the order of `xFilter`);
and a validation of a stale result still has an entry before it that will not stand
(`StaleAreDoubted`). That a cascade is noticed by comparing numbers of rows is a
lemma: rows only leave, so equal numbers mean equal tables.

### PlanningState

`PlanningStateProofs` proves, from `PlanningConstants` (the kinds of names are disjoint
where the code tells them apart, and there are finitely many phases),
`PlanTypeCorrect`, `FocusedLanesRun` (`LaneFocusAgrees`), `OnlyOwnersWrite` (`WritersOwn`),
`ClaimsAreNotStolen` (`TakeOverIsAsked`) and `StartedWorkStays`
(`StartedWorkIsNotShelved`).

* *One call.* Tables are `Good` if they have their types, every reference in them leads
  somewhere (`Linked`) and focused lanes agree with phases and pins (`Agreeing`). Every
  allowed `Effect` keeps them `Good`; neither part is kept without the others, since
  removing a phase must also remove what refers to it.
* *One command.* Each command makes a list of calls that is `WellMade`: it claims a
  phase before a call that writes to it (`Covered`), shelves only phases that it has
  seen not started, and nothing follows a call that ends the command
  (`EveryCommand`).
* *One transaction.* What holds of the tables after n calls holds after all, by induction
  over the list; `Induction` derives it from the well-foundedness of the natural numbers.
* *Call by call.* What is left of a direct process's list must still be right when others
  have written in between. `PlanInv` says so (`Carries`): the owners it has read are
  nobody else's unless it takes over, and the phases it goes on to change are its
  own, will be claimed before, or are among those `moved` records. `epoch remove` is left
  out of that, since it asks nobody (`OwnersDecide`, section 6).

`PlanInv` was checked with TLC on the instance of `planning_ownership` before it was
proved.

### RfcViews

`RfcViewsProofs` proves, from `RfcConstants` (the kinds of constants are disjoint, the
first documents, branches and rows have their types, and a document begins at place 0),
for any worktrees, processes, RFCs and bounds:

* `RfcTypeCorrect`, by `TypeInv`: what a process has in hand at each of its steps
  (`JobOK`), and that a pass is under way exactly where the lock is held.
* `PublishedRowsStand` (`PublishedRowsStay`), `ReadersAreCurrent` (`ReadersSeeTheCommit`) and
  `RowsAreOfTheirCommit`. The argument is the order of the lock and the source: no
  pass that is still to write began at an older commit than any row was taken from
  or any cache entry is of (`Passing`, in `OriginInv`, `CacheInv` and `HistoryInv`).
* `SharedRowsArePublished` (`SharedIsPublished`), whatever rows the database came with.
  `FirstInv` says that no row is of a commit before the first canonical pass, and that a
  row of no commit is one the database came with: the first pass sets it aside, unless
  the document published for its RFC is there and cannot be read.
* `NoFeatureLeaks` (`FeaturesAreTheOnesGiven`) and `ListsAreOfTheCheckout`
  (`ListsFollowTheCheckout`), by `ViewInv`. For worktrees that are not in `raced`: the
  snapshot says of each RFC what the documents it was taken of say, what it declares
  somebody gave, and a feature a command gave is in it (`SeenOK`); a record in a command's
  hands still agrees with the document and the view it was made of (`HandOK`).

### SidecarSync

`SidecarSyncProofs` proves, from `SidecarConstants` (names of different kinds differ, every
command belongs to a machine, `Fragile` has steps of a command at work), for any number
of machines, commands, rows and faults:

* `SidecarTypeCorrect` (`TypeOK`), by `TypeInv`: a merge that has been compared or begun
  names two commits.
* `QuietMachinesCommit` (`QuietMachinesAreCommitted`). A command past the runtime lock has it
  and is alone there (`HeldInv`, `Alone`); what it has written, and whether it goes on to a
  merge, depends on its step (`WorkInv`). Then a database that differs from its branch
  has a command that has dumped it or is still to (`Quiet`).
* `ConflictsAreReal` (`ConflictNeedsTwoChanges`). `GraphInv` says how clones relate. Ancestors
  are closed (`AncestorsOK`), a clone follows the shared branch (`RemoteBehind`), two clones
  have in common only what is shared (`CommonPublished`), and each has in common with the
  shared branch exactly the ancestors of one commit, that of its last merge or push
  (`InStep`). Hence a merge has one base (`MergeBase`), it is the last commit the two share
  (`LastSharedIs`), and a merge that has been compared stays free of conflicts until it
  is committed (`PlanInv`, `MergePlanned`).
* `MergesKeepBoth` (`MergesKeepBothSides`) and `SharedRowsStand` (`PublishedRowsNeverRevert`),
  without an assumption on where commands break or whether they have the lock. By
  `RowsInv`, on a machine where all had the lock, every row of a database and of a dump
  is what the next commit is to say, that is what the branch says or, with an imported
  merge, the three-way merge (`Due`), or is new: nobody has committed it and a command
  of this machine wrote it, late if a merge is under way (`RowsDue`). A content is of one
  writer and stays on its machine until published (`CommitsOK`, `Home`), so what a branch
  changed since it was in step was never on the shared branch, unless a torn commit is
  among what it has to publish (`HeadsFresh`: `Unshared` or `TornAhead`).
* `OnlyImportsLose` (`OnlyImportsLoseWrites`), whether or not commands have the gate. What a
  command wrote is in the database until it is dumped, then in its dump, then in the
  history of its branch (`Recorded`), or an import has replaced it before its dump
  (`Lost`).

### What is only model-checked

* Liveness (`EveryRequestAnswered`, `EveryCallEnds`, `AnswerIsHeard`): there is no ENABLED
  reasoning in the prover.
* `SuccessIsCheckpointed`, on the small instance of `SidecarSync_gated.cfg`: where every
  command that merges is under the request gate. The theorem `OnlyImportsLose` says what is left without it.

Every property of the passing runs but the liveness is proved. The type invariants of
`RequestOutcomes`, `DaemonLifecycle`, `OutcomeWaiters` and `RowRevisions` are proved and not
run again; those of `PlanningState`, `SidecarSync` and `RfcViews` are proved and
run.

## 11. Not modelled

* Workbench publication, planning and sessions, the socket client and the editor's
  trace cache: planned (section 2). Known there: in
  `packages/exosuit-vscode/src/services/TraceCache.ts`:416 a superseded fetch that
  fails late deletes the entry of the newer one.
* The reactivity crates' in-memory cells and formulas: the program's reads go through
  the tables of section 8.
* Migrations and schema rebuilds, RFC renumbering and repair, the merge driver's
  text merge, sidecar repositories with several projects: sequential data
  transformations, or set-up that runs once.
* Read models, parsers, templates, help, inbox, ideas, GitHub, verifiers, check
  runner, process wrappers, user interfaces: no shared state, or input and output
  only. `PROJECT.json` gives the reason for each.
