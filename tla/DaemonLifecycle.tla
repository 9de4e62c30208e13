-------------------------- MODULE DaemonLifecycle --------------------------
(***************************************************************************)
(* Who serves a project: the connect-or-spawn protocol between clients and *)
(* daemons (tools/exo/src/daemon.rs, ensure_daemon_paths_with_report and   *)
(* run_daemon), over four files of the project's runtime directory: the    *)
(* lock file and its flock, daemon.pid, the identity and the socket.       *)
(*                                                                         *)
(* One action is one system call on one of the files, one probe of a       *)
(* connection, or one signal together with the check that precedes it.     *)
(* Time is abstract: a wait may end by its timeout at any moment if Slow,  *)
(* else only when nothing on its way could still end it.                   *)
(***************************************************************************)
EXTENDS Naturals, FiniteSets

CONSTANTS
  Daemons,      \* daemon processes, each spawned at most once
  Clients,      \* processes that ensure a daemon
  Pids,         \* process numbers, given to one daemon after the other
  Reusable,     \* those of them that other processes may get too
  Versions,     \* executables: a client restarts a daemon of another one
  VersionOf,    \* client -> the executable it runs and spawns
  MaxInodes,    \* bound: lock files that exist at one time
  MaxCalls,     \* bound: calls to ensure or restart a daemon
  MaxCrashes,   \* bound: daemons that die without cleaning up
  Slow,         \* TRUE: processes may be slower than every timeout
  Other,        \* a process that is none of the project's daemons
  None          \* the null value

Inodes    == 1..MaxInodes
Processes == Daemons \union Clients

Starting == {"start", "flock", "pid", "identity", "clear", "bind"}
Stopping == {"rmEndpoint", "rmPid", "rmLock", "rmIdentity", "unlock"}
DSteps   == {"off", "serving", "drain", "gone"} \union Starting \union Stopping
\* The steps at which a daemon holds the lock it took.
Locked   == {"pid", "identity", "clear", "bind", "serving"} \union Stopping

Ended  == {"idle", "done", "failed"}
CSteps == Ended \union
          {"connect", "record", "check", "probe", "discover", "restart",
           "dying", "lock", "flock", "drop", "clear", "spawn", "wait",
           "identify", "reach", "confirm"}

\* A call: the daemon it is connected to, the identity it read, the daemon
\* that answered a discovery, the process it signalled; whether it is a forced
\* restart, whether it spawned, and whether its one restart is used up.
Calls == [step : CSteps, link : Daemons \union {None},
          rec : Daemons \union {None}, seen : Daemons \union {None},
          target : Pids \union {None}, force : BOOLEAN, spawned : BOOLEAN,
          last : BOOLEAN]

ASSUME LifecycleBounds ==
  /\ MaxInodes \in Nat \ {0}
  /\ MaxCalls \in Nat
  /\ MaxCrashes \in Nat
  /\ Slow \in BOOLEAN
ASSUME LifecycleConstants ==
  /\ VersionOf \in [Clients -> Versions]
  /\ Daemons \intersect Clients = {}
  /\ Reusable \subseteq Pids
  /\ Other \notin Processes
  /\ None \notin (Processes \union Pids \union Versions \union Inodes
                                                            \union {Other})

VARIABLES
  lockFile,   \* the inode at the lock file's path, or None
  lockOf,     \* inode -> the process holding its flock, or None
  handle,     \* process -> the lock file it has open, or None
  endpoint,   \* the daemon that bound the socket file, or None
  pidFile,    \* the process number in daemon.pid, or None
  identity,   \* the daemon in the identity file, or None
  proc,       \* process number -> the process that has it, or None
  pidOf,      \* daemon -> the process number it got, or None
  version,    \* daemon -> the executable it runs, or None
  dpc,        \* daemon -> step of run_daemon
  call,       \* client -> its call
  unlinked,   \* history: a clean-up has removed the lock file's path
  misfired,   \* history: a signal hit a process that is no daemon of ours
  disturbed,  \* history: calls during which something else happened
  calls,      \* calls so far
  crashes     \* crashes so far

files  == <<lockFile, endpoint, pidFile, identity>>
locks  == <<lockOf, handle>>
procs  == <<proc, pidOf, version, dpc>>
past   == <<unlinked, misfired, disturbed>>
limits == <<calls, crashes>>
vars   == <<files, locks, procs, call, past, limits>>

-----------------------------------------------------------------------------
Active(c)    == call[c].step \notin Ended
Alive(d)     == pidOf[d] # None /\ proc[pidOf[d]] = d
\* The server task accepts and answers until the runtime is dropped.
Listening(d) == dpc[d] \in {"serving"} \union Stopping
\* No daemon is on its way in or out.
AtRest       == \A d \in Daemons : dpc[d] \notin Starting \union Stopping
Connectable  == endpoint # None /\ Listening(endpoint)

NoCall == [step |-> "idle", link |-> None, rec |-> None, seen |-> None,
           target |-> None, force |-> FALSE, spawned |-> FALSE, last |-> FALSE]

Step(c, step) == call' = [call EXCEPT ![c].step = step]
\* The call returns, with a connection or with an error.
Ends(c, step) ==
  call' = [call EXCEPT ![c] = [NoCall EXCEPT !.step = step,
                                              !.force = call[c].force]]
\* On to the lock: what was learnt of an old daemon is no longer needed.
GoesToLock(c) ==
  call' = [call EXCEPT ![c] = [@ EXCEPT !.step = "lock", !.link = None,
                                        !.rec = None, !.seen = None,
                                        !.target = None]]
DStep(d, step) == dpc' = [dpc EXCEPT ![d] = step]

\* Something happened during the calls of these clients.
Disturb(who) ==
  disturbed' = disturbed \union {c \in who : Active(c)}

\* The lock file that open(O_CREAT) finds or makes: some unused inode.
Unused == {i \in Inodes : /\ i # lockFile /\ lockOf[i] = None
                          /\ \A p \in Processes : handle[p] # i}
Opened == IF lockFile # None THEN lockFile ELSE CHOOSE i \in Unused : TRUE

\* try_lock_pid_file: open the path, then flock without waiting.
Opens(p) ==
  /\ Unused # {} \/ lockFile # None
  /\ lockFile' = Opened
  /\ handle' = [handle EXCEPT ![p] = Opened]
Locks(p) ==
  /\ lockOf[handle[p]] = None
  /\ lockOf' = [lockOf EXCEPT ![handle[p]] = p]
  /\ UNCHANGED handle
Closes(p) ==
  /\ lockOf' = [i \in Inodes |-> IF lockOf[i] = p THEN None ELSE lockOf[i]]
  /\ handle' = [handle EXCEPT ![p] = None]
LockFails(p) ==
  /\ lockOf[handle[p]] # None
  /\ Closes(p)

Init ==
  /\ lockFile = None
  /\ lockOf = [i \in Inodes |-> None]
  /\ handle = [p \in Processes |-> None]
  /\ endpoint = None
  /\ pidFile = None
  /\ identity = None
  /\ proc = [p \in Pids |-> None]
  /\ pidOf = [d \in Daemons |-> None]
  /\ version = [d \in Daemons |-> None]
  /\ dpc = [d \in Daemons |-> "off"]
  /\ call = [c \in Clients |-> NoCall]
  /\ unlinked = FALSE
  /\ misfired = FALSE
  /\ disturbed = {}
  /\ calls = 0
  /\ crashes = 0

-----------------------------------------------------------------------------
(* A client's call: reuse the daemon that answers                          *)

\* ensure_daemon_paths_with_report, or the forced restart.
Call(c) ==
  /\ ~Active(c)
  /\ calls < MaxCalls
  /\ calls' = calls + 1
  /\ \E force \in BOOLEAN :
       call' = [call EXCEPT ![c] =
                  [NoCall EXCEPT !.step = IF force THEN "restart" ELSE "connect",
                                 !.force = force]]
  /\ LET others == {o \in Clients \ {c} : Active(o)}
     IN  disturbed' = IF others = {} /\ AtRest
                        THEN disturbed \ {c}
                        ELSE disturbed \union others \union {c}
  /\ UNCHANGED <<files, locks, procs, unlinked, misfired, crashes>>

Connects(c) ==
  /\ call[c].step = "connect"
  /\ IF Connectable
       THEN call' = [call EXCEPT ![c] = [@ EXCEPT !.step = "record",
                                                       !.link = endpoint]]
       ELSE GoesToLock(c)
  /\ UNCHANGED <<files, locks, procs, past, limits>>

\* The identity is read for the instance to expect, and once more below.
Records(c) ==
  /\ call[c].step = "record"
  /\ call' = [call EXCEPT ![c] = [@ EXCEPT !.step = "check", !.rec = identity]]
  /\ UNCHANGED <<files, locks, procs, past, limits>>

\* daemon_identity_matches_current: our executable, and the process that
\* daemon.pid names is the one that wrote the identity.
IdentityCurrent(c) ==
  /\ identity # None
  /\ version[identity] = VersionOf[c]
  /\ pidFile = pidOf[identity]
  /\ Alive(identity)

Checks(c) ==
  /\ call[c].step = "check"
  /\ Step(c, IF call[c].rec # None /\ IdentityCurrent(c) THEN "probe"
                                                         ELSE "discover")
  /\ UNCHANGED <<files, locks, procs, past, limits>>

\* The connected daemon answers in time that it is the expected instance.
ProbeSucceeds(c) ==
  /\ call[c].step = "probe"
  /\ Listening(call[c].link) /\ call[c].link = call[c].rec
  /\ Ends(c, "done")
  /\ UNCHANGED <<files, locks, procs, past, limits>>

ProbeFails(c) ==
  /\ call[c].step = "probe"
  /\ Slow \/ ~Listening(call[c].link) \/ call[c].link # call[c].rec
  /\ Step(c, "restart")
  /\ UNCHANGED <<files, locks, procs, past, limits>>

\* Fault: the answer is not used to find the process to replace.
Discovers_Nobody(c) ==
  /\ call[c].step = "discover"
  /\ Step(c, "restart")
  /\ UNCHANGED <<files, locks, procs, past, limits>>

\* Without a current identity the connected daemon is asked who it is.
Discovers(c) ==
  /\ call[c].step = "discover"
  /\ \/ /\ Listening(call[c].link)
        /\ call' = [call EXCEPT ![c] = [@ EXCEPT !.step = "restart",
                                                      !.seen = call[c].link]]
     \/ /\ Slow \/ ~Listening(call[c].link)
        /\ Step(c, "restart")
  /\ UNCHANGED <<files, locks, procs, past, limits>>

-----------------------------------------------------------------------------
(* restart_stale_daemon_once                                               *)

\* The process to replace: the one that answered, else the one in daemon.pid.
Target(c) == IF call[c].seen # None THEN pidOf[call[c].seen] ELSE pidFile

\* daemon_process_identity_matches: the process that has the number is still
\* the one that answered, or the one that wrote the identity.
Verified(c, p) ==
  \/ call[c].seen # None /\ proc[p] = call[c].seen
  \/ identity # None /\ pidOf[identity] = p /\ proc[p] = identity

\* The process with number p ends; its locks are released.
Kills(p) ==
  IF proc[p] \in Daemons
    THEN /\ DStep(proc[p], "gone")
         /\ Closes(proc[p])
         /\ proc' = [proc EXCEPT ![p] = None]
         /\ UNCHANGED misfired
    ELSE /\ misfired' = (misfired \/ proc[p] = Other)
         /\ proc' = [proc EXCEPT ![p] = None]
         /\ UNCHANGED <<dpc, locks>>

\* SIGTERM stops a daemon that has installed its handler, which it does about
\* when it binds; it kills one that has not, and does nothing to one that is
\* stopping already.
Terminates(p) ==
  LET d == proc[p]
  IN  \/ (d \in Daemons => dpc[d] \in Starting \union {"serving"}) /\ Kills(p)
      \/ /\ d \in Daemons
         /\ dpc[d] \in {"bind", "serving"} \union Stopping \union {"drain"}
         /\ dpc' = [dpc EXCEPT ![d] = IF @ \in {"bind", "serving"}
                                        THEN "rmEndpoint" ELSE @]
         /\ UNCHANGED <<proc, locks, misfired>>

Restarts(c) ==
  /\ call[c].step = "restart"
  /\ LET p == Target(c)
     IN  IF p # None /\ proc[p] # None /\ Verified(c, p)
           THEN /\ Terminates(p)
                /\ call' = [call EXCEPT ![c] = [@ EXCEPT !.step = "dying",
                                                              !.target = p]]
           ELSE /\ GoesToLock(c)
                /\ UNCHANGED <<proc, dpc, locks, misfired>>
  /\ UNCHANGED <<files, pidOf, version, unlinked, disturbed, limits>>

AwaitsExit(c) ==
  /\ call[c].step = "dying"
  /\ proc[call[c].target] = None
  /\ GoesToLock(c)
  /\ UNCHANGED <<files, locks, procs, past, limits>>

\* A daemon that was told to stop is on its way out.
Leaving(p) == proc[p] \in Daemons /\ dpc[proc[p]] \in Stopping \union {"drain"}

\* Fault: the process is waited for without an end.
ExitTimesOut_Never(c) == FALSE

\* Fault: the number is not looked at again before SIGKILL.
ExitTimesOut_Unverified(c) ==
  /\ call[c].step = "dying"
  /\ LET p == call[c].target
     IN  proc[p] # None /\ (Slow \/ ~Leaving(p)) /\ Kills(p)
  /\ GoesToLock(c)
  /\ UNCHANGED <<files, pidOf, version, unlinked, disturbed, limits>>

\* Two seconds later the number is still in use: SIGKILL, if it is still the
\* process that was verified.
ExitTimesOut(c) ==
  /\ call[c].step = "dying"
  /\ LET p == call[c].target
     IN  /\ proc[p] # None /\ (Slow \/ ~Leaving(p))
         /\ IF Verified(c, p) THEN Kills(p)
                              ELSE UNCHANGED <<proc, dpc, locks, misfired>>
  /\ GoesToLock(c)
  /\ UNCHANGED <<files, pidOf, version, unlinked, disturbed, limits>>

-----------------------------------------------------------------------------
(* Lock, spawn, wait                                                       *)

OpensLock(c) ==
  /\ call[c].step = "lock"
  /\ Opens(c)
  /\ Step(c, "flock")
  /\ UNCHANGED <<lockOf, endpoint, pidFile, identity, procs, past, limits>>

TakesLock(c) ==
  /\ call[c].step = "flock"
  /\ Locks(c)
  /\ Step(c, "drop")
  /\ UNCHANGED <<files, procs, past, limits>>

\* Another process holds the lock: its socket should appear.
FindsLockHeld(c) ==
  /\ call[c].step = "flock"
  /\ LockFails(c)
  /\ call' = [call EXCEPT ![c] = [@ EXCEPT !.step = "wait", !.spawned = FALSE]]
  /\ UNCHANGED <<files, procs, past, limits>>

\* The lock is dropped before spawning so that the daemon can take it.
DropsLock(c) ==
  /\ call[c].step = "drop"
  /\ Closes(c)
  /\ Step(c, "clear")
  /\ UNCHANGED <<files, procs, past, limits>>

\* spawn_daemon_after_lock removes a socket file, whoever bound it.
ClearsEndpoint(c) ==
  /\ call[c].step = "clear"
  /\ endpoint' = None
  /\ Step(c, "spawn")
  /\ UNCHANGED <<lockFile, pidFile, identity, locks, procs, past, limits>>

\* The daemons not spawned yet; which of them is next is a matter of names.
Spare == {d \in Daemons : dpc[d] = "off"}

Spawns(c) ==
  /\ call[c].step = "spawn"
  /\ Spare # {}
  /\ LET d == CHOOSE x \in Spare : TRUE
     IN  \E p \in Pids :
           /\ proc[p] = None
           /\ proc' = [proc EXCEPT ![p] = d]
           /\ pidOf' = [pidOf EXCEPT ![d] = p]
           /\ version' = [version EXCEPT ![d] = VersionOf[c]]
           /\ DStep(d, "start")
  /\ call' = [call EXCEPT ![c] = [@ EXCEPT !.step = "wait", !.spawned = TRUE]]
  /\ UNCHANGED <<files, locks, past, limits>>

\* No process can be created.
SpawnFails(c) ==
  /\ call[c].step = "spawn"
  /\ Spare = {} \/ \A p \in Pids : proc[p] # None
  /\ Ends(c, "failed")
  /\ Disturb({c})
  /\ UNCHANGED <<files, locks, procs, unlinked, misfired, limits>>

WaitConnects(c) ==
  /\ call[c].step = "wait"
  /\ Connectable
  /\ Step(c, "identify")
  /\ UNCHANGED <<files, locks, procs, past, limits>>

\* No socket in time.  restart_after_socket_wait_failure replaces the daemon
\* once; a forced restart that found the lock held gives up.
WaitTimesOut(c) ==
  /\ call[c].step = "wait"
  /\ Slow \/ (~Connectable /\ \A d \in Daemons : dpc[d] \notin Starting)
  /\ IF call[c].last \/ (call[c].force /\ ~call[c].spawned)
       THEN Ends(c, "failed")
       ELSE call' = [call EXCEPT ![c] = [@ EXCEPT !.step = "restart",
                                                       !.seen = None,
                                                       !.last = TRUE]]
  /\ UNCHANGED <<files, locks, procs, past, limits>>

\* connect_and_probe_daemon_paths.
Identifies(c) ==
  /\ call[c].step = "identify"
  /\ IF identity = None
       THEN Ends(c, "failed")
       ELSE call' = [call EXCEPT ![c] = [@ EXCEPT !.step = "reach",
                                                       !.rec = identity]]
  /\ UNCHANGED <<files, locks, procs, past, limits>>

Reaches(c) ==
  /\ call[c].step = "reach"
  /\ IF Connectable
       THEN call' = [call EXCEPT ![c] = [@ EXCEPT !.step = "confirm",
                                                       !.link = endpoint]]
       ELSE Ends(c, "failed")
  /\ UNCHANGED <<files, locks, procs, past, limits>>

Confirms(c) ==
  /\ call[c].step = "confirm"
  /\ LET answers == Listening(call[c].link) /\ call[c].link = call[c].rec
     IN  \/ answers /\ Ends(c, "done")
         \/ (Slow \/ ~answers) /\ Ends(c, "failed")
  /\ UNCHANGED <<files, locks, procs, past, limits>>

-----------------------------------------------------------------------------
(* run_daemon                                                              *)

\* Fault: daemon.pid is written before the lock is taken.
DaemonOpensLock_WritesPid(d) ==
  /\ dpc[d] = "start"
  /\ Opens(d)
  /\ DStep(d, "flock")
  /\ pidFile' = pidOf[d]
  /\ UNCHANGED <<lockOf, endpoint, identity, proc, pidOf, version, call, past,
                 limits>>

DaemonOpensLock(d) ==
  /\ dpc[d] = "start"
  /\ Opens(d)
  /\ DStep(d, "flock")
  /\ UNCHANGED <<lockOf, endpoint, pidFile, identity, proc, pidOf, version,
                 call, past, limits>>

DaemonTakesLock(d) ==
  /\ dpc[d] = "flock"
  /\ Locks(d)
  /\ DStep(d, "pid")
  /\ UNCHANGED <<files, proc, pidOf, version, call, past, limits>>

\* Fault: a daemon that finds the lock held starts all the same.
DaemonGivesUp_Never(d) ==
  /\ dpc[d] = "flock"
  /\ lockOf[handle[d]] # None
  /\ DStep(d, "pid")
  /\ UNCHANGED <<files, locks, proc, pidOf, version, call, past, limits>>

\* Another daemon is running: exit and touch nothing.
DaemonGivesUp(d) ==
  /\ dpc[d] = "flock"
  /\ LockFails(d)
  /\ DStep(d, "gone")
  /\ proc' = [proc EXCEPT ![pidOf[d]] = None]
  /\ UNCHANGED <<files, pidOf, version, call, past, limits>>

WritesPid(d) ==
  /\ dpc[d] = "pid"
  /\ pidFile' = pidOf[d]
  /\ DStep(d, "identity")
  /\ UNCHANGED <<lockFile, endpoint, identity, locks, proc, pidOf, version,
                 call, past, limits>>

WritesIdentity(d) ==
  /\ dpc[d] = "identity"
  /\ identity' = d
  /\ DStep(d, "clear")
  /\ UNCHANGED <<lockFile, endpoint, pidFile, locks, proc, pidOf, version,
                 call, past, limits>>

DaemonClearsEndpoint(d) ==
  /\ dpc[d] = "clear"
  /\ endpoint' = None
  /\ DStep(d, "bind")
  /\ UNCHANGED <<lockFile, pidFile, identity, locks, proc, pidOf, version,
                 call, past, limits>>

\* The socket is bound, and the idle checker and the signals are awaited; a
\* path that exists cannot be bound, and the server task's end stops the daemon.
Binds(d) ==
  /\ dpc[d] = "bind"
  /\ IF endpoint = None THEN endpoint' = d /\ DStep(d, "serving")
                        ELSE DStep(d, "rmEndpoint") /\ UNCHANGED endpoint
  /\ UNCHANGED <<lockFile, pidFile, identity, locks, proc, pidOf, version,
                 call, past, limits>>

\* The idle timeout, or a signal of the user's.
Stops(d) ==
  /\ dpc[d] = "serving"
  /\ DStep(d, "rmEndpoint")
  /\ Disturb(Clients)
  /\ UNCHANGED <<files, locks, proc, pidOf, version, call, unlinked, misfired,
                 limits>>

\* The cleanup removes each path, whatever is there by now.
RemovesEndpoint(d) ==
  /\ dpc[d] = "rmEndpoint"
  /\ endpoint' = None
  /\ DStep(d, "rmPid")
  /\ UNCHANGED <<lockFile, pidFile, identity, locks, proc, pidOf, version,
                 call, past, limits>>

RemovesPid(d) ==
  /\ dpc[d] = "rmPid"
  /\ pidFile' = None
  /\ DStep(d, "rmLock")
  /\ UNCHANGED <<lockFile, endpoint, identity, locks, proc, pidOf, version,
                 call, past, limits>>

RemovesLock(d) ==
  /\ dpc[d] = "rmLock"
  /\ lockFile' = None
  /\ unlinked' = TRUE
  /\ DStep(d, "rmIdentity")
  /\ UNCHANGED <<endpoint, pidFile, identity, locks, proc, pidOf, version,
                 call, misfired, disturbed, limits>>

RemovesIdentity(d) ==
  /\ dpc[d] = "rmIdentity"
  /\ identity' = None
  /\ DStep(d, "unlock")
  /\ UNCHANGED <<lockFile, endpoint, pidFile, locks, proc, pidOf, version,
                 call, past, limits>>

\* The lock is dropped; the runtime then waits for its blocking tasks.
Unlocks(d) ==
  /\ dpc[d] = "unlock"
  /\ Closes(d)
  /\ DStep(d, "drain")
  /\ UNCHANGED <<files, proc, pidOf, version, call, past, limits>>

Exits(d) ==
  /\ dpc[d] = "drain"
  /\ DStep(d, "gone")
  /\ proc' = [proc EXCEPT ![pidOf[d]] = None]
  /\ UNCHANGED <<files, locks, pidOf, version, call, past, limits>>

-----------------------------------------------------------------------------
(* The environment                                                         *)

\* A daemon dies, or returns early from an error: its files stay.
Crashes(d) ==
  /\ dpc[d] \notin {"off", "gone"}
  /\ crashes < MaxCrashes
  /\ crashes' = crashes + 1
  /\ DStep(d, "gone")
  /\ proc' = [proc EXCEPT ![pidOf[d]] = None]
  /\ Closes(d)
  /\ Disturb(Clients)
  /\ UNCHANGED <<files, pidOf, version, call, unlinked, misfired, calls>>

\* The operating system gives a daemon's old number to another process.
NumberReused(p) ==
  /\ p \in Reusable /\ proc[p] = None
  /\ \E d \in Daemons : pidOf[d] = p
  /\ proc' = [proc EXCEPT ![p] = Other]
  /\ UNCHANGED <<files, locks, pidOf, version, dpc, call, past, limits>>

OtherEnds(p) ==
  /\ proc[p] = Other
  /\ proc' = [proc EXCEPT ![p] = None]
  /\ UNCHANGED <<files, locks, pidOf, version, dpc, call, past, limits>>

ClientStep(c) ==
  \/ Connects(c) \/ Records(c) \/ Checks(c) \/ ProbeSucceeds(c)
  \/ ProbeFails(c) \/ Discovers(c) \/ Restarts(c) \/ AwaitsExit(c)
  \/ ExitTimesOut(c) \/ OpensLock(c) \/ TakesLock(c) \/ FindsLockHeld(c)
  \/ DropsLock(c) \/ ClearsEndpoint(c) \/ Spawns(c) \/ SpawnFails(c)
  \/ WaitConnects(c) \/ WaitTimesOut(c) \/ Identifies(c) \/ Reaches(c)
  \/ Confirms(c)

DaemonStep(d) ==
  \/ DaemonOpensLock(d) \/ DaemonTakesLock(d) \/ DaemonGivesUp(d)
  \/ WritesPid(d) \/ WritesIdentity(d) \/ DaemonClearsEndpoint(d) \/ Binds(d)
  \/ RemovesEndpoint(d) \/ RemovesPid(d) \/ RemovesLock(d)
  \/ RemovesIdentity(d) \/ Unlocks(d) \/ Exits(d)

Next ==
  \/ \E c \in Clients : Call(c) \/ ClientStep(c)
  \/ \E d \in Daemons : DaemonStep(d) \/ Stops(d) \/ Crashes(d)
  \/ \E p \in Pids : NumberReused(p) \/ OtherEnds(p)

Spec == Init /\ [][Next]_vars

\* Processes run; nothing makes a daemon stop, crash or be called.
FairSpec ==
  /\ Spec
  /\ \A c \in Clients : WF_vars(ClientStep(c))
  /\ \A d \in Daemons : WF_vars(DaemonStep(d))

-----------------------------------------------------------------------------
TypeOK ==
  /\ lockFile \in Inodes \union {None}
  /\ lockOf \in [Inodes -> Processes \union {None}]
  /\ handle \in [Processes -> Inodes \union {None}]
  /\ endpoint \in Daemons \union {None}
  /\ pidFile \in Pids \union {None}
  /\ identity \in Daemons \union {None}
  /\ proc \in [Pids -> Daemons \union {Other, None}]
  /\ pidOf \in [Daemons -> Pids \union {None}]
  /\ version \in [Daemons -> Versions \union {None}]
  /\ dpc \in [Daemons -> DSteps]
  /\ call \in [Clients -> Calls]
  /\ unlinked \in BOOLEAN
  /\ misfired \in BOOLEAN
  /\ disturbed \subseteq Clients
  /\ calls \in Nat
  /\ crashes \in Nat

\* "One daemon per project", the claim of daemon.rs: two daemons never serve at
\* the same time, whatever start, clean-up or restart run_daemon is in.
OneDaemonPerProject ==
  \A a, b \in Daemons : dpc[a] = "serving" /\ dpc[b] = "serving" => a = b

\* The lock of run_daemon: whatever clients spawn at the same time and whatever
\* crashes, two daemons are past try_lock_pid_file only after a clean-up has
\* removed the lock file's path.
OneDaemonUntilUnlinked ==
  ~unlinked =>
    \A a, b \in Daemons : dpc[a] \in Locked /\ dpc[b] \in Locked => a = b

\* As long as that has not happened, daemon.pid and the identity name the daemon
\* that serves, so that restart_stale_daemon_once verifies and signals it.
ServerIsIdentified ==
  ~unlinked => \A d \in Daemons :
                 dpc[d] = "serving" => identity = d /\ pidFile = pidOf[d]

\* And a daemon that serves is behind the endpoint. No run checks it, because the
\* code does not keep it: spawn_daemon_after_lock removes the endpoint after the
\* lock that made that safe was dropped, and it may by then be a new daemon's.
ServerIsReachable ==
  ~unlinked => \A d \in Daemons : dpc[d] = "serving" => endpoint = d

\* restart_stale_daemon_once never signals a process that is not a daemon of this
\* project, however old the pid file is and whoever has the number now, also
\* when the number changes hands between SIGTERM and SIGKILL.
NoStrangerSignalled == ~misfired

\* Stale files never lock a project out: whatever crashes and clean-ups left, a
\* call for a daemon that begins while no other is under way fails only if
\* during it a daemon stops or dies by itself or another client starts.
\* (A forced restart may fail: it does not ask who answers the endpoint.)
FailureHasCause ==
  \A c \in Clients :
    call[c].step = "failed" /\ ~call[c].force => c \in disturbed

\* Every call of ensure_daemon ends, with a connection or an error: it waits for
\* no lock, no process and no socket without an end, and restarts only once.
EveryCallEnds == \A c \in Clients : Active(c) ~> ~Active(c)
=============================================================================
