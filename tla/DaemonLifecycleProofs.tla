----------------------- MODULE DaemonLifecycleProofs -----------------------
(***************************************************************************)
(* Proofs about DaemonLifecycle, for any number of clients and daemons and *)
(* all bounds: its types; that as long as no clean-up has removed the lock *)
(* file's path, the lock admits one daemon and the files name it; that no  *)
(* signal hits a process that is no daemon; and that a call fails only for *)
(* a cause, as long as calls do not overlap and nobody is slower than the  *)
(* timeouts.                                                               *)
(***************************************************************************)
EXTENDS DaemonLifecycle, TLAPS

\* The steps at which a client has the lock file open.
AtLock == {"flock", "drop"}

\* A flock belongs to a process that has the file open.
HoldersHaveItOpen ==
  \A i \in Inodes, p \in Processes : lockOf[i] = p => handle[p] = i

\* Processes have the file open exactly at the steps between open and close.
ClientsOpen ==
  \A c \in Clients : call[c].step \in AtLock <=> handle[c] # None
DaemonsOpen ==
  \A d \in Daemons : dpc[d] \in Locked \union {"flock"} <=> handle[d] # None

\* A daemon past the lock holds the flock of the file it opened.
DaemonsHold ==
  \A d \in Daemons : dpc[d] \in Locked => lockOf[handle[d]] = d

\* While the path was never removed, everyone has opened the same file.
OneFile ==
  ~unlinked => \A p \in Processes : handle[p] # None => handle[p] = lockFile

\* What a clean-up does after it removed the path.
PastUnlink ==
  \A d \in Daemons : dpc[d] \in {"rmIdentity", "unlock"} => unlinked

LockInv ==
  /\ HoldersHaveItOpen
  /\ ClientsOpen
  /\ DaemonsOpen
  /\ DaemonsHold
  /\ OneFile
  /\ PastUnlink

\* The steps of a daemon that has written the identity, and the number before.
Named    == {"clear", "bind", "serving"}
Recorded == Named \union {"identity"}

\* What the files say of the daemon that wrote them, from then on.
FilesInv ==
  ~unlinked => \A d \in Daemons :
                 /\ dpc[d] \in Recorded => pidFile = pidOf[d]
                 /\ dpc[d] \in Named => identity = d

-----------------------------------------------------------------------------
(* Types                                                                   *)

USE DEF Processes

LEMMA NoCallTypes == NoCall \in Calls
BY DEF NoCall, Calls, CSteps, Ended

LEMMA TypeInit == Init => TypeOK
<1> SUFFICES ASSUME Init PROVE TypeOK
  OBVIOUS
<1>1. dpc \in [Daemons -> DSteps]
  BY DEF Init, DSteps
<1>2. call \in [Clients -> Calls]
  BY NoCallTypes DEF Init
<1>3. disturbed \subseteq Clients /\ calls \in Nat /\ crashes \in Nat
  BY DEF Init
<1> QED
  BY <1>1, <1>2, <1>3 DEF Init, TypeOK

\* What the shared parts of the actions do to the types.
LEMMA StepTypes ==
  ASSUME NEW c \in Clients, NEW s \in CSteps, call \in [Clients -> Calls],
         Step(c, s)
  PROVE  call' \in [Clients -> Calls]
BY DEF Step, Calls

LEMMA EndsTypes ==
  ASSUME NEW c \in Clients, NEW s \in CSteps, call \in [Clients -> Calls],
         Ends(c, s)
  PROVE  call' \in [Clients -> Calls]
<1>1. [NoCall EXCEPT !.step = s, !.force = call[c].force] \in Calls
  BY NoCallTypes DEF Calls
<1> QED
  BY <1>1 DEF Ends

LEMMA GoesToLockTypes ==
  ASSUME NEW c \in Clients, call \in [Clients -> Calls], GoesToLock(c)
  PROVE  call' \in [Clients -> Calls]
<1>1. [call[c] EXCEPT !.step = "lock", !.link = None, !.rec = None,
                      !.seen = None, !.target = None] \in Calls
  BY DEF Calls, CSteps
<1> QED
  BY <1>1 DEF GoesToLock

LEMMA FieldTypes ==
  ASSUME NEW k \in Calls, NEW s \in CSteps
  PROVE  /\ \A d \in Daemons \union {None} :
              /\ [k EXCEPT !.step = s, !.link = d] \in Calls
              /\ [k EXCEPT !.step = s, !.rec = d] \in Calls
              /\ [k EXCEPT !.step = s, !.seen = d] \in Calls
              /\ [k EXCEPT !.step = s, !.seen = d, !.last = TRUE] \in Calls
         /\ \A p \in Pids : [k EXCEPT !.step = s, !.target = p] \in Calls
         /\ \A b \in BOOLEAN : [k EXCEPT !.step = s, !.spawned = b] \in Calls
BY DEF Calls

\* A call has the types of its fields.
LEMMA CallTypes ==
  ASSUME NEW k \in Calls
  PROVE  /\ k.step \in CSteps
         /\ k.link \in Daemons \union {None}
         /\ k.rec \in Daemons \union {None}
         /\ k.seen \in Daemons \union {None}
         /\ k.target \in Pids \union {None}
BY DEF Calls

LEMMA OpensTypes ==
  ASSUME TypeOK, NEW p \in Processes, Opens(p)
  PROVE  /\ lockFile' \in Inodes
         /\ handle' = [handle EXCEPT ![p] = lockFile']
         /\ handle' \in [Processes -> Inodes \union {None}]
         /\ lockFile # None => lockFile' = lockFile
<1>1. Opened \in Inodes
  BY DEF Opens, Opened, Unused, TypeOK
<1> QED
  BY <1>1 DEF Opens, Opened, TypeOK

LEMMA ClosesTypes ==
  ASSUME TypeOK, NEW p \in Processes, Closes(p)
  PROVE  /\ lockOf' \in [Inodes -> Processes \union {None}]
         /\ handle' \in [Processes -> Inodes \union {None}]
BY DEF Closes, TypeOK

LEMMA KillsTypes ==
  ASSUME TypeOK, NEW p, Kills(p)
  PROVE  /\ lockOf' \in [Inodes -> Processes \union {None}]
         /\ handle' \in [Processes -> Inodes \union {None}]
         /\ dpc' \in [Daemons -> DSteps]
         /\ proc' \in [Pids -> Daemons \union {Other, None}]
         /\ misfired' \in BOOLEAN
<1>1. CASE proc[p] \in Daemons
  BY <1>1, ClosesTypes DEF Kills, TypeOK, DStep, DSteps
<1>2. CASE proc[p] \notin Daemons
  BY <1>2 DEF Kills, TypeOK, locks
<1> QED
  BY <1>1, <1>2

\* A client's step that signals nobody.
ClientQuiet(c) ==
  \/ Connects(c)
  \/ Records(c)
  \/ Checks(c)
  \/ ProbeSucceeds(c)
  \/ ProbeFails(c)
  \/ Discovers(c)
  \/ AwaitsExit(c)
  \/ OpensLock(c)
  \/ TakesLock(c)
  \/ FindsLockHeld(c)
  \/ DropsLock(c)
  \/ ClearsEndpoint(c)
  \/ Spawns(c)
  \/ SpawnFails(c)
  \/ WaitConnects(c)
  \/ WaitTimesOut(c)
  \/ Identifies(c)
  \/ Reaches(c)
  \/ Confirms(c)

LEMMA TypeClientQuiet ==
  ASSUME TypeOK, NEW c \in Clients, ClientQuiet(c)
  PROVE  TypeOK'
<1> USE DEF TypeOK, files, locks, procs, past, limits
<1> call[c] \in Calls
  OBVIOUS
<1>1. CASE Connects(c)
  <2>1. CASE Connectable
    <3>1. [call[c] EXCEPT !.step = "record", !.link = endpoint] \in Calls
      BY FieldTypes DEF CSteps
    <3> QED
      BY <1>1, <2>1, <3>1 DEF Connects
  <2>2. CASE ~(Connectable)
    BY <1>1, <2>2, GoesToLockTypes DEF Connects, CSteps
  <2> QED
    BY <2>1, <2>2
<1>2. CASE Records(c)
  BY <1>2, FieldTypes
  DEF Records, CSteps
<1>3. CASE Checks(c)
  BY <1>3, StepTypes DEF Checks, CSteps
<1>4. CASE ProbeSucceeds(c)
  BY <1>4, EndsTypes DEF ProbeSucceeds, CSteps, Ended
<1>5. CASE ProbeFails(c)
  BY <1>5, StepTypes DEF ProbeFails, CSteps
<1>6. CASE Discovers(c)
  <2>1. call[c].link \in Daemons \union {None}
    BY CallTypes
  <2>2. [call[c] EXCEPT !.step = "restart", !.seen = call[c].link] \in Calls
    BY <2>1, FieldTypes DEF CSteps
  <2>3. CASE Step(c, "restart")
    BY <1>6, <2>3, StepTypes DEF Discovers, CSteps
  <2>4. CASE ~Step(c, "restart")
    BY <1>6, <2>2, <2>4 DEF Discovers
  <2> QED
    BY <2>3, <2>4
<1>7. CASE AwaitsExit(c)
  BY <1>7, GoesToLockTypes DEF AwaitsExit
<1>8. CASE OpensLock(c)
  BY <1>8, StepTypes, OpensTypes DEF OpensLock, CSteps
<1>9. CASE TakesLock(c)
  BY <1>9, StepTypes DEF TakesLock, Locks, CSteps
<1>10. CASE FindsLockHeld(c)
  BY <1>10, ClosesTypes, FieldTypes
  DEF FindsLockHeld, LockFails, CSteps
<1>11. CASE DropsLock(c)
  BY <1>11, StepTypes, ClosesTypes DEF DropsLock, CSteps
<1>12. CASE ClearsEndpoint(c)
  BY <1>12, StepTypes DEF ClearsEndpoint, CSteps
<1>13. CASE Spawns(c)
  <2>1. call' \in [Clients -> Calls]
    BY <1>13, FieldTypes DEF Spawns, CSteps
  <2> DEFINE next == CHOOSE x \in Spare : TRUE
  <2>4. next \in Daemons /\ dpc[next] = "off"
    BY <1>13 DEF Spawns, Spare
  <2>2. PICK d \in Daemons, p \in Pids :
          /\ proc' = [proc EXCEPT ![p] = d]
          /\ pidOf' = [pidOf EXCEPT ![d] = p]
          /\ version' = [version EXCEPT ![d] = VersionOf[c]]
          /\ DStep(d, "start")
    BY <1>13, <2>4 DEF Spawns
  <2>3. /\ dpc' \in [Daemons -> DSteps]
        /\ version' \in [Daemons -> Versions \union {None}]
    BY <2>2, LifecycleConstants DEF DStep, DSteps, Starting
  <2> QED
    BY <1>13, <2>1, <2>2, <2>3 DEF Spawns
<1>14. CASE SpawnFails(c)
  BY <1>14, EndsTypes DEF SpawnFails, Disturb, CSteps, Ended
<1>15. CASE WaitConnects(c)
  BY <1>15, StepTypes DEF WaitConnects, CSteps
<1>16. CASE WaitTimesOut(c)
  <2>1. CASE call[c].last \/ (call[c].force /\ ~call[c].spawned)
    BY <1>16, <2>1, EndsTypes DEF WaitTimesOut, CSteps, Ended
  <2>2. CASE ~(call[c].last \/ (call[c].force /\ ~call[c].spawned))
    <3>1. [call[c] EXCEPT !.step = "restart", !.seen = None,
                          !.last = TRUE] \in Calls
      BY FieldTypes DEF CSteps
    <3> QED
      BY <1>16, <2>2, <3>1 DEF WaitTimesOut
  <2> QED
    BY <2>1, <2>2
<1>17. CASE Identifies(c)
  <2>1. CASE identity = None
    BY <1>17, <2>1, EndsTypes DEF Identifies, CSteps, Ended
  <2>2. CASE ~(identity = None)
    <3>1. [call[c] EXCEPT !.step = "reach", !.rec = identity] \in Calls
      BY FieldTypes DEF CSteps
    <3> QED
      BY <1>17, <2>2, <3>1 DEF Identifies
  <2> QED
    BY <2>1, <2>2
<1>18. CASE Reaches(c)
  <2>1. CASE Connectable
    <3>1. [call[c] EXCEPT !.step = "confirm", !.link = endpoint] \in Calls
      BY FieldTypes DEF CSteps
    <3> QED
      BY <1>18, <2>1, <3>1 DEF Reaches
  <2>2. CASE ~(Connectable)
    BY <1>18, <2>2, EndsTypes DEF Reaches, CSteps, Ended
  <2> QED
    BY <2>1, <2>2
<1>19. CASE Confirms(c)
  BY <1>19, EndsTypes DEF Confirms, CSteps, Ended
<1> QED
  BY <1>1, <1>2, <1>3, <1>4, <1>5, <1>6, <1>7, <1>8, <1>9, <1>10, <1>11,
     <1>12, <1>13, <1>14, <1>15, <1>16, <1>17, <1>18, <1>19
  DEF ClientQuiet

LEMMA TypeCall ==
  ASSUME TypeOK, NEW c \in Clients, Call(c)
  PROVE  TypeOK'
<1> USE DEF TypeOK, files, locks, procs
<1>1. PICK force \in BOOLEAN :
        call' = [call EXCEPT ![c] =
                  [NoCall EXCEPT !.step = IF force THEN "restart" ELSE "connect",
                                 !.force = force]]
  BY DEF Call
<1>2. (IF force THEN "restart" ELSE "connect") \in CSteps
  BY DEF CSteps
<1>3. [NoCall EXCEPT !.step = IF force THEN "restart" ELSE "connect",
                     !.force = force] \in Calls
  BY <1>2, NoCallTypes DEF Calls
<1>4. call' \in [Clients -> Calls]
  BY <1>1, <1>3
<1>5. disturbed' \subseteq Clients
  BY DEF Call
<1> QED
  BY <1>4, <1>5 DEF Call

LEMMA TargetTypes ==
  ASSUME TypeOK, NEW c \in Clients
  PROVE  Target(c) \in Pids \union {None}
<1>1. call[c] \in Calls
  BY DEF TypeOK
<1> QED
  BY <1>1, CallTypes DEF Target, TypeOK

LEMMA TerminatesTypes ==
  ASSUME TypeOK, NEW p \in Pids, Terminates(p)
  PROVE  /\ lockOf' \in [Inodes -> Processes \union {None}]
         /\ handle' \in [Processes -> Inodes \union {None}]
         /\ dpc' \in [Daemons -> DSteps]
         /\ proc' \in [Pids -> Daemons \union {Other, None}]
         /\ misfired' \in BOOLEAN
<1>1. CASE Kills(p)
  BY <1>1, KillsTypes
<1>2. CASE ~Kills(p)
  BY <1>2 DEF Terminates, TypeOK, DSteps, Stopping, locks
<1> QED
  BY <1>1, <1>2

LEMMA TypeRestarts ==
  ASSUME TypeOK, NEW c \in Clients, Restarts(c)
  PROVE  TypeOK'
<1> USE DEF files, locks, limits
<1> DEFINE p == Target(c)
<1> call[c] \in Calls /\ call \in [Clients -> Calls]
  BY DEF TypeOK
<1>1. CASE p # None /\ proc[p] # None /\ Verified(c, p)
  <2>1. p \in Pids
    BY <1>1, TargetTypes
  <2>2. [call[c] EXCEPT !.step = "dying", !.target = p] \in Calls
    BY <2>1, FieldTypes DEF CSteps
  <2>3. Terminates(p) /\ call' \in [Clients -> Calls]
    BY <1>1, <2>2 DEF Restarts
  <2> HIDE DEF p
  <2> QED
    BY <2>1, <2>3, TerminatesTypes DEF Restarts, TypeOK
<1>2. CASE ~(p # None /\ proc[p] # None /\ Verified(c, p))
  <2>1. GoesToLock(c) /\ UNCHANGED <<proc, dpc, lockOf, handle, misfired>>
    BY <1>2 DEF Restarts
  <2>2. call' \in [Clients -> Calls]
    BY <2>1, GoesToLockTypes
  <2> QED
    BY <2>1, <2>2 DEF Restarts, TypeOK
<1> QED
  BY <1>1, <1>2

LEMMA TypeExitTimesOut ==
  ASSUME TypeOK, NEW c \in Clients, ExitTimesOut(c)
  PROVE  TypeOK'
<1> USE DEF files, locks, limits
<1> DEFINE p == call[c].target
<1>1. call[c] \in Calls /\ call' \in [Clients -> Calls]
  BY GoesToLockTypes DEF ExitTimesOut, TypeOK
<1>2. CASE Verified(c, p)
  <2>1. Kills(p)
    BY <1>2 DEF ExitTimesOut
  <2> QED
    BY <1>1, <1>2, <2>1, KillsTypes DEF ExitTimesOut, TypeOK
<1>3. CASE ~Verified(c, p)
  BY <1>1, <1>3 DEF ExitTimesOut, TypeOK
<1> QED
  BY <1>2, <1>3

LEMMA TypeDaemon ==
  ASSUME TypeOK, NEW d \in Daemons, DaemonStep(d) \/ Stops(d) \/ Crashes(d)
  PROVE  TypeOK'
<1> USE DEF TypeOK, files, locks, procs, past, limits
<1>1. CASE DaemonOpensLock(d)
  BY <1>1, OpensTypes DEF DaemonOpensLock, DStep, DSteps, Starting
<1>2. CASE DaemonTakesLock(d)
  BY <1>2 DEF DaemonTakesLock, Locks, DStep, DSteps, Starting
<1>3. CASE DaemonGivesUp(d)
  BY <1>3, ClosesTypes DEF DaemonGivesUp, LockFails, DStep, DSteps
<1>4. CASE WritesPid(d)
  BY <1>4 DEF WritesPid, DStep, DSteps, Starting
<1>5. CASE WritesIdentity(d)
  BY <1>5 DEF WritesIdentity, DStep, DSteps, Starting
<1>6. CASE DaemonClearsEndpoint(d)
  BY <1>6 DEF DaemonClearsEndpoint, DStep, DSteps, Starting
<1>7. CASE Binds(d)
  BY <1>7 DEF Binds, DStep, DSteps, Stopping
<1>8. CASE Stops(d)
  BY <1>8 DEF Stops, DStep, DSteps, Stopping, Disturb
<1>9. CASE RemovesEndpoint(d)
  BY <1>9 DEF RemovesEndpoint, DStep, DSteps, Stopping
<1>10. CASE RemovesPid(d)
  BY <1>10 DEF RemovesPid, DStep, DSteps, Stopping
<1>11. CASE RemovesLock(d)
  BY <1>11 DEF RemovesLock, DStep, DSteps, Stopping
<1>12. CASE RemovesIdentity(d)
  BY <1>12 DEF RemovesIdentity, DStep, DSteps, Stopping
<1>13. CASE Unlocks(d)
  BY <1>13, ClosesTypes DEF Unlocks, DStep, DSteps
<1>14. CASE Exits(d)
  BY <1>14 DEF Exits, DStep, DSteps
<1>15. CASE Crashes(d)
  <2>1. disturbed' \subseteq Clients /\ crashes' \in Nat
    BY <1>15 DEF Crashes, Disturb
  <2>2. lockOf' \in [Inodes -> Processes \union {None}]
        /\ handle' \in [Processes -> Inodes \union {None}]
    BY <1>15, ClosesTypes DEF Crashes
  <2>3. dpc' \in [Daemons -> DSteps]
        /\ proc' \in [Pids -> Daemons \union {Other, None}]
    BY <1>15 DEF Crashes, DStep, DSteps
  <2> QED
    BY <1>15, <2>1, <2>2, <2>3 DEF Crashes
<1> QED
  BY <1>1, <1>2, <1>3, <1>4, <1>5, <1>6, <1>7, <1>8, <1>9, <1>10, <1>11,
     <1>12, <1>13, <1>14, <1>15
  DEF DaemonStep

LEMMA TypeStep == TypeOK /\ [Next]_vars => TypeOK'
<1> SUFFICES ASSUME TypeOK, [Next]_vars PROVE TypeOK'
  OBVIOUS
<1>1. ASSUME NEW c \in Clients, Call(c) \/ ClientStep(c) PROVE TypeOK'
  BY <1>1, TypeCall, TypeClientQuiet, TypeRestarts, TypeExitTimesOut
  DEF ClientStep, ClientQuiet
<1>2. ASSUME NEW d \in Daemons, DaemonStep(d) \/ Stops(d) \/ Crashes(d)
      PROVE  TypeOK'
  BY <1>2, TypeDaemon
<1>3. ASSUME NEW p \in Pids, NumberReused(p) \/ OtherEnds(p) PROVE TypeOK'
  BY <1>3 DEF NumberReused, OtherEnds, TypeOK, files, locks, past, limits
<1>4. CASE UNCHANGED vars
  BY <1>4 DEF vars, files, locks, procs, past, limits, TypeOK
<1> QED
  BY <1>1, <1>2, <1>3, <1>4 DEF Next

\* Whatever the number of clients, daemons and process numbers: the files, the
\* locks and the calls hold what the code stores in them.
THEOREM LifecycleTypeCorrect == Spec => []TypeOK
  BY TypeInit, TypeStep, PTL DEF Spec

-----------------------------------------------------------------------------
(* The lock                                                                *)

\* A step that opens, locks, closes or removes no lock file, and moves nobody
\* to or from the steps at which it has one open.
LEMMA LockUntouched ==
  ASSUME LockInv,
         UNCHANGED <<lockFile, lockOf, handle, unlinked>>,
         \A c \in Clients : call'[c].step \in AtLock <=> call[c].step \in AtLock,
         \A d \in Daemons :
           /\ dpc'[d] \in Locked <=> dpc[d] \in Locked
           /\ dpc'[d] = "flock" <=> dpc[d] = "flock"
           /\ dpc'[d] \in {"rmIdentity", "unlock"}
                <=> dpc[d] \in {"rmIdentity", "unlock"}
  PROVE  LockInv'
BY DEF LockInv, HoldersHaveItOpen, ClientsOpen, DaemonsOpen, DaemonsHold,
       OneFile, PastUnlink

\* What closing changes: the process has no file open and holds no lock, and
\* the others have what they had.
LEMMA ClosesEffect ==
  ASSUME TypeOK, LockInv, NEW p \in Processes, Closes(p)
  PROVE  /\ handle'[p] = None
         /\ \A q \in Processes \ {p} : handle'[q] = handle[q]
         /\ \A i \in Inodes, q \in Processes \ {p} :
              lockOf'[i] = q <=> lockOf[i] = q
         /\ \A i \in Inodes : lockOf'[i] # p
<1>1. None \notin Processes
  BY LifecycleConstants
<1> QED
  BY <1>1 DEF Closes, TypeOK

\* The client goes to a step without the file, and no other client moves.
StaysAway(c) ==
  /\ call'[c].step \notin AtLock
  /\ \A o \in Clients \ {c} : call'[o] = call[o]

LEMMA SharedStaysAway ==
  ASSUME TypeOK, NEW c \in Clients
  PROVE  /\ \A s \in CSteps \ AtLock :
              Step(c, s) \/ Ends(c, s) => StaysAway(c)
         /\ GoesToLock(c) => StaysAway(c)
         /\ \A k : call' = [call EXCEPT ![c] = k] /\ k.step \notin AtLock
                    => StaysAway(c)
<1> call[c] \in Calls /\ call \in [Clients -> Calls]
  BY DEF TypeOK
<1>2. ASSUME NEW s \in CSteps \ AtLock, Step(c, s) PROVE StaysAway(c)
  BY <1>2 DEF Step, StaysAway, Calls
<1>3. ASSUME NEW s \in CSteps \ AtLock, Ends(c, s) PROVE StaysAway(c)
  BY <1>3 DEF Ends, NoCall, StaysAway
<1>4. ASSUME GoesToLock(c) PROVE StaysAway(c)
  BY <1>4 DEF GoesToLock, StaysAway, AtLock, Calls
<1>5. ASSUME NEW k, call' = [call EXCEPT ![c] = k], k.step \notin AtLock
      PROVE  StaysAway(c)
  BY <1>5 DEF StaysAway
<1> QED
  BY <1>2, <1>3, <1>4, <1>5

\* A client's step that neither opens nor closes.
LEMMA LockClientElsewhere ==
  ASSUME TypeOK, LockInv, NEW c \in Clients,
         UNCHANGED <<lockFile, lockOf, handle, unlinked, dpc>>,
         call[c].step \notin AtLock, StaysAway(c)
  PROVE  LockInv'
BY LockUntouched DEF StaysAway

\* The client's steps that concern no lock.
ClientElsewhere(c) ==
  \/ Records(c) \/ Checks(c) \/ ProbeSucceeds(c) \/ ProbeFails(c)
  \/ Discovers(c) \/ AwaitsExit(c) \/ ClearsEndpoint(c) \/ SpawnFails(c)
  \/ WaitConnects(c) \/ WaitTimesOut(c) \/ Identifies(c) \/ Reaches(c)
  \/ Confirms(c) \/ Connects(c)

LEMMA LockClientQuiet ==
  ASSUME TypeOK, LockInv, NEW c \in Clients, ClientElsewhere(c)
  PROVE  LockInv'
<1>1. /\ UNCHANGED <<lockFile, lockOf, handle, unlinked, dpc>>
      /\ call[c].step \notin AtLock
  BY DEF ClientElsewhere, Records, Checks, ProbeSucceeds, ProbeFails,
         Discovers, AwaitsExit, ClearsEndpoint, SpawnFails, WaitConnects,
         WaitTimesOut, Identifies, Reaches, Confirms, Connects,
         Disturb, files, locks, procs, past, AtLock
<1> call[c] \in Calls
  BY DEF TypeOK
<1> USE SharedStaysAway DEF CSteps, Ended, AtLock, Calls
<1>2. CASE Records(c)
  BY <1>1, <1>2, LockClientElsewhere DEF Records
<1>3. CASE Checks(c)
  BY <1>1, <1>3, LockClientElsewhere DEF Checks
<1>4. CASE ProbeSucceeds(c)
  BY <1>1, <1>4, LockClientElsewhere DEF ProbeSucceeds
<1>5. CASE ProbeFails(c)
  BY <1>1, <1>5, LockClientElsewhere DEF ProbeFails
<1>6. CASE Discovers(c)
  BY <1>1, <1>6, LockClientElsewhere DEF Discovers
<1>7. CASE AwaitsExit(c)
  BY <1>1, <1>7, LockClientElsewhere DEF AwaitsExit
<1>8. CASE ClearsEndpoint(c)
  BY <1>1, <1>8, LockClientElsewhere DEF ClearsEndpoint
<1>9. CASE SpawnFails(c)
  BY <1>1, <1>9, LockClientElsewhere DEF SpawnFails
<1>10. CASE WaitConnects(c)
  BY <1>1, <1>10, LockClientElsewhere DEF WaitConnects
<1>11. CASE WaitTimesOut(c)
  BY <1>1, <1>11, LockClientElsewhere DEF WaitTimesOut
<1>12. CASE Identifies(c)
  BY <1>1, <1>12, LockClientElsewhere DEF Identifies
<1>13. CASE Reaches(c)
  BY <1>1, <1>13, LockClientElsewhere DEF Reaches
<1>14. CASE Confirms(c)
  BY <1>1, <1>14, LockClientElsewhere DEF Confirms
<1>15. CASE Connects(c)
  BY <1>1, <1>15, LockClientElsewhere DEF Connects
<1> QED
  BY <1>2, <1>3, <1>4, <1>5, <1>6, <1>7, <1>8, <1>9, <1>10, <1>11, <1>12,
     <1>13, <1>14, <1>15
  DEF ClientElsewhere

\* What opening changes.  A process with no file open holds no lock, and
\* nobody else is affected.
LEMMA OpensEffect ==
  ASSUME TypeOK, LockInv, NEW p \in Processes, handle[p] = None, Opens(p)
  PROVE  /\ handle'[p] = lockFile' /\ lockFile' # None
         /\ \A i \in Inodes : lockOf[i] # p
         /\ \A q \in Processes \ {p} : handle'[q] = handle[q]
         /\ ~unlinked => \A q \in Processes : handle'[q] # None
                                             => handle'[q] = lockFile'
<1>1. None \notin Inodes
  BY LifecycleConstants
<1>2. lockFile' \in Inodes /\ handle' = [handle EXCEPT ![p] = lockFile']
      /\ (lockFile # None => lockFile' = lockFile)
  BY OpensTypes
<1>3. handle'[p] = lockFile' /\ \A q \in Processes \ {p} : handle'[q] = handle[q]
  BY <1>2 DEF TypeOK
<1>4. \A i \in Inodes : lockOf[i] # p
  BY <1>1 DEF LockInv, HoldersHaveItOpen
<1>5. ~unlinked => \A q \in Processes : handle'[q] # None => handle'[q] = lockFile'
  BY <1>2, <1>3 DEF LockInv, OneFile, TypeOK
<1> QED
  BY <1>1, <1>2, <1>3, <1>4, <1>5

\* What locking changes.
LEMMA LocksEffect ==
  ASSUME TypeOK, LockInv, NEW p \in Processes, handle[p] # None, Locks(p)
  PROVE  /\ lockOf'[handle[p]] = p /\ lockOf[handle[p]] = None
         /\ \A i \in Inodes \ {handle[p]} : lockOf'[i] = lockOf[i]
         /\ handle[p] \in Inodes /\ UNCHANGED handle
BY DEF Locks, TypeOK

LEMMA LockClient ==
  ASSUME TypeOK, LockInv, NEW c \in Clients,
         OpensLock(c) \/ TakesLock(c) \/ FindsLockHeld(c) \/ DropsLock(c)
  PROVE  LockInv'
<1> USE DEF LockInv, HoldersHaveItOpen, ClientsOpen, DaemonsOpen, DaemonsHold,
            OneFile, PastUnlink, AtLock
<1> c \in Processes /\ None \notin Processes /\ c \notin Daemons
  BY LifecycleConstants
<1> call \in [Clients -> Calls] /\ call[c] \in Calls
  BY DEF TypeOK
<1>1. CASE OpensLock(c)
  <2>1. handle[c] = None /\ Opens(c) /\ UNCHANGED <<lockOf, dpc, unlinked>>
    BY <1>1 DEF OpensLock, procs, past
  <2>2. call'[c].step = "flock" /\ \A o \in Clients \ {c} : call'[o] = call[o]
    BY <1>1 DEF OpensLock, Step, Calls
  <2> QED
    BY <2>1, <2>2, OpensEffect
<1>2. CASE TakesLock(c)
  <2>1. handle[c] # None /\ Locks(c) /\ UNCHANGED <<lockFile, dpc, unlinked>>
    BY <1>2 DEF TakesLock, files, procs, past
  <2>2. call'[c].step = "drop" /\ \A o \in Clients \ {c} : call'[o] = call[o]
    BY <1>2 DEF TakesLock, Step, Calls
  <2>3. HoldersHaveItOpen'
    BY <2>1, LocksEffect
  <2>4. DaemonsHold'
    <3> SUFFICES ASSUME NEW d \in Daemons, dpc[d] \in Locked
                 PROVE  lockOf'[handle[d]] = d
      BY <2>1, LocksEffect
    <3>1. lockOf[handle[d]] = d /\ handle[d] \in Inodes /\ d # None
      BY LifecycleConstants DEF TypeOK
    <3> QED
      BY <2>1, <3>1, LocksEffect
  <2> QED
    BY <1>2, <2>1, <2>2, <2>3, <2>4, LocksEffect DEF TakesLock
<1>3. CASE FindsLockHeld(c) \/ DropsLock(c)
  <2>1. Closes(c) /\ UNCHANGED <<lockFile, dpc, unlinked>>
    BY <1>3 DEF FindsLockHeld, LockFails, DropsLock, files, procs, past
  <2>2. call'[c].step \notin AtLock
        /\ \A o \in Clients \ {c} : call'[o] = call[o]
    <3>1. CASE FindsLockHeld(c)
      BY <3>1 DEF FindsLockHeld
    <3>2. CASE DropsLock(c)
      BY <3>2 DEF DropsLock, Step, Calls
    <3> QED
      BY <1>3, <3>1, <3>2
  <2> QED
    BY <2>1, <2>2, ClosesEffect DEF TypeOK
<1> QED
  BY <1>1, <1>2, <1>3

\* A daemon that ends, on its own or killed, leaves what it held.
LEMMA LockDaemonEnds ==
  ASSUME TypeOK, LockInv, NEW d \in Daemons, Closes(d),
         NEW s \in {"drain", "gone"}, DStep(d, s),
         UNCHANGED <<lockFile, unlinked>>,
         \A c \in Clients : call'[c].step \in AtLock <=> call[c].step \in AtLock
  PROVE  LockInv'
<1> USE DEF LockInv, HoldersHaveItOpen, ClientsOpen, DaemonsOpen, DaemonsHold,
            OneFile, PastUnlink
<1>1. d \in Processes /\ d \notin Clients /\ None \notin Processes
  BY LifecycleConstants
<1>2. dpc'[d] = s /\ \A e \in Daemons \ {d} : dpc'[e] = dpc[e]
  BY DEF DStep, TypeOK
<1>3. s \notin Locked \union {"flock", "rmIdentity", "unlock"}
  BY DEF Locked, Stopping
<1> QED
  BY <1>1, <1>2, <1>3, ClosesEffect DEF TypeOK

LEMMA LockKills ==
  ASSUME TypeOK, LockInv, NEW p, Kills(p), UNCHANGED <<lockFile, unlinked>>,
         \A c \in Clients : call'[c].step \in AtLock <=> call[c].step \in AtLock
  PROVE  LockInv'
<1>1. CASE proc[p] \in Daemons
  BY <1>1, LockDaemonEnds DEF Kills
<1>2. CASE proc[p] \notin Daemons
  BY <1>2, LockUntouched DEF Kills, locks
<1> QED
  BY <1>1, <1>2

LEMMA LockTerminates ==
  ASSUME TypeOK, LockInv, NEW p, Terminates(p), UNCHANGED <<lockFile, unlinked>>,
         \A c \in Clients : call'[c].step \in AtLock <=> call[c].step \in AtLock
  PROVE  LockInv'
<1>1. CASE Kills(p)
  BY <1>1, LockKills
<1>2. CASE ~Kills(p)
  <2> DEFINE d == proc[p]
  <2>1. d \in Daemons /\ UNCHANGED <<lockOf, handle>>
        /\ dpc[d] \in {"bind", "serving"} \union Stopping \union {"drain"}
        /\ dpc' = [dpc EXCEPT ![d] = IF @ \in {"bind", "serving"}
                                       THEN "rmEndpoint" ELSE @]
    BY <1>2 DEF Terminates, locks
  <2> HIDE DEF d
  <2>2. \A e \in Daemons :
          dpc'[e] = dpc[e] \/ (dpc[e] \in {"bind", "serving"} /\ dpc'[e] = "rmEndpoint")
    BY <2>1 DEF TypeOK
  <2> QED
    BY <2>1, <2>2, LockUntouched DEF Locked, Stopping
<1> QED
  BY <1>1, <1>2

LEMMA LockSignals ==
  ASSUME TypeOK, LockInv, NEW c \in Clients,
         Call(c) \/ Restarts(c) \/ ExitTimesOut(c) \/ Spawns(c)
  PROVE  LockInv'
<1> call[c] \in Calls /\ call \in [Clients -> Calls]
  BY DEF TypeOK
<1>1. UNCHANGED <<lockFile, unlinked>>
  BY DEF Call, Restarts, ExitTimesOut, Spawns, files, past
<1>2. \A o \in Clients : call'[o].step \in AtLock <=> call[o].step \in AtLock
  <2>1. call[c].step \notin AtLock
    BY DEF Call, Restarts, ExitTimesOut, Spawns, AtLock, Active, Ended
  <2>2. StaysAway(c)
    <3>1. CASE Call(c)
      BY <3>1 DEF Call, StaysAway, AtLock, NoCall
    <3>2. CASE Restarts(c) /\ ~GoesToLock(c)
      <4> DEFINE k == [call[c] EXCEPT !.step = "dying", !.target = Target(c)]
      <4>1. call' = [call EXCEPT ![c] = k]
        BY <3>2 DEF Restarts
      <4>2. k.step \notin AtLock
        BY DEF Calls, AtLock
      <4> QED
        BY <4>1, <4>2, SharedStaysAway
    <3>3. CASE GoesToLock(c)
      BY <3>3, SharedStaysAway
    <3>4. CASE ExitTimesOut(c)
      BY <3>4, SharedStaysAway DEF ExitTimesOut
    <3>5. CASE Spawns(c)
      BY <3>5 DEF Spawns, StaysAway, AtLock, Calls
    <3> QED
      BY <3>1, <3>2, <3>3, <3>4, <3>5
  <2> QED
    BY <2>1, <2>2 DEF StaysAway
<1>3. CASE Call(c)
  BY <1>1, <1>2, <1>3, LockUntouched DEF Call, locks, procs
<1>4. CASE Restarts(c)
  <2>1. CASE UNCHANGED <<dpc, lockOf, handle>>
    BY <1>1, <1>2, <2>1, LockUntouched
  <2>2. CASE Terminates(Target(c))
    BY <1>1, <1>2, <2>2, LockTerminates
  <2> QED
    BY <1>4, <2>1, <2>2 DEF Restarts, locks
<1>5. CASE ExitTimesOut(c)
  <2>1. CASE UNCHANGED <<dpc, lockOf, handle>>
    BY <1>1, <1>2, <2>1, LockUntouched
  <2>2. CASE Kills(call[c].target)
    BY <1>1, <1>2, <2>2, LockKills
  <2> QED
    BY <1>5, <2>1, <2>2 DEF ExitTimesOut, locks
<1>6. CASE Spawns(c)
  <2>1. UNCHANGED <<lockOf, handle>>
    BY <1>6 DEF Spawns, locks
  <2>2. \A d \in Daemons : dpc'[d] = dpc[d] \/ (dpc[d] = "off" /\ dpc'[d] = "start")
    BY <1>6 DEF Spawns, Spare, DStep, TypeOK
  <2> QED
    BY <1>1, <1>2, <2>1, <2>2, LockUntouched DEF Locked, Stopping
<1> QED
  BY <1>3, <1>4, <1>5, <1>6

\* A daemon's steps between the lock and the release, but for the removal of
\* the lock file.
DaemonElsewhere(d) ==
  \/ WritesPid(d) \/ WritesIdentity(d) \/ DaemonClearsEndpoint(d) \/ Binds(d)
  \/ Stops(d) \/ RemovesEndpoint(d) \/ RemovesPid(d) \/ RemovesIdentity(d)
  \/ Exits(d)

LEMMA LockDaemonQuiet ==
  ASSUME TypeOK, LockInv, NEW d \in Daemons, DaemonElsewhere(d)
  PROVE  LockInv'
<1>1. UNCHANGED <<lockFile, lockOf, handle, unlinked, call>>
  BY DEF DaemonElsewhere, WritesPid, WritesIdentity, DaemonClearsEndpoint,
         Binds, Stops, RemovesEndpoint, RemovesPid, RemovesIdentity, Exits,
         files, locks, past
<1>2. \E s \in DSteps :
        /\ DStep(d, s)
        /\ s \in Locked <=> dpc[d] \in Locked
        /\ s # "flock" /\ dpc[d] # "flock"
        /\ s \in {"rmIdentity", "unlock"} <=> dpc[d] \in {"rmIdentity", "unlock"}
  BY DEF DaemonElsewhere, WritesPid, WritesIdentity, DaemonClearsEndpoint,
         Binds, Stops, RemovesEndpoint, RemovesPid, RemovesIdentity, Exits,
         DSteps, Locked, Stopping, Starting
<1> QED
  BY <1>1, <1>2, LockUntouched DEF DStep, TypeOK

LEMMA LockDaemon ==
  ASSUME TypeOK, LockInv, NEW d \in Daemons,
         DaemonStep(d) \/ Stops(d) \/ Crashes(d)
  PROVE  LockInv'
<1> d \in Processes /\ None \notin Processes /\ d \notin Clients
  BY LifecycleConstants
<1> dpc \in [Daemons -> DSteps]
  BY DEF TypeOK
<1>1. CASE DaemonElsewhere(d)
  BY <1>1, LockDaemonQuiet
<1>2. CASE DaemonOpensLock(d)
  <2>1. handle[d] = None /\ Opens(d) /\ UNCHANGED <<lockOf, call, unlinked>>
    BY <1>2 DEF DaemonOpensLock, past, LockInv, DaemonsOpen, Locked, Stopping
  <2>2. dpc'[d] = "flock" /\ \A e \in Daemons \ {d} : dpc'[e] = dpc[e]
    BY <1>2 DEF DaemonOpensLock, DStep
  <2> QED
    BY <2>1, <2>2, OpensEffect
    DEF LockInv, HoldersHaveItOpen, ClientsOpen, DaemonsOpen, DaemonsHold,
        OneFile, PastUnlink, Locked, Stopping
<1>3. CASE DaemonTakesLock(d)
  <2>1. handle[d] # None /\ Locks(d) /\ UNCHANGED <<lockFile, call, unlinked>>
    BY <1>3 DEF DaemonTakesLock, files, past, LockInv, DaemonsOpen
  <2>2. dpc'[d] = "pid" /\ \A e \in Daemons \ {d} : dpc'[e] = dpc[e]
    BY <1>3 DEF DaemonTakesLock, DStep
  <2>3. HoldersHaveItOpen'
    BY <2>1, LocksEffect DEF LockInv, HoldersHaveItOpen
  <2>4. DaemonsHold'
    <3> SUFFICES ASSUME NEW e \in Daemons \ {d}, dpc[e] \in Locked
                 PROVE  lockOf'[handle[e]] = e
      BY <2>1, <2>2, LocksEffect DEF DaemonsHold
    <3>1. lockOf[handle[e]] = e /\ handle[e] \in Inodes /\ e # None
      BY LifecycleConstants DEF TypeOK, LockInv, DaemonsHold, DaemonsOpen
    <3> QED
      BY <2>1, <3>1, LocksEffect
  <2> QED
    BY <1>3, <2>1, <2>2, <2>3, <2>4, LocksEffect
    DEF DaemonTakesLock, LockInv, ClientsOpen, DaemonsOpen, OneFile,
        PastUnlink, Locked, Stopping
<1>4. CASE DaemonGivesUp(d) \/ Unlocks(d) \/ Crashes(d)
  <2>1. \E s \in {"drain", "gone"} : DStep(d, s)
    BY <1>4 DEF DaemonGivesUp, Unlocks, Crashes
  <2>2. Closes(d) /\ UNCHANGED <<lockFile, unlinked, call>>
    BY <1>4 DEF DaemonGivesUp, LockFails, Unlocks, Crashes, files, past
  <2> QED
    BY <2>1, <2>2, LockDaemonEnds
<1>5. CASE RemovesLock(d)
  <2>1. unlinked' /\ UNCHANGED <<lockOf, handle, call>>
    BY <1>5 DEF RemovesLock, locks
  <2>2. dpc[d] \in Locked /\ "rmIdentity" \in Locked \ {"flock"}
        /\ dpc' = [dpc EXCEPT ![d] = "rmIdentity"]
    BY <1>5 DEF RemovesLock, DStep, Locked, Stopping
  <2> QED
    BY <2>1, <2>2
    DEF LockInv, HoldersHaveItOpen, ClientsOpen, DaemonsOpen, DaemonsHold,
        OneFile, PastUnlink
<1> QED
  BY <1>1, <1>2, <1>3, <1>4, <1>5 DEF DaemonStep, DaemonElsewhere

LEMMA LockStep == TypeOK /\ LockInv /\ [Next]_vars => LockInv'
<1> SUFFICES ASSUME TypeOK, LockInv, [Next]_vars PROVE LockInv'
  OBVIOUS
<1>1. ASSUME NEW c \in Clients, Call(c) \/ ClientStep(c) PROVE LockInv'
  BY <1>1, LockClient, LockClientQuiet, LockSignals
  DEF ClientStep, ClientElsewhere
<1>2. ASSUME NEW d \in Daemons, DaemonStep(d) \/ Stops(d) \/ Crashes(d)
      PROVE  LockInv'
  BY <1>2, LockDaemon
<1>3. ASSUME NEW p \in Pids, NumberReused(p) \/ OtherEnds(p) PROVE LockInv'
  BY <1>3, LockUntouched DEF NumberReused, OtherEnds, files, locks, past
<1>4. CASE UNCHANGED vars
  BY <1>4, LockUntouched DEF vars, files, locks, procs, past
<1> QED
  BY <1>1, <1>2, <1>3, <1>4 DEF Next

LEMMA LockInit == Init => LockInv
BY LifecycleConstants
DEF Init, LockInv, HoldersHaveItOpen, ClientsOpen, DaemonsOpen, DaemonsHold,
    OneFile, PastUnlink, NoCall, AtLock, Locked, Stopping

\* Two daemons that hold the flock of the same file are one.
LEMMA LockExcludes == TypeOK /\ LockInv => OneDaemonUntilUnlinked
<1> SUFFICES ASSUME TypeOK, LockInv, ~unlinked,
                    NEW a \in Daemons, NEW b \in Daemons,
                    dpc[a] \in Locked, dpc[b] \in Locked
             PROVE  a = b
  BY DEF OneDaemonUntilUnlinked
<1>1. handle[a] = lockFile /\ handle[b] = lockFile
  BY DEF LockInv, DaemonsOpen, OneFile
<1> QED
  BY <1>1 DEF LockInv, DaemonsHold

\* For any number of clients and daemons, whatever they do at the same time and
\* whoever crashes: as long as no clean-up has removed the lock file's path,
\* one daemon at most is past the lock of run_daemon.
THEOREM LockAdmitsOneDaemon == Spec => []OneDaemonUntilUnlinked
<1>1. Init => TypeOK /\ LockInv
  BY TypeInit, LockInit
<1>2. TypeOK /\ LockInv /\ [Next]_vars => (TypeOK /\ LockInv)'
  BY TypeStep, LockStep
<1>3. TypeOK /\ LockInv => OneDaemonUntilUnlinked
  BY LockExcludes
<1> QED
  BY <1>1, <1>2, <1>3, PTL DEF Spec

-----------------------------------------------------------------------------
(* What the files say                                                      *)

LEMMA FilesUntouched ==
  ASSUME FilesInv, UNCHANGED <<unlinked, pidFile, identity>>,
         \A d \in Daemons :
           /\ dpc'[d] \in Recorded => dpc[d] \in Recorded /\ pidOf'[d] = pidOf[d]
           /\ dpc'[d] \in Named => dpc[d] \in Named
  PROVE  FilesInv'
BY DEF FilesInv

\* Clients write none of these files, and the daemons they start or signal
\* have written none yet or stop.
LEMMA FilesClient ==
  ASSUME TypeOK, FilesInv, NEW c \in Clients, Call(c) \/ ClientStep(c)
  PROVE  FilesInv'
<1>1. UNCHANGED <<unlinked, pidFile, identity>>
  BY DEF Call, ClientStep, Connects, Records, Checks, ProbeSucceeds, ProbeFails,
         Discovers, Restarts, AwaitsExit, ExitTimesOut, OpensLock, TakesLock,
         FindsLockHeld, DropsLock, ClearsEndpoint, Spawns, SpawnFails,
         WaitConnects, WaitTimesOut, Identifies, Reaches, Confirms, files, past
<1> DEFINE Onwards(d) ==
             \/ dpc'[d] = dpc[d] /\ pidOf'[d] = pidOf[d]
             \/ dpc'[d] \notin Recorded
<1>2. ASSUME NEW p, Kills(p), UNCHANGED pidOf
      PROVE  \A d \in Daemons : Onwards(d)
  BY <1>2 DEF Kills, DStep, TypeOK, Recorded, Named
<1>3. ASSUME NEW p, Terminates(p), UNCHANGED pidOf
      PROVE  \A d \in Daemons : Onwards(d)
  <2>1. CASE Kills(p)
    BY <1>2, <1>3, <2>1
  <2>2. CASE ~Kills(p)
    BY <1>3, <2>2 DEF Terminates, TypeOK, Recorded, Named
  <2> QED
    BY <2>1, <2>2
<1>4. \A d \in Daemons : Onwards(d)
  <2>1. CASE Restarts(c)
    <3>1. CASE Terminates(Target(c))
      BY <1>3, <2>1, <3>1 DEF Restarts
    <3>2. CASE UNCHANGED dpc
      BY <2>1, <3>2 DEF Restarts
    <3> QED
      BY <2>1, <3>1, <3>2 DEF Restarts
  <2>2. CASE ExitTimesOut(c)
    <3>1. CASE Kills(call[c].target)
      BY <1>2, <2>2, <3>1 DEF ExitTimesOut
    <3>2. CASE UNCHANGED dpc
      BY <2>2, <3>2 DEF ExitTimesOut
    <3> QED
      BY <2>2, <3>1, <3>2 DEF ExitTimesOut
  <2>3. CASE Spawns(c)
    BY <2>3 DEF Spawns, DStep, TypeOK, Recorded, Named
  <2>4. CASE UNCHANGED <<dpc, pidOf>>
    BY <2>4
  <2> QED
    BY <2>1, <2>2, <2>3, <2>4
    DEF Call, ClientStep, Connects, Records, Checks, ProbeSucceeds, ProbeFails,
        Discovers, AwaitsExit, OpensLock, TakesLock, FindsLockHeld, DropsLock,
        ClearsEndpoint, SpawnFails, WaitConnects, WaitTimesOut, Identifies,
        Reaches, Confirms, procs
<1> QED
  BY <1>1, <1>4, FilesUntouched DEF Recorded

LEMMA FilesDaemon ==
  ASSUME TypeOK, LockInv, FilesInv, NEW d \in Daemons,
         DaemonStep(d) \/ Stops(d) \/ Crashes(d)
  PROVE  FilesInv'
<1> dpc \in [Daemons -> DSteps]
  BY DEF TypeOK
<1>1. PICK s \in DSteps : DStep(d, s)
  BY DEF DaemonStep, DaemonOpensLock, DaemonTakesLock, DaemonGivesUp, WritesPid,
         WritesIdentity, DaemonClearsEndpoint, Binds, Stops, RemovesEndpoint,
         RemovesPid, RemovesLock, RemovesIdentity, Unlocks, Exits, Crashes,
         DSteps, Starting, Stopping
<1>2. dpc'[d] = s /\ \A e \in Daemons \ {d} : dpc'[e] = dpc[e]
  BY <1>1 DEF DStep
<1>3. UNCHANGED pidOf
  BY DEF DaemonStep, DaemonOpensLock, DaemonTakesLock, DaemonGivesUp, WritesPid,
         WritesIdentity, DaemonClearsEndpoint, Binds, Stops, RemovesEndpoint,
         RemovesPid, RemovesLock, RemovesIdentity, Unlocks, Exits, Crashes, procs
<1>4. ~unlinked => \A e \in Daemons \ {d} :
                     dpc[d] \in Locked => dpc[e] \notin Recorded
  BY LockExcludes DEF OneDaemonUntilUnlinked, Recorded, Named, Locked
<1>5. CASE WritesPid(d)
  BY <1>2, <1>3, <1>4, <1>5
  DEF WritesPid, FilesInv, Locked, Recorded, Named, DStep, past
<1>6. CASE WritesIdentity(d)
  BY <1>2, <1>3, <1>4, <1>6
  DEF WritesIdentity, FilesInv, Locked, Recorded, Named, DStep, past
<1>7. CASE RemovesPid(d)
  BY <1>2, <1>3, <1>4, <1>7
  DEF RemovesPid, FilesInv, Locked, Stopping, Recorded, Named, DStep, past
<1>8. CASE RemovesLock(d)
  BY <1>8 DEF RemovesLock, FilesInv
<1>9. CASE RemovesIdentity(d)
  BY <1>9 DEF RemovesIdentity, FilesInv, LockInv, PastUnlink, past
<1> DEFINE Writes == \/ WritesPid(d) \/ WritesIdentity(d) \/ RemovesPid(d)
                    \/ RemovesLock(d) \/ RemovesIdentity(d)
<1>10. CASE ~Writes
  <2>1. UNCHANGED <<unlinked, pidFile, identity>>
    BY <1>10
    DEF DaemonStep, DaemonOpensLock, DaemonTakesLock, DaemonGivesUp,
        DaemonClearsEndpoint, Binds, Stops, RemovesEndpoint, Unlocks, Exits,
        Crashes, files, past
  <2>2. \/ dpc'[d] \notin Recorded
        \/ dpc'[d] \in Named /\ dpc[d] \in Named
    BY <1>10
    DEF DaemonStep, DaemonOpensLock, DaemonTakesLock, DaemonGivesUp,
        DaemonClearsEndpoint, Binds, Stops, RemovesEndpoint, Unlocks, Exits,
        Crashes, DStep, Recorded, Named
  <2> QED
    BY <1>2, <1>3, <2>1, <2>2, FilesUntouched DEF Recorded
<1> QED
  BY <1>5, <1>6, <1>7, <1>8, <1>9, <1>10

LEMMA FilesStep == TypeOK /\ LockInv /\ FilesInv /\ [Next]_vars => FilesInv'
<1> SUFFICES ASSUME TypeOK, LockInv, FilesInv, [Next]_vars PROVE FilesInv'
  OBVIOUS
<1>1. ASSUME NEW c \in Clients, Call(c) \/ ClientStep(c) PROVE FilesInv'
  BY <1>1, FilesClient
<1>2. ASSUME NEW d \in Daemons, DaemonStep(d) \/ Stops(d) \/ Crashes(d)
      PROVE  FilesInv'
  BY <1>2, FilesDaemon
<1>3. ASSUME NEW p \in Pids, NumberReused(p) \/ OtherEnds(p) PROVE FilesInv'
  BY <1>3, FilesUntouched DEF NumberReused, OtherEnds, files, past
<1>4. CASE UNCHANGED vars
  BY <1>4, FilesUntouched DEF vars, files, procs, past
<1> QED
  BY <1>1, <1>2, <1>3, <1>4 DEF Next

\* For any number of clients and daemons: as long as no clean-up has removed
\* the lock file's path, what a client reads in daemon.pid and in the identity
\* is the daemon that serves, whatever other daemons were spawned, gave up or
\* crashed beside it.
THEOREM FilesNameTheServer == Spec => []ServerIsIdentified
<1>1. Init => TypeOK /\ LockInv /\ FilesInv
  BY TypeInit, LockInit DEF Init, FilesInv, Recorded, Named
<1>2. TypeOK /\ LockInv /\ FilesInv /\ [Next]_vars
        => (TypeOK /\ LockInv /\ FilesInv)'
  BY TypeStep, LockStep, FilesStep
<1>3. FilesInv => ServerIsIdentified
  BY DEF FilesInv, ServerIsIdentified, Recorded, Named
<1> QED
  BY <1>1, <1>2, <1>3, PTL DEF Spec

-----------------------------------------------------------------------------
(* Signals                                                                 *)

\* A number that is verified is a daemon's, and killing that is no misfire.
LEMMA VerifiedIsDaemon ==
  ASSUME TypeOK, NEW c \in Clients, NEW p, Verified(c, p)
  PROVE  proc[p] \in Daemons
<1> call[c] \in Calls
  BY DEF TypeOK
<1> QED
  BY CallTypes DEF Verified, TypeOK

LEMMA SignalsSpareOthers ==
  ASSUME TypeOK, NEW c \in Clients, Restarts(c) \/ ExitTimesOut(c)
  PROVE  UNCHANGED misfired
<1>1. CASE Restarts(c)
  BY <1>1, VerifiedIsDaemon DEF Restarts, Terminates, Kills
<1>2. CASE ExitTimesOut(c)
  BY <1>2, VerifiedIsDaemon DEF ExitTimesOut, Kills
<1> QED
  BY <1>1, <1>2

LEMMA NobodyElseSignals ==
  ASSUME TypeOK, [Next]_vars
  PROVE  UNCHANGED misfired
<1>1. ASSUME NEW c \in Clients, Call(c) \/ ClientStep(c) PROVE UNCHANGED misfired
  BY <1>1, SignalsSpareOthers
  DEF Call, ClientStep, Connects, Records, Checks, ProbeSucceeds, ProbeFails,
      Discovers, AwaitsExit, OpensLock, TakesLock, FindsLockHeld, DropsLock,
      ClearsEndpoint, Spawns, SpawnFails, WaitConnects, WaitTimesOut, Identifies,
      Reaches, Confirms, past
<1>2. ASSUME NEW d \in Daemons, DaemonStep(d) \/ Stops(d) \/ Crashes(d)
      PROVE  UNCHANGED misfired
  BY <1>2
  DEF DaemonStep, DaemonOpensLock, DaemonTakesLock, DaemonGivesUp, WritesPid,
      WritesIdentity, DaemonClearsEndpoint, Binds, Stops, RemovesEndpoint,
      RemovesPid, RemovesLock, RemovesIdentity, Unlocks, Exits, Crashes, past
<1>3. ASSUME NEW p \in Pids, NumberReused(p) \/ OtherEnds(p) PROVE UNCHANGED misfired
  BY <1>3 DEF NumberReused, OtherEnds, past
<1>4. CASE UNCHANGED vars
  BY <1>4 DEF vars, past
<1> QED
  BY <1>1, <1>2, <1>3, <1>4 DEF Next

\* Whoever has the number by now, and however slow everybody is: no client ever
\* signals a process that is not a daemon of the project.
THEOREM StrangersAreSpared == Spec => []NoStrangerSignalled
<1>1. Init => TypeOK /\ NoStrangerSignalled
  BY TypeInit DEF Init, NoStrangerSignalled
<1>2. TypeOK /\ NoStrangerSignalled /\ [Next]_vars => (TypeOK /\ NoStrangerSignalled)'
  BY TypeStep, NobodyElseSignals DEF NoStrangerSignalled
<1> QED
  BY <1>1, <1>2, PTL DEF Spec

-----------------------------------------------------------------------------
(* Processes and holders                                                   *)

Runs(d) == dpc[d] \notin {"off", "gone"}

\* A daemon that runs has its process number, and has it alone.
ProcessInv ==
  /\ \A d \in Daemons : Runs(d) => pidOf[d] \in Pids /\ proc[pidOf[d]] = d
  /\ \A p \in Pids, d \in Daemons : proc[p] = d => pidOf[d] = p /\ Runs(d)

\* The steps at which a process holds a flock.
HolderInv ==
  /\ \A i \in Inodes, c \in Clients : lockOf[i] = c => call[c].step = "drop"
  /\ \A i \in Inodes, d \in Daemons : lockOf[i] = d => dpc[d] \in Locked

LEMMA ProcessKept ==
  ASSUME ProcessInv, UNCHANGED <<proc, pidOf>>,
         \A d \in Daemons : dpc'[d] \in {"off", "gone"} <=> dpc[d] \in {"off", "gone"}
  PROVE  ProcessInv'
BY DEF ProcessInv, Runs

\* A daemon ends, and its number is free.
LEMMA ProcessEnds ==
  ASSUME TypeOK, ProcessInv, NEW d \in Daemons, Runs(d), DStep(d, "gone"),
         proc' = [proc EXCEPT ![pidOf[d]] = None], UNCHANGED pidOf
  PROVE  ProcessInv'
<1>1. None \notin Daemons
  BY LifecycleConstants
<1> QED
  BY <1>1 DEF ProcessInv, Runs, DStep, TypeOK

\* A number that no daemon has changes hands.
LEMMA ProcessElsewhere ==
  ASSUME TypeOK, ProcessInv, NEW p \in Pids, proc[p] \notin Daemons,
         NEW q \in {Other, None}, proc' = [proc EXCEPT ![p] = q],
         UNCHANGED <<pidOf, dpc>>
  PROVE  ProcessInv'
<1>1. q \notin Daemons
  BY LifecycleConstants
<1> QED
  BY <1>1 DEF ProcessInv, Runs, TypeOK

LEMMA ProcessKills ==
  ASSUME TypeOK, ProcessInv, NEW p \in Pids, Kills(p), UNCHANGED pidOf
  PROVE  ProcessInv'
<1>1. CASE proc[p] \in Daemons
  BY <1>1, ProcessEnds DEF Kills, ProcessInv
<1>2. CASE proc[p] \notin Daemons
  BY <1>2, ProcessElsewhere DEF Kills
<1> QED
  BY <1>1, <1>2

\* What a client's step does to the calls: only its own call changes, and each
\* step on the way to a daemon is reached by one action.
CallMoves(c) ==
  /\ Active(c)
  /\ \A o \in Clients \ {c} : call'[o] = call[o]
  /\ call'[c].force = call[c].force
  /\ call'[c].step = "dying" => Restarts(c) /\ call'[c].target \in Pids
  /\ call'[c].step = "flock" => OpensLock(c)
  /\ call'[c].step = "drop"  => TakesLock(c)
  /\ call'[c].step = "clear" => DropsLock(c)
  /\ call'[c].step = "spawn" => ClearsEndpoint(c)
  /\ call'[c].step = "wait"  => FindsLockHeld(c) \/ Spawns(c)

\* The steps that the clauses of CallMoves name.
Followed == {"dying", "flock", "drop", "clear", "spawn", "wait"}

LEMMA CallMovesTo ==
  ASSUME TypeOK, NEW c \in Clients, Active(c)
  PROVE  /\ \A s \in CSteps \ Followed : Step(c, s) \/ Ends(c, s) => CallMoves(c)
         /\ GoesToLock(c) => CallMoves(c)
         /\ \A k : /\ call' = [call EXCEPT ![c] = k]
                   /\ k.step \notin Followed /\ k.force = call[c].force
                   => CallMoves(c)
<1> call[c] \in Calls /\ call \in [Clients -> Calls]
  BY DEF TypeOK
<1>1. ASSUME NEW s \in CSteps \ Followed, Step(c, s) PROVE CallMoves(c)
  BY <1>1 DEF Step, CallMoves, Followed, Calls
<1>2. ASSUME NEW s \in CSteps \ Followed, Ends(c, s) PROVE CallMoves(c)
  BY <1>2 DEF Ends, NoCall, CallMoves, Followed
<1>3. ASSUME GoesToLock(c) PROVE CallMoves(c)
  BY <1>3 DEF GoesToLock, CallMoves, Calls
<1>4. ASSUME NEW k, call' = [call EXCEPT ![c] = k],
             k.step \notin Followed, k.force = call[c].force
      PROVE  CallMoves(c)
  BY <1>4 DEF CallMoves, Followed
<1> QED
  BY <1>1, <1>2, <1>3, <1>4

LEMMA ClientMoves ==
  ASSUME TypeOK, NEW c \in Clients, ClientStep(c)
  PROVE  CallMoves(c)
<1> call[c] \in Calls /\ call \in [Clients -> Calls]
  BY DEF TypeOK
<1>0. Active(c)
  BY DEF ClientStep, Connects, Records, Checks, ProbeSucceeds, ProbeFails,
         Discovers, Restarts, AwaitsExit, ExitTimesOut, OpensLock, TakesLock,
         FindsLockHeld, DropsLock, ClearsEndpoint, Spawns, SpawnFails,
         WaitConnects, WaitTimesOut, Identifies, Reaches, Confirms, Active, Ended
<1> USE <1>0, CallMovesTo DEF CSteps, Ended, Followed, Calls
<1>1. CASE Connects(c)
  BY <1>1 DEF Connects
<1>2. CASE Records(c)
  BY <1>2 DEF Records
<1>3. CASE Checks(c)
  BY <1>3 DEF Checks
<1>4. CASE ProbeSucceeds(c)
  BY <1>4 DEF ProbeSucceeds
<1>5. CASE ProbeFails(c)
  BY <1>5 DEF ProbeFails
<1>6. CASE Discovers(c)
  BY <1>6 DEF Discovers
<1>7. CASE Restarts(c)
  <2>0. call[c].seen \in Daemons \union {None}
    OBVIOUS
  <2>1. Target(c) \in Pids \union {None}
    BY <2>0 DEF Target, TypeOK
  <2>2. CASE GoesToLock(c)
    BY <2>2
  <2>3. CASE ~GoesToLock(c)
    <3>1. Target(c) # None
          /\ call' = [call EXCEPT ![c] = [@ EXCEPT !.step = "dying",
                                                 !.target = Target(c)]]
      BY <1>7, <2>3 DEF Restarts
    <3>2. call'[c].step = "dying" /\ call'[c].target = Target(c)
          /\ call'[c].force = call[c].force
      BY <3>1
    <3> QED
      BY <1>7, <2>1, <3>1, <3>2 DEF CallMoves
  <2> QED
    BY <2>2, <2>3
<1>8. CASE AwaitsExit(c)
  BY <1>8 DEF AwaitsExit
<1>9. CASE ExitTimesOut(c)
  BY <1>9 DEF ExitTimesOut
<1>10. CASE OpensLock(c)
  BY <1>10 DEF OpensLock, Step, CallMoves
<1>11. CASE TakesLock(c)
  BY <1>11 DEF TakesLock, Step, CallMoves
<1>12. CASE FindsLockHeld(c)
  BY <1>12 DEF FindsLockHeld, CallMoves
<1>13. CASE DropsLock(c)
  BY <1>13 DEF DropsLock, Step, CallMoves
<1>14. CASE ClearsEndpoint(c)
  BY <1>14 DEF ClearsEndpoint, Step, CallMoves
<1>15. CASE Spawns(c)
  BY <1>15 DEF Spawns, CallMoves
<1>16. CASE SpawnFails(c)
  BY <1>16 DEF SpawnFails
<1>17. CASE WaitConnects(c)
  BY <1>17 DEF WaitConnects
<1>18. CASE WaitTimesOut(c)
  BY <1>18 DEF WaitTimesOut
<1>19. CASE Identifies(c)
  BY <1>19 DEF Identifies
<1>20. CASE Reaches(c)
  BY <1>20 DEF Reaches
<1>21. CASE Confirms(c)
  BY <1>21 DEF Confirms
<1> QED
  BY <1>1, <1>2, <1>3, <1>4, <1>5, <1>6, <1>7, <1>8, <1>9, <1>10, <1>11, <1>12, <1>13, <1>14, <1>15, <1>16, <1>17, <1>18, <1>19, <1>20, <1>21
  DEF ClientStep

\* A process that is waited for has a number.
TargetInv == \A c \in Clients : call[c].step = "dying" => call[c].target \in Pids

LEMMA TargetStep == TypeOK /\ TargetInv /\ [Next]_vars => TargetInv'
<1> SUFFICES ASSUME TypeOK, TargetInv, [Next]_vars PROVE TargetInv'
  OBVIOUS
<1>1. ASSUME NEW c \in Clients, ClientStep(c) PROVE TargetInv'
  BY <1>1, ClientMoves DEF CallMoves, TargetInv
<1>2. ASSUME NEW c \in Clients, Call(c) PROVE TargetInv'
  BY <1>2 DEF Call, TargetInv, NoCall, TypeOK
<1>3. CASE UNCHANGED call
  BY <1>3 DEF TargetInv
<1> QED
  BY <1>1, <1>2, <1>3
  DEF Next, vars, DaemonStep, DaemonOpensLock, DaemonTakesLock, DaemonGivesUp, WritesPid,
      WritesIdentity, DaemonClearsEndpoint, Binds, Stops, RemovesEndpoint,
      RemovesPid, RemovesLock, RemovesIdentity, Unlocks, Exits, Crashes,
      NumberReused, OtherEnds

LEMMA ProcessSignals ==
  ASSUME TypeOK, ProcessInv, TargetInv, NEW c \in Clients,
         Restarts(c) \/ ExitTimesOut(c)
  PROVE  ProcessInv'
<1> call[c] \in Calls
  BY DEF TypeOK
<1>1. ASSUME NEW p \in Pids, Terminates(p), UNCHANGED pidOf PROVE ProcessInv'
  <2>1. CASE Kills(p)
    BY <1>1, <2>1, ProcessKills
  <2>2. CASE ~Kills(p)
    BY <1>1, <2>2, ProcessKept DEF Terminates, TypeOK, Stopping
  <2> QED
    BY <2>1, <2>2
<1>2. CASE Restarts(c)
  <2>1. call[c].seen \in Daemons \union {None}
    BY CallTypes
  <2>2. Target(c) \in Pids \union {None}
    BY <2>1 DEF Target, TypeOK
  <2>3. CASE UNCHANGED <<proc, dpc>>
    BY <1>2, <2>3, ProcessKept DEF Restarts
  <2>4. CASE ~UNCHANGED <<proc, dpc>>
    BY <1>1, <1>2, <2>2, <2>4 DEF Restarts
  <2> QED
    BY <2>3, <2>4
<1>3. CASE ExitTimesOut(c)
  <2>1. CASE UNCHANGED <<proc, dpc>>
    BY <1>3, <2>1, ProcessKept DEF ExitTimesOut
  <2>2. CASE ~UNCHANGED <<proc, dpc>>
    BY <1>3, <2>2, ProcessKills DEF ExitTimesOut, TargetInv
  <2> QED
    BY <2>1, <2>2
<1> QED
  BY <1>2, <1>3

LEMMA ProcessClient ==
  ASSUME TypeOK, ProcessInv, TargetInv, NEW c \in Clients, Call(c) \/ ClientStep(c)
  PROVE  ProcessInv'
<1>1. CASE Restarts(c) \/ ExitTimesOut(c)
  BY <1>1, ProcessSignals
<1>2. CASE Spawns(c)
  <2>1. PICK d \in Daemons, p \in Pids :
          /\ dpc[d] = "off" /\ DStep(d, "start")
          /\ proc[p] = None /\ proc' = [proc EXCEPT ![p] = d]
          /\ pidOf' = [pidOf EXCEPT ![d] = p]
    BY <1>2 DEF Spawns, Spare
  <2>2. None \notin Daemons
    BY LifecycleConstants
  <2> QED
    BY <2>1, <2>2 DEF ProcessInv, Runs, DStep, TypeOK
<1>3. CASE UNCHANGED procs
  BY <1>3, ProcessKept DEF procs
<1> QED
  BY <1>1, <1>2, <1>3
  DEF Call, ClientStep, Connects, Records, Checks, ProbeSucceeds, ProbeFails,
      Discovers, AwaitsExit, OpensLock, TakesLock, FindsLockHeld, DropsLock,
      ClearsEndpoint, SpawnFails, WaitConnects, WaitTimesOut, Identifies,
      Reaches, Confirms

LEMMA ProcessDaemon ==
  ASSUME TypeOK, ProcessInv, NEW d \in Daemons,
         DaemonStep(d) \/ Stops(d) \/ Crashes(d)
  PROVE  ProcessInv'
<1>1. CASE DaemonGivesUp(d) \/ Exits(d) \/ Crashes(d)
  BY <1>1, ProcessEnds DEF DaemonGivesUp, Exits, Crashes, Runs
<1>2. CASE ~(DaemonGivesUp(d) \/ Exits(d) \/ Crashes(d))
  <2>1. PICK s \in DSteps \ {"off", "gone"} : DStep(d, s)
    BY <1>2
    DEF DaemonStep, DaemonOpensLock, DaemonTakesLock, WritesPid,
        WritesIdentity, DaemonClearsEndpoint, Binds, Stops, RemovesEndpoint,
        RemovesPid, RemovesLock, RemovesIdentity, Unlocks, DSteps, Starting, Stopping
  <2>2. UNCHANGED <<proc, pidOf>> /\ dpc[d] \notin {"off", "gone"}
    BY <1>2
    DEF DaemonStep, DaemonOpensLock, DaemonTakesLock, WritesPid,
        WritesIdentity, DaemonClearsEndpoint, Binds, Stops, RemovesEndpoint,
        RemovesPid, RemovesLock, RemovesIdentity, Unlocks, procs
  <2> QED
    BY <2>1, <2>2, ProcessKept DEF DStep, TypeOK
<1> QED
  BY <1>1, <1>2

LEMMA ProcessStep ==
  TypeOK /\ TargetInv /\ ProcessInv /\ [Next]_vars => ProcessInv'
<1> SUFFICES ASSUME TypeOK, TargetInv, ProcessInv, [Next]_vars PROVE ProcessInv'
  OBVIOUS
<1>1. ASSUME NEW p \in Pids, NumberReused(p) \/ OtherEnds(p) PROVE ProcessInv'
  BY <1>1, LifecycleConstants, ProcessElsewhere DEF NumberReused, OtherEnds
<1>2. CASE UNCHANGED vars
  BY <1>2, ProcessKept DEF vars, procs
<1> QED
  BY <1>1, <1>2, ProcessClient, ProcessDaemon DEF Next

\* What a signal does to the daemons and the locks.
LEMMA KillsEffect ==
  ASSUME TypeOK, NEW p, Kills(p)
  PROVE  /\ \A d \in Daemons :
              \/ dpc'[d] = dpc[d] /\ handle'[d] = handle[d]
              \/ dpc'[d] = "gone" /\ proc[p] = d
         /\ \A c \in Clients : handle'[c] = handle[c]
         /\ \A i \in Inodes : lockOf'[i] \in {lockOf[i], None}
<1>1. CASE proc[p] \in Daemons
  BY <1>1, LifecycleConstants DEF Kills, Closes, DStep, TypeOK
<1>2. CASE proc[p] \notin Daemons
  BY <1>2 DEF Kills, locks
<1> QED
  BY <1>1, <1>2

LEMMA TerminatesEffect ==
  ASSUME TypeOK, NEW p, Terminates(p)
  PROVE  /\ \A d \in Daemons :
              \/ dpc'[d] = dpc[d] /\ handle'[d] = handle[d]
              \/ dpc'[d] = "gone" /\ proc[p] = d
              \/ /\ dpc[d] \in {"bind", "serving"} /\ dpc'[d] = "rmEndpoint"
                 /\ handle'[d] = handle[d] /\ proc[p] = d /\ UNCHANGED proc
         /\ \A c \in Clients : handle'[c] = handle[c]
         /\ \A i \in Inodes : lockOf'[i] \in {lockOf[i], None}
<1>1. CASE Kills(p)
  BY <1>1, KillsEffect
<1>2. CASE ~Kills(p)
  BY <1>2 DEF Terminates, TypeOK, locks
<1> QED
  BY <1>1, <1>2

LEMMA SignalEffect ==
  ASSUME TypeOK, NEW c \in Clients, Restarts(c) \/ ExitTimesOut(c)
  PROVE  /\ \A d \in Daemons :
              \/ dpc'[d] = dpc[d] /\ handle'[d] = handle[d]
              \/ dpc'[d] = "gone"
              \/ /\ dpc[d] \in {"bind", "serving"} /\ dpc'[d] = "rmEndpoint"
                 /\ handle'[d] = handle[d]
         /\ \A o \in Clients : handle'[o] = handle[o]
         /\ \A i \in Inodes : lockOf'[i] \in {lockOf[i], None}
         /\ UNCHANGED files
<1> DEFINE Effect ==
         /\ \A d \in Daemons :
              \/ dpc'[d] = dpc[d] /\ handle'[d] = handle[d]
              \/ dpc'[d] = "gone"
              \/ /\ dpc[d] \in {"bind", "serving"} /\ dpc'[d] = "rmEndpoint"
                 /\ handle'[d] = handle[d]
         /\ \A o \in Clients : handle'[o] = handle[o]
         /\ \A i \in Inodes : lockOf'[i] \in {lockOf[i], None}
<1>1. ASSUME UNCHANGED <<dpc, locks>> PROVE Effect
  BY <1>1 DEF locks
<1>2. ASSUME NEW p, Kills(p) PROVE Effect
  BY <1>2, KillsEffect
<1>3. ASSUME NEW p, Terminates(p) PROVE Effect
  BY <1>3, TerminatesEffect
<1>4. CASE Restarts(c)
  <2>1. Terminates(Target(c)) \/ UNCHANGED <<dpc, locks>>
    BY <1>4 DEF Restarts
  <2>2. Effect
    BY <1>1, <1>3, <2>1
  <2> QED
    BY <1>4, <2>2 DEF Restarts
<1>5. CASE ExitTimesOut(c)
  <2>1. Kills(call[c].target) \/ UNCHANGED <<dpc, locks>>
    BY <1>5 DEF ExitTimesOut
  <2>2. Effect
    BY <1>1, <1>2, <2>1
  <2> QED
    BY <1>5, <2>2 DEF ExitTimesOut
<1> QED
  BY <1>4, <1>5

\* A client's steps, by what they change beside its call.
LEMMA ClientLocks ==
  ASSUME TypeOK, NEW c \in Clients, Call(c) \/ ClientStep(c)
  PROVE  /\ \A i \in Inodes : lockOf'[i] \in {lockOf[i], None, c}
         /\ OpensLock(c) => UNCHANGED lockOf
<1>1. CASE Restarts(c) \/ ExitTimesOut(c)
  BY <1>1, SignalEffect DEF Restarts, ExitTimesOut, OpensLock
<1>2. CASE ~(Restarts(c) \/ ExitTimesOut(c))
  BY <1>2
  DEF Call, ClientStep, Connects, Records, Checks, ProbeSucceeds, ProbeFails,
      Discovers, AwaitsExit, OpensLock, TakesLock, FindsLockHeld, DropsLock,
      ClearsEndpoint, Spawns, SpawnFails, WaitConnects, WaitTimesOut, Identifies,
      Reaches, Confirms, Locks, LockFails, Closes, locks, TypeOK
<1> QED
  BY <1>1, <1>2

\* A daemon's step moves that daemon only, and only along run_daemon.
DaemonMoves(d) ==
  /\ dpc[d] # "off"
  /\ \A e \in Daemons \ {d} : dpc'[e] = dpc[e] /\ handle'[e] = handle[e]
  /\ \A c \in Clients : handle'[c] = handle[c]
  /\ \A i \in Inodes : lockOf'[i] \in {lockOf[i], None, d}
  /\ dpc'[d] = "flock" => dpc[d] = "start" /\ UNCHANGED lockOf
  /\ UNCHANGED call

LEMMA DaemonMovesOn ==
  ASSUME TypeOK, NEW d \in Daemons, DaemonStep(d) \/ Stops(d) \/ Crashes(d)
  PROVE  DaemonMoves(d)
<1> d \notin Clients
  BY LifecycleConstants
<1>1. CASE DaemonOpensLock(d)
  BY <1>1 DEF DaemonOpensLock, Opens, DStep, DaemonMoves, TypeOK
<1>2. CASE DaemonTakesLock(d)
  BY <1>2 DEF DaemonTakesLock, Locks, DStep, DaemonMoves, TypeOK
<1>3. CASE DaemonGivesUp(d) \/ Unlocks(d) \/ Crashes(d)
  <2>1. Closes(d) /\ UNCHANGED call
        /\ \E s \in DSteps \ {"flock"} : DStep(d, s)
    BY <1>3 DEF DaemonGivesUp, LockFails, Unlocks, Crashes, DSteps
  <2>2. dpc[d] # "off"
    BY <1>3 DEF DaemonGivesUp, Unlocks, Crashes
  <2> QED
    BY <2>1, <2>2 DEF Closes, DStep, DaemonMoves, TypeOK
<1>4. CASE DaemonElsewhere(d) \/ RemovesLock(d)
  <2>1. UNCHANGED <<lockOf, handle, call>> /\ dpc[d] # "off"
        /\ \E s \in DSteps \ {"flock"} : DStep(d, s)
    BY <1>4
    DEF DaemonElsewhere, WritesPid, WritesIdentity, DaemonClearsEndpoint,
        Binds, Stops, RemovesEndpoint, RemovesPid, RemovesLock, RemovesIdentity,
        Exits, locks, DSteps, Starting, Stopping
  <2> QED
    BY <2>1 DEF DStep, DaemonMoves, TypeOK
<1> QED
  BY <1>1, <1>2, <1>3, <1>4 DEF DaemonStep, DaemonElsewhere

LEMMA HolderStep ==
  TypeOK /\ LockInv /\ HolderInv /\ [Next]_vars => HolderInv'
<1> SUFFICES ASSUME TypeOK, LockInv, HolderInv, [Next]_vars PROVE HolderInv'
  OBVIOUS
<1> None \notin Processes /\ Daemons \intersect Clients = {}
  BY LifecycleConstants
<1>0. LockInv' /\ TypeOK'
  BY LockStep, TypeStep
<1>h. \A p \in Processes, i \in Inodes :
        handle[p] = None => lockOf[i] # p
  BY LifecycleConstants DEF LockInv, HoldersHaveItOpen
<1>a. \A c \in Clients, i \in Inodes :
        lockOf'[i] = c => call'[c].step \in {"flock", "drop"}
  BY <1>0, LifecycleConstants DEF LockInv, HoldersHaveItOpen, ClientsOpen, AtLock
<1>b. \A d \in Daemons, i \in Inodes :
        lockOf'[i] = d => dpc'[d] \in Locked \union {"flock"}
  <2> SUFFICES ASSUME NEW d \in Daemons, NEW i \in Inodes, lockOf'[i] = d
               PROVE  dpc'[d] \in Locked \union {"flock"}
    OBVIOUS
  <2>1. handle'[d] = i
    BY <1>0 DEF LockInv, HoldersHaveItOpen
  <2> QED
    BY <1>0, <2>1, LifecycleConstants DEF LockInv, DaemonsOpen
<1>1. ASSUME NEW c \in Clients, Call(c) \/ ClientStep(c) PROVE HolderInv'
  <2>1. \A i \in Inodes : lockOf'[i] \in {lockOf[i], None, c}
    BY <1>1, ClientLocks
  <2>2. ASSUME NEW i \in Inodes, lockOf'[i] = c PROVE call'[c].step = "drop"
    <3>1. CASE OpensLock(c)
      <4>1. handle[c] = None /\ UNCHANGED lockOf
        BY <3>1 DEF OpensLock, LockInv, ClientsOpen, AtLock
      <4> QED
        BY <1>h, <2>2, <4>1
    <3>2. CASE ClientStep(c) /\ ~OpensLock(c)
      BY <1>a, <2>2, <3>2, ClientMoves DEF CallMoves
    <3>3. CASE Call(c)
      <4>1. call'[c].step \notin {"flock", "drop"}
        BY <3>3 DEF Call, NoCall, TypeOK
      <4> QED
        BY <1>a, <2>2, <4>1
    <3> QED
      BY <1>1, <3>1, <3>2, <3>3
  <2>3. \A o \in Clients \ {c} : call'[o] = call[o]
    BY <1>1, ClientMoves DEF Call, CallMoves, TypeOK
  <2>4. \A i \in Inodes, o \in Clients : lockOf'[i] = o => call'[o].step = "drop"
    BY <2>1, <2>2, <2>3 DEF HolderInv
  <2>5. \A d \in Daemons : dpc'[d] # "flock" \/ dpc[d] = "flock"
    <3>1. CASE Restarts(c) \/ ExitTimesOut(c)
      BY <3>1, SignalEffect
    <3>2. CASE Spawns(c)
      BY <3>2 DEF Spawns, DStep, TypeOK
    <3>3. CASE UNCHANGED dpc
      BY <3>3
    <3> QED
      BY <1>1, <3>1, <3>2, <3>3
      DEF Call, ClientStep, Connects, Records, Checks, ProbeSucceeds, ProbeFails,
          Discovers, AwaitsExit, OpensLock, TakesLock, FindsLockHeld, DropsLock,
          ClearsEndpoint, SpawnFails, WaitConnects, WaitTimesOut, Identifies,
          Reaches, Confirms, procs
  <2>6. ASSUME NEW d \in Daemons, NEW i \in Inodes, lockOf'[i] = d
        PROVE  dpc'[d] \in Locked
    <3>1. lockOf[i] = d
      BY <2>1, <2>6
    <3>2. dpc[d] \in Locked /\ dpc[d] # "flock"
      BY <3>1 DEF HolderInv, Locked, Stopping
    <3> QED
      BY <1>b, <2>5, <2>6, <3>2
  <2> QED
    BY <2>4, <2>6 DEF HolderInv
<1>2. ASSUME NEW d \in Daemons, DaemonStep(d) \/ Stops(d) \/ Crashes(d)
      PROVE  HolderInv'
  <2>1. DaemonMoves(d)
    BY <1>2, DaemonMovesOn
  <2>2. \A i \in Inodes, c \in Clients : lockOf'[i] = c => call'[c].step = "drop"
    BY <2>1 DEF HolderInv, DaemonMoves
  <2>3. ASSUME NEW e \in Daemons, NEW i \in Inodes, lockOf'[i] = e
        PROVE  dpc'[e] \in Locked
    <3>1. CASE e = d /\ dpc'[d] = "flock"
      <4>1. handle[d] = None /\ lockOf[i] = d
        BY <2>1, <2>3, <3>1 DEF DaemonMoves, LockInv, DaemonsOpen, Locked, Stopping
      <4> QED
        BY <1>h, <4>1
    <3>2. CASE e = d /\ dpc'[d] # "flock"
      BY <1>b, <2>3, <3>2
    <3>3. CASE e # d
      BY <2>1, <2>3, <3>3 DEF DaemonMoves, HolderInv
    <3> QED
      BY <3>1, <3>2, <3>3
  <2> QED
    BY <2>2, <2>3 DEF HolderInv
<1>3. CASE UNCHANGED <<lockOf, dpc, call>>
  BY <1>3 DEF HolderInv
<1> QED
  BY <1>1, <1>2, <1>3 DEF Next, vars, locks, procs, NumberReused, OtherEnds

-----------------------------------------------------------------------------
(* One daemon at a time, while calls do not overlap                        *)

OneAtATime == \A c, o \in Clients : Active(c) /\ Active(o) => c = o

\* A daemon on its way in, serving, or not yet past the removal of the path.
Up     == Starting \union {"serving", "rmEndpoint", "rmPid", "rmLock"}
NoneUp == \A d \in Daemons : dpc[d] \notin Up

OneUp == \A a, b \in Daemons : dpc[a] \in Up /\ dpc[b] \in Up => a = b

\* A daemon starts only while the client that spawned it waits.
StartsWait ==
  \A d \in Daemons : dpc[d] \in Starting => \E c \in Clients : call[c].step = "wait"

\* From the lock to the spawn no daemon is up; neither is one if the lock file
\* that a client opened is gone.
NoneUpAtSpawn ==
  \A c \in Clients : call[c].step \in {"drop", "clear", "spawn"} => NoneUp
PathOpened ==
  \A c \in Clients : call[c].step = "flock" /\ handle[c] # lockFile => NoneUp

\* A daemon that is up has the file at the path open.
UpHasPath == \A d \in Daemons : dpc[d] \in Up \ {"start"} => handle[d] = lockFile

\* Whose the endpoint and the identity are.
EndpointOf ==
  \A d \in Daemons : /\ endpoint = d => dpc[d] \in {"serving", "rmEndpoint", "gone"}
                     /\ dpc[d] = "serving" => endpoint = d
                     /\ dpc[d] = "bind" => endpoint = None
IdentityOf ==
  \A d \in Daemons :
    identity = d => dpc[d] \in {"clear", "bind", "serving", "rmEndpoint", "rmPid",
                                "rmLock", "rmIdentity", "gone"}

TurnInv ==
  /\ OneUp
  /\ StartsWait
  /\ NoneUpAtSpawn
  /\ PathOpened
  /\ UpHasPath
  /\ EndpointOf
  /\ IdentityOf

\* Daemons stay where they are, or are stopped or killed.
Settles(d) ==
  \/ dpc'[d] = dpc[d] /\ handle'[d] = handle[d]
  \/ dpc'[d] = "gone"
  \/ /\ dpc[d] \in {"bind", "serving"} /\ dpc'[d] = "rmEndpoint"
     /\ handle'[d] = handle[d]

LEMMA TurnSettles ==
  ASSUME TurnInv, UNCHANGED files, \A d \in Daemons : Settles(d)
  PROVE  /\ OneUp' /\ UpHasPath' /\ EndpointOf' /\ IdentityOf'
         /\ NoneUp => NoneUp'
         /\ \A d \in Daemons : dpc'[d] \in Starting => dpc[d] \in Starting
<1>1. \A d \in Daemons : dpc'[d] \in Up => dpc[d] \in Up
  BY DEF Settles, Up, Starting
<1>2. \A d \in Daemons : dpc'[d] \in Starting => dpc[d] \in Starting
  BY DEF Settles, Starting
<1>3. OneUp' /\ (NoneUp => NoneUp')
  BY <1>1 DEF TurnInv, OneUp, NoneUp
<1>4. UpHasPath'
  BY DEF Settles, TurnInv, UpHasPath, Up, Starting, files
<1>5. EndpointOf'
  BY DEF Settles, TurnInv, EndpointOf, files
<1>6. IdentityOf'
  BY DEF Settles, TurnInv, IdentityOf, files
<1> QED
  BY <1>2, <1>3, <1>4, <1>5, <1>6

\* A client never moves on from a wait while a daemon starts.
LEMMA NoneStarting ==
  ASSUME ~Slow, TypeOK, OneAtATime, TurnInv, NEW c \in Clients, ClientStep(c)
  PROVE  \A d \in Daemons : dpc[d] \notin Starting
<1>0. Active(c)
  BY ClientMoves DEF CallMoves
<1>1. CASE call[c].step # "wait"
  <2>1. \A o \in Clients : call[o].step # "wait"
    BY <1>0, <1>1 DEF OneAtATime, Active, Ended
  <2> QED
    BY <2>1 DEF TurnInv, StartsWait
<1>2. CASE call[c].step = "wait"
  <2>1. CASE WaitConnects(c)
    <3>1. endpoint \in Daemons /\ dpc[endpoint] \in {"serving"} \union Stopping
      BY <2>1 DEF WaitConnects, Connectable, Listening, TypeOK
    <3>2. dpc[endpoint] \in {"serving", "rmEndpoint"}
      BY <3>1 DEF TurnInv, EndpointOf, Stopping
    <3> QED
      BY <3>1, <3>2 DEF TurnInv, OneUp, Up, Starting
  <2>2. CASE WaitTimesOut(c)
    BY <2>2 DEF WaitTimesOut
  <2> QED
    BY <1>2, <2>1, <2>2
    DEF ClientStep, Connects, Records, Checks, ProbeSucceeds, ProbeFails,
        Discovers, Restarts, AwaitsExit, ExitTimesOut, OpensLock, TakesLock,
        FindsLockHeld, DropsLock, ClearsEndpoint, Spawns, SpawnFails,
        Identifies, Reaches, Confirms
<1> QED
  BY <1>1, <1>2

LEMMA CallBegins ==
  ASSUME TypeOK, NEW c \in Clients, Call(c)
  PROVE  /\ ~Active(c)
         /\ call'[c].step = "connect" \/ (call'[c].step = "restart" /\ call'[c].force)
         /\ \A o \in Clients \ {c} : call'[o] = call[o]
<1>1. PICK force \in BOOLEAN :
        call' = [call EXCEPT ![c] =
                  [NoCall EXCEPT !.step = IF force THEN "restart" ELSE "connect",
                                 !.force = force]]
  BY DEF Call
<1>2. call'[c] = [NoCall EXCEPT !.step = IF force THEN "restart" ELSE "connect",
                                !.force = force]
  BY <1>1 DEF TypeOK
<1>3. call'[c].step = (IF force THEN "restart" ELSE "connect")
      /\ call'[c].force = force
  BY <1>2 DEF NoCall
<1>4. \A o \in Clients \ {c} : call'[o] = call[o]
  BY <1>1 DEF TypeOK
<1> QED
  BY <1>3, <1>4 DEF Call

\* The client's steps at which nothing of a daemon's, and no lock, is changed.
LEMMA TurnClientSettles ==
  ASSUME ~Slow, TypeOK, OneAtATime, OneAtATime', TurnInv, NEW c \in Clients,
         \/ Call(c)
         \/ /\ ClientStep(c)
            /\ ~(OpensLock(c) \/ TakesLock(c) \/ ClearsEndpoint(c) \/ Spawns(c))
  PROVE  TurnInv'
<1>1. \A d \in Daemons : dpc[d] \notin Starting
  <2>1. CASE Call(c)
    <3>1. call'[c].step \notin Ended /\ ~Active(c)
      BY <2>1, CallBegins DEF Ended
    <3>3. \A o \in Clients \ {c} : call'[o] = call[o]
      BY <2>1, CallBegins
    <3>4. \A o \in Clients \ {c} : call'[o].step \in Ended
      BY <3>1 DEF OneAtATime, Active
    <3>2. \A o \in Clients \ {c} : ~Active(o)
      BY <3>3, <3>4 DEF Active
    <3> QED
      BY <3>1, <3>2 DEF TurnInv, StartsWait, Active, Ended
  <2> QED
    BY <2>1, NoneStarting
<1>2. UNCHANGED files /\ \A d \in Daemons : Settles(d)
  <2>1. CASE Restarts(c) \/ ExitTimesOut(c)
    BY <2>1, SignalEffect DEF Settles
  <2>2. CASE ~(Restarts(c) \/ ExitTimesOut(c))
    <3>1. UNCHANGED <<files, dpc>>
      BY <2>2
      DEF Call, ClientStep, Connects, Records, Checks, ProbeSucceeds, ProbeFails,
          Discovers, AwaitsExit, FindsLockHeld, DropsLock, SpawnFails,
          WaitConnects, WaitTimesOut, Identifies, Reaches, Confirms, procs
    <3>2. \A d \in Daemons : handle'[d] = handle[d]
      <4>1. Closes(c) \/ UNCHANGED handle
        BY <2>2
        DEF Call, ClientStep, Connects, Records, Checks, ProbeSucceeds, ProbeFails,
          Discovers, AwaitsExit, FindsLockHeld, DropsLock, SpawnFails,
          WaitConnects, WaitTimesOut, Identifies, Reaches, Confirms, locks,
          LockFails
      <4> QED
        BY <4>1, LifecycleConstants DEF Closes, TypeOK
    <3> QED
      BY <3>1, <3>2 DEF Settles
  <2> QED
    BY <2>1, <2>2
<1>3. OneUp' /\ UpHasPath' /\ EndpointOf' /\ IdentityOf' /\ (NoneUp => NoneUp')
      /\ StartsWait'
  BY <1>1, <1>2, TurnSettles DEF StartsWait
<1>4. \A o \in Clients \ {c} : call'[o] = call[o]
  <2>1. CASE Call(c)
    BY <2>1, CallBegins
  <2> QED
    BY <2>1, ClientMoves DEF CallMoves
<1>5. \/ call'[c].step \notin {"flock", "drop", "clear", "spawn"}
      \/ call[c].step = "drop" /\ call'[c].step = "clear"
  <2>1. CASE Call(c)
    BY <2>1, CallBegins
  <2>2. CASE DropsLock(c)
    BY <2>2 DEF DropsLock, Step, TypeOK, Calls
  <2> QED
    BY <2>1, <2>2, ClientMoves DEF CallMoves
<1>6. NoneUpAtSpawn'
  BY <1>3, <1>4, <1>5 DEF TurnInv, NoneUpAtSpawn
<1>7. PathOpened'
  <2>1. \A o \in Clients \ {c} : call[o].step = "flock" => handle'[o] = handle[o]
    <3>1. CASE Call(c)
      BY <3>1 DEF Call, locks
    <3>2. CASE ClientStep(c)
      <4>1. Active(c)
        BY <3>2, ClientMoves DEF CallMoves
      <4> QED
        BY <4>1 DEF OneAtATime, Active, Ended
    <3> QED
      BY <3>1, <3>2
  <2> QED
    BY <1>2, <1>3, <1>4, <1>5, <2>1 DEF TurnInv, PathOpened, files
<1> QED
  BY <1>3, <1>6, <1>7 DEF TurnInv

LEMMA TurnClientLocks ==
  ASSUME ~Slow, TypeOK, LockInv, OneAtATime, TurnInv, NEW c \in Clients,
         OpensLock(c) \/ TakesLock(c) \/ ClearsEndpoint(c)
  PROVE  TurnInv'
<1> None \notin Inodes /\ None \notin Processes /\ Daemons \intersect Clients = {}
  BY LifecycleConstants
<1>1. \A d \in Daemons : dpc[d] \notin Starting
  BY NoneStarting DEF ClientStep
<1>2. Active(c) /\ \A o \in Clients \ {c} : call'[o] = call[o] /\ call[o].step \in Ended
  BY ClientMoves DEF ClientStep, CallMoves, OneAtATime, Active
<1>3. UNCHANGED <<dpc, identity>> /\ \A d \in Daemons : handle'[d] = handle[d]
  BY DEF OpensLock, TakesLock, ClearsEndpoint, Opens, Locks, procs, files, locks, TypeOK
<1>4. OneUp' /\ StartsWait' /\ IdentityOf' /\ (NoneUp => NoneUp')
  BY <1>1, <1>3 DEF TurnInv, OneUp, StartsWait, IdentityOf, NoneUp
<1>5. CASE OpensLock(c)
  <2>1. call'[c].step = "flock" /\ handle[c] = None /\ UNCHANGED endpoint
    BY <1>5 DEF OpensLock, Step, TypeOK, Calls, LockInv, ClientsOpen, AtLock
  <2>2. handle'[c] = lockFile' /\ (lockFile # None => lockFile' = lockFile)
    BY <1>5, <2>1, OpensEffect, OpensTypes DEF OpensLock
  <2>3. UpHasPath'
    <3> SUFFICES ASSUME NEW d \in Daemons, dpc[d] \in Up \ {"start"}
                 PROVE  handle[d] = lockFile'
      BY <1>3 DEF UpHasPath
    <3>1. handle[d] = lockFile /\ handle[d] # None
      BY <1>1 DEF TurnInv, UpHasPath, LockInv, DaemonsOpen, Locked, Up, Stopping
    <3> QED
      BY <2>2, <3>1
  <2> QED
    BY <1>2, <1>3, <1>4, <2>1, <2>2, <2>3
    DEF TurnInv, NoneUpAtSpawn, PathOpened, EndpointOf, Ended
<1>6. CASE TakesLock(c)
  <2>1. /\ call'[c].step = "drop" /\ call[c].step = "flock"
        /\ UNCHANGED <<files, handle>> /\ lockOf[handle[c]] = None
    BY <1>6 DEF TakesLock, Step, TypeOK, Calls, Locks
  <2>2. NoneUp
    <3> SUFFICES ASSUME NEW d \in Daemons, dpc[d] \in Up, handle[c] = lockFile
                 PROVE  FALSE
      BY <2>1 DEF NoneUp, TurnInv, PathOpened
    <3>1. dpc[d] \in Locked
      BY <1>1 DEF Up, Locked, Stopping
    <3>2. handle[d] = lockFile /\ lockOf[handle[d]] = d
      BY <1>1, <3>1 DEF TurnInv, UpHasPath, Starting, LockInv, DaemonsHold
    <3> QED
      BY <2>1, <3>2
  <2>3. UpHasPath' /\ EndpointOf'
    BY <1>3, <2>1 DEF TurnInv, UpHasPath, EndpointOf, files
  <2> QED
    BY <1>2, <1>4, <2>1, <2>2, <2>3 DEF TurnInv, NoneUpAtSpawn, PathOpened, Ended
<1>7. CASE ClearsEndpoint(c)
  <2>1. /\ call'[c].step = "spawn" /\ call[c].step = "clear"
        /\ UNCHANGED <<lockFile, handle>> /\ endpoint' = None
    BY <1>7 DEF ClearsEndpoint, Step, TypeOK, Calls, locks
  <2>2. NoneUp
    BY <2>1 DEF TurnInv, NoneUpAtSpawn
  <2>3. UpHasPath' /\ EndpointOf'
    BY <1>3, <2>1, <2>2 DEF TurnInv, UpHasPath, EndpointOf, NoneUp, Up
  <2> QED
    BY <1>2, <1>4, <2>1, <2>2, <2>3 DEF TurnInv, NoneUpAtSpawn, PathOpened, Ended
<1> QED
  BY <1>5, <1>6, <1>7

\* What a spawn changes.
LEMMA SpawnEffect ==
  ASSUME TypeOK, NEW c \in Clients, Spawns(c)
  PROVE  /\ call[c].step = "spawn" /\ call'[c].step = "wait"
         /\ call'[c].force = call[c].force
         /\ UNCHANGED <<files, handle, disturbed>>
         /\ \E d \in Daemons : /\ dpc[d] = "off" /\ dpc'[d] = "start"
                               /\ \A e \in Daemons \ {d} : dpc'[e] = dpc[e]
<1>1. call'[c].step = "wait" /\ call'[c].force = call[c].force
  BY DEF Spawns, TypeOK, Calls
<1>2. PICK d \in Daemons : dpc[d] = "off" /\ DStep(d, "start")
  BY DEF Spawns, Spare
<1> QED
  BY <1>1, <1>2 DEF Spawns, DStep, TypeOK, locks, past

LEMMA TurnSpawns ==
  ASSUME ~Slow, TypeOK, OneAtATime, TurnInv, NEW c \in Clients, Spawns(c)
  PROVE  TurnInv'
<1> None \notin Daemons
  BY LifecycleConstants
<1>1. PICK d \in Daemons : /\ dpc[d] = "off" /\ dpc'[d] = "start"
                           /\ \A e \in Daemons \ {d} : dpc'[e] = dpc[e]
  BY SpawnEffect
<1>2. Active(c) /\ \A o \in Clients \ {c} : call'[o] = call[o] /\ call[o].step \in Ended
  BY ClientMoves DEF ClientStep, CallMoves, OneAtATime, Active
<1>3. NoneUp /\ call'[c].step = "wait" /\ UNCHANGED <<files, handle>>
  BY SpawnEffect DEF TurnInv, NoneUpAtSpawn
<1>4. OneUp' /\ UpHasPath'
  BY <1>1, <1>3 DEF NoneUp, OneUp, UpHasPath
<1>5. StartsWait' /\ NoneUpAtSpawn' /\ PathOpened'
  BY <1>2, <1>3 DEF StartsWait, NoneUpAtSpawn, PathOpened, Ended
<1>6. EndpointOf' /\ IdentityOf'
  BY <1>1, <1>3 DEF TurnInv, EndpointOf, IdentityOf, files
<1> QED
  BY <1>4, <1>5, <1>6 DEF TurnInv

\* The steps at which a daemon ends or begins to stop.
LEMMA TurnDaemonSettles ==
  ASSUME TypeOK, TurnInv, NEW d \in Daemons,
         DaemonGivesUp(d) \/ Unlocks(d) \/ Exits(d) \/ Stops(d) \/ Crashes(d)
  PROVE  TurnInv'
<1>1. /\ UNCHANGED <<files, call>>
      /\ \A c \in Clients : handle'[c] = handle[c]
      /\ \A e \in Daemons \ {d} : dpc'[e] = dpc[e] /\ handle'[e] = handle[e]
  BY DaemonMovesOn
  DEF DaemonStep, DaemonMoves, DaemonGivesUp, Unlocks, Exits, Stops, Crashes
<1>2. CASE ~Unlocks(d)
  <2>1. Settles(d)
    BY <1>2 DEF DaemonGivesUp, Exits, Stops, Crashes, DStep, TypeOK, Settles, locks
  <2>2. \A e \in Daemons : Settles(e)
    BY <1>1, <2>1 DEF Settles
  <2> QED
    BY <1>1, <2>2, TurnSettles
    DEF TurnInv, StartsWait, NoneUpAtSpawn, PathOpened, files
<1>3. CASE Unlocks(d)
  <2>1. dpc[d] = "unlock" /\ dpc'[d] = "drain"
    BY <1>3 DEF Unlocks, DStep, TypeOK
  <2>2. \A e \in Daemons : dpc'[e] \in Up => dpc[e] \in Up /\ dpc'[e] = dpc[e] /\ e # d
    BY <1>1, <2>1 DEF Up, Starting
  <2>3. OneUp' /\ (NoneUp => NoneUp')
    BY <2>2 DEF TurnInv, OneUp, NoneUp
  <2>4. UpHasPath'
    BY <1>1, <2>2 DEF TurnInv, UpHasPath, files
  <2>5. StartsWait'
    BY <1>1, <2>2 DEF TurnInv, StartsWait, Up
  <2>6. EndpointOf' /\ IdentityOf'
    BY <1>1, <2>1 DEF TurnInv, EndpointOf, IdentityOf, files
  <2> QED
    BY <1>1, <2>3, <2>4, <2>5, <2>6
    DEF TurnInv, NoneUpAtSpawn, PathOpened, files
<1> QED
  BY <1>2, <1>3

\* A daemon that is up takes its next step: the others are not up.
LEMMA TurnDaemonUp ==
  ASSUME TypeOK, LockInv, OneAtATime, TurnInv, NEW d \in Daemons,
         \/ DaemonOpensLock(d)
         \/ DaemonTakesLock(d)
         \/ WritesPid(d)
         \/ WritesIdentity(d)
         \/ DaemonClearsEndpoint(d)
         \/ Binds(d)
         \/ RemovesEndpoint(d)
         \/ RemovesPid(d)
         \/ RemovesLock(d)
  PROVE  TurnInv'
<1> None \notin Daemons /\ Daemons \intersect Clients = {}
  BY LifecycleConstants
<1>1. /\ UNCHANGED call
      /\ \A c \in Clients : handle'[c] = handle[c]
      /\ \A e \in Daemons \ {d} : dpc'[e] = dpc[e] /\ handle'[e] = handle[e]
  BY DaemonMovesOn DEF DaemonStep, DaemonMoves
<1>2. dpc[d] \in Up
  BY DEF DaemonOpensLock, DaemonTakesLock, WritesPid, WritesIdentity,
         DaemonClearsEndpoint, Binds, RemovesEndpoint, RemovesPid, RemovesLock,
         Up, Starting
<1>3. \A e \in Daemons \ {d} : dpc[e] \notin Up /\ dpc'[e] \notin Up
  BY <1>1, <1>2 DEF TurnInv, OneUp
<1>4. OneUp' /\ \A c \in Clients : call[c].step \notin {"drop", "clear", "spawn"}
  BY <1>2, <1>3 DEF OneUp, TurnInv, NoneUpAtSpawn, NoneUp
<1>5. dpc[d] \notin Starting => dpc'[d] \notin Starting
  BY DEF DaemonOpensLock, DaemonTakesLock, WritesPid, WritesIdentity,
         DaemonClearsEndpoint, Binds, RemovesEndpoint, RemovesPid, RemovesLock,
         DStep, TypeOK, Starting
<1>6. StartsWait' /\ NoneUpAtSpawn'
  BY <1>1, <1>3, <1>4, <1>5 DEF TurnInv, StartsWait, NoneUpAtSpawn, Up
<1>7. CASE DaemonOpensLock(d)
  <2>1. dpc'[d] = "flock" /\ dpc[d] = "start" /\ UNCHANGED <<endpoint, identity>>
    BY <1>7 DEF DaemonOpensLock, DStep, TypeOK
  <2>2. handle'[d] = lockFile'
    BY <1>7, OpensEffect DEF DaemonOpensLock, LockInv, DaemonsOpen, Locked, Stopping
  <2>3. PathOpened'
    <3>1. \A c \in Clients : call[c].step # "flock"
      BY <2>1 DEF TurnInv, StartsWait, Starting, OneAtATime, Active, Ended
    <3> QED
      BY <1>1, <3>1 DEF PathOpened
  <2>4. UpHasPath'
    BY <1>3, <2>2 DEF UpHasPath
  <2>5. EndpointOf' /\ IdentityOf'
    BY <1>1, <2>1 DEF TurnInv, EndpointOf, IdentityOf
  <2> QED
    BY <1>4, <1>6, <2>3, <2>4, <2>5 DEF TurnInv
<1>8. CASE RemovesLock(d)
  <2>1. dpc'[d] = "rmIdentity" /\ dpc[d] = "rmLock" /\ UNCHANGED <<endpoint, identity>>
    BY <1>8 DEF RemovesLock, DStep, TypeOK
  <2>2. NoneUp'
    BY <1>3, <2>1 DEF NoneUp, Up, Starting
  <2>3. UpHasPath' /\ PathOpened'
    BY <2>2 DEF NoneUp, UpHasPath, PathOpened
  <2>4. EndpointOf' /\ IdentityOf'
    BY <1>1, <2>1 DEF TurnInv, EndpointOf, IdentityOf
  <2> QED
    BY <1>4, <1>6, <2>3, <2>4 DEF TurnInv
<1>9. CASE ~(DaemonOpensLock(d) \/ RemovesLock(d))
  <2>1. UNCHANGED <<lockFile, handle>> /\ dpc[d] # "start"
    BY <1>9
    DEF DaemonTakesLock, WritesPid, WritesIdentity, DaemonClearsEndpoint, Binds,
        RemovesEndpoint, RemovesPid, Locks, files, locks
  <2>2. UpHasPath'
    BY <1>2, <1>3, <2>1 DEF TurnInv, UpHasPath
  <2>3. PathOpened'
    BY <1>1, <1>2, <2>1 DEF TurnInv, PathOpened, NoneUp
  <2>4. CASE DaemonTakesLock(d) \/ WritesPid(d) \/ RemovesPid(d)
    <3>1. UNCHANGED <<endpoint, identity>>
          /\ dpc[d] \in {"flock", "pid", "rmPid"}
          /\ dpc'[d] \in {"pid", "identity", "rmLock"}
          /\ (dpc'[d] = "rmLock" <=> dpc[d] = "rmPid")
      BY <2>4 DEF DaemonTakesLock, WritesPid, RemovesPid, DStep, TypeOK, files
    <3>2. EndpointOf' /\ IdentityOf'
      BY <1>1, <3>1 DEF TurnInv, EndpointOf, IdentityOf
    <3> QED
      BY <1>4, <1>6, <2>2, <2>3, <3>2 DEF TurnInv
  <2>5. CASE WritesIdentity(d)
    <3>1. UNCHANGED endpoint /\ identity' = d
          /\ dpc[d] = "identity" /\ dpc'[d] = "clear"
      BY <2>5 DEF WritesIdentity, DStep, TypeOK
    <3>2. EndpointOf' /\ IdentityOf'
      BY <1>1, <3>1 DEF TurnInv, EndpointOf, IdentityOf
    <3> QED
      BY <1>4, <1>6, <2>2, <2>3, <3>2 DEF TurnInv
  <2>6. CASE DaemonClearsEndpoint(d) \/ RemovesEndpoint(d)
    <3>1. UNCHANGED identity /\ endpoint' = None
          /\ \/ dpc[d] = "clear" /\ dpc'[d] = "bind"
             \/ dpc[d] = "rmEndpoint" /\ dpc'[d] = "rmPid"
      BY <2>6 DEF DaemonClearsEndpoint, RemovesEndpoint, DStep, TypeOK
    <3>2. \A e \in Daemons : dpc'[e] # "serving"
      BY <1>3, <3>1 DEF Up
    <3>3. EndpointOf' /\ IdentityOf'
      BY <1>1, <3>1, <3>2 DEF TurnInv, EndpointOf, IdentityOf
    <3> QED
      BY <1>4, <1>6, <2>2, <2>3, <3>3 DEF TurnInv
  <2>7. CASE Binds(d)
    <3>1. endpoint = None
      BY <2>7 DEF Binds, TurnInv, EndpointOf
    <3>2. UNCHANGED identity /\ endpoint' = d
          /\ dpc[d] = "bind" /\ dpc'[d] = "serving"
      BY <2>7, <3>1 DEF Binds, DStep, TypeOK
    <3>3. \A e \in Daemons \ {d} : dpc'[e] \notin {"serving", "bind"}
      BY <1>3 DEF Up, Starting
    <3>4. EndpointOf' /\ IdentityOf'
      BY <1>1, <3>2, <3>3 DEF TurnInv, EndpointOf, IdentityOf
    <3> QED
      BY <1>4, <1>6, <2>2, <2>3, <3>4 DEF TurnInv
  <2> QED
    BY <1>9, <2>4, <2>5, <2>6, <2>7
<1> QED
  BY <1>7, <1>8, <1>9

LEMMA TurnRemovesIdentity ==
  ASSUME TypeOK, TurnInv, NEW d \in Daemons, RemovesIdentity(d)
  PROVE  TurnInv'
<1> None \notin Daemons
  BY LifecycleConstants
<1>1. /\ dpc[d] = "rmIdentity" /\ dpc'[d] = "unlock"
      /\ \A e \in Daemons \ {d} : dpc'[e] = dpc[e]
      /\ identity' = None /\ UNCHANGED <<lockFile, endpoint, handle, call>>
  BY DEF RemovesIdentity, DStep, TypeOK, locks
<1>2. \A e \in Daemons : dpc'[e] \in Up => dpc[e] \in Up /\ dpc'[e] = dpc[e] /\ e # d
  BY <1>1 DEF Up, Starting
<1>3. OneUp' /\ (NoneUp => NoneUp') /\ UpHasPath'
  BY <1>1, <1>2 DEF TurnInv, OneUp, NoneUp, UpHasPath
<1>4. StartsWait'
  BY <1>1, <1>2 DEF TurnInv, StartsWait, Up
<1>5. EndpointOf' /\ IdentityOf'
  BY <1>1 DEF TurnInv, EndpointOf, IdentityOf
<1> QED
  BY <1>1, <1>3, <1>4, <1>5 DEF TurnInv, NoneUpAtSpawn, PathOpened

LEMMA TurnStep ==
  ASSUME ~Slow, TypeOK, LockInv, OneAtATime, OneAtATime', TurnInv, [Next]_vars
  PROVE  TurnInv'
<1>1. ASSUME NEW c \in Clients, Call(c) \/ ClientStep(c) PROVE TurnInv'
  BY <1>1, TurnClientSettles, TurnClientLocks, TurnSpawns
<1>2. ASSUME NEW d \in Daemons, DaemonStep(d) \/ Stops(d) \/ Crashes(d)
      PROVE  TurnInv'
  BY <1>2, TurnDaemonSettles, TurnDaemonUp, TurnRemovesIdentity DEF DaemonStep
<1>3. CASE UNCHANGED <<files, handle, dpc, call>>
  BY <1>3
  DEF TurnInv, OneUp, StartsWait, NoneUpAtSpawn, PathOpened, UpHasPath,
      EndpointOf, IdentityOf, NoneUp, files
<1> QED
  BY <1>1, <1>2, <1>3 DEF Next, vars, locks, procs, NumberReused, OtherEnds

-----------------------------------------------------------------------------
(* Calls that nothing disturbs                                             *)

\* A daemon that is not there, or has nothing left to do but to exit.
Quiet(d) == dpc[d] \in {"off", "drain", "gone"}
AllQuiet == \A d \in Daemons : Quiet(d)

\* The daemon that was spawned last, on its way in or serving, alone.
Server(d) ==
  /\ \/ dpc[d] \in {"start", "flock", "pid", "identity"}
     \/ dpc[d] \in {"clear", "bind", "serving"} /\ identity = d
  /\ \A e \in Daemons \ {d} : Quiet(e)
Serves(d) == Server(d) /\ dpc[d] = "serving"

\* What a call that nothing disturbs finds, step by step.
CallInv(c) ==
  LET k == call[c]
  IN  /\ k.step # "failed"
      /\ k.step = "connect" => AtRest
      /\ k.step \in {"record", "check", "probe", "discover"} =>
           AtRest /\ k.link # None /\ dpc[k.link] = "serving"
      /\ k.step = "check" => k.rec = identity
      /\ k.step = "probe" => k.rec = k.link
      /\ k.step = "restart" => AtRest /\ k.seen # None /\ dpc[k.seen] = "serving"
      /\ k.step = "dying" =>
           \A d \in Daemons : Quiet(d) \/ (dpc[d] \in Stopping /\ proc[k.target] = d)
      /\ k.step \in {"lock", "flock", "drop", "clear", "spawn"} => AllQuiet
      /\ k.step = "wait" => \E d \in Daemons : Server(d)
      /\ k.step = "identify" => \E d \in Daemons : Serves(d)
      /\ k.step = "reach" => \E d \in Daemons : Serves(d) /\ k.rec = d
      /\ k.step = "confirm" =>
           \E d \in Daemons : Serves(d) /\ k.rec = d /\ k.link = d

Calm(c) == ~call[c].force /\ c \notin disturbed

UndisturbedInv == \A c \in Clients : Calm(c) => CallInv(c)

\* What the steps below may assume.
RecoveryCtx ==
  /\ ~Slow
  /\ TypeOK
  /\ LockInv
  /\ HolderInv
  /\ ProcessInv
  /\ TargetInv
  /\ OneAtATime
  /\ TurnInv

\* The steps of CallInv do not look at the other files, the numbers or the locks.
LEMMA CallInvKept ==
  ASSUME NEW c \in Clients, CallInv(c), UNCHANGED <<dpc, identity, proc>>,
         call'[c] = call[c]
  PROVE  CallInv(c)'
BY DEF CallInv, AtRest, AllQuiet, Quiet, Server, Serves

\* The steps of a client that leave the daemons, the files and the numbers alone.
LEMMA OwnReuse ==
  ASSUME RecoveryCtx, NEW c \in Clients, CallInv(c),
         Connects(c) \/ Records(c) \/ Checks(c) \/ ProbeSucceeds(c) \/ ProbeFails(c)
         \/ Discovers(c)
  PROVE  CallInv(c)'
<1> call[c] \in Calls /\ call \in [Clients -> Calls] /\ None \notin Daemons
  BY LifecycleConstants DEF RecoveryCtx, TypeOK
<1>1. UNCHANGED <<dpc, identity, proc>>
  BY DEF Connects, Records, Checks, ProbeSucceeds, ProbeFails, Discovers,
         files, procs
<1>2. AtRest /\ AtRest'
  BY <1>1 DEF Connects, Records, Checks, ProbeSucceeds, ProbeFails, Discovers,
              CallInv, AtRest
<1>3. AtRest => \A d \in Daemons : dpc[d] \in {"serving"} \/ Quiet(d)
  BY DEF AtRest, Quiet, RecoveryCtx, TypeOK, DSteps
<1>4. CASE Connects(c)
  <2>1. CASE Connectable
    <3>1. call'[c].step = "record" /\ call'[c].link = endpoint
      BY <1>4, <2>1 DEF Connects, Calls
    <3>2. endpoint \in Daemons /\ dpc[endpoint] = "serving"
      BY <1>2, <2>1 DEF Connectable, Listening, AtRest, RecoveryCtx, TypeOK
    <3> QED
      BY <1>1, <1>2, <3>1, <3>2 DEF CallInv
  <2>2. CASE ~Connectable
    <3>1. call'[c].step = "lock"
      BY <1>4, <2>2 DEF Connects, GoesToLock, Calls
    <3>2. \A d \in Daemons : dpc[d] # "serving"
      <4> SUFFICES ASSUME NEW d \in Daemons, dpc[d] = "serving" PROVE Connectable
        BY <2>2
      <4> QED
        BY DEF RecoveryCtx, TurnInv, EndpointOf, Connectable, Listening
    <3>3. AllQuiet'
      BY <1>1, <1>2, <1>3, <3>2 DEF AllQuiet, Quiet
    <3> QED
      BY <3>1, <3>3 DEF CallInv
  <2> QED
    BY <2>1, <2>2
<1>5. CASE Records(c)
  <2>1. /\ call'[c].step = "check" /\ call'[c].rec = identity
        /\ call'[c].link = call[c].link /\ call[c].step = "record"
    BY <1>5 DEF Records, Calls
  <2> QED
    BY <1>1, <1>2, <2>1 DEF CallInv
<1>6. CASE Checks(c)
  <2>1. /\ call'[c].step \in {"probe", "discover"}
        /\ call'[c].rec = call[c].rec /\ call'[c].link = call[c].link
        /\ call[c].step = "check"
    BY <1>6 DEF Checks, Step, Calls
  <2>2. ASSUME call'[c].step = "probe" PROVE call[c].rec = call[c].link
    <3>1. IdentityCurrent(c)
      BY <1>6, <2>2 DEF Checks, Step, Calls
    <3>2. identity \in Daemons /\ proc[pidOf[identity]] = identity
          /\ pidOf[identity] \in Pids
      BY <3>1 DEF IdentityCurrent, Alive, RecoveryCtx, TypeOK
    <3>3. dpc[identity] \notin {"off", "gone"}
      BY <3>2 DEF RecoveryCtx, ProcessInv, Runs
    <3>4. dpc[identity] = "serving"
      BY <1>2, <1>3, <3>2, <3>3 DEF Quiet, RecoveryCtx, TurnInv, IdentityOf
    <3>5. call[c].link \in Daemons /\ dpc[call[c].link] = "serving"
          /\ call[c].rec = identity
      BY <2>1 DEF CallInv, Calls
    <3> QED
      BY <3>2, <3>4, <3>5 DEF RecoveryCtx, TurnInv, OneUp, Up
  <2> QED
    BY <1>1, <1>2, <2>1, <2>2 DEF CallInv
<1>7. CASE ProbeSucceeds(c)
  <2>1. call'[c].step = "done"
    BY <1>7 DEF ProbeSucceeds, Ends, NoCall
  <2> QED
    BY <2>1 DEF CallInv
<1>8. CASE ProbeFails(c)
  BY <1>8 DEF ProbeFails, CallInv, Listening, RecoveryCtx
<1>9. CASE Discovers(c)
  <2>1. Listening(call[c].link)
    BY <1>9 DEF Discovers, CallInv, Listening
  <2>2. /\ call'[c].step = "restart" /\ call'[c].seen = call[c].link
        /\ call[c].step = "discover"
    <3>1. call' = [call EXCEPT ![c] = [@ EXCEPT !.step = "restart",
                                              !.seen = call[c].link]]
      BY <1>9, <2>1 DEF Discovers, RecoveryCtx
    <3> QED
      BY <1>9, <3>1 DEF Discovers, Calls
  <2> QED
    BY <1>1, <1>2, <2>2 DEF CallInv
<1> QED
  BY <1>4, <1>5, <1>6, <1>7, <1>8, <1>9

\* A daemon that serves and is signalled is killed, or stops.
LEMMA TerminatesServer ==
  ASSUME TypeOK, NEW p, NEW s \in Daemons, proc[p] = s, dpc[s] = "serving",
         Terminates(p)
  PROVE  /\ \A e \in Daemons \ {s} : dpc'[e] = dpc[e]
         /\ dpc'[s] = "gone" \/ (dpc'[s] = "rmEndpoint" /\ UNCHANGED proc)
<1>1. CASE Kills(p)
  BY <1>1 DEF Kills, DStep, TypeOK
<1>2. CASE ~Kills(p)
  BY <1>2 DEF Terminates, TypeOK
<1> QED
  BY <1>1, <1>2

LEMMA OwnRestarts ==
  ASSUME RecoveryCtx, NEW c \in Clients, CallInv(c), Restarts(c)
  PROVE  CallInv(c)'
<1> call[c] \in Calls /\ call \in [Clients -> Calls] /\ None \notin Daemons
    /\ None \notin Pids
  BY LifecycleConstants DEF RecoveryCtx, TypeOK
<1>1. PICK s \in Daemons : call[c].seen = s
  BY DEF Restarts, CallInv, Calls
<1>2. dpc[s] = "serving" /\ AtRest
  BY <1>1 DEF Restarts, CallInv
<1>3. pidOf[s] \in Pids /\ proc[pidOf[s]] = s /\ Target(c) = pidOf[s]
  BY <1>1, <1>2 DEF RecoveryCtx, ProcessInv, Runs, Target
<1>4. Verified(c, Target(c)) /\ Target(c) # None /\ proc[Target(c)] # None
  BY <1>1, <1>3 DEF Verified
<1>5. Terminates(Target(c))
      /\ call' = [call EXCEPT ![c] = [@ EXCEPT !.step = "dying",
                                             !.target = Target(c)]]
  BY <1>4 DEF Restarts
<1>6. call'[c].step = "dying" /\ call'[c].target = pidOf[s]
  BY <1>3, <1>5 DEF Calls
<1>7. /\ \A e \in Daemons \ {s} : dpc'[e] = dpc[e]
      /\ dpc'[s] = "gone" \/ (dpc'[s] = "rmEndpoint" /\ UNCHANGED proc)
  BY <1>2, <1>3, <1>5, TerminatesServer DEF RecoveryCtx
<1>8. \A e \in Daemons \ {s} : Quiet(e)'
  <2>1. \A e \in Daemons \ {s} : dpc[e] \notin Up \union Stopping
    BY <1>2 DEF AtRest, RecoveryCtx, TurnInv, OneUp, Up
  <2> QED
    BY <1>7, <2>1 DEF Quiet, Up, RecoveryCtx, TypeOK, DSteps
<1>9. Quiet(s)' \/ (dpc'[s] \in Stopping /\ proc'[call'[c].target] = s)
  BY <1>3, <1>6, <1>7 DEF Quiet, Stopping
<1> QED
  BY <1>6, <1>8, <1>9 DEF CallInv

LEMMA OwnDying ==
  ASSUME RecoveryCtx, NEW c \in Clients, CallInv(c), AwaitsExit(c) \/ ExitTimesOut(c)
  PROVE  CallInv(c)'
<1> call[c] \in Calls /\ call \in [Clients -> Calls] /\ None \notin Daemons
  BY LifecycleConstants DEF RecoveryCtx, TypeOK
<1>1. call'[c].step = "lock"
  BY DEF AwaitsExit, ExitTimesOut, GoesToLock, Calls
<1>2. AllQuiet
  <2> SUFFICES ASSUME NEW d \in Daemons, dpc[d] \in Stopping,
                      proc[call[c].target] = d
               PROVE  FALSE
    BY DEF AwaitsExit, ExitTimesOut, CallInv, AllQuiet
  <2> QED
    BY DEF AwaitsExit, ExitTimesOut, Leaving, RecoveryCtx
<1>3. AllQuiet'
  <2>1. CASE UNCHANGED dpc
    BY <1>2, <2>1 DEF AllQuiet, Quiet
  <2>2. CASE ~UNCHANGED dpc
    <3>1. Kills(call[c].target)
      BY <2>2 DEF AwaitsExit, ExitTimesOut, procs
    <3> QED
      BY <1>2, <3>1, KillsEffect DEF RecoveryCtx, AllQuiet, Quiet
  <2> QED
    BY <2>1, <2>2
<1> QED
  BY <1>1, <1>3 DEF CallInv

\* Nobody holds a lock while every daemon is quiet and the client tries it.
LEMMA LockIsFree ==
  ASSUME RecoveryCtx, NEW c \in Clients, call[c].step \in {"flock", "wait"},
         NEW i \in Inodes,
         \A d \in Daemons : dpc[d] \in Locked => lockOf[i] # d
  PROVE  lockOf[i] = None
<1>1. \A o \in Clients : lockOf[i] # o
  BY DEF RecoveryCtx, HolderInv, OneAtATime, Active, Ended
<1>2. \A d \in Daemons : lockOf[i] # d
  BY DEF RecoveryCtx, HolderInv
<1> QED
  BY <1>1, <1>2 DEF RecoveryCtx, TypeOK

LEMMA OwnLock ==
  ASSUME RecoveryCtx, NEW c \in Clients, CallInv(c),
         \/ OpensLock(c)
         \/ TakesLock(c)
         \/ FindsLockHeld(c)
         \/ DropsLock(c)
         \/ ClearsEndpoint(c)
  PROVE  CallInv(c)'
<1> call[c] \in Calls /\ call \in [Clients -> Calls]
  BY DEF RecoveryCtx, TypeOK
<1>1. AllQuiet /\ UNCHANGED dpc
  BY DEF OpensLock, TakesLock, FindsLockHeld, DropsLock, ClearsEndpoint, CallInv,
         procs
<1>2. ~FindsLockHeld(c)
  <2> SUFFICES ASSUME FindsLockHeld(c) PROVE FALSE
    OBVIOUS
  <2>1. call[c].step = "flock" /\ handle[c] \in Inodes /\ lockOf[handle[c]] # None
    BY DEF FindsLockHeld, LockFails, RecoveryCtx, LockInv, ClientsOpen, AtLock, TypeOK
  <2>2. \A d \in Daemons : dpc[d] \notin Locked
    BY <1>1 DEF AllQuiet, Quiet, Locked, Stopping
  <2> QED
    BY <2>1, <2>2, LockIsFree
<1>3. call'[c].step \in {"flock", "drop", "clear", "spawn"}
  BY <1>2 DEF OpensLock, TakesLock, DropsLock, ClearsEndpoint, Step, Calls
<1> QED
  BY <1>1, <1>3 DEF CallInv, AllQuiet, Quiet

LEMMA OwnSpawns ==
  ASSUME RecoveryCtx, NEW c \in Clients, CallInv(c), Spawns(c)
  PROVE  CallInv(c)'
<1>1. PICK d \in Daemons : /\ dpc[d] = "off" /\ dpc'[d] = "start"
                           /\ \A e \in Daemons \ {d} : dpc'[e] = dpc[e]
  BY SpawnEffect DEF RecoveryCtx
<1>2. call[c].step = "spawn" /\ call'[c].step = "wait"
  BY SpawnEffect DEF RecoveryCtx
<1>3. Server(d)'
  BY <1>1, <1>2 DEF CallInv, AllQuiet, Quiet, Server
<1> QED
  BY <1>2, <1>3 DEF CallInv

LEMMA OwnWaits ==
  ASSUME RecoveryCtx, NEW c \in Clients, CallInv(c), Calm(c),
         \/ WaitConnects(c)
         \/ WaitTimesOut(c)
         \/ Identifies(c)
         \/ Reaches(c)
         \/ Confirms(c)
  PROVE  CallInv(c)'
<1> call[c] \in Calls /\ call \in [Clients -> Calls] /\ None \notin Daemons
  BY LifecycleConstants DEF RecoveryCtx, TypeOK
<1>1. UNCHANGED <<dpc, identity, proc>>
  BY DEF WaitConnects, WaitTimesOut, Identifies, Reaches, Confirms, files, procs
<1>0. \A d \in Daemons : Server(d)' <=> Server(d)
  BY <1>1 DEF Server, Quiet
<1>s. \A d \in Daemons : Serves(d)' <=> Serves(d)
  BY <1>0, <1>1 DEF Serves
<1>c. \A d \in Daemons : dpc[d] = "serving" => endpoint = d /\ Connectable
  BY DEF RecoveryCtx, TurnInv, EndpointOf, Connectable, Listening
<1>2. CASE WaitConnects(c)
  <2>1. PICK d \in Daemons : Server(d)
    BY <1>2 DEF WaitConnects, CallInv
  <2>2. endpoint \in Daemons /\ dpc[endpoint] \in {"serving"} \union Stopping
    BY <1>2 DEF WaitConnects, Connectable, Listening, RecoveryCtx, TypeOK
  <2>3. Serves(d)
    BY <2>1, <2>2 DEF Server, Serves, Quiet, Stopping
  <2>4. call'[c].step = "identify"
    BY <1>2 DEF WaitConnects, Step, Calls
  <2> QED
    BY <1>s, <2>3, <2>4 DEF CallInv
<1>3. CASE WaitTimesOut(c)
  <2>1. PICK d \in Daemons : Server(d)
    BY <1>3 DEF WaitTimesOut, CallInv
  <2>2. dpc[d] \in Starting \union {"serving"}
    BY <2>1 DEF Server, Starting
  <2> QED
    BY <1>3, <1>c, <2>2 DEF WaitTimesOut, RecoveryCtx
<1>4. CASE Identifies(c)
  <2>1. PICK d \in Daemons : Serves(d)
    BY <1>4 DEF Identifies, CallInv
  <2>2. identity = d
    BY <2>1 DEF Serves, Server
  <2>3. call'[c].step = "reach" /\ call'[c].rec = d
    <3>1. call' = [call EXCEPT ![c] = [@ EXCEPT !.step = "reach",
                                              !.rec = identity]]
      BY <1>4, <2>2 DEF Identifies
    <3> QED
      BY <2>2, <3>1 DEF Calls
  <2> QED
    BY <1>s, <2>1, <2>3 DEF CallInv
<1>5. CASE Reaches(c)
  <2>1. PICK d \in Daemons : Serves(d) /\ call[c].rec = d
    BY <1>5 DEF Reaches, CallInv
  <2>2. endpoint = d /\ Connectable
    BY <1>c, <2>1 DEF Serves
  <2>3. call'[c].step = "confirm" /\ call'[c].rec = d /\ call'[c].link = d
    <3>1. call' = [call EXCEPT ![c] = [@ EXCEPT !.step = "confirm",
                                              !.link = endpoint]]
      BY <1>5, <2>2 DEF Reaches
    <3> QED
      BY <2>1, <2>2, <3>1 DEF Calls
  <2> QED
    BY <1>s, <2>1, <2>3 DEF CallInv
<1>6. CASE Confirms(c)
  <2>1. PICK d \in Daemons : Serves(d) /\ call[c].rec = d /\ call[c].link = d
    BY <1>6 DEF Confirms, CallInv
  <2>2. Listening(call[c].link) /\ call[c].link = call[c].rec
    BY <2>1 DEF Serves, Listening
  <2>3. Ends(c, "done")
    BY <1>6, <2>2 DEF Confirms, RecoveryCtx
  <2>4. call'[c].step = "done"
    BY <2>3 DEF Ends, NoCall
  <2> QED
    BY <2>4 DEF CallInv
<1> QED
  BY <1>2, <1>3, <1>4, <1>5, <1>6

\* What a client's step does to the history of disturbances.
LEMMA ClientDisturbs ==
  ASSUME NEW c \in Clients, ClientStep(c)
  PROVE  disturbed \subseteq disturbed'
BY DEF ClientStep, Connects, Records, Checks, ProbeSucceeds, ProbeFails,
       Discovers, Restarts, AwaitsExit, ExitTimesOut, OpensLock, TakesLock,
       FindsLockHeld, DropsLock, ClearsEndpoint, Spawns, SpawnFails,
       WaitConnects, WaitTimesOut, Identifies, Reaches, Confirms, Disturb, past

\* A client that is not under way keeps what its call ended with.
LEMMA OtherKept ==
  ASSUME NEW o \in Clients, CallInv(o), ~Active(o), call'[o] = call[o]
  PROVE  CallInv(o)'
BY DEF CallInv, Active, Ended

LEMMA CalmClient ==
  ASSUME RecoveryCtx, UndisturbedInv, NEW c \in Clients, ClientStep(c)
  PROVE  UndisturbedInv'
<1>1. CallMoves(c) /\ disturbed \subseteq disturbed'
  BY ClientMoves, ClientDisturbs DEF RecoveryCtx
<1>2. ASSUME NEW o \in Clients \ {c}, Calm(o)' PROVE CallInv(o)'
  <2>1. call'[o] = call[o] /\ ~Active(o)
    BY <1>1 DEF CallMoves, RecoveryCtx, OneAtATime
  <2>2. CallInv(o)
    BY <1>1, <1>2, <2>1 DEF Calm, UndisturbedInv
  <2> QED
    BY <2>1, <2>2, OtherKept
<1>3. ASSUME Calm(c)' PROVE CallInv(c)'
  <2>1. Calm(c) /\ CallInv(c)
    BY <1>1, <1>3 DEF CallMoves, Calm, UndisturbedInv
  <2>2. ~SpawnFails(c)
    BY <1>1, <1>3 DEF SpawnFails, Disturb, Calm, CallMoves
  <2> QED
    BY <2>1, <2>2, OwnReuse, OwnRestarts, OwnDying, OwnLock, OwnSpawns, OwnWaits
    DEF ClientStep
<1> QED
  BY <1>2, <1>3 DEF UndisturbedInv

LEMMA CalmCall ==
  ASSUME RecoveryCtx, OneAtATime', UndisturbedInv, NEW c \in Clients, Call(c)
  PROVE  UndisturbedInv'
<1>1. /\ call'[c].step = "connect" \/ (call'[c].step = "restart" /\ call'[c].force)
      /\ \A o \in Clients \ {c} : call'[o] = call[o]
  BY CallBegins DEF RecoveryCtx
<1>2. ASSUME NEW o \in Clients \ {c}, Calm(o)' PROVE CallInv(o)'
  <2>1. Active(c)'
    BY <1>1 DEF Active, Ended
  <2>2. ~(Active(o)')
    BY <2>1 DEF OneAtATime
  <2>3. ~Active(o)
    BY <1>1, <2>2 DEF Active
  <2>4. o \notin disturbed
    BY <1>2 DEF Call, Calm
  <2>5. CallInv(o)
    BY <1>1, <1>2, <2>4 DEF Calm, UndisturbedInv
  <2> QED
    BY <1>1, <2>3, <2>5, OtherKept
<1>3. ASSUME Calm(c)' PROVE CallInv(c)'
  <2>1. AtRest'
    BY <1>3 DEF Call, Calm, AtRest, procs
  <2>2. call'[c].step = "connect"
    BY <1>1, <1>3 DEF Calm
  <2> QED
    BY <2>1, <2>2 DEF CallInv
<1> QED
  BY <1>2, <1>3 DEF UndisturbedInv

-----------------------------------------------------------------------------

\* A daemon that neither starts nor stops can only exit.
LEMMA RestingExits ==
  ASSUME NEW d \in Daemons, DaemonStep(d), dpc[d] \notin Starting \union Stopping
  PROVE  Exits(d)
BY DEF DaemonStep, DaemonOpensLock, DaemonTakesLock, DaemonGivesUp, WritesPid,
       WritesIdentity, DaemonClearsEndpoint, Binds, RemovesEndpoint, RemovesPid,
       RemovesLock, RemovesIdentity, Unlocks, Starting, Stopping

LEMMA CalmExits ==
  ASSUME RecoveryCtx, NEW c \in Clients, CallInv(c), NEW d \in Daemons, Exits(d)
  PROVE  CallInv(c)'
<1>1. /\ dpc[d] = "drain" /\ dpc'[d] = "gone"
      /\ \A e \in Daemons \ {d} : dpc'[e] = dpc[e]
      /\ proc' = [proc EXCEPT ![pidOf[d]] = None]
      /\ UNCHANGED <<identity, call>>
  BY DEF Exits, RecoveryCtx, TypeOK, DStep, files
<1>2. \A e \in Daemons : Quiet(e)' <=> Quiet(e)
  BY <1>1 DEF Quiet
<1>3. AtRest => AtRest'
  BY <1>1 DEF AtRest, Starting, Stopping
<1>4. \A e \in Daemons : Server(e) => Server(e)'
  BY <1>1, <1>2 DEF Server
<1>5. \A e \in Daemons : Serves(e) => Serves(e)'
  BY <1>1, <1>4 DEF Serves
<1>6. ASSUME NEW e \in Daemons, dpc[e] \in Stopping,
             call[c].step = "dying", proc[call[c].target] = e
      PROVE  dpc'[e] \in Stopping /\ proc'[call'[c].target] = e
  <2>1. e # d
    BY <1>1, <1>6 DEF Stopping
  <2>2. pidOf[d] # call[c].target
    BY <1>1, <1>6, <2>1 DEF RecoveryCtx, ProcessInv, Runs
  <2> QED
    BY <1>1, <1>6, <2>1, <2>2 DEF RecoveryCtx, TargetInv, TypeOK
<1>7. \A e \in Daemons : dpc[e] = "serving" => dpc'[e] = "serving"
  BY <1>1
<1>8. call[c].link \in Daemons \union {None} /\ call[c].seen \in Daemons \union {None}
  BY DEF RecoveryCtx, TypeOK, Calls
<1>9. /\ call[c].step = "connect" => AtRest'
      /\ call[c].step \in {"record", "check", "probe", "discover"} =>
           AtRest' /\ call[c].link # None /\ dpc'[call[c].link] = "serving"
      /\ call[c].step = "restart" =>
           AtRest' /\ call[c].seen # None /\ dpc'[call[c].seen] = "serving"
  BY <1>3, <1>7, <1>8 DEF CallInv
<1>10. /\ call[c].step = "dying" =>
            \A e \in Daemons : Quiet(e)'
                               \/ (dpc'[e] \in Stopping /\ proc'[call'[c].target] = e)
       /\ call[c].step \in {"lock", "flock", "drop", "clear", "spawn"} => AllQuiet'
  BY <1>2, <1>6 DEF CallInv, AllQuiet
<1>11. /\ call[c].step = "wait" => \E e \in Daemons : Server(e)'
       /\ call[c].step = "identify" => \E e \in Daemons : Serves(e)'
       /\ call[c].step = "reach" => \E e \in Daemons : Serves(e)' /\ call[c].rec = e
       /\ call[c].step = "confirm" =>
            \E e \in Daemons : Serves(e)' /\ call[c].rec = e /\ call[c].link = e
  BY <1>4, <1>5 DEF CallInv
<1> QED
  BY <1>1, <1>9, <1>10, <1>11 DEF CallInv

\* A daemon's step under a call that nothing disturbs: it stops, for the client
\* that signalled it, or it starts, for the client that spawned it.
LEMMA CalmStopping ==
  ASSUME RecoveryCtx, NEW c \in Clients, CallInv(c), call[c].step = "dying",
         NEW d \in Daemons, DaemonStep(d), dpc[d] \in Stopping
  PROVE  CallInv(c)'
<1>1. /\ dpc'[d] \in Stopping \union {"drain"}
      /\ \A e \in Daemons \ {d} : dpc'[e] = dpc[e]
      /\ UNCHANGED <<proc, call>>
  BY DEF DaemonStep, DaemonOpensLock, DaemonTakesLock, DaemonGivesUp, WritesPid,
         WritesIdentity, DaemonClearsEndpoint, Binds, RemovesEndpoint, RemovesPid,
         RemovesLock, RemovesIdentity, Unlocks, Exits, DStep, Stopping,
         RecoveryCtx, TypeOK
<1>2. \A e \in Daemons : Quiet(e) \/ (dpc[e] \in Stopping /\ proc[call[c].target] = e)
  BY DEF CallInv
<1>3. ~Quiet(d)
  BY DEF Quiet, Stopping
<1>4. \A e \in Daemons :
        Quiet(e)' \/ (dpc'[e] \in Stopping /\ proc'[call'[c].target] = e)
  BY <1>1, <1>2, <1>3 DEF Quiet
<1> QED
  BY <1>1, <1>4 DEF CallInv

LEMMA CalmStarting ==
  ASSUME RecoveryCtx, NEW c \in Clients, CallInv(c), call[c].step = "wait",
         NEW d \in Daemons, DaemonStep(d), dpc[d] \in Starting
  PROVE  CallInv(c)'
<1> None \notin Daemons
  BY LifecycleConstants
<1>1. Server(d) /\ UNCHANGED call
  <2>1. PICK s \in Daemons : Server(s)
    BY DEF CallInv
  <2>2. s = d
    BY <2>1 DEF Server, Quiet, Starting
  <2> QED
    BY <2>1, <2>2, DaemonMovesOn DEF RecoveryCtx, DaemonMoves
<1>2. ~DaemonGivesUp(d)
  <2> SUFFICES ASSUME DaemonGivesUp(d) PROVE FALSE
    OBVIOUS
  <2>1. dpc[d] = "flock" /\ handle[d] \in Inodes /\ lockOf[handle[d]] # None
    BY DEF DaemonGivesUp, LockFails, RecoveryCtx, LockInv, DaemonsOpen, TypeOK
  <2>2. \A e \in Daemons : dpc[e] \notin Locked
    BY <1>1, <2>1 DEF Server, Quiet, Locked, Stopping
  <2> QED
    BY <2>1, <2>2, LockIsFree
<1>3. /\ \/ dpc'[d] \in {"flock", "pid", "identity"}
         \/ dpc'[d] \in {"clear", "bind", "serving"} /\ identity' = d
      /\ \A e \in Daemons \ {d} : dpc'[e] = dpc[e]
  <2>1. dpc[d] = "bind" => endpoint = None
    BY DEF RecoveryCtx, TurnInv, EndpointOf
  <2> QED
    BY <1>1, <1>2, <2>1
    DEF DaemonStep, DaemonOpensLock, DaemonTakesLock, WritesPid,
        WritesIdentity, DaemonClearsEndpoint, Binds, RemovesEndpoint, RemovesPid,
        RemovesLock, RemovesIdentity, Unlocks, Exits, DStep, Starting, Server,
        RecoveryCtx, TypeOK, files
<1>4. Server(d)'
  BY <1>1, <1>3 DEF Server, Quiet
<1> QED
  BY <1>1, <1>4 DEF CallInv

LEMMA CalmDaemon ==
  ASSUME RecoveryCtx, UndisturbedInv, NEW d \in Daemons,
         DaemonStep(d) \/ Stops(d) \/ Crashes(d)
  PROVE  UndisturbedInv'
<1>1. UNCHANGED call
  BY DaemonMovesOn DEF RecoveryCtx, DaemonMoves
<1> SUFFICES ASSUME NEW c \in Clients, Calm(c)' PROVE CallInv(c)'
  BY DEF UndisturbedInv
<1>2. c \notin disturbed /\ CallInv(c)
  BY <1>1
  DEF DaemonStep, DaemonOpensLock, DaemonTakesLock, DaemonGivesUp, WritesPid,
      WritesIdentity, DaemonClearsEndpoint, Binds, Stops, RemovesEndpoint, RemovesPid,
      RemovesLock, RemovesIdentity, Unlocks, Exits, Crashes, Disturb, past,
      Calm, UndisturbedInv
<1>3. CASE ~Active(c)
  BY <1>1, <1>2, <1>3, OtherKept
<1>4. CASE Active(c)
  <2>1. DaemonStep(d)
    BY <1>1, <1>4 DEF Stops, Crashes, Disturb, Calm
  <2>2. CASE Exits(d)
    BY <1>2, <2>2, CalmExits
  <2>3. CASE dpc[d] \in Stopping
    <3>1. call[c].step = "dying"
      BY <1>2, <1>4, <2>3
      DEF CallInv, AtRest, AllQuiet, Server, Serves, Quiet, Stopping, Active, Ended,
          RecoveryCtx, TypeOK, Calls, CSteps
    <3> QED
      BY <1>2, <2>1, <2>3, <3>1, CalmStopping
  <2>4. CASE dpc[d] \in Starting
    <3>1. call[c].step = "wait"
      BY <1>4, <2>4 DEF RecoveryCtx, TurnInv, StartsWait, OneAtATime, Active, Ended
    <3> QED
      BY <1>2, <2>1, <2>4, <3>1, CalmStarting
  <2> QED
    BY <2>1, <2>2, <2>3, <2>4, RestingExits
<1> QED
  BY <1>3, <1>4

LEMMA CalmNumbers ==
  ASSUME RecoveryCtx, UndisturbedInv, NEW p \in Pids,
         NumberReused(p) \/ OtherEnds(p)
  PROVE  UndisturbedInv'
<1> Other \notin Daemons /\ None \notin Daemons
  BY LifecycleConstants
<1>1. /\ UNCHANGED <<dpc, identity, call, disturbed>>
      /\ \A q \in Pids : proc[q] \in Daemons => proc'[q] = proc[q]
  BY DEF NumberReused, OtherEnds, RecoveryCtx, TypeOK, files, past
<1> SUFFICES ASSUME NEW c \in Clients, CallInv(c) PROVE CallInv(c)'
  BY <1>1 DEF UndisturbedInv, Calm
<1>2. call[c].step = "dying" => call[c].target \in Pids
  BY DEF RecoveryCtx, TargetInv
<1> QED
  BY <1>1, <1>2 DEF CallInv, AtRest, AllQuiet, Quiet, Server, Serves

LEMMA CalmStep ==
  ASSUME RecoveryCtx, OneAtATime', UndisturbedInv, [Next]_vars
  PROVE  UndisturbedInv'
<1>1. CASE UNCHANGED vars
  BY <1>1
  DEF vars, files, procs, past, UndisturbedInv, Calm, CallInv, AtRest, AllQuiet,
      Quiet, Server, Serves
<1> QED
  BY <1>1, CalmClient, CalmCall, CalmDaemon, CalmNumbers DEF Next

-----------------------------------------------------------------------------
(* A call fails for a cause                                                *)

RecoveryInv ==
  /\ TypeOK
  /\ LockInv
  /\ HolderInv
  /\ ProcessInv
  /\ TargetInv
  /\ TurnInv
  /\ UndisturbedInv

LEMMA RecoveryInit == Init => RecoveryInv
<1> SUFFICES ASSUME Init PROVE RecoveryInv
  OBVIOUS
<1> USE LifecycleConstants
<1>1. TypeOK /\ LockInv
  BY TypeInit, LockInit
<1>2. HolderInv /\ ProcessInv /\ TargetInv
  BY DEF Init, HolderInv, ProcessInv, Runs, TargetInv, NoCall
<1>3. TurnInv
  BY DEF Init, TurnInv, OneUp, StartsWait, NoneUpAtSpawn, PathOpened, UpHasPath,
         EndpointOf, IdentityOf, NoneUp, Up, Starting, NoCall
<1>4. UndisturbedInv
  BY DEF Init, UndisturbedInv, CallInv, NoCall
<1> QED
  BY <1>1, <1>2, <1>3, <1>4 DEF RecoveryInv

LEMMA RecoveryStep ==
  ASSUME ~Slow
  PROVE  RecoveryInv /\ OneAtATime /\ OneAtATime' /\ [Next]_vars => RecoveryInv'
<1> SUFFICES ASSUME RecoveryInv, OneAtATime, OneAtATime', [Next]_vars
             PROVE  RecoveryInv'
  OBVIOUS
<1>1. RecoveryCtx
  BY DEF RecoveryInv, RecoveryCtx
<1>2. TypeOK' /\ LockInv' /\ HolderInv'
  BY TypeStep, LockStep, HolderStep DEF RecoveryInv
<1>3. ProcessInv' /\ TargetInv'
  BY ProcessStep, TargetStep DEF RecoveryInv
<1>4. TurnInv'
  BY TurnStep DEF RecoveryInv
<1>5. UndisturbedInv'
  BY <1>1, CalmStep DEF RecoveryInv
<1> QED
  BY <1>2, <1>3, <1>4, <1>5 DEF RecoveryInv

\* Whatever crashes and clean-ups left behind, for any number of clients, of
\* executables and of calls, as long as calls do not overlap and processes are
\* faster than the timeouts: a call for a daemon fails only if a daemon stopped
\* or died during it, was on its way in or out when it began, or no process
\* could be created.
THEOREM StaleFilesLockNobodyOut ==
  ASSUME ~Slow
  PROVE  Spec /\ []OneAtATime => []FailureHasCause
<1>1. RecoveryInv => FailureHasCause
  BY DEF RecoveryInv, UndisturbedInv, FailureHasCause, Calm, CallInv
<1>2. RecoveryInv /\ OneAtATime /\ OneAtATime' /\ [Next]_vars => RecoveryInv'
  BY RecoveryStep
<1> QED
  BY <1>1, <1>2, RecoveryInit, PTL DEF Spec

\* In particular for a client that is alone with its project's daemons.
COROLLARY LoneClientIsServed ==
  ASSUME ~Slow, \A c, o \in Clients : c = o
  PROVE  Spec => []FailureHasCause
<1>1. OneAtATime
  BY DEF OneAtATime
<1> QED
  BY <1>1, StaleFilesLockNobodyOut, PTL
=============================================================================
