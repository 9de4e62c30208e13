------------------------- MODULE RequestOutcomesGate -------------------------
(***************************************************************************)
(* Theorems about RequestOutcomes that rest on who is at work, for any     *)
(* ids, payloads, workers and bounds.                                      *)
(*                                                                         *)
(* GateInv holds of every behaviour: past the gate an atomic worker owns   *)
(* the gate of its daemon, every reservation of a live daemon has a worker *)
(* that will settle it or a failure that left it behind, and a write that  *)
(* watchers were not told of has a worker that will tell them.             *)
(*                                                                         *)
(* RecoveryInv(id) holds of every behaviour in which request id is not     *)
(* overtaken: none of its attempts is deciding in one daemon while another *)
(* recovers it.  Daemons that release their lock before their last worker  *)
(* is done (Draining) are covered: what it takes is that the worker they   *)
(* leave behind is not at that very request.  Then absence is proof.       *)
(***************************************************************************)
EXTENDS RequestOutcomesProofs

-----------------------------------------------------------------------------
(* Workers, gates and daemons from step to step.                           *)

\* A worker that is not idle after a step was admitted by it, or goes on with
\* the request it had.
LEMMA GoesOnWorking ==
  ASSUME TypeInv, [Next]_vars, NEW u \in Workers, pc'[u] # "idle"
  PROVE  \/ Receive(u)
         \/ /\ pc[u] # "idle" /\ att[u] \in Attempts
            /\ att'[u].id = att[u].id /\ att'[u].load = att[u].load
            /\ att'[u].inst = att[u].inst /\ att'[u].auth = att[u].auth
            /\ (pc'[u] = pc[u] /\ att'[u] = att[u]) \/ WorkerStep(u)
<1>1. CASE pc'[u] = pc[u] /\ att'[u] = att[u]
  BY <1>1, Serves
<1>2. CASE \E i \in Instances : Crash(i) /\ u \in Busy(i)
  BY <1>2 DEF Crash
<1>3. CASE Panics(u)
  BY <1>3 DEF Panics, Reply, Goto, TypeInv, TypeOK
<1>4. CASE WorkerStep(u)
  BY <1>4, OwnStep
<1> QED BY <1>1, <1>2, <1>3, <1>4, WorkerMoves

\* A gate is taken when it is free, and given up by its holder or its daemon.
LEMMA GateSteps ==
  ASSUME TypeInv, [Next]_vars, NEW i \in Instances
  PROVE  \/ gate'[i] = gate[i]
         \/ Crash(i) /\ gate'[i] = None
         \/ \E w \in Workers :
              /\ AcquireGate(w) /\ Inst(w) = i
              /\ gate[i] = None /\ gate'[i] = w
         \/ \E w \in Workers :
              /\ gate[i] = w /\ gate'[i] = None
              /\ pc[w] # "idle" /\ pc'[w] = "idle"
<1> DEFINE Result == \/ gate'[i] = gate[i]
                     \/ Crash(i) /\ gate'[i] = None
                     \/ \E w \in Workers :
                          /\ AcquireGate(w) /\ Inst(w) = i
                          /\ gate[i] = None /\ gate'[i] = w
                     \/ \E w \in Workers :
                          /\ gate[i] = w /\ gate'[i] = None
                          /\ pc[w] # "idle" /\ pc'[w] = "idle"
<1> SUFFICES Result
  OBVIOUS
<1>1. ASSUME NEW w \in Workers, NEW kind, Reply(w, kind), pc[w] # "idle"
      PROVE  Result
  BY <1>1 DEF Reply, Goto, TypeInv, TypeOK
<1>2. CASE gate' = gate
  BY <1>2
<1>3. ASSUME NEW w \in Workers, AcquireGate(w) PROVE Result
  BY <1>3, Serves DEF AcquireGate, TypeInv, TypeOK
<1>4. ASSUME NEW j \in Instances, Crash(j) PROVE Result
  BY <1>4 DEF Crash, TypeInv, TypeOK
<1> HIDE DEF Result
<1>5. ASSUME NEW w \in Workers, Receive(w) \/ WorkerStep(w) \/ Panics(w)
      PROVE  Result
  <2>1. WorkerStep(w) \/ Panics(w) => pc[w] # "idle"
    BY OwnStep
  <2>2. CASE Probe(w) \/ Enter(w) \/ Receive(w)
    BY <1>1, <1>2, <1>3, <2>1, <2>2
       DEF WorkerStep, Probe, Enter, Receive, ProbeAnswers, ProbeSupersedes,
           DropConfirmation, ProbeFindsNothing, GatePoisoned, Prepare,
           PreparationFails
  <2>3. CASE Reserve(w) \/ Wait(w)
    BY <1>1, <1>2, <2>1, <2>3
       DEF WorkerStep, Reserve, Wait, ReserveFresh, ReserveAnswers,
           ReserveJoins, ReserveTakesOver, ReserveFails, WaitAnswers,
           WaitReleased, WaitTimesOut
  <2>4. CASE Core(w) \/ External(w)
    BY <1>2, <2>4
       DEF Core, External, CoreBegins, CoreConflicts, CoreReplays, CoreFails,
           ExecCommits, ExecRefuses, Finalizes, FinalizeFails, Runs, Retains
  <2>5. CASE Settle(w) \/ Panics(w)
    BY <1>1, <1>2, <2>1, <2>5
       DEF WorkerStep, Settle, Completes, CompleteFails, Abandons,
           AbandonFails, PruneCanonical, Publishes, Panics
  <2> QED BY <1>5, <2>2, <2>3, <2>4, <2>5 DEF WorkerStep
<1>6. CASE ~\E w \in Workers : Receive(w) \/ WorkerStep(w) \/ Panics(w)
  BY <1>2, <1>4, <1>6
     DEF Next, Shutdown, Start, ReplayExpires, Age, vars, serving
<1> QED BY <1>5, <1>6

\* A daemon starts, stops serving and dies.
LEMMA StatusSteps ==
  ASSUME TypeInv, [Next]_vars, NEW i \in Instances
  PROVE  \/ status'[i] = status[i]
         \/ Crash(i) /\ status'[i] = "dead"
         \/ Shutdown(i) /\ status'[i] = "draining"
         \/ Start(i) /\ status'[i] = "serving"
<1> DEFINE Result == \/ status'[i] = status[i]
                     \/ Crash(i) /\ status'[i] = "dead"
                     \/ Shutdown(i) /\ status'[i] = "draining"
                     \/ Start(i) /\ status'[i] = "serving"
<1> SUFFICES Result
  OBVIOUS
<1>1. ASSUME NEW j \in Instances, Crash(j) \/ Shutdown(j) \/ Start(j)
      PROVE  Result
  BY <1>1 DEF Crash, Shutdown, Start, TypeInv, TypeOK
<1>2. ASSUME NEW w \in Workers, Receive(w) \/ WorkerStep(w) \/ Panics(w)
      PROVE  status' = status
  BY <1>2
     DEF WorkerStep, Probe, Enter, Reserve, Wait, Core, External, Settle,
         ProbeAnswers, ProbeSupersedes, DropConfirmation, ProbeFindsNothing,
         AcquireGate, GatePoisoned, Prepare, PreparationFails, ReserveFresh,
         ReserveAnswers, ReserveJoins, ReserveTakesOver, ReserveFails,
         WaitAnswers, WaitReleased, WaitTimesOut, CoreBegins, CoreConflicts,
         CoreReplays, CoreFails, ExecCommits, ExecRefuses, Finalizes,
         FinalizeFails, Runs, Retains, Completes, CompleteFails, Abandons,
         AbandonFails, PruneCanonical, Publishes, Panics, Receive, process
<1>3. ASSUME NEW id \in Ids, Age(id) \/ \E j \in Instances : ReplayExpires(j, id)
      PROVE  status' = status
  BY <1>3 DEF Age, ReplayExpires, process
<1> QED BY <1>1, <1>2, <1>3 DEF Next, vars, process

\* A daemon that lives after a step was serving or was just started, and a
\* started one is never off again.
LEMMA LivesOn ==
  ASSUME TypeInv, [Next]_vars, NEW i \in Instances
  PROVE  /\ status[i] # "off" => status'[i] # "off"
         /\ Live(i)' /\ status[i] # "off" => Live(i)
         /\ Live(i) => Live(i)' \/ Crash(i)
BY StatusSteps DEF Live, Crash, Shutdown, Start

-----------------------------------------------------------------------------
(* The gate, and the owners of reservations.                               *)

PastGate == {"reprobe", "prepare", "reserve", "wait", "core", "exec",
             "finalize", "complete", "abandon", "prune", "publish"}

\* Past the gate an atomic worker holds it.
GateHeld ==
  \A w \in Workers : pc[w] \in PastGate /\ Atomic(w) => gate[Inst(w)] = w

\* Only live daemons work, and only started ones made reservations.
BusyLive == \A w \in Workers : pc[w] # "idle" => Live(Inst(w))
OwnersStarted ==
  \A id \in Ids :
    runtime[id] # None /\ runtime[id].owner \in Instances
      => status[runtime[id].owner] # "off"

\* The steps of a worker that will settle or release its reservation.
Active == {"core", "exec", "run", "retain", "finalize", "complete", "abandon"}

OwnerOf(w, id) ==
  /\ pc[w] \in Active /\ att[w].owns
  /\ Id(w) = id /\ Inst(w) = runtime[id].owner
  /\ att[w].load = runtime[id].load

\* No path forgets a reservation: its owner is at work on it, unless a failure
\* left it behind.
OwnerActive ==
  \A id \in Ids \ leaked :
    /\ Unresolved(runtime[id])
    /\ runtime[id].owner \in Instances /\ Live(runtime[id].owner)
    => \E w \in Workers : OwnerOf(w, id)

LEMMA GateStaysHeld ==
  ASSUME TypeInv, GateHeld, [Next]_vars
  PROVE  GateHeld'
<1> SUFFICES ASSUME NEW u \in Workers, pc'[u] \in PastGate, Atomic(u)'
             PROVE  gate'[att'[u].inst] = u
  BY DEF GateHeld, Inst
<1>0. pc'[u] # "idle" /\ ~Receive(u)
  BY DEF PastGate, Receive, Goto, TypeInv, TypeOK
<1>1. /\ pc[u] # "idle" /\ att[u] \in Attempts /\ Atomic(u)
      /\ att'[u].inst = Inst(u) /\ Inst(u) \in Instances
      /\ (pc'[u] = pc[u] /\ att'[u] = att[u]) \/ WorkerStep(u)
  BY <1>0, GoesOnWorking, Serves DEF Atomic, Class, Inst
<1>2. CASE gate[Inst(u)] = u
  <2>1. ~Crash(Inst(u))
    <3>1. u \in Busy(Inst(u))
      BY <1>1, NoneAssumption DEF Busy, Inst
    <3> QED BY <1>0, <3>1 DEF Crash
  <2>2. u # None
    BY NoneAssumption
  <2> QED BY <1>0, <1>1, <1>2, <2>1, <2>2, GateSteps
<1>3. CASE gate[Inst(u)] # u
  <2>1. pc[u] \notin PastGate
    BY <1>1, <1>3 DEF GateHeld
  <2>2. WorkerStep(u) /\ pc[u] \in {"probe", "unconfirm", "gate", "run", "retain"}
    BY <1>1, <2>1 DEF PastGate, TypeInv, TypeOK, Steps
  <2>3. pc[u] \in {"probe", "unconfirm", "gate"}
    BY <1>1, <2>2, Serves DEF Fits, Atomic, Class
  <2>4. ASSUME NEW step, Goto(u, step) PROVE step \in PastGate
    BY <2>4 DEF Goto, TypeInv, TypeOK
  <2>5. AfterProbe(u) \notin PastGate
    BY <1>1, <1>3 DEF AfterProbe, PastGate
  <2>6. AcquireGate(u)
    BY <1>0, <2>2, <2>3, <2>4, <2>5
       DEF WorkerStep, Probe, Enter, Reserve, Wait, Core, External, Settle,
           ProbeAnswers, ProbeSupersedes, DropConfirmation, ProbeFindsNothing,
           GatePoisoned, Prepare, PreparationFails, ReserveFresh,
           ReserveAnswers, ReserveJoins, ReserveTakesOver, ReserveFails,
           Reserving, WaitAnswers, WaitReleased, WaitTimesOut, CoreBegins,
           CoreConflicts, CoreReplays, CoreFails, ExecCommits, ExecRefuses,
           Finalizes, FinalizeFails, Runs, Retains, Completes, CompleteFails,
           Abandons, AbandonFails, PruneCanonical, Publishes, Reply, PastGate
  <2> QED BY <1>1, <2>6 DEF AcquireGate, TypeInv, TypeOK
<1> QED BY <1>2, <1>3

LEMMA BusyStayLive ==
  ASSUME TypeInv, BusyLive, [Next]_vars
  PROVE  BusyLive'
<1> SUFFICES ASSUME NEW u \in Workers, pc'[u] # "idle"
             PROVE  status'[att'[u].inst] \in {"serving", "draining"}
  BY DEF BusyLive, Live, Inst
<1>1. CASE Receive(u)
  <2>1. PICK i \in Instances, id \in Ids, load \in Loads, auth \in BOOLEAN :
          /\ status[i] = "serving"
          /\ att' = [att EXCEPT ![u] =
                       [id |-> id, load |-> load, auth |-> auth, inst |-> i,
                        owns |-> FALSE, resp |-> "none", fresh |-> TRUE]]
    BY <1>1 DEF Receive
  <2>2. att'[u].inst = i /\ status' = status
    BY <1>1, <2>1 DEF Receive, process, TypeInv, TypeOK
  <2> QED BY <2>1, <2>2
<1>2. CASE pc[u] # "idle" /\ att[u] \in Attempts /\ att'[u].inst = Inst(u)
  <2>1. Inst(u) \in Instances /\ Live(Inst(u))
    BY <1>2, Serves DEF BusyLive
  <2>2. ~Crash(Inst(u))
    <3>1. u \in Busy(Inst(u))
      BY <1>2, NoneAssumption DEF Busy, Inst
    <3> QED BY <3>1 DEF Crash
  <2> QED BY <1>2, <2>1, <2>2, LivesOn DEF Live
<1> QED BY <1>1, <1>2, GoesOnWorking DEF Inst

LEMMA OwnersStayStarted ==
  ASSUME TypeInv, BusyLive, OwnersStarted, [Next]_vars
  PROVE  OwnersStarted'
<1> SUFFICES ASSUME NEW id \in Ids, runtime'[id] # None,
                    runtime'[id].owner \in Instances
             PROVE  status'[runtime'[id].owner] # "off"
  BY DEF OwnersStarted
<1>1. CASE runtime[id] # None /\ runtime'[id].owner = runtime[id].owner
  BY <1>1, LivesOn DEF OwnersStarted
<1>2. CASE RowReserved(id)
  <2>1. PICK w \in Workers : /\ pc[w] # "idle"
                             /\ runtime'[id].owner = Inst(w)
    BY <1>2 DEF RowReserved, ReserveFresh, Reserving
  <2> QED BY <2>1, LivesOn DEF BusyLive, Live
<1> QED BY <1>1, <1>2, RowSteps
        DEF RowSettled, RowAged, RowRemoved, Kept, Unresolved, Settled

\* Its owner settles a reservation, releases it, or leaves it behind; else it
\* goes on working.
LEMMA OwnerGoesOn ==
  ASSUME TypeInv, OnceInv, [Next]_vars, NEW id \in Ids, NEW w \in Workers,
         OwnerOf(w, id), Unresolved(runtime[id]), runtime'[id] = runtime[id],
         id \notin leaked', ~Crash(runtime[id].owner)
  PROVE  OwnerOf(w, id)'
<1>1. /\ pc[w] \in Active /\ pc[w] # "idle" /\ att[w].owns
      /\ Id(w) = id /\ Inst(w) = runtime[id].owner
      /\ att[w].load = runtime[id].load /\ att[w] \in Attempts
      /\ Fits(pc[w], att[w])
  BY Serves DEF OwnerOf, Active
<1>2. ASSUME pc'[w] \in Active, att'[w].id = att[w].id,
             att'[w].load = att[w].load, att'[w].inst = att[w].inst,
             att'[w].owns
      PROVE  OwnerOf(w, id)'
  BY <1>1, <1>2 DEF OwnerOf, Id, Inst
<1>3. ASSUME NEW step \in Active, Goto(w, step), att' = att
      PROVE  OwnerOf(w, id)'
  BY <1>1, <1>2, <1>3 DEF Goto, TypeInv, TypeOK
<1>4. ASSUME NEW step \in Active, NEW resp, GotoWith(w, step, resp)
      PROVE  OwnerOf(w, id)'
  <2>1. att'[w] = [att[w] EXCEPT !.resp = resp] /\ pc'[w] = step
    BY <1>1, <1>4 DEF GotoWith, Goto, TypeInv, TypeOK
  <2> QED BY <1>1, <1>2, <2>1 DEF Attempts
<1>5. CASE pc'[w] = pc[w] /\ att'[w] = att[w]
  BY <1>1, <1>2, <1>5
<1>6. CASE Receive(w)
  BY <1>1, <1>6, NoneAssumption DEF Receive
<1>7. CASE \E i \in Instances : Crash(i) /\ w \in Busy(i)
  BY <1>1, <1>7 DEF Busy, Inst
<1>8. CASE Panics(w)
  BY <1>1, <1>8 DEF Panics
<1>9. CASE Core(w)
  <2>1. CASE CoreReplays(w)
    <3>1. att'[w] = [att[w] EXCEPT !.resp = "ok", !.fresh = FALSE]
          /\ pc'[w] = "finalize"
      BY <1>1, <2>1 DEF CoreReplays, Goto, TypeInv, TypeOK
    <3> QED BY <1>1, <1>2, <3>1 DEF Attempts, Active
  <2>2. Release(w) \in Active
    BY <1>1 DEF Release, Active
  <2>3. CASE CoreBegins(w) \/ Finalizes(w)
    BY <1>3, <2>3 DEF CoreBegins, Finalizes, Active
  <2>4. CASE CoreConflicts(w) \/ CoreFails(w) \/ FinalizeFails(w)
    BY <1>4, <2>2, <2>4 DEF CoreConflicts, CoreFails, FinalizeFails
  <2>5. CASE ExecCommits(w) \/ ExecRefuses(w)
    BY <1>4, <2>5 DEF ExecCommits, ExecRefuses, Active
  <2> QED BY <1>9, <2>1, <2>3, <2>4, <2>5 DEF Core
<1>10. CASE External(w)
  <2>1. CASE Runs(w)
    <3>1. PICK resp : GotoWith(w, AfterRun(w, resp), resp)
      BY <2>1 DEF Runs
    <3>2. AfterRun(w, resp) \in Active
      BY DEF AfterRun, Active
    <3> QED BY <1>4, <3>1, <3>2
  <2>2. CASE Retains(w)
    BY <1>3, <1>4, <2>2 DEF Retains, Active
  <2> QED BY <1>10, <2>1, <2>2 DEF External
<1>11. CASE Settle(w)
  <2>1. pc[w] \in {"complete", "abandon"}
    BY <1>1, <1>11
       DEF Settle, Completes, CompleteFails, Abandons, AbandonFails,
           PruneCanonical, Publishes, Active
  <2>2. ~Completes(w)
    <3>1. ASSUME Completes(w) PROVE StoredResponse(w) = "none"
      BY <1>1, <3>1, CompletedRow DEF Unresolved, Row
    <3>2. pc[w] = "complete" => StoredResponse(w) # "none"
      BY <1>1 DEF StoredResponse, Fits, Class
    <3> QED BY <3>1, <3>2 DEF Completes
  <2>3. CASE CompleteFails(w)
    <3>1. Atomic(w)
      BY <1>1, <2>3 DEF CompleteFails
    <3> QED BY <1>1, <1>3, <2>3, <3>1 DEF CompleteFails, Active
  <2>4. ~Abandons(w)
    BY <1>1 DEF Abandons, Unresolved, TypeInv, TypeOK
  <2>5. ~AbandonFails(w)
    <3>1. Abandonable(w)
      BY <1>1 DEF Abandonable, Completable, SameLoad, Unresolved, Row
    <3> QED BY <1>1, <3>1 DEF AbandonFails
  <2> QED BY <1>11, <2>1, <2>2, <2>3, <2>4, <2>5
          DEF Settle, PruneCanonical, Publishes
<1>12. ~Probe(w) /\ ~Enter(w) /\ ~Reserve(w) /\ ~Wait(w)
  BY <1>1
     DEF Probe, Enter, Reserve, Wait, ProbeAnswers, ProbeSupersedes,
         DropConfirmation, ProbeFindsNothing, AcquireGate, GatePoisoned,
         Prepare, PreparationFails, ReserveFresh, ReserveAnswers,
         ReserveJoins, ReserveTakesOver, ReserveFails, Reserving, WaitAnswers,
         WaitReleased, WaitTimesOut, Active
<1> QED BY <1>5, <1>6, <1>7, <1>8, <1>9, <1>10, <1>11, <1>12, WorkerMoves
        DEF WorkerStep
\* A reservation stops being left behind when its row is settled or removed.
LEMMA LeakedSteps ==
  ASSUME TypeInv, [Next]_vars, NEW id \in Ids, id \in leaked,
         id \notin leaked'
  PROVE  ~Unresolved(runtime'[id])
<1>1. ASSUME NEW w \in Workers, Completes(w) \/ Abandons(w)
      PROVE  ~Unresolved(runtime'[id])
  <2>1. id = Id(w)
    BY <1>1 DEF Completes, Abandons
  <2>2. CASE Completes(w)
    <3>1. StoredResponse(w) # "none"
      BY <2>2, Serves DEF Completes, StoredResponse, Fits, Class
    <3> QED BY <2>1, <2>2, <3>1, CompletedRow DEF Unresolved
  <2>3. CASE Abandons(w)
    BY <2>1, <2>3 DEF Abandons, Unresolved, TypeInv, TypeOK
  <2> QED BY <1>1, <2>2, <2>3
<1>2. \E w \in Workers : Completes(w) \/ Abandons(w)
  <2>1. ASSUME NEW w \in Workers, Receive(w) \/ WorkerStep(w) \/ Panics(w),
               ~Completes(w), ~Abandons(w)
        PROVE  leaked \subseteq leaked'
    BY <2>1
       DEF WorkerStep, Probe, Enter, Reserve, Wait, Core, External, Settle,
           ProbeAnswers, ProbeSupersedes, DropConfirmation, ProbeFindsNothing,
           AcquireGate, GatePoisoned, Prepare, PreparationFails, ReserveFresh,
           ReserveAnswers, ReserveJoins, ReserveTakesOver, ReserveFails,
           WaitAnswers, WaitReleased, WaitTimesOut, CoreBegins, CoreConflicts,
           CoreReplays, CoreFails, ExecCommits, ExecRefuses, Finalizes,
           FinalizeFails, Runs, Retains, CompleteFails, AbandonFails,
           PruneCanonical, Publishes, Panics, Receive, history
  <2>2. ASSUME ~\E w \in Workers : Receive(w) \/ WorkerStep(w) \/ Panics(w)
        PROVE  leaked' = leaked
    BY <2>2 DEF Next, Crash, Shutdown, Start, ReplayExpires, Age, vars, history
  <2> QED BY <2>1, <2>2
<1> QED BY <1>1, <1>2

LEMMA OwnersStayActive ==
  ASSUME TypeInv, OnceInv, BusyLive, OwnersStarted, OwnerActive, [Next]_vars
  PROVE  OwnerActive'
<1> SUFFICES ASSUME NEW id \in Ids, id \notin leaked', Unresolved(runtime'[id]),
                    runtime'[id].owner \in Instances,
                    status'[runtime'[id].owner] \in {"serving", "draining"}
             PROVE  \E w \in Workers : OwnerOf(w, id)'
  BY DEF OwnerActive, Unresolved, Live
<1>1. CASE RowReserved(id)
  <2>1. PICK w \in Workers : /\ ReserveFresh(w) /\ Id(w) = id
                             /\ runtime'[id].load = att[w].load
                             /\ runtime'[id].owner = Inst(w)
    BY <1>1 DEF RowReserved
  <2>2. att[w] \in Attempts
    BY <2>1, Serves DEF ReserveFresh, Reserving
  <2>3. /\ att'[w] = [att[w] EXCEPT !.owns = TRUE]
        /\ pc'[w] \in {"core", "run"}
    BY <2>1, <2>2 DEF ReserveFresh, Goto, TypeInv, TypeOK
  <2>4. OwnerOf(w, id)'
    BY <2>1, <2>2, <2>3 DEF OwnerOf, Active, Id, Inst, Attempts
  <2> QED BY <2>4
<1>2. CASE runtime'[id] = runtime[id]
  <2>1. id \notin leaked
    BY LeakedSteps
  <2>2. status[runtime[id].owner] # "off"
    BY <1>2 DEF OwnersStarted, Unresolved
  <2>3. Live(runtime[id].owner)
    BY <1>2, <2>2, LivesOn DEF Live
  <2>4. PICK w \in Workers : OwnerOf(w, id)
    BY <1>2, <2>1, <2>3 DEF OwnerActive
  <2>5. ~Crash(runtime[id].owner)
    BY <1>2 DEF Crash, Live, TypeInv, TypeOK
  <2> QED BY <1>2, <2>4, <2>5, OwnerGoesOn
<1>3. ~RowSettled(id)
  <2>1. ASSUME NEW w \in Workers, Completes(w) PROVE StoredResponse(w) # "none"
    BY <2>1, Serves DEF Completes, StoredResponse, Fits, Class
  <2> QED BY <2>1 DEF RowSettled, Unresolved
<1>4. ~RowAged(id) /\ ~RowRemoved(id)
  BY DEF RowAged, RowRemoved, Settled, Unresolved
<1> QED BY <1>1, <1>2, <1>3, <1>4, RowSteps

GateInv == /\ GateHeld /\ BusyLive /\ OwnersStarted /\ OwnerActive

LEMMA GateHolds == Spec => [](TypeInv /\ OnceInv /\ AnswersInv /\ GateInv)
<1>1. Init => GateInv
  BY ConstantsAssumption
     DEF Init, GateInv, GateHeld, BusyLive, OwnersStarted, OwnerActive,
         LegacyRow, PastGate, Instances, Unresolved
<1>2. TypeInv /\ OnceInv /\ GateInv /\ [Next]_vars => GateInv'
  BY GateStaysHeld, BusyStayLive, OwnersStayStarted, OwnersStayActive
     DEF GateInv
<1> QED BY <1>1, <1>2, OnceHolds, AnswersHold, PTL DEF Spec

\* Every unresolved reservation of a serving daemon has a worker that will
\* settle or release it, or a failed call or a panic left it behind: no path
\* through the dispatcher forgets a reservation.
THEOREM NoReservationForgotten == Spec => []ReservationHasOwner
<1>1. TypeInv /\ OwnerActive => ReservationHasOwner
  <2> SUFFICES ASSUME TypeInv, OwnerActive, NEW id \in Ids \ leaked,
                      Unresolved(runtime[id]),
                      runtime[id].owner \in Instances,
                      status[runtime[id].owner] = "serving"
               PROVE  \E w \in Busy(runtime[id].owner) :
                        att[w].owns /\ Id(w) = id /\ SameLoad(w, runtime[id])
    BY DEF ReservationHasOwner
  <2>1. PICK w \in Workers : OwnerOf(w, id)
    BY DEF OwnerActive, Live
  <2>2. att[w] # None
    BY <2>1, Serves, NoneAssumption DEF OwnerOf, Active
  <2> QED BY <2>1, <2>2 DEF OwnerOf, Busy, Inst, SameLoad, Unresolved
<1> QED BY <1>1, GateHolds, PTL DEF GateInv

-----------------------------------------------------------------------------
(* The revision that watchers follow.                                      *)

Ending == {"finalize", "complete", "abandon", "prune", "publish"}

\* Only a replayed commit is not fresh, and it never executes again.
FreshUntilEnd ==
  \A w \in Workers : pc[w] \notin Ending \union {"idle"} => att[w].fresh

\* A daemon with a reported write since it last advanced the revision has a
\* worker that will advance it, or its gate was poisoned before that.
WillTell(w, i) == pc[w] \in Ending /\ Inst(w) = i /\ Advances(w)
Reported(i) == <<i, "reported">> \in behind
BehindWitness ==
  \A i \in Instances :
    Reported(i) => i \in poisoned \/ \E w \in Workers : WillTell(w, i)

LEMMA FreshStays ==
  ASSUME TypeInv, FreshUntilEnd, [Next]_vars
  PROVE  FreshUntilEnd'
<1> SUFFICES ASSUME NEW u \in Workers, pc'[u] \notin Ending \union {"idle"}
             PROVE  att'[u].fresh
  BY DEF FreshUntilEnd
<1>1. CASE Receive(u)
  BY <1>1 DEF Receive, TypeInv, TypeOK
<1>2. CASE pc[u] \notin Ending \union {"idle"} /\ WorkerStep(u)
  <2>1. att[u] \in Attempts /\ att[u].fresh
    BY <1>2, Serves DEF FreshUntilEnd
  <2>2. ASSUME NEW step, NEW resp, GotoWith(u, step, resp) PROVE att'[u].fresh
    BY <2>1, <2>2 DEF GotoWith, TypeInv, TypeOK, Attempts
  <2>3. ASSUME NEW kind, Reply(u, kind) PROVE FALSE
    BY <2>3 DEF Reply, Goto, TypeInv, TypeOK
  <2>4. CASE Probe(u) \/ Enter(u)
    BY <2>1, <2>3, <2>4
       DEF Probe, Enter, ProbeAnswers, ProbeSupersedes, DropConfirmation,
           ProbeFindsNothing, AcquireGate, GatePoisoned, Prepare,
           PreparationFails
  <2>5. CASE ReserveFresh(u)
    BY <2>1, <2>5 DEF ReserveFresh, TypeInv, TypeOK, Attempts
  <2>6. CASE (Reserve(u) /\ ~ReserveFresh(u)) \/ Wait(u)
    BY <2>1, <2>3, <2>6
       DEF Reserve, Wait, ReserveAnswers, ReserveJoins, ReserveTakesOver,
           ReserveFails, WaitAnswers, WaitReleased, WaitTimesOut
  <2>7. CASE CoreReplays(u)
    BY <2>7 DEF CoreReplays, Goto, Ending, TypeInv, TypeOK
  <2>8. CASE Core(u) /\ ~CoreReplays(u)
    BY <2>1, <2>2, <2>8
       DEF Core, CoreBegins, CoreConflicts, CoreFails, ExecCommits,
           ExecRefuses, Finalizes, FinalizeFails
  <2>9. CASE External(u)
    BY <2>1, <2>2, <2>9 DEF External, Runs, Retains
  <2>10. ~Settle(u)
    BY <1>2 DEF Settle, Completes, CompleteFails, Abandons, AbandonFails,
                PruneCanonical, Publishes, Ending
  <2> QED BY <1>2, <2>4, <2>5, <2>6, <2>7, <2>8, <2>9, <2>10 DEF WorkerStep
<1>3. CASE pc[u] \in Ending /\ WorkerStep(u)
  <2>1. /\ Release(u) \in Ending /\ AfterAbandon(u) \in Ending
        /\ pc'[u] \notin Ending
    BY DEF Release, AfterAbandon, Ending
  <2>2. ASSUME NEW step, Goto(u, step) PROVE pc'[u] = step
    BY <2>2 DEF Goto, TypeInv, TypeOK
  <2> QED BY <1>3, <2>1, <2>2
       DEF WorkerStep, Probe, Enter, Reserve, Wait, Core, External, Settle,
           ProbeAnswers, ProbeSupersedes, DropConfirmation, ProbeFindsNothing,
           AcquireGate, GatePoisoned, Prepare, PreparationFails, ReserveFresh,
           ReserveAnswers, ReserveJoins, ReserveTakesOver, ReserveFails,
           Reserving, WaitAnswers, WaitReleased, WaitTimesOut, CoreBegins,
           CoreConflicts, CoreReplays, CoreFails, ExecCommits, ExecRefuses,
           Finalizes, FinalizeFails, Runs, Retains, Completes, CompleteFails,
           Abandons, AbandonFails, PruneCanonical, Publishes, Reply, GotoWith,
           Ending
<1>4. CASE pc'[u] = pc[u] /\ att'[u] = att[u]
  BY <1>4 DEF FreshUntilEnd
<1> QED BY <1>1, <1>2, <1>3, <1>4, GoesOnWorking

\* A worker that has to advance the revision goes on until it does.
LEMMA TellerGoesOn ==
  ASSUME TypeInv, GateHeld, [Next]_vars, NEW w \in Workers,
         NEW i \in Instances, Reported(i)', WillTell(w, i)
  PROVE  WillTell(w, i)' \/ i \in poisoned'
<1>1. /\ pc[w] \in Ending /\ pc[w] # "idle" /\ Inst(w) = i /\ Advances(w)
      /\ att[w] \in Attempts /\ Fits(pc[w], att[w]) /\ i \in Instances
  BY Serves DEF WillTell, Ending
<1>2. ASSUME pc'[w] \in Ending, att'[w].inst = att[w].inst,
             att'[w].load = att[w].load, att'[w].fresh = att[w].fresh,
             att'[w].resp \in {"ok", "unfinished", "unsure"}
      PROVE  WillTell(w, i)'
  BY <1>1, <1>2 DEF WillTell, Advances, Class, Inst
<1>3. ASSUME NEW step \in Ending, Goto(w, step), att' = att
      PROVE  WillTell(w, i)'
  BY <1>1, <1>2, <1>3 DEF Goto, Advances, TypeInv, TypeOK
<1>4. ASSUME NEW step \in Ending, NEW resp \in {"unfinished", "unsure"},
             GotoWith(w, step, resp)
      PROVE  WillTell(w, i)'
  <2>1. att'[w] = [att[w] EXCEPT !.resp = resp] /\ pc'[w] = step
    BY <1>1, <1>4 DEF GotoWith, Goto, TypeInv, TypeOK
  <2> QED BY <1>1, <1>2, <2>1 DEF Attempts
<1>5. Release(w) \in Ending /\ AfterAbandon(w) \in Ending
  BY DEF Release, AfterAbandon, Ending
<1>6. CASE pc'[w] = pc[w] /\ att'[w] = att[w]
  BY <1>1, <1>2, <1>6 DEF Advances
<1>7. CASE Receive(w)
  BY <1>1, <1>7, NoneAssumption DEF Receive
<1>8. CASE \E j \in Instances : Crash(j) /\ w \in Busy(j)
  BY <1>1, <1>8 DEF Crash, Told, Reported, Writes, Busy, Inst
<1>9. CASE Panics(w)
  <2>1. pc[w] = "finalize"
    BY <1>1, <1>9 DEF Panics, Ending
  <2>2. gate[i] = w
    BY <1>1, <2>1 DEF GateHeld, PastGate, Fits, Atomic, Class
  <2> QED BY <1>1, <1>9, <2>2 DEF Panics
<1>10. CASE Core(w)
  <2>1. Finalizes(w) \/ FinalizeFails(w)
    BY <1>1, <1>10
       DEF Core, CoreBegins, CoreConflicts, CoreReplays, CoreFails,
           ExecCommits, ExecRefuses, Ending
  <2> QED BY <1>3, <1>4, <1>5, <2>1 DEF Finalizes, FinalizeFails, Ending
<1>11. CASE Settle(w)
  <2>1. CASE Completes(w) \/ AbandonFails(w) \/ PruneCanonical(w)
    BY <1>3, <1>5, <2>1 DEF Completes, AbandonFails, PruneCanonical, Ending
  <2>2. CASE CompleteFails(w)
    BY <1>3, <1>4, <2>2 DEF CompleteFails, Ending
  <2>3. CASE Abandons(w)
    <3>1. att'[w] = [att[w] EXCEPT !.owns = FALSE]
          /\ pc'[w] = AfterAbandon(w)
      BY <1>1, <2>3 DEF Abandons, Goto, TypeInv, TypeOK
    <3> QED BY <1>1, <1>2, <1>5, <3>1 DEF Attempts, Advances
  <2>4. ~Publishes(w)
    BY <1>1 DEF Publishes, Told, Reported, Writes
  <2> QED BY <1>11, <2>1, <2>2, <2>3, <2>4 DEF Settle
<1>12. ~Probe(w) /\ ~Enter(w) /\ ~Reserve(w) /\ ~Wait(w) /\ ~External(w)
  BY <1>1
     DEF Probe, Enter, Reserve, Wait, External, ProbeAnswers, ProbeSupersedes,
         DropConfirmation, ProbeFindsNothing, AcquireGate, GatePoisoned,
         Prepare, PreparationFails, ReserveFresh, ReserveAnswers,
         ReserveJoins, ReserveTakesOver, ReserveFails, Reserving, WaitAnswers,
         WaitReleased, WaitTimesOut, Runs, Retains, Ending
<1> QED BY <1>6, <1>7, <1>8, <1>9, <1>10, <1>11, <1>12, WorkerMoves
        DEF WorkerStep

\* A daemon falls behind by a commit or a successful external Write, and its
\* gate stays poisoned until it dies.
LEMMA BehindSteps ==
  ASSUME TypeInv, [Next]_vars, NEW i \in Instances, Reported(i)'
  PROVE  /\ i \in poisoned => i \in poisoned'
         /\ \/ Reported(i)
            \/ \E w \in Workers :
                 /\ Inst(w) = i
                 /\ \/ ExecCommits(w)
                    \/ Runs(w) /\ Class(w) = "external"
                       /\ att[w].load \notin ExecLoads
                       /\ GotoWith(w, AfterRun(w, "ok"), "ok")
<1> DEFINE Result == /\ i \in poisoned => i \in poisoned'
                     /\ \/ Reported(i)
                        \/ \E w \in Workers :
                             /\ Inst(w) = i
                             /\ \/ ExecCommits(w)
                                \/ Runs(w) /\ Class(w) = "external"
                                   /\ att[w].load \notin ExecLoads
                                   /\ GotoWith(w, AfterRun(w, "ok"), "ok")
<1> SUFFICES Result
  OBVIOUS
<1>1. ASSUME NEW w \in Workers, ExecCommits(w) PROVE Result
  BY <1>1 DEF ExecCommits, Reported, process
<1>2. ASSUME NEW w \in Workers, Runs(w) PROVE Result
  <2>1. PICK resp \in {"ok", "refused", "confirm", "busy"}, acted \in BOOLEAN :
          /\ behind' = IF acted /\ Class(w) = "external"
                         THEN behind \union {<<Inst(w), WriteKind(w, resp)>>}
                         ELSE behind
          /\ GotoWith(w, AfterRun(w, resp), resp)
    BY <1>2 DEF Runs
  <2>2. poisoned' = poisoned
    BY <1>2 DEF Runs, process
  <2>3. ASSUME ~Reported(i)
        PROVE  /\ Class(w) = "external" /\ Inst(w) = i
               /\ WriteKind(w, resp) = "reported"
    BY <2>1, <2>3 DEF Reported
  <2>4. WriteKind(w, resp) = "reported"
          => resp = "ok" /\ att[w].load \notin ExecLoads
    BY DEF WriteKind
  <2> QED BY <1>2, <2>1, <2>2, <2>3, <2>4
<1>3. ASSUME poisoned \subseteq poisoned', behind' \subseteq behind
      PROVE  Result
  BY <1>3 DEF Reported
<1>4. ASSUME NEW w \in Workers, Receive(w) \/ WorkerStep(w) \/ Panics(w)
      PROVE  \/ ExecCommits(w) \/ Runs(w)
             \/ poisoned \subseteq poisoned' /\ behind' \subseteq behind
  BY <1>4
     DEF WorkerStep, Probe, Enter, Reserve, Wait, Core, External, Settle,
         ProbeAnswers, ProbeSupersedes, DropConfirmation, ProbeFindsNothing,
         AcquireGate, GatePoisoned, Prepare, PreparationFails, ReserveFresh,
         ReserveAnswers, ReserveJoins, ReserveTakesOver, ReserveFails,
         WaitAnswers, WaitReleased, WaitTimesOut, CoreBegins, CoreConflicts,
         CoreReplays, CoreFails, ExecRefuses, Finalizes, FinalizeFails,
         Retains, Completes, CompleteFails, Abandons, AbandonFails,
         PruneCanonical, Publishes, Told, Panics, Receive, process
<1>5. ASSUME NEW j \in Instances, Crash(j) PROVE Result
  BY <1>5 DEF Crash, Told, Reported, Writes
<1>6. CASE ~\E w \in Workers : Receive(w) \/ WorkerStep(w) \/ Panics(w)
  BY <1>3, <1>5, <1>6
     DEF Next, Shutdown, Start, ReplayExpires, Age, vars, process
<1> HIDE DEF Result
<1> QED BY <1>1, <1>2, <1>3, <1>4, <1>6

LEMMA BehindStaysWitnessed ==
  ASSUME TypeInv, GateHeld, FreshUntilEnd, BehindWitness, [Next]_vars
  PROVE  BehindWitness'
<1> SUFFICES ASSUME NEW i \in Instances, Reported(i)'
             PROVE  i \in poisoned' \/ \E w \in Workers : WillTell(w, i)'
  BY DEF BehindWitness
<1>1. CASE Reported(i)
  BY <1>1, BehindSteps, TellerGoesOn DEF BehindWitness
<1>2. ASSUME NEW w \in Workers, Inst(w) = i, pc[w] \in {"exec", "run"},
             Class(w) # "launch", att[w].load \notin ExecLoads, NEW step \in Ending, GotoWith(w, step, "ok")
      PROVE  WillTell(w, i)'
  <2>1. att[w] \in Attempts /\ att[w].fresh
    BY <1>2, Serves DEF FreshUntilEnd, Ending
  <2>2. att'[w] = [att[w] EXCEPT !.resp = "ok"] /\ pc'[w] = step
    BY <1>2, <2>1 DEF GotoWith, Goto, TypeInv, TypeOK
  <2> QED BY <1>2, <2>1, <2>2 DEF WillTell, Advances, Class, Inst, Attempts
<1>3. ASSUME NEW w \in Workers, Inst(w) = i, ExecCommits(w)
      PROVE  WillTell(w, i)'
  <2>1. /\ pc[w] = "exec" /\ Class(w) # "launch"
        /\ att[w].load \notin ExecLoads
    BY <1>3, Serves, ConstantsAssumption DEF ExecCommits, Fits, Class
  <2> QED BY <1>2, <1>3, <2>1 DEF ExecCommits, Ending
<1>4. ASSUME NEW w \in Workers, Inst(w) = i, Runs(w), Class(w) = "external",
             att[w].load \notin ExecLoads,
             GotoWith(w, AfterRun(w, "ok"), "ok")
      PROVE  WillTell(w, i)'
  <2>1. AfterRun(w, "ok") = "complete"
    BY <1>4 DEF AfterRun
  <2> QED BY <1>2, <1>4, <2>1 DEF Runs, Ending
<1> QED BY <1>1, <1>3, <1>4, BehindSteps

\* Once the requests of a daemon that may write are served, its watchers have
\* been told of every write whose response reports one: between an atomic
\* commit and the advance of the revision the gate is never given up, and a
\* successful external Write command ends in that advance.
THEOREM WatchersAreTold == Spec => []RevisionCoversWrites
<1>1. Init => FreshUntilEnd /\ BehindWitness
  BY DEF Init, FreshUntilEnd, BehindWitness, Reported
<1>2. TypeInv /\ GateHeld /\ FreshUntilEnd /\ BehindWitness /\ [Next]_vars
        => FreshUntilEnd' /\ BehindWitness'
  BY FreshStays, BehindStaysWitnessed
<1>3. TypeInv /\ GateHeld /\ BehindWitness => RevisionCoversWrites
  <2> SUFFICES ASSUME TypeInv, GateHeld, NEW i \in Instances,
                      Reported(i), NEW w \in Workers, WillTell(w, i)
               PROVE  gate[i] # None \/ \E u \in Busy(i) : ~Atomic(u)
    BY DEF BehindWitness, RevisionCoversWrites, MayStillTell, Reported
  <2>1. pc[w] \in PastGate /\ Inst(w) = i
    BY DEF WillTell, Ending, PastGate
  <2>2. att[w] # None
    BY <2>1, Serves, NoneAssumption DEF PastGate
  <2>3. CASE Atomic(w)
    BY <2>1, <2>3, NoneAssumption DEF GateHeld
  <2>4. CASE ~Atomic(w)
    BY <2>1, <2>2, <2>4 DEF Busy, Inst
  <2> QED BY <2>3, <2>4
<1> QED BY <1>1, <1>2, <1>3, GateHolds, PTL DEF Spec, GateInv
-----------------------------------------------------------------------------
(* Recovery of a request that nobody overtakes.                            *)

\* The steps between the probe under the gate and the end of the reservation.
Deciding == {"prepare", "reserve", "wait", "core", "exec", "finalize",
             "complete", "abandon"}

\* The atomic requests of this id that are past a gate and undecided are all
\* served by one daemon: none of them is left over from a daemon that released
\* its lock while its successor already recovers it.
NotOvertaken(id) ==
  \A u, w \in Workers :
    /\ pc[u] \in Deciding /\ Atomic(u) /\ Id(u) = id
    /\ pc[w] \in Deciding /\ Atomic(w) /\ Id(w) = id
    => Inst(u) = Inst(w)
NobodyIsOvertaken == \A id \in Ids : NotOvertaken(id)

\* From its reservation to its completion, nobody settles or removes the row
\* of an atomic request but its worker.
InCore(w) ==
  /\ pc[w] \in {"core", "exec", "finalize", "complete"} /\ Atomic(w)
  /\ Id(w) \notin bypassed
CoreRow(id) ==
  \A w \in Workers :
    InCore(w) /\ Id(w) = id => Unresolved(Row(w)) /\ SameLoad(w, Row(w))

\* A refused atomic request was not committed, up to its completion ...
RefusalHeld(id) ==
  \A w \in Workers :
    /\ pc[w] = "complete" /\ Atomic(w) /\ Id(w) = id
    /\ att[w].resp \in {"refused", "confirm"}
    => canonical[id] = None

\* ... and not afterwards either.
RefusedRow(id) ==
  /\ id \notin lapsed \union bypassed
  /\ runtime[id] # None /\ IsAtomic(runtime[id].load)
  /\ runtime[id].resp \in {"refused", "confirm"}
  => applied[id][runtime[id].load] = 0

\* A success is stored after its commit was finalized.
FinalizedWorkers ==
  \A w \in Workers :
    pc[w] = "complete" /\ Atomic(w) /\ att[w].resp = "ok" => Id(w) \in finalized
FinalizedRows ==
  \A id \in Ids :
    runtime[id] # None /\ IsAtomic(runtime[id].load) /\ runtime[id].resp = "ok"
      => id \in finalized

RecoveryInv(id) == CoreRow(id) /\ RefusalHeld(id) /\ RefusedRow(id)

\* Then at most one atomic worker is deciding a request.
LEMMA PassesAlone ==
  ASSUME TypeInv, GateInv, NEW id \in Ids, NotOvertaken(id),
         NEW u \in Workers, pc[u] \in Deciding, Atomic(u), Id(u) = id,
         NEW w \in Workers, pc[w] \in Deciding, Atomic(w), Id(w) = id
  PROVE  u = w
<1>1. Inst(u) = Inst(w)
  BY DEF NotOvertaken
<1> QED BY <1>1 DEF GateInv, GateHeld, Deciding, PastGate

\* Who completes or abandons the row of an atomic request is past the gate.
LEMMA RowWorkers ==
  ASSUME TypeInv, NEW u \in Workers, Completes(u) \/ Abandons(u)
  PROVE  /\ pc[u] \in Deciding /\ Id(u) \in Ids
         /\ runtime[Id(u)] # None /\ runtime[Id(u)].load = att[u].load
         /\ pc'[u] \in {"prune", "publish"}
BY Serves DEF Completes, Abandons, Abandonable, Completable, SameLoad, Row,
              Deciding, Goto, AfterAbandon, TypeInv, TypeOK

LEMMA CoreRowStays ==
  ASSUME TypeInv, GateInv, NEW id \in Ids, NotOvertaken(id), CoreRow(id),
         [Next]_vars
  PROVE  CoreRow(id)'
<1> SUFFICES ASSUME NEW w \in Workers, InCore(w)', att'[w].id = id
             PROVE  /\ Unresolved(runtime'[att'[w].id])
                    /\ runtime'[att'[w].id].load = att'[w].load
  BY DEF CoreRow, SameLoad, Unresolved, Row, Id
<1>1. /\ pc[w] # "idle" /\ att[w] \in Attempts /\ Atomic(w)
      /\ att'[w].id = Id(w) /\ att'[w].load = att[w].load /\ Id(w) \in Ids
      /\ (pc'[w] = pc[w] /\ att'[w] = att[w]) \/ WorkerStep(w)
      /\ Id(w) = id
  BY GoesOnWorking, Serves
     DEF InCore, Receive, Goto, TypeInv, TypeOK, Atomic, Class, Id
<1>2. Id(w) \notin bypassed
  BY <1>1, HistoryGrows DEF InCore, Id
<1>3. pc'[w] \in {"core", "exec", "finalize", "complete"}
  BY DEF InCore
<1>4. CASE ReserveFresh(w)
  <2>1. /\ RowReserved(Id(w)) \/ runtime'[Id(w)] = runtime[Id(w)]
        /\ runtime[Id(w)] = None
    BY <1>1, <1>4, RowSteps
       DEF ReserveFresh, Row, RowSettled, RowAged, RowRemoved, Unresolved,
           Settled
  <2> DEFINE row == [load |-> att[w].load, owner |-> Inst(w), old |-> FALSE,
                     class |-> RowClass(att[w].load), resp |-> "none"]
  <2>2. runtime'[Id(w)] = row
    BY <1>1, <1>4 DEF ReserveFresh, TypeInv, TypeOK
  <2>3. runtime'[Id(w)] # None
    <3>1. row \in Rows
      BY <1>1, Serves DEF Rows, RowClass, Instances, Stored
    <3> QED BY <2>2, <3>1, NoneAssumption
  <2> QED BY <1>1, <2>2, <2>3 DEF Unresolved
<1>5. CASE /\ Unresolved(Row(w)) /\ SameLoad(w, Row(w))
           /\ pc[w] \in Deciding
  <2>1. ASSUME NEW u \in Workers, Completes(u) \/ Abandons(u), Id(u) = Id(w)
        PROVE  FALSE
    <3>1. u = w
      <4>1. Atomic(u) /\ pc[u] \in Deciding
        BY <1>1, <1>5, <2>1, RowWorkers DEF SameLoad, Row, Atomic, Class
      <4> QED BY <1>1, <1>5, <2>1, <4>1, PassesAlone
    <3> QED BY <1>3, <2>1, <3>1, RowWorkers
  <2>2. runtime'[Id(w)] = runtime[Id(w)]
    BY <1>1, <1>5, <2>1, RowSteps
       DEF RowReserved, RowSettled, RowAged, RowRemoved, Settled, Unresolved,
           Row
  <2> QED BY <1>1, <1>5, <2>2 DEF SameLoad, Row
<1>6. CASE InCore(w)
  BY <1>1, <1>5, <1>6 DEF CoreRow, InCore, Deciding
<1>7. CASE ~InCore(w) /\ ~ReserveFresh(w)
  <2>1. pc[w] \notin {"core", "exec", "finalize", "complete"} /\ WorkerStep(w)
    BY <1>1, <1>2, <1>3, <1>7 DEF InCore
  <2>2. ASSUME NEW step, Goto(w, step) PROVE pc'[w] = step
    BY <2>2 DEF Goto, TypeInv, TypeOK
  <2>3. AfterProbe(w) \notin {"core", "exec", "finalize", "complete"}
        /\ AfterAbandon(w) \notin {"core", "exec", "finalize", "complete"}
    BY DEF AfterProbe, AfterAbandon
  <2>4. ~Runs(w) /\ ~Retains(w)
    BY <1>1, Serves DEF Runs, Retains, Fits, Atomic, Class
  <2>5. ~ReserveFails(w)
    BY <1>1 DEF InCore, ReserveFails, Id
  <2>6. ReserveTakesOver(w) \/ WaitTimesOut(w)
    BY <1>3, <1>7, <2>1, <2>2, <2>3, <2>4, <2>5
       DEF WorkerStep, Probe, Enter, Reserve, Wait, Core, External, Settle,
           ProbeAnswers, ProbeSupersedes, DropConfirmation, ProbeFindsNothing,
           AcquireGate, GatePoisoned, Prepare, PreparationFails,
           ReserveAnswers, ReserveJoins, WaitAnswers, WaitReleased,
           CoreBegins, CoreConflicts, CoreReplays, CoreFails, ExecCommits,
           ExecRefuses, Finalizes, FinalizeFails, Completes, CompleteFails,
           Abandons, AbandonFails, PruneCanonical, Publishes, Reply
  <2> QED BY <1>5, <2>6
          DEF ReserveTakesOver, WaitTimesOut, Reserving, Deciding
<1> QED BY <1>4, <1>6, <1>7

\* How an atomic worker reaches its completion.
LEMMA ReachesCompletion ==
  ASSUME TypeInv, [Next]_vars, NEW w \in Workers, pc'[w] = "complete",
         Atomic(w)'
  PROVE  /\ pc[w] # "idle" /\ Atomic(w) /\ Id(w) \in Ids
         /\ att'[w].id = Id(w) /\ att'[w].load = att[w].load
         /\ \/ pc[w] = "complete" /\ att'[w] = att[w]
            \/ Finalizes(w) /\ att'[w] = att[w] /\ att[w].resp = "ok"
            \/ ExecRefuses(w) /\ att'[w].resp \in {"refused", "confirm"}
<1>1. /\ pc[w] # "idle" /\ att[w] \in Attempts /\ Atomic(w)
      /\ att'[w].id = Id(w) /\ att'[w].load = att[w].load /\ Id(w) \in Ids
      /\ (pc'[w] = pc[w] /\ att'[w] = att[w]) \/ WorkerStep(w)
  BY GoesOnWorking, Serves
     DEF Receive, Goto, TypeInv, TypeOK, Atomic, Class, Id
<1>2. ASSUME NEW step, Goto(w, step) PROVE step = "complete"
  BY <1>2 DEF Goto, TypeInv, TypeOK
<1>3. ASSUME NEW step, NEW resp, GotoWith(w, step, resp)
      PROVE  att'[w].resp = resp
  BY <1>1, <1>3 DEF GotoWith, TypeInv, TypeOK, Attempts
<1>4. /\ AfterProbe(w) # "complete" /\ AfterAbandon(w) # "complete"
      /\ Release(w) # "complete"
  BY DEF AfterProbe, AfterAbandon, Release
<1>5. ~Runs(w) /\ ~Retains(w)
  BY <1>1, Serves DEF Runs, Retains, Fits, Atomic, Class
<1>6. WorkerStep(w) => Finalizes(w) \/ ExecRefuses(w)
  BY <1>1, <1>2, <1>4, <1>5
     DEF WorkerStep, Probe, Enter, Reserve, Wait, Core, External, Settle,
         ProbeAnswers, ProbeSupersedes, DropConfirmation, ProbeFindsNothing,
         AcquireGate, GatePoisoned, Prepare, PreparationFails, ReserveFresh,
         ReserveAnswers, ReserveJoins, ReserveTakesOver, ReserveFails,
         WaitAnswers, WaitReleased, WaitTimesOut, CoreBegins, CoreConflicts,
         CoreReplays, CoreFails, ExecCommits, FinalizeFails, Completes,
         CompleteFails, Abandons, AbandonFails, PruneCanonical, Publishes,
         Reply, GotoWith
<1>7. Finalizes(w) => att'[w] = att[w] /\ att[w].resp = "ok"
  BY Serves DEF Finalizes, Fits
<1>8. ExecRefuses(w) => att'[w].resp \in {"refused", "confirm"}
  BY <1>3 DEF ExecRefuses
<1> QED BY <1>1, <1>6, <1>7, <1>8

LEMMA RefusalStaysHeld ==
  ASSUME TypeInv, OnceInv, GateInv, NEW id \in Ids, NotOvertaken(id),
         RefusalHeld(id), [Next]_vars
  PROVE  RefusalHeld(id)'
<1> SUFFICES ASSUME NEW w \in Workers, pc'[w] = "complete", Atomic(w)',
                    att'[w].id = id, att'[w].resp \in {"refused", "confirm"}
             PROVE  canonical'[id] = None
  BY DEF RefusalHeld, Id
<1>1. /\ Atomic(w) /\ att'[w].id = Id(w) /\ Id(w) = id
      /\ pc[w] \in {"complete", "exec"} /\ canonical[Id(w)] = None
      /\ ~ExecCommits(w)
  <2>1. ~(att'[w] = att[w] /\ att[w].resp = "ok")
    OBVIOUS
  <2>2. CASE pc[w] = "complete" /\ att'[w] = att[w]
    BY <2>2, ReachesCompletion DEF RefusalHeld, ExecCommits
  <2>3. CASE ExecRefuses(w) /\ att'[w].resp \in {"refused", "confirm"}
    <3>1. pc[w] = "exec" /\ canonical[Id(w)] = None
      BY <2>3 DEF ExecRefuses, OnceInv, ExecAlone
    <3>2. ~ExecCommits(w)
      BY DEF ExecCommits, GotoWith, Goto, TypeInv, TypeOK
    <3> QED BY <3>1, <3>2, ReachesCompletion
  <2> QED BY <2>1, <2>2, <2>3, ReachesCompletion
<1>2. ASSUME NEW u \in Workers, ExecCommits(u), Id(u) = id PROVE FALSE
  <2>1. pc[u] = "exec" /\ Atomic(u)
    BY <1>2, Serves DEF ExecCommits, Fits, Atomic, Class
  <2>2. u = w
    BY <1>1, <1>2, <2>1, PassesAlone DEF Deciding
  <2> QED BY <1>1, <1>2, <2>2
<1> QED BY <1>1, <1>2, CanonicalSteps
        DEF CanonicalCommitted, CanonicalAged, CanonicalForgotten

LEMMA RefusedRowStays ==
  ASSUME TypeInv, OnceInv, GateInv, NEW id \in Ids, CoreRow(id),
         RefusalHeld(id), RefusedRow(id), [Next]_vars
  PROVE  RefusedRow(id)'
<1> SUFFICES ASSUME id \notin lapsed' \union bypassed',
                    runtime'[id] # None, IsAtomic(runtime'[id].load),
                    runtime'[id].resp \in {"refused", "confirm"}
             PROVE  applied'[id][runtime'[id].load] = 0
  BY DEF RefusedRow, IsAtomic
<1>1. id \notin lapsed \union bypassed
  BY HistoryGrows
<1>2. CASE /\ runtime[id] # None /\ runtime'[id].load = runtime[id].load
           /\ runtime'[id].resp = runtime[id].resp
  <2> DEFINE load == runtime[id].load
  <2>1. load \in Loads /\ applied[id][load] = 0
    BY <1>1, <1>2 DEF RefusedRow, TypeInv, TypeOK, Rows
  <2>2. ASSUME NEW w \in Workers, ExecCommits(w) \/ Runs(w), Id(w) = id,
               att[w].load = load
        PROVE  FALSE
    <3>1. ExecCommits(w)
      <4>1. ~Runs(w)
        BY <1>2, <2>2, Serves DEF Runs, Fits, IsAtomic
      <4> QED BY <2>2, <4>1
    <3>2. InCore(w)
      BY <1>1, <2>2, <3>1, Serves DEF ExecCommits, Fits, InCore, Atomic, Class
    <3> QED BY <1>2, <2>2, <3>2 DEF CoreRow, Unresolved, Row
  <2> QED BY <1>2, <2>1, <2>2, AppliedSteps
<1>3. CASE RowSettled(id)
  <2>1. PICK w \in Workers : /\ Completes(w) /\ Id(w) = id
                             /\ runtime[id].load = att[w].load
                             /\ Kept(runtime[id], runtime'[id])
                             /\ runtime'[id].resp = StoredResponse(w)
    BY <1>3 DEF RowSettled
  <2>2. /\ pc[w] = "complete" /\ Atomic(w) /\ att[w].load \in Loads
        /\ att[w].resp \in {"refused", "confirm"}
        /\ runtime'[id].load = att[w].load
    BY <2>1, Serves
       DEF Completes, Kept, IsAtomic, Atomic, Class, StoredResponse
  <2>3. canonical[id] = None
    BY <2>1, <2>2 DEF RefusalHeld
  <2>4. id \notin LegacyIds
    BY <1>1, <2>1, <2>2 DEF OnceInv, LegacyKept, Early
  <2>5. applied[id][att[w].load] = 0
    BY <1>1, <2>2, <2>3, <2>4
       DEF OnceInv, AtomicOnce, IsAtomic, Atomic, Class
  <2>6. applied' = applied
    BY <2>1 DEF Completes
  <2> QED BY <2>2, <2>5, <2>6
<1>4. CASE RowAged(id)
  BY <1>2, <1>4 DEF RowAged, Settled, Kept
<1>5. ~RowReserved(id) /\ ~RowRemoved(id)
  BY DEF RowReserved, RowRemoved
<1> QED BY <1>2, <1>3, <1>4, <1>5, RowSteps

LEMMA FinalizedStays ==
  ASSUME TypeInv, FinalizedWorkers, FinalizedRows, [Next]_vars
  PROVE  FinalizedWorkers' /\ FinalizedRows'
<1>1. FinalizedWorkers'
  <2> SUFFICES ASSUME NEW w \in Workers, pc'[w] = "complete", Atomic(w)',
                      att'[w].resp = "ok"
               PROVE  att'[w].id \in finalized'
    BY DEF FinalizedWorkers, Id
  <2> QED BY ReachesCompletion, HistoryGrows
          DEF FinalizedWorkers, Finalizes
<1>2. FinalizedRows'
  <2> SUFFICES ASSUME NEW id \in Ids, runtime'[id] # None,
                      IsAtomic(runtime'[id].load), runtime'[id].resp = "ok"
               PROVE  id \in finalized'
    BY DEF FinalizedRows, IsAtomic
  <2>1. CASE /\ runtime[id] # None /\ runtime'[id].load = runtime[id].load
             /\ runtime'[id].resp = runtime[id].resp
    BY <2>1, HistoryGrows DEF FinalizedRows
  <2>2. CASE RowSettled(id)
    <3>1. PICK w \in Workers : /\ Completes(w) /\ Id(w) = id
                               /\ runtime[id].load = att[w].load
                               /\ Kept(runtime[id], runtime'[id])
                               /\ runtime'[id].resp = StoredResponse(w)
      BY <2>2 DEF RowSettled
    <3>2. pc[w] = "complete" /\ Atomic(w) /\ att[w].resp = "ok"
      BY <3>1 DEF Completes, Kept, IsAtomic, Atomic, Class, StoredResponse
    <3> QED BY <3>1, <3>2, HistoryGrows DEF FinalizedWorkers
  <2>3. CASE RowAged(id)
    BY <2>1, <2>3 DEF RowAged, Settled, Kept
  <2>4. ~RowReserved(id) /\ ~RowRemoved(id)
    BY DEF RowReserved, RowRemoved
  <2> QED BY <2>1, <2>2, <2>3, <2>4, RowSteps
<1> QED BY <1>1, <1>2

LEMMA FinalizedHolds == Spec => [](FinalizedWorkers /\ FinalizedRows)
<1>1. Init => FinalizedWorkers /\ FinalizedRows
  BY DEF Init, FinalizedWorkers, FinalizedRows, LegacyRow
<1>2. TypeInv /\ FinalizedWorkers /\ FinalizedRows /\ [Next]_vars
        => FinalizedWorkers' /\ FinalizedRows'
  BY FinalizedStays
<1> QED BY <1>1, <1>2, OnceHolds, PTL DEF Spec

LEMMA RecoveryStarts ==
  ASSUME NEW id \in Ids
  PROVE  Init => RecoveryInv(id)
BY DEF Init, RecoveryInv, CoreRow, InCore, RefusalHeld, RefusedRow, LegacyRow

LEMMA RecoveryStays ==
  ASSUME TypeInv, OnceInv, GateInv, NEW id \in Ids, NotOvertaken(id),
         RecoveryInv(id), [Next]_vars
  PROVE  RecoveryInv(id)'
BY CoreRowStays, RefusalStaysHeld, RefusedRowStays DEF RecoveryInv

LEMMA RecoveryHolds ==
  ASSUME NEW id \in Ids
  PROVE  Spec /\ []NotOvertaken(id) => []RecoveryInv(id)
<1>1. Init => RecoveryInv(id)
  BY RecoveryStarts
<1>2. TypeInv /\ OnceInv /\ GateInv /\ NotOvertaken(id) /\ RecoveryInv(id)
        /\ [Next]_vars
        => RecoveryInv(id)'
  BY RecoveryStays
<1> QED BY <1>1, <1>2, GateHolds, PTL DEF Spec

LEMMA EveryRecoveryHolds ==
  Spec /\ []NobodyIsOvertaken => [](\A id \in Ids : RecoveryInv(id))
<1>1. Init => \A id \in Ids : RecoveryInv(id)
  BY RecoveryStarts
<1>2. TypeInv /\ OnceInv /\ GateInv /\ NobodyIsOvertaken
        /\ (\A id \in Ids : RecoveryInv(id)) /\ [Next]_vars
        => (\A id \in Ids : RecoveryInv(id))'
  BY RecoveryStays DEF NobodyIsOvertaken
<1> QED BY <1>1, <1>2, GateHolds, PTL DEF Spec

\* StoredOutcomesAreTrue and AbsenceIsProof, of the requests of one id.
StoredOutcomeIsTrue(id) ==
  runtime[id] # None /\ runtime[id].class = "atomic" =>
    /\ runtime[id].resp = "ok"
       => id \in finalized /\ applied[id][runtime[id].load] >= 1
    /\ runtime[id].resp \in {"refused", "confirm"} /\ id \notin lapsed \union bypassed
       => applied[id][runtime[id].load] = 0
AbsenceIsProofOf(id) ==
  \A w \in Workers :
    /\ pc[w] = "complete" /\ Atomic(w) /\ ~att[w].owns /\ Id(w) = id
    /\ att[w].resp \in {"refused", "confirm"} /\ id \notin bypassed
    => canonical[id] = None

LEMMA StoredThen ==
  ASSUME TypeInv, OnceInv, AnswersInv, FinalizedRows, NEW id \in Ids,
         RecoveryInv(id)
  PROVE  StoredOutcomeIsTrue(id)
<1> SUFFICES ASSUME runtime[id] # None, runtime[id].class = "atomic"
             PROVE  /\ runtime[id].resp = "ok"
                       => /\ id \in finalized
                          /\ applied[id][runtime[id].load] >= 1
                    /\ /\ runtime[id].resp \in {"refused", "confirm"}
                       /\ id \notin lapsed \union bypassed
                       => applied[id][runtime[id].load] = 0
  BY DEF StoredOutcomeIsTrue
<1>1. IsAtomic(runtime[id].load)
  BY DEF OnceInv, RowsOK
<1> QED BY <1>1 DEF RecoveryInv, RefusedRow, FinalizedRows, AnswersInv,
                    RowsAreTrue, Happened

\* The stored atomic outcome of a request is true and stays so, whatever
\* becomes of other requests, unless a daemon's successor recovers it while its
\* first worker is still deciding it: a stored success was committed and
\* finalized, a stored refusal is the last word on a command never committed.
THEOREM StoredOutcomeTrue ==
  ASSUME NEW id \in Ids
  PROVE  Spec /\ []NotOvertaken(id) => []StoredOutcomeIsTrue(id)
<1>1. TypeInv /\ OnceInv /\ AnswersInv /\ FinalizedRows /\ RecoveryInv(id)
        => StoredOutcomeIsTrue(id)
  BY StoredThen
<1> QED BY <1>1, GateHolds, RecoveryHolds, FinalizedHolds, PTL

\* Hence all stored atomic outcomes are true and stay so in every behaviour,
\* of daemons that drain too, in which no request is overtaken like that.
THEOREM StoredOutcomesTrue ==
  Spec /\ []NobodyIsOvertaken => []StoredOutcomesAreTrue
<1>1. TypeInv /\ OnceInv /\ AnswersInv /\ FinalizedRows
        /\ (\A id \in Ids : RecoveryInv(id))
        => StoredOutcomesAreTrue
  <2> SUFFICES ASSUME TypeInv, OnceInv, AnswersInv, FinalizedRows,
                      \A id \in Ids : RecoveryInv(id)
               PROVE  \A id \in Ids : StoredOutcomeIsTrue(id)
    BY DEF StoredOutcomesAreTrue, StoredOutcomeIsTrue
  <2> QED BY StoredThen
<1> QED BY <1>1, GateHolds, EveryRecoveryHolds, FinalizedHolds, PTL

\* The absence of a canonical row proves of every request that its interrupted
\* attempt never committed, unless that attempt is still deciding in a daemon
\* that released its lock: otherwise nobody can commit between the recovery's
\* refusal and its completion.
THEOREM AbsenceProvesOne ==
  ASSUME NEW id \in Ids
  PROVE  Spec /\ []NotOvertaken(id) => []AbsenceIsProofOf(id)
<1>1. RecoveryInv(id) => AbsenceIsProofOf(id)
  BY DEF RecoveryInv, RefusalHeld, AbsenceIsProofOf
<1> QED BY <1>1, RecoveryHolds, PTL

\* Hence absence is proof in every behaviour, of daemons that drain too, in
\* which no request is overtaken like that.
THEOREM AbsenceProves == Spec /\ []NobodyIsOvertaken => []AbsenceIsProof
<1>1. TypeInv /\ (\A id \in Ids : RecoveryInv(id)) => AbsenceIsProof
  <2> SUFFICES ASSUME TypeInv, \A id \in Ids : RecoveryInv(id),
                      NEW w \in Workers, pc[w] = "complete", Atomic(w),
                      att[w].resp \in {"refused", "confirm"}
               PROVE  canonical[Id(w)] = None
    BY DEF AbsenceIsProof
  <2> QED BY Serves DEF RecoveryInv, RefusalHeld
<1> QED BY <1>1, GateHolds, EveryRecoveryHolds, PTL
-----------------------------------------------------------------------------
(* Approvals, while nothing fails.                                         *)

\* Without a failed call or a panic nothing is left behind.
NoLeaks == faults = 0 => leaked = {} /\ bypassed = {}

\* An atomic request never waits for another: it holds the gate alone.
NoAtomicWaits(id) ==
  \A w \in Workers : pc[w] = "wait" /\ Id(w) = id => ~Atomic(w)

\* An approved atomic request that goes on to reserve saw no confirmation.
FreshApproval(id) ==
  \A w \in Workers :
    /\ pc[w] \in {"prepare", "reserve"} /\ Id(w) = id
    /\ Atomic(w) /\ att[w].auth
    => ~(SameLoad(w, Row(w)) /\ Row(w).resp = "confirm")

\* ApprovalIsHeard, of the requests of one id.
ApprovalIsHeardOf(id) ==
  faults = 0 => \A t \in told : t.id = id => t.kind # "swallowed"

ApprovalInv(id) ==
  /\ NoLeaks
  /\ faults = 0
       => NoAtomicWaits(id) /\ FreshApproval(id) /\ ApprovalIsHeardOf(id)

LEMMA FaultSteps ==
  ASSUME TypeInv, OnceInv, [Next]_vars, faults' = 0
  PROVE  /\ faults = 0
         /\ leaked' \subseteq leaked /\ bypassed' \subseteq bypassed
<1> DEFINE Result == /\ faults = 0
                     /\ leaked' \subseteq leaked /\ bypassed' \subseteq bypassed
<1> SUFFICES Result
  OBVIOUS
<1>1. ~Fail
  BY DEF Fail, TypeInv, TypeOK
<1>2. ASSUME NEW w \in Workers, Probe(w) \/ Enter(w) \/ Receive(w)
      PROVE  Result
  BY <1>1, <1>2
     DEF Probe, Enter, Receive, ProbeAnswers, ProbeSupersedes,
         DropConfirmation, ProbeFindsNothing, AcquireGate, GatePoisoned,
         Prepare, PreparationFails, history, bounds
<1>3. ASSUME NEW w \in Workers, Reserve(w) \/ Wait(w) PROVE Result
  BY <1>1, <1>3
     DEF Reserve, Wait, ReserveFresh, ReserveAnswers, ReserveJoins,
         ReserveTakesOver, ReserveFails, WaitAnswers, WaitReleased,
         WaitTimesOut, history, bounds
<1>4. ASSUME NEW w \in Workers, Core(w) \/ External(w) PROVE Result
  BY <1>1, <1>4
     DEF Core, External, CoreBegins, CoreConflicts, CoreReplays, CoreFails,
         ExecCommits, ExecRefuses, Finalizes, FinalizeFails, Runs, Retains,
         history, bounds
<1>5. ASSUME NEW w \in Workers, CompleteFails(w) PROVE Result
  <2>1. pc[w] = "complete" /\ ~Completable(w) /\ UNCHANGED bounds
    BY <1>1, <1>5 DEF CompleteFails
  <2>2. Atomic(w)
    BY <2>1 DEF OnceInv, HolderOK, Holding, Completable, SameLoad, Unresolved
  <2> QED BY <1>5, <2>1, <2>2 DEF CompleteFails, bounds
<1>6. ASSUME NEW w \in Workers, Settle(w) \/ Panics(w), ~CompleteFails(w)
      PROVE  Result
  BY <1>1, <1>6 DEF Settle, Completes, Abandons, AbandonFails,
                    PruneCanonical, Publishes, Panics, history, bounds
<1>7. CASE ~\E w \in Workers : Receive(w) \/ WorkerStep(w) \/ Panics(w)
  BY <1>7 DEF Next, Crash, Shutdown, Start, ReplayExpires, Age, vars, history,
              bounds
<1> HIDE DEF Result
<1> QED BY <1>2, <1>3, <1>4, <1>5, <1>6, <1>7 DEF WorkerStep

LEMMA AtomicNeverWaits ==
  ASSUME TypeInv, GateInv, NEW id \in Ids, NotOvertaken(id), NoLeaks,
         NoAtomicWaits(id), [Next]_vars, faults = 0
  PROVE  NoAtomicWaits(id)'
<1> SUFFICES ASSUME NEW w \in Workers, pc'[w] = "wait", Atomic(w)',
                    att'[w].id = id
             PROVE  FALSE
  BY DEF NoAtomicWaits, Id
<1>1. /\ Atomic(w) /\ pc[w] # "idle" /\ Id(w) = id
      /\ (pc'[w] = pc[w] /\ att'[w] = att[w]) \/ WorkerStep(w)
  BY GoesOnWorking DEF Receive, Goto, TypeInv, TypeOK, Atomic, Class, Id
<1>2. pc[w] # "wait"
  BY <1>1 DEF NoAtomicWaits
<1>3. ReserveJoins(w)
  <2>1. WorkerStep(w)
    BY <1>1, <1>2
  <2>2. ASSUME NEW step, Goto(w, step) PROVE step = "wait"
    BY <2>2 DEF Goto, TypeInv, TypeOK
  <2>3. /\ AfterProbe(w) # "wait" /\ AfterAbandon(w) # "wait"
        /\ Release(w) # "wait" /\ \A resp : AfterRun(w, resp) # "wait"
    BY DEF AfterProbe, AfterAbandon, Release, AfterRun
  <2> QED BY <2>1, <2>2, <2>3
     DEF WorkerStep, Probe, Enter, Reserve, Wait, Core, External, Settle,
         ProbeAnswers, ProbeSupersedes, DropConfirmation, ProbeFindsNothing,
         AcquireGate, GatePoisoned, Prepare, PreparationFails, ReserveFresh,
         ReserveAnswers, ReserveTakesOver, ReserveFails, WaitAnswers,
         WaitReleased, WaitTimesOut, CoreBegins, CoreConflicts, CoreReplays,
         CoreFails, ExecCommits, ExecRefuses, Finalizes, FinalizeFails, Runs,
         Retains, Completes, CompleteFails, Abandons, AbandonFails,
         PruneCanonical, Publishes, Reply, GotoWith
<1>4. /\ pc[w] = "reserve" /\ SameLoad(w, Row(w)) /\ Unresolved(Row(w))
      /\ Row(w).owner = Inst(w)
  BY <1>3 DEF ReserveJoins, Reserving
<1>5. Id(w) \in Ids /\ Inst(w) \in Instances /\ Live(Inst(w))
  BY <1>4, Serves DEF GateInv, BusyLive
<1>6. PICK u \in Workers : OwnerOf(u, Id(w))
  BY <1>4, <1>5 DEF NoLeaks, GateInv, OwnerActive, Row
<1>7. CASE pc[u] \in Deciding
  <2>1. Atomic(u)
    BY <1>1, <1>4, <1>6 DEF OwnerOf, SameLoad, Row, Atomic, Class
  <2>2. u = w
    BY <1>1, <1>4, <1>6, <1>7, <2>1, PassesAlone DEF Deciding, OwnerOf
  <2> QED BY <1>4, <1>6, <2>2 DEF OwnerOf, Active
<1>8. CASE pc[u] \in {"run", "retain"}
  <2>1. ~Atomic(u)
    BY <1>8, Serves DEF Fits, Atomic, Class
  <2> QED BY <1>1, <1>4, <1>6, <2>1 DEF OwnerOf, SameLoad, Row, Atomic, Class
<1> QED BY <1>6, <1>7, <1>8 DEF OwnerOf, Active, Deciding

LEMMA ApprovalStaysFresh ==
  ASSUME TypeInv, OnceInv, GateInv, NEW id \in Ids, NotOvertaken(id),
         FreshApproval(id), [Next]_vars, faults' = 0
  PROVE  FreshApproval(id)'
<1> SUFFICES ASSUME NEW w \in Workers, pc'[w] \in {"prepare", "reserve"},
                    att'[w].id = id, Atomic(w)', att'[w].auth,
                    runtime'[att'[w].id] # None,
                    runtime'[att'[w].id].load = att'[w].load,
                    runtime'[att'[w].id].resp = "confirm"
             PROVE  FALSE
  BY DEF FreshApproval, SameLoad, Row, Id
<1>1. /\ Atomic(w) /\ pc[w] # "idle" /\ att[w] \in Attempts /\ Id(w) = id
      /\ att'[w].id = Id(w) /\ att'[w].load = att[w].load
      /\ att[w].auth
      /\ (pc'[w] = pc[w] /\ att'[w] = att[w]) \/ WorkerStep(w)
  BY GoesOnWorking, Serves
     DEF Receive, Goto, TypeInv, TypeOK, Atomic, Class, Id
<1>2. ~Fail
  BY FaultSteps DEF Fail, TypeInv, TypeOK
<1>3. CASE pc[w] \in {"prepare", "reserve"}
  <2>1. ~(SameLoad(w, Row(w)) /\ Row(w).resp = "confirm")
    BY <1>1, <1>3 DEF FreshApproval
  <2>2. RowSettled(Id(w))
    BY <1>1, <2>1, RowSteps
       DEF RowReserved, RowAged, RowRemoved, Kept, Settled, SameLoad, Row
  <2>3. PICK u \in Workers : /\ Completes(u) /\ Id(u) = Id(w)
                             /\ runtime[Id(w)].load = att[u].load
                             /\ Kept(runtime[Id(w)], runtime'[Id(w)])
                             /\ runtime'[Id(w)].resp = StoredResponse(u)
    BY <2>2 DEF RowSettled
  <2>4. Atomic(u) /\ pc[u] = "complete"
    BY <1>1, <2>3 DEF Kept, Atomic, Class, Completes
  <2>5. u = w
    <3>1. pc[w] \in Deciding /\ pc[u] \in Deciding
      BY <1>3, <2>4 DEF Deciding
    <3> QED BY <1>1, <2>3, <2>4, <3>1, PassesAlone
  <2> QED BY <1>3, <2>4, <2>5
<1>4. CASE pc[w] \notin {"prepare", "reserve"}
  <2>1. WorkerStep(w)
    BY <1>1, <1>4
  <2>2. ASSUME NEW step, Goto(w, step) PROVE step \in {"prepare", "reserve"}
    BY <2>2 DEF Goto, TypeInv, TypeOK
  <2>3. /\ AfterAbandon(w) \notin {"prepare", "reserve"}
        /\ Release(w) \notin {"prepare", "reserve"}
        /\ \A resp : AfterRun(w, resp) \notin {"prepare", "reserve"}
    BY DEF AfterAbandon, Release, AfterRun
  <2>4. ProbeFindsNothing(w) \/ DropConfirmation(w)
    <3>1. ~ProbeAnswers(w) /\ ~ProbeSupersedes(w)
      BY <2>2 DEF ProbeAnswers, ProbeSupersedes, Reply
    <3>2. ~Enter(w)
      BY <1>4, <2>2 DEF Enter, AcquireGate, GatePoisoned, Prepare,
                        PreparationFails, Reply
    <3>3. ~Reserve(w) /\ ~Wait(w)
      BY <1>1, <1>4, <2>2
         DEF Reserve, Reserving, ReserveFresh, ReserveAnswers, ReserveJoins,
             ReserveTakesOver, ReserveFails, Wait, WaitAnswers, WaitReleased,
             WaitTimesOut, Reply
    <3>4. ~Core(w)
      BY <2>2, <2>3
         DEF Core, CoreBegins, CoreConflicts, CoreReplays, CoreFails,
             ExecCommits, ExecRefuses, Finalizes, FinalizeFails, GotoWith
    <3>5. ~External(w)
      BY <2>2, <2>3 DEF External, Runs, Retains, GotoWith
    <3>6. ~Settle(w)
      BY <2>2, <2>3
         DEF Settle, Completes, CompleteFails, Abandons, AbandonFails,
             PruneCanonical, Publishes, Reply, GotoWith
    <3> QED BY <2>1, <3>1, <3>2, <3>3, <3>4, <3>5, <3>6
            DEF WorkerStep, Probe
  <2>5. CASE ProbeFindsNothing(w)
    <3>1. runtime' = runtime
      BY <2>5 DEF ProbeFindsNothing, durable
    <3> QED BY <1>1, <1>2, <2>5, <3>1
            DEF ProbeFindsNothing, Unresolved, Row
  <2>6. CASE DropConfirmation(w)
    BY <1>1, <2>6 DEF DropConfirmation, SameLoad, Row, TypeInv, TypeOK
  <2> QED BY <2>4, <2>5, <2>6
<1> QED BY <1>3, <1>4

LEMMA ApprovalStaysHeard ==
  ASSUME TypeInv, OnceInv, NEW id \in Ids, NoAtomicWaits(id),
         FreshApproval(id), [Next]_vars, faults = 0, ApprovalIsHeardOf(id)
  PROVE  ApprovalIsHeardOf(id)'
<1> SUFFICES ASSUME NEW t \in told', t.kind = "swallowed", t.id = id,
                    t \notin told
             PROVE  FALSE
  BY DEF ApprovalIsHeardOf
<1>1. PICK w \in Workers : Id(w) = id /\ (Replayed(w, t) \/ Published(w, t))
  BY ToldSteps
<1>2. pc[w] # "idle"
  BY <1>1 DEF Replayed, Published, ProbeAnswers, ReserveAnswers, Reserving,
              WaitAnswers, Publishes
<1>3. ~Published(w, t)
  BY <1>2, Serves DEF Published, Responses
<1>4. /\ SameLoad(w, Row(w)) /\ Settled(Row(w)) /\ ReplayKind(w) = "swallowed"
      /\ ProbeAnswers(w) \/ ReserveAnswers(w) \/ WaitAnswers(w)
  BY <1>1, <1>3 DEF Replayed
<1>5. Id(w) \in Ids
  BY <1>2, Serves
<1>6. Row(w).resp = "confirm" /\ att[w].auth
  <2>1. Row(w).resp # "swallowed"
    BY <1>4, <1>5 DEF Settled, Row, TypeInv, TypeOK, Rows, Stored
  <2> QED BY <1>4, <2>1 DEF ReplayKind
<1>7. Atomic(w)
  BY <1>4, <1>5, <1>6
     DEF OnceInv, RowsOK, IsAtomic, SameLoad, Row, Atomic, Class
<1>8. ~ProbeAnswers(w)
  BY <1>4, <1>6 DEF ProbeAnswers, Superseded
<1>9. ~ReserveAnswers(w)
  BY <1>1, <1>4, <1>6, <1>7 DEF ReserveAnswers, Reserving, FreshApproval
<1>10. ~WaitAnswers(w)
  BY <1>1, <1>7 DEF WaitAnswers, NoAtomicWaits
<1> QED BY <1>4, <1>8, <1>9, <1>10

LEMMA ApprovalStarts ==
  ASSUME NEW id \in Ids
  PROVE  Init => ApprovalInv(id)
BY DEF Init, ApprovalInv, NoLeaks, NoAtomicWaits, FreshApproval,
       ApprovalIsHeardOf

LEMMA ApprovalStays ==
  ASSUME TypeInv, OnceInv, GateInv, NEW id \in Ids, NotOvertaken(id),
         ApprovalInv(id), [Next]_vars
  PROVE  ApprovalInv(id)'
<1> SUFFICES ASSUME faults' = 0
             PROVE  /\ leaked' = {} /\ bypassed' = {}
                    /\ NoAtomicWaits(id)' /\ FreshApproval(id)'
                    /\ ApprovalIsHeardOf(id)'
  BY DEF ApprovalInv, NoLeaks
<1>1. faults = 0 /\ leaked' = {} /\ bypassed' = {}
  BY FaultSteps DEF ApprovalInv, NoLeaks
<1>2. /\ NoAtomicWaits(id) /\ FreshApproval(id) /\ ApprovalIsHeardOf(id)
      /\ NoLeaks
  BY <1>1 DEF ApprovalInv
<1>3. NoAtomicWaits(id)'
  BY <1>1, <1>2, AtomicNeverWaits
<1>4. FreshApproval(id)'
  BY <1>2, ApprovalStaysFresh
<1>5. ApprovalIsHeardOf(id)'
  BY <1>1, <1>2, ApprovalStaysHeard
<1> QED BY <1>1, <1>3, <1>4, <1>5

\* While nothing fails, no approved request is answered with the stored
\* confirmation of the attempt it approves, unless that attempt is still
\* deciding in a daemon that released its lock: the probe under the gate is the
\* last word.
THEOREM ApprovalHeard ==
  ASSUME NEW id \in Ids
  PROVE  Spec /\ []NotOvertaken(id) => []ApprovalIsHeardOf(id)
<1>1. Init => ApprovalInv(id)
  BY ApprovalStarts
<1>2. TypeInv /\ OnceInv /\ GateInv /\ NotOvertaken(id) /\ ApprovalInv(id)
        /\ [Next]_vars
        => ApprovalInv(id)'
  BY ApprovalStays
<1>3. ApprovalInv(id) => ApprovalIsHeardOf(id)
  BY DEF ApprovalInv, ApprovalIsHeardOf
<1> QED BY <1>1, <1>2, <1>3, GateHolds, PTL DEF Spec

\* Hence no approval is swallowed in any behaviour, of daemons that drain too,
\* in which no request is overtaken like that.
THEOREM ApprovalsAreHeard ==
  Spec /\ []NobodyIsOvertaken => []ApprovalIsHeard
<1>1. Init => \A id \in Ids : ApprovalInv(id)
  BY ApprovalStarts
<1>2. TypeInv /\ OnceInv /\ GateInv /\ NobodyIsOvertaken
        /\ (\A id \in Ids : ApprovalInv(id)) /\ [Next]_vars
        => (\A id \in Ids : ApprovalInv(id))'
  BY ApprovalStays DEF NobodyIsOvertaken
<1>3. TypeInv /\ (\A id \in Ids : ApprovalInv(id)) => ApprovalIsHeard
  <2> SUFFICES ASSUME TypeInv, \A id \in Ids : ApprovalInv(id), faults = 0,
                      NEW t \in told
               PROVE  t.kind # "swallowed"
    BY DEF ApprovalIsHeard
  <2>1. t.id \in Ids
    BY DEF TypeInv, TypeOK, Tellings
  <2> QED BY <2>1 DEF ApprovalInv, ApprovalIsHeardOf
<1> QED BY <1>1, <1>2, <1>3, GateHolds, PTL DEF Spec
=============================================================================
