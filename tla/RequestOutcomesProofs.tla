----------------------- MODULE RequestOutcomesProofs -----------------------
(***************************************************************************)
(* Theorems about RequestOutcomes, for any ids, payloads, workers and      *)
(* bounds: its type invariant and at-most-once execution; then its         *)
(* answers: a reported success happened, one payload runs under an id, a   *)
(* marker is stored after its response, a legacy reservation is not        *)
(* executed again, and the whole implements the promise of AtMostOnce.     *)
(*                                                                         *)
(* TypeOK is not inductive: that the ledger only stores what its tables    *)
(* admit depends on the step a worker is at, hence Fits.  AtMostOnce is    *)
(* carried by OnceInv: an atomic effect is witnessed by its canonical row  *)
(* and by the lock of the transaction that will write it, any other by its *)
(* runtime row, which only the one worker that executes it may release.    *)
(*                                                                         *)
(* A success is handed on from the transaction or handler that saw it to   *)
(* the canonical row, the runtime row, the retained response and the       *)
(* answer.  AnswersInv says of each of these carriers that what it carries *)
(* happened.  The lemmas before it say which steps write which variable;   *)
(* RequestOutcomesGate uses them too.                                      *)
(***************************************************************************)
EXTENDS RequestOutcomes, TLAPS

-----------------------------------------------------------------------------
(* What a worker holds at each of its steps.                               *)

Fits(step, a) ==
  /\ step = "idle" <=> a = None
  /\ step \in {"core", "exec", "finalize"} => ClassOf[a.load] = "atomic"
  /\ step \in {"run", "retain"} => ClassOf[a.load] # "atomic"
  /\ step = "retain" => ClassOf[a.load] = "launch"
                        /\ a.resp \in {"ok", "refused"}
  /\ step = "finalize" => a.resp = "ok"
  /\ step = "complete" /\ ClassOf[a.load] # "launch"
       => a.resp \in {"ok", "refused", "confirm"}
  /\ step = "complete" /\ a.resp = "confirm" => ClassOf[a.load] = "atomic"

StepOK  == \A w \in Workers : Fits(pc[w], att[w])
TypeInv == TypeOK /\ StepOK

\* What a worker's own steps change.
ServingOK == /\ pc \in [Workers -> Steps]
             /\ att \in [Workers -> Attempts \union {None}]
             /\ gate \in [Instances -> Workers \union {None}]
             /\ told \in SUBSET Tellings
             /\ StepOK

LEMMA ReplyFrame ==
  ASSUME TypeInv, NEW w \in Workers, NEW kind, pc[w] # "idle", Reply(w, kind)
  PROVE  ServingOK'
<1>1. att[w] \in Attempts
  BY DEF TypeInv, TypeOK, StepOK, Fits
<1>2. pc' = [pc EXCEPT ![w] = "idle"] /\ att' = [att EXCEPT ![w] = None]
  BY DEF Reply, Goto
<1>3. pc' \in [Workers -> Steps]
  BY <1>2 DEF TypeInv, TypeOK, Steps
<1>4. att' \in [Workers -> Attempts \union {None}]
  BY <1>2 DEF TypeInv, TypeOK
<1>5. gate' \in [Instances -> Workers \union {None}]
  BY DEF TypeInv, TypeOK, Reply
<1>6. told' \in SUBSET Tellings
  BY <1>1 DEF TypeInv, TypeOK, Reply, Tellings, Attempts, Id
<1>7. StepOK'
  <2> SUFFICES ASSUME NEW u \in Workers PROVE Fits(pc'[u], att'[u])
    BY DEF StepOK
  <2>1. CASE u = w
    BY <2>1, <1>2 DEF TypeInv, TypeOK, Fits
  <2>2. CASE u # w
    BY <2>2, <1>2 DEF TypeInv, TypeOK, StepOK
  <2> QED BY <2>1, <2>2
<1> QED BY <1>3, <1>4, <1>5, <1>6, <1>7 DEF ServingOK

LEMMA MoveFrame ==
  ASSUME TypeInv, NEW w \in Workers, NEW step \in Steps, NEW a \in Attempts,
         pc' = [pc EXCEPT ![w] = step], att' = [att EXCEPT ![w] = a],
         Fits(step, a),
         gate' \in [Instances -> Workers \union {None}],
         told' \in SUBSET Tellings
  PROVE  ServingOK'
<1>1. pc' \in [Workers -> Steps] /\ att' \in [Workers -> Attempts \union {None}]
  BY DEF TypeInv, TypeOK
<1>2. StepOK'
  <2> SUFFICES ASSUME NEW u \in Workers PROVE Fits(pc'[u], att'[u])
    BY DEF StepOK
  <2>1. CASE u = w
    BY <2>1 DEF TypeInv, TypeOK
  <2>2. CASE u # w
    BY <2>2 DEF TypeInv, TypeOK, StepOK
  <2> QED BY <2>1, <2>2
<1> QED BY <1>1, <1>2 DEF ServingOK

\* A step that leaves the attempt alone.
LEMMA GotoFrame ==
  ASSUME TypeInv, NEW w \in Workers, NEW step \in Steps, pc[w] # "idle",
         Goto(w, step), att' = att, Fits(step, att[w]),
         gate' \in [Instances -> Workers \union {None}],
         told' \in SUBSET Tellings
  PROVE  ServingOK'
<1>1. att[w] \in Attempts /\ att' = [att EXCEPT ![w] = att[w]]
  BY DEF TypeInv, TypeOK, StepOK, Fits
<1> QED BY <1>1, MoveFrame DEF Goto

\* A step that sets the response.
LEMMA GotoWithFrame ==
  ASSUME TypeInv, NEW w \in Workers, NEW step \in Steps, pc[w] # "idle",
         NEW resp \in Responses, GotoWith(w, step, resp),
         Fits(step, [att[w] EXCEPT !.resp = resp]),
         gate' = gate, told' = told
  PROVE  ServingOK'
<1>1. att[w] \in Attempts
  BY DEF TypeInv, TypeOK, StepOK, Fits
<1>2. [att[w] EXCEPT !.resp = resp] \in Attempts
  BY <1>1 DEF Attempts
<1>3. att' = [att EXCEPT ![w] = [att[w] EXCEPT !.resp = resp]]
  BY DEF GotoWith
<1>4. gate' \in [Instances -> Workers \union {None}] /\ told' \in SUBSET Tellings
  BY DEF TypeInv, TypeOK
<1> QED BY <1>2, <1>3, <1>4, MoveFrame DEF GotoWith, Goto

\* A worker that is not idle serves an attempt.
LEMMA Serves ==
  ASSUME TypeInv, NEW w \in Workers, pc[w] # "idle"
  PROVE  /\ att[w] \in Attempts /\ Fits(pc[w], att[w])
         /\ Id(w) \in Ids /\ Inst(w) \in Instances /\ att[w].load \in Loads
         /\ att[w].resp \in Responses
<1>1. att[w] \in Attempts /\ Fits(pc[w], att[w])
  BY DEF TypeInv, TypeOK, StepOK, Fits
<1> QED BY <1>1 DEF Attempts, Id, Inst

-----------------------------------------------------------------------------
(* The steps of a worker.                                                  *)

LEMMA ReceiveTyped ==
  ASSUME TypeInv, NEW w \in Workers, Receive(w)
  PROVE  TypeInv'
<1>1. PICK i \in Instances, id \in Ids, load \in Loads, auth \in BOOLEAN :
        att' = [att EXCEPT ![w] =
                  [id |-> id, load |-> load, auth |-> auth, inst |-> i,
                   owns |-> FALSE, resp |-> "none", fresh |-> TRUE]]
  BY DEF Receive
<1> DEFINE a == [id |-> id, load |-> load, auth |-> auth, inst |-> i,
                 owns |-> FALSE, resp |-> "none", fresh |-> TRUE]
<1>2. a \in Attempts
  BY DEF Attempts, Responses
<1>3. Fits("probe", a)
  BY <1>2, NoneAssumption DEF Fits
<1>4. ServingOK'
  BY <1>1, <1>2, <1>3, MoveFrame DEF Receive, Goto, Steps, TypeInv, TypeOK
<1>5. attempts' \in Nat
  BY DEF Receive, TypeInv, TypeOK
<1> QED BY <1>4, <1>5 DEF Receive, TypeInv, TypeOK, ServingOK, durable, process,
                          history

LEMMA ProbeTyped ==
  ASSUME TypeInv, NEW w \in Workers, Probe(w)
  PROVE  TypeInv'
<1>0. pc[w] # "idle"
  BY DEF Probe, ProbeAnswers, ProbeSupersedes, DropConfirmation,
         ProbeFindsNothing
<1>h. att[w] \in Attempts /\ Id(w) \in Ids
  BY <1>0, Serves
<1>a. AfterProbe(w) \in Steps /\ Fits(AfterProbe(w), att[w])
  BY <1>h, NoneAssumption DEF AfterProbe, Steps, Fits
<1>1. CASE ProbeAnswers(w)
  <2>1. ServingOK'
    BY <1>1, <1>0, ReplyFrame DEF ProbeAnswers
  <2> QED BY <1>1, <2>1 DEF ProbeAnswers, TypeInv, TypeOK, ServingOK, durable,
                            process, history, bounds
<1>2. CASE ProbeSupersedes(w)
  <2>1. Fits("unconfirm", att[w])
    BY <1>h, NoneAssumption DEF Fits
  <2>2. ServingOK'
    BY <1>2, <1>0, <2>1, GotoFrame
       DEF ProbeSupersedes, Steps, TypeInv, TypeOK
  <2> QED BY <1>2, <2>2 DEF ProbeSupersedes, TypeInv, TypeOK, ServingOK,
                            durable, process, history, bounds
<1>3. CASE DropConfirmation(w)
  <2>1. ServingOK'
    BY <1>3, <1>0, <1>a, GotoFrame DEF DropConfirmation, TypeInv, TypeOK
  <2>2. runtime' \in [Ids -> Rows \union {None}]
    BY <1>3 DEF DropConfirmation, TypeInv, TypeOK
  <2> QED BY <1>3, <2>1, <2>2 DEF DropConfirmation, TypeInv, TypeOK, ServingOK,
                                  process, history, bounds
<1>4. CASE ProbeFindsNothing(w)
  <2>1. ServingOK'
    BY <1>4, <1>0, <1>a, GotoFrame DEF ProbeFindsNothing, TypeInv, TypeOK
  <2>2. attempts' \in Nat /\ faults' \in Nat
    BY <1>4 DEF ProbeFindsNothing, Fail, bounds, TypeInv, TypeOK
  <2> QED BY <1>4, <2>1, <2>2 DEF ProbeFindsNothing, TypeInv, TypeOK,
                                  ServingOK, durable, process, history
<1> QED BY <1>1, <1>2, <1>3, <1>4 DEF Probe

LEMMA EnterTyped ==
  ASSUME TypeInv, NEW w \in Workers, Enter(w)
  PROVE  TypeInv'
<1>0. pc[w] # "idle"
  BY DEF Enter, AcquireGate, GatePoisoned, Prepare, PreparationFails
<1>h. att[w] \in Attempts
  BY <1>0, Serves
<1>a. Fits("reprobe", att[w]) /\ Fits("reserve", att[w])
  BY <1>h, NoneAssumption DEF Fits
<1>1. CASE AcquireGate(w)
  <2>1. gate' \in [Instances -> Workers \union {None}]
    BY <1>1 DEF AcquireGate, TypeInv, TypeOK
  <2>2. ServingOK'
    BY <1>1, <1>0, <1>a, <2>1, GotoFrame DEF AcquireGate, Steps, TypeInv, TypeOK
  <2> QED BY <1>1, <2>2 DEF AcquireGate, TypeInv, TypeOK, ServingOK, durable,
                            process, history, bounds
<1>2. CASE GatePoisoned(w) \/ PreparationFails(w)
  <2>1. ServingOK'
    BY <1>2, <1>0, ReplyFrame DEF GatePoisoned, PreparationFails
  <2> QED BY <1>2, <2>1 DEF GatePoisoned, PreparationFails, TypeInv, TypeOK,
                            ServingOK, durable, process, history, bounds
<1>3. CASE Prepare(w)
  <2>1. ServingOK'
    BY <1>3, <1>0, <1>a, GotoFrame DEF Prepare, Steps, TypeInv, TypeOK
  <2> QED BY <1>3, <2>1 DEF Prepare, TypeInv, TypeOK, ServingOK, durable,
                            process, history, bounds
<1> QED BY <1>1, <1>2, <1>3 DEF Enter

LEMMA ReserveTyped ==
  ASSUME TypeInv, NEW w \in Workers, Reserve(w)
  PROVE  TypeInv'
<1>0. pc[w] = "reserve"
  BY DEF Reserve, ReserveFresh, ReserveAnswers, ReserveJoins,
         ReserveTakesOver, ReserveFails, Reserving
<1>h. att[w] \in Attempts /\ Id(w) \in Ids /\ Inst(w) \in Instances
      /\ att[w].load \in Loads
  BY <1>0, Serves
<1>a. /\ Fits("wait", att[w])
      /\ Atomic(w) => Fits("core", att[w])
  BY <1>h, NoneAssumption DEF Fits, Atomic, Class
<1>1. CASE ReserveFresh(w)
  <2> DEFINE a == [att[w] EXCEPT !.owns = TRUE]
             step == IF Atomic(w) THEN "core" ELSE "run"
  <2>1. a \in Attempts /\ step \in Steps /\ Fits(step, a)
    BY <1>h, NoneAssumption DEF Attempts, Steps, Fits, Atomic, Class
  <2>2. pc' = [pc EXCEPT ![w] = step] /\ att' = [att EXCEPT ![w] = a]
    BY <1>1 DEF ReserveFresh, Goto
  <2>3. ServingOK'
    BY <1>1, <2>1, <2>2, MoveFrame DEF ReserveFresh, TypeInv, TypeOK
  <2>4. runtime' \in [Ids -> Rows \union {None}]
    BY <1>1, <1>h DEF ReserveFresh, TypeInv, TypeOK, Rows, RowClass,
                      Instances, Stored
  <2> QED BY <1>1, <2>3, <2>4 DEF ReserveFresh, TypeInv, TypeOK, ServingOK,
                                  process, history, bounds
<1>2. CASE ReserveAnswers(w)
  <2>1. ServingOK'
    BY <1>2, <1>0, ReplyFrame DEF ReserveAnswers
  <2> QED BY <1>2, <2>1 DEF ReserveAnswers, TypeInv, TypeOK, ServingOK,
                            durable, process, history, bounds
<1>3. CASE ReserveJoins(w)
  <2>1. ServingOK'
    BY <1>3, <1>0, <1>a, GotoFrame DEF ReserveJoins, Steps, TypeInv, TypeOK
  <2> QED BY <1>3, <2>1 DEF ReserveJoins, TypeInv, TypeOK, ServingOK,
                            durable, process, history, bounds
<1>4. CASE ReserveTakesOver(w)
  <2>1. ServingOK'
    BY <1>4, <1>0, <1>a, ReplyFrame, GotoFrame
       DEF ReserveTakesOver, MayTakeOver, Steps, TypeInv, TypeOK
  <2> QED BY <1>4, <2>1 DEF ReserveTakesOver, TypeInv, TypeOK, ServingOK,
                            durable, process, history, bounds
<1>5. CASE ReserveFails(w)
  <2>1. ServingOK'
    BY <1>5, <1>0, <1>a, ReplyFrame, GotoFrame
       DEF ReserveFails, Steps, TypeInv, TypeOK
  <2>2. bypassed' \subseteq Ids
    BY <1>5, <1>h DEF ReserveFails, TypeInv, TypeOK
  <2>3. attempts' \in Nat /\ faults' \in Nat
    BY <1>5 DEF ReserveFails, Fail, TypeInv, TypeOK
  <2> QED BY <1>5, <2>1, <2>2, <2>3 DEF ReserveFails, TypeInv, TypeOK,
                                        ServingOK, durable, process
<1> QED BY <1>1, <1>2, <1>3, <1>4, <1>5 DEF Reserve

LEMMA WaitTyped ==
  ASSUME TypeInv, NEW w \in Workers, Wait(w)
  PROVE  TypeInv'
<1>0. pc[w] = "wait"
  BY DEF Wait, WaitAnswers, WaitReleased, WaitTimesOut
<1>h. att[w] \in Attempts
  BY <1>0, Serves
<1>a. /\ Fits("reserve", att[w])
      /\ Atomic(w) => Fits("core", att[w])
  BY <1>h, NoneAssumption DEF Fits, Atomic, Class
<1>1. CASE WaitAnswers(w)
  <2>1. ServingOK'
    BY <1>1, <1>0, ReplyFrame DEF WaitAnswers
  <2>2. attempts' \in Nat /\ faults' \in Nat
    BY <1>1 DEF WaitAnswers, Fail, bounds, TypeInv, TypeOK
  <2> QED BY <1>1, <2>1, <2>2 DEF WaitAnswers, TypeInv, TypeOK, ServingOK,
                                  durable, process, history
<1>2. CASE WaitReleased(w)
  <2>1. ServingOK'
    BY <1>2, <1>0, <1>a, ReplyFrame, GotoFrame
       DEF WaitReleased, Steps, TypeInv, TypeOK
  <2> QED BY <1>2, <2>1 DEF WaitReleased, TypeInv, TypeOK, ServingOK, durable,
                            process, history, bounds
<1>3. CASE WaitTimesOut(w)
  <2>1. ServingOK'
    BY <1>3, <1>0, <1>a, ReplyFrame, GotoFrame
       DEF WaitTimesOut, Steps, TypeInv, TypeOK
  <2> QED BY <1>3, <2>1 DEF WaitTimesOut, TypeInv, TypeOK, ServingOK, durable,
                            process, history, bounds
<1> QED BY <1>1, <1>2, <1>3 DEF Wait

LEMMA CoreTyped ==
  ASSUME TypeInv, NEW w \in Workers, Core(w)
  PROVE  TypeInv'
<1>0. pc[w] \in {"core", "exec", "finalize"}
  BY DEF Core, CoreBegins, CoreConflicts, CoreReplays, CoreFails, ExecCommits,
         ExecRefuses, Finalizes, FinalizeFails
<1>h. /\ att[w] \in Attempts /\ Fits(pc[w], att[w])
      /\ Id(w) \in Ids /\ Inst(w) \in Instances /\ att[w].load \in Loads
  BY <1>0, Serves
<1>a. Atomic(w)
  BY <1>0, <1>h DEF Fits, Atomic, Class
<1>b. Release(w) \in Steps
  BY DEF Release, Steps
<1>c. ASSUME NEW resp \in Responses
      PROVE  Fits(Release(w), [att[w] EXCEPT !.resp = resp])
  BY <1>h, NoneAssumption DEF Fits, Release, Attempts
<1>d. ASSUME NEW resp \in {"ok", "refused", "confirm"}
      PROVE  Fits("complete", [att[w] EXCEPT !.resp = resp])
  BY <1>h, <1>a, NoneAssumption
     DEF Fits, Attempts, Responses, Atomic, Class
<1>1. CASE CoreBegins(w)
  <2>1. Fits("exec", att[w])
    BY <1>h, <1>a, NoneAssumption DEF Fits, Atomic, Class
  <2>2. ServingOK'
    BY <1>1, <1>0, <2>1, GotoFrame DEF CoreBegins, Steps, TypeInv, TypeOK
  <2> QED BY <1>1, <2>2 DEF CoreBegins, TypeInv, TypeOK, ServingOK, durable,
                            process, history, bounds
<1>2. CASE CoreConflicts(w)
  <2>1. ServingOK'
    BY <1>2, <1>0, <1>b, <1>c, GotoWithFrame DEF CoreConflicts, Responses
  <2> QED BY <1>2, <2>1 DEF CoreConflicts, TypeInv, TypeOK, ServingOK, durable,
                            process, history, bounds
<1>3. CASE CoreReplays(w)
  <2> DEFINE a == [att[w] EXCEPT !.resp = "ok", !.fresh = FALSE]
  <2>1. a \in Attempts /\ Fits("finalize", a)
    BY <1>h, <1>a, NoneAssumption DEF Fits, Attempts, Responses, Atomic, Class
  <2>2. pc' = [pc EXCEPT ![w] = "finalize"] /\ att' = [att EXCEPT ![w] = a]
    BY <1>3 DEF CoreReplays, Goto
  <2>3. ServingOK'
    BY <1>3, <2>1, <2>2, MoveFrame DEF CoreReplays, Steps, TypeInv, TypeOK
  <2> QED BY <1>3, <2>3 DEF CoreReplays, TypeInv, TypeOK, ServingOK, durable,
                            process, history, bounds
<1>4. CASE CoreFails(w)
  <2>1. ServingOK'
    BY <1>4, <1>0, <1>b, <1>c, GotoWithFrame DEF CoreFails, Responses
  <2>2. attempts' \in Nat /\ faults' \in Nat
    BY <1>4 DEF CoreFails, Fail, TypeInv, TypeOK
  <2> QED BY <1>4, <2>1, <2>2 DEF CoreFails, TypeInv, TypeOK, ServingOK,
                                  durable, process, history
<1>5. CASE ExecCommits(w)
  <2>1. Fits("finalize", [att[w] EXCEPT !.resp = "ok"])
    BY <1>h, <1>a, NoneAssumption DEF Fits, Attempts, Responses, Atomic, Class
  <2>2. ServingOK'
    BY <1>5, <1>0, <2>1, GotoWithFrame DEF ExecCommits, Responses, Steps
  <2>3. canonical' \in [Ids -> Canonicals \union {None}]
    BY <1>5, <1>h DEF ExecCommits, Canonicals, TypeInv, TypeOK
  <2>4. applied' \in [Ids -> [Loads -> 0..2]]
    BY <1>5, <1>h DEF ExecCommits, Apply, TypeInv, TypeOK
  <2>5. behind' \subseteq Instances \X Writes
    BY <1>5, <1>h DEF ExecCommits, Writes, TypeInv, TypeOK
  <2> QED BY <1>5, <2>2, <2>3, <2>4, <2>5 DEF ExecCommits, TypeInv, TypeOK,
                                              ServingOK, process, bounds
<1>6. CASE ExecRefuses(w)
  <2>1. PICK resp \in {"refused", "confirm"} : GotoWith(w, "complete", resp)
    BY <1>6 DEF ExecRefuses
  <2>2. ServingOK'
    BY <1>6, <1>0, <1>d, <2>1, GotoWithFrame DEF ExecRefuses, Responses, Steps
  <2> QED BY <1>6, <2>2 DEF ExecRefuses, TypeInv, TypeOK, ServingOK, durable,
                            process, history, bounds
<1>7. CASE Finalizes(w)
  <2>1. Fits("complete", att[w])
    BY <1>7, <1>h, NoneAssumption DEF Finalizes, Fits
  <2>2. ServingOK'
    BY <1>7, <1>0, <2>1, GotoFrame DEF Finalizes, Steps, TypeInv, TypeOK
  <2>3. finalized' \subseteq Ids
    BY <1>7, <1>h DEF Finalizes, TypeInv, TypeOK
  <2> QED BY <1>7, <2>2, <2>3 DEF Finalizes, TypeInv, TypeOK, ServingOK,
                                  durable, process, bounds
<1>8. CASE FinalizeFails(w)
  <2>1. ServingOK'
    BY <1>8, <1>0, <1>b, <1>c, GotoWithFrame DEF FinalizeFails, Responses
  <2>2. attempts' \in Nat /\ faults' \in Nat
    BY <1>8 DEF FinalizeFails, Fail, TypeInv, TypeOK
  <2> QED BY <1>8, <2>1, <2>2 DEF FinalizeFails, TypeInv, TypeOK, ServingOK,
                                  durable, process, history
<1> QED BY <1>1, <1>2, <1>3, <1>4, <1>5, <1>6, <1>7, <1>8 DEF Core

\* A pruned table is still a table.
LEMMA PrunedTyped ==
  ASSUME NEW table \in [Ids -> Rows \union {None}]
  PROVE  /\ Pruned(table) \in [Ids -> Rows \union {None}]
         /\ PrunedIds(table) \subseteq Ids
BY DEF Pruned, PrunedIds

LEMMA ApplyTyped ==
  ASSUME TypeInv, NEW id \in Ids, NEW load \in Loads, Apply(id, load)
  PROVE  applied' \in [Ids -> [Loads -> 0..2]]
BY DEF Apply, TypeInv, TypeOK

LEMMA ReplaysTyped ==
  ASSUME TypeInv, NEW i \in Instances, NEW id \in Ids,
         NEW v \in {"never", "held", "gone"}
  PROVE  [replays EXCEPT ![i][id] = v]
           \in [Instances -> [Ids -> {"never", "held", "gone"}]]
BY DEF TypeInv, TypeOK

LEMMA ExternalTyped ==
  ASSUME TypeInv, NEW w \in Workers, External(w)
  PROVE  TypeInv'
<1>0. pc[w] \in {"run", "retain"}
  BY DEF External, Runs, Retains
<1>h. /\ att[w] \in Attempts /\ Fits(pc[w], att[w])
      /\ Id(w) \in Ids /\ Inst(w) \in Instances /\ att[w].load \in Loads
  BY <1>0, Serves
<1>1. CASE Runs(w)
  <2>1. PICK resp \in {"ok", "refused", "confirm", "busy"}, acted \in BOOLEAN :
          /\ IF acted THEN Apply(Id(w), att[w].load) ELSE UNCHANGED applied
          /\ behind' = IF acted /\ Class(w) = "external"
                         THEN behind \union {<<Inst(w), WriteKind(w, resp)>>}
                         ELSE behind
          /\ GotoWith(w, AfterRun(w, resp), resp)
    BY <1>1 DEF Runs
  <2>2. AfterRun(w, resp) \in {"abandon", "retain", "complete"}
    BY DEF AfterRun
  <2>3. ClassOf[att[w].load] \in {"external", "launch"}
    BY <1>1, <1>h, ConstantsAssumption DEF Fits, Runs, Classes
  <2>4. Fits(AfterRun(w, resp), [att[w] EXCEPT !.resp = resp])
    BY <1>h, <2>3, NoneAssumption
       DEF Fits, AfterRun, Attempts, Responses, Class
  <2>5. ServingOK'
    BY <1>1, <1>0, <2>1, <2>2, <2>4, GotoWithFrame
       DEF Runs, Responses, Steps
  <2>6. applied' \in [Ids -> [Loads -> 0..2]]
    <3>1. CASE acted
      BY <2>1, <1>h, <3>1, ApplyTyped
    <3>2. CASE ~acted
      BY <2>1, <3>2 DEF TypeInv, TypeOK
    <3> QED BY <3>1, <3>2
  <2>7. behind' \subseteq Instances \X Writes
    BY <2>1, <1>h DEF WriteKind, Writes, TypeInv, TypeOK
  <2> QED BY <1>1, <2>5, <2>6, <2>7 DEF Runs, TypeInv, TypeOK, ServingOK,
                                        durable, process, bounds
<1>2. CASE Retains(w)
  <2>0. ClassOf[att[w].load] = "launch" /\ att[w].resp \in {"ok", "refused"}
    BY <1>2, <1>h DEF Retains, Fits
  <2>1. /\ Fits("complete", att[w])
        /\ Fits("complete", [att[w] EXCEPT !.resp = "unsure"])
    BY <1>h, <2>0, NoneAssumption DEF Fits, Attempts, Responses
  <2>2. ServingOK'
    <3>1. CASE Goto(w, "complete") /\ UNCHANGED att
      BY <1>2, <1>0, <2>1, <3>1, GotoFrame DEF Retains, Steps, TypeInv, TypeOK
    <3>2. CASE GotoWith(w, "complete", "unsure")
      BY <1>2, <1>0, <2>1, <3>2, GotoWithFrame DEF Retains, Steps, Responses
    <3> QED BY <1>2, <3>1, <3>2 DEF Retains
  <2>3. replays' \in [Instances -> [Ids -> {"never", "held", "gone"}]]
    <3>1. \/ replays' = [replays EXCEPT ![Inst(w)][Id(w)] = "held"]
          \/ replays' = [replays EXCEPT ![Inst(w)][Id(w)] = "gone"]
      BY <1>2 DEF Retains
    <3> QED BY <3>1, <1>h, ReplaysTyped
  <2> QED BY <1>2, <2>2, <2>3 DEF Retains, TypeInv, TypeOK, ServingOK,
                                  durable, history, bounds
<1> QED BY <1>1, <1>2 DEF External

LEMMA SettleTyped ==
  ASSUME TypeInv, NEW w \in Workers, Settle(w)
  PROVE  TypeInv'
<1>0. pc[w] \in {"complete", "abandon", "prune", "publish"}
  BY DEF Settle, Completes, CompleteFails, Abandons, AbandonFails,
         PruneCanonical, Publishes
<1>h. /\ att[w] \in Attempts /\ Fits(pc[w], att[w])
      /\ Id(w) \in Ids /\ Inst(w) \in Instances /\ att[w].load \in Loads
      /\ att[w].resp \in Responses
  BY <1>0, Serves
<1>a. ASSUME NEW step \in {"prune", "publish", "abandon"}
      PROVE  Fits(step, att[w])
  BY <1>h, NoneAssumption DEF Fits
<1>b. AfterAbandon(w) \in {"prune", "publish"}
  BY DEF AfterAbandon
<1>1. CASE Completes(w)
  <2> DEFINE settled == [runtime EXCEPT ![Id(w)].resp = StoredResponse(w)]
  <2>1. ServingOK'
    BY <1>1, <1>0, <1>a, GotoFrame DEF Completes, Steps, TypeInv, TypeOK
  <2>2. StoredResponse(w) \in Stored
    BY <1>1, <1>h DEF Completes, StoredResponse, Stored, Class, Fits
  <2>3. settled \in [Ids -> Rows \union {None}]
    <3>1. runtime[Id(w)] \in Rows
      BY <1>1, <1>h DEF Completes, Completable, SameLoad, Row, TypeInv, TypeOK
    <3>2. [runtime[Id(w)] EXCEPT !.resp = StoredResponse(w)] \in Rows
      BY <3>1, <2>2 DEF Rows
    <3>3. runtime \in [Ids -> Rows \union {None}]
      BY DEF TypeInv, TypeOK
    <3> QED BY <3>2, <3>3
  <2>4. runtime' = Pruned(settled) /\ lapsed' = lapsed \union PrunedIds(settled)
    BY <1>1 DEF Completes
  <2>5. runtime' \in [Ids -> Rows \union {None}] /\ lapsed' \subseteq Ids
    <3>1. lapsed \subseteq Ids
      BY DEF TypeInv, TypeOK
    <3>2. /\ Pruned(settled) \in [Ids -> Rows \union {None}]
          /\ PrunedIds(settled) \subseteq Ids
      BY <2>3, PrunedTyped
    <3> HIDE DEF settled
    <3> QED BY <2>4, <3>1, <3>2
  <2>6. leaked' \subseteq Ids
    BY <1>1 DEF Completes, TypeInv, TypeOK
  <2> QED BY <1>1, <2>1, <2>5, <2>6 DEF Completes, TypeInv, TypeOK, ServingOK,
                                        process, bounds
<1>2. CASE CompleteFails(w)
  <2>1. Fits("publish", [att[w] EXCEPT !.resp = "unsure"])
    BY <1>h, NoneAssumption DEF Fits, Attempts, Responses
  <2>2. ServingOK'
    <3>1. CASE Atomic(w)
      BY <1>2, <1>0, <1>a, <3>1, GotoFrame
         DEF CompleteFails, Steps, TypeInv, TypeOK
    <3>2. CASE ~Atomic(w)
      BY <1>2, <1>0, <2>1, <3>2, GotoWithFrame
         DEF CompleteFails, Steps, Responses
    <3> QED BY <3>1, <3>2
  <2>3. leaked' \subseteq Ids
    BY <1>2, <1>h DEF CompleteFails, TypeInv, TypeOK
  <2>4. replays' \in [Instances -> [Ids -> {"never", "held", "gone"}]]
    <3>1. UNCHANGED replays
          \/ replays' = [replays EXCEPT ![Inst(w)][Id(w)] = "gone"]
      BY <1>2 DEF CompleteFails
    <3>2. replays \in [Instances -> [Ids -> {"never", "held", "gone"}]]
      BY DEF TypeInv, TypeOK
    <3> QED BY <3>1, <3>2, <1>h, ReplaysTyped
  <2>5. attempts' \in Nat /\ faults' \in Nat
    BY <1>2 DEF CompleteFails, Fail, bounds, TypeInv, TypeOK
  <2> QED BY <1>2, <2>2, <2>3, <2>4, <2>5 DEF CompleteFails, TypeInv, TypeOK,
                                              ServingOK, durable
<1>3. CASE Abandons(w)
  <2> DEFINE a == [att[w] EXCEPT !.owns = FALSE]
  <2>1. a \in Attempts
    BY <1>h DEF Attempts
  <2>2. Fits(AfterAbandon(w), a)
    BY <2>1, <1>b, NoneAssumption DEF Fits
  <2>3. pc' = [pc EXCEPT ![w] = AfterAbandon(w)] /\ att' = [att EXCEPT ![w] = a]
    BY <1>3 DEF Abandons, Goto
  <2>4. ServingOK'
    <3>1. /\ gate' \in [Instances -> Workers \union {None}]
          /\ told' \in SUBSET Tellings
      BY <1>3 DEF Abandons, TypeInv, TypeOK
    <3>2. AfterAbandon(w) \in Steps
      BY <1>b DEF Steps
    <3> QED BY <2>1, <2>2, <2>3, <3>1, <3>2, MoveFrame
  <2>5. runtime' \in [Ids -> Rows \union {None}] /\ leaked' \subseteq Ids
    BY <1>3 DEF Abandons, TypeInv, TypeOK
  <2> QED BY <1>3, <2>4, <2>5 DEF Abandons, TypeInv, TypeOK, ServingOK,
                                  process, bounds
<1>4. CASE AbandonFails(w)
  <2>1. ServingOK'
    BY <1>4, <1>0, <1>a, <1>b, GotoFrame
       DEF AbandonFails, Steps, TypeInv, TypeOK
  <2>2. leaked' \subseteq Ids
    BY <1>4, <1>h DEF AbandonFails, TypeInv, TypeOK
  <2>3. attempts' \in Nat /\ faults' \in Nat
    BY <1>4 DEF AbandonFails, Fail, bounds, TypeInv, TypeOK
  <2> QED BY <1>4, <2>1, <2>2, <2>3 DEF AbandonFails, TypeInv, TypeOK,
                                        ServingOK, durable, process
<1>5. CASE PruneCanonical(w)
  <2>1. ServingOK'
    BY <1>5, <1>0, <1>a, GotoFrame DEF PruneCanonical, Steps, TypeInv, TypeOK
  <2>2. canonical' \in [Ids -> Canonicals \union {None}]
    BY <1>5 DEF PruneCanonical, TypeInv, TypeOK
  <2>3. lapsed' \subseteq Ids
    BY <1>5 DEF PruneCanonical, TypeInv, TypeOK
  <2> QED BY <1>5, <2>1, <2>2, <2>3 DEF PruneCanonical, TypeInv, TypeOK,
                                        ServingOK, process, bounds
<1>6. CASE Publishes(w)
  <2>1. ServingOK'
    BY <1>6, <1>0, ReplyFrame DEF Publishes
  <2>2. behind' \subseteq Instances \X Writes
    BY <1>6 DEF Publishes, Told, TypeInv, TypeOK
  <2> QED BY <1>6, <2>1, <2>2 DEF Publishes, TypeInv, TypeOK, ServingOK,
                                  durable, process, history, bounds
<1> QED BY <1>1, <1>2, <1>3, <1>4, <1>5, <1>6 DEF Settle

LEMMA PanicsTyped ==
  ASSUME TypeInv, NEW w \in Workers, Panics(w)
  PROVE  TypeInv'
<1>h. /\ pc[w] # "idle" /\ Id(w) \in Ids /\ Inst(w) \in Instances
  BY Serves DEF Panics
<1>1. ServingOK'
  BY <1>h, ReplyFrame DEF Panics
<1>2. poisoned' \subseteq Instances /\ leaked' \subseteq Ids
  BY <1>h DEF Panics, TypeInv, TypeOK
<1>3. txn' \in Workers \union {None} /\ attempts' \in Nat /\ faults' \in Nat
  BY DEF Panics, Fail, TypeInv, TypeOK
<1> QED BY <1>1, <1>2, <1>3 DEF Panics, TypeInv, TypeOK, ServingOK, durable

-----------------------------------------------------------------------------
(* The daemons, and time.                                                  *)

LEMMA DaemonsTyped ==
  ASSUME TypeInv, NEW i \in Instances, Crash(i) \/ Shutdown(i) \/ Start(i)
  PROVE  TypeInv'
<1>1. CASE Crash(i)
  <2>1. pc' \in [Workers -> Steps] /\ att' \in [Workers -> Attempts \union {None}]
    BY <1>1 DEF Crash, TypeInv, TypeOK, Steps
  <2>2. StepOK'
    <3> SUFFICES ASSUME NEW u \in Workers PROVE Fits(pc'[u], att'[u])
      BY DEF StepOK
    <3>1. CASE u \in Busy(i)
      BY <1>1, <3>1 DEF Crash, Fits
    <3>2. CASE u \notin Busy(i)
      BY <1>1, <3>2 DEF Crash, TypeInv, StepOK
    <3> QED BY <3>1, <3>2
  <2>3. /\ status' \in [Instances -> {"off", "serving", "draining", "dead"}]
        /\ replays' \in [Instances -> [Ids -> {"never", "held", "gone"}]]
        /\ gate' \in [Instances -> Workers \union {None}]
    BY <1>1 DEF Crash, TypeInv, TypeOK
  <2>4. /\ txn' \in Workers \union {None} /\ poisoned' \subseteq Instances
        /\ behind' \subseteq Instances \X Writes
    BY <1>1 DEF Crash, Told, TypeInv, TypeOK
  <2> QED BY <1>1, <2>1, <2>2, <2>3, <2>4 DEF Crash, TypeInv, TypeOK, durable,
                                              history, bounds
<1>2. CASE Shutdown(i)
  <2>1. /\ status' \in [Instances -> {"off", "serving", "draining", "dead"}]
        /\ replays' \in [Instances -> [Ids -> {"never", "held", "gone"}]]
    BY <1>2 DEF Shutdown, TypeInv, TypeOK
  <2> QED BY <1>2, <2>1 DEF Shutdown, TypeInv, TypeOK, StepOK, durable,
                            serving, history, bounds
<1>3. CASE Start(i)
  <2>1. status' \in [Instances -> {"off", "serving", "draining", "dead"}]
    BY <1>3 DEF Start, TypeInv, TypeOK
  <2>2. runtime' \in [Ids -> Rows \union {None}] /\ lapsed' \subseteq Ids
    BY <1>3, PrunedTyped DEF Start, TypeInv, TypeOK
  <2> QED BY <1>3, <2>1, <2>2 DEF Start, TypeInv, TypeOK, StepOK, serving,
                                  bounds
<1> QED BY <1>1, <1>2, <1>3

LEMMA TimeTyped ==
  ASSUME TypeInv, NEW id \in Ids,
         Age(id) \/ (\E i \in Instances : ReplayExpires(i, id))
  PROVE  TypeInv'
<1>1. CASE Age(id)
  <2>1. runtime' \in [Ids -> Rows \union {None}]
    <3>1. CASE Settled(runtime[id])
      <4>1. runtime[id] \in Rows
        BY <3>1 DEF Settled, TypeInv, TypeOK
      <4>2. [runtime[id] EXCEPT !.old = TRUE] \in Rows
        BY <4>1 DEF Rows
      <4> QED BY <1>1, <3>1, <4>2 DEF Age, TypeInv, TypeOK
    <3> QED BY <1>1, <3>1 DEF Age, TypeInv, TypeOK
  <2>2. canonical' \in [Ids -> Canonicals \union {None}]
    <3>1. CASE canonical[id] # None
      <4>1. canonical[id] \in Canonicals
        BY <3>1 DEF TypeInv, TypeOK
      <4>2. [canonical[id] EXCEPT !.old = TRUE] \in Canonicals
        BY <4>1 DEF Canonicals
      <4> QED BY <1>1, <3>1, <4>2 DEF Age, TypeInv, TypeOK
    <3> QED BY <1>1, <3>1 DEF Age, TypeInv, TypeOK
  <2> QED BY <1>1, <2>1, <2>2 DEF Age, TypeInv, TypeOK, StepOK, process,
                                  serving, history, bounds
<1>2. CASE \E i \in Instances : ReplayExpires(i, id)
  <2>1. PICK i \in Instances : ReplayExpires(i, id)
    BY <1>2
  <2>2. replays' \in [Instances -> [Ids -> {"never", "held", "gone"}]]
    BY <2>1 DEF ReplayExpires, TypeInv, TypeOK
  <2> QED BY <2>1, <2>2 DEF ReplayExpires, TypeInv, TypeOK, StepOK, durable,
                            serving, history, bounds
<1> QED BY <1>1, <1>2

LEMMA InitTyped == Init => TypeInv
<1> SUFFICES ASSUME Init PROVE TypeInv
  OBVIOUS
<1>1. PICK L \in [LegacyIds -> Loads] :
        /\ runtime = [id \in Ids |-> IF id \in LegacyIds
                                       THEN LegacyRow(L[id]) ELSE None]
        /\ applied = [id \in Ids |-> [load \in Loads |->
                        IF id \in LegacyIds /\ L[id] = load THEN 1 ELSE 0]]
  BY DEF Init
<1>2. runtime \in [Ids -> Rows \union {None}]
  BY <1>1, BoundsAssumption DEF LegacyRow, Rows, Stored
<1>3. applied \in [Ids -> [Loads -> 0..2]]
  BY <1>1
<1>4. StepOK
  BY DEF Init, StepOK, Fits
<1>5. pc \in [Workers -> Steps] /\ replays \in [Instances -> [Ids -> {"never", "held", "gone"}]]
  BY DEF Init, Steps
<1>6. status \in [Instances -> {"off", "serving", "draining", "dead"}]
  BY DEF Init
<1> QED BY <1>2, <1>3, <1>4, <1>5, <1>6 DEF Init, TypeInv, TypeOK

LEMMA NextTyped == TypeInv /\ [Next]_vars => TypeInv'
<1> SUFFICES ASSUME TypeInv, [Next]_vars PROVE TypeInv'
  OBVIOUS
<1>1. CASE Next
  <2>1. ASSUME NEW w \in Workers, Receive(w) \/ WorkerStep(w) \/ Panics(w)
        PROVE  TypeInv'
    BY <2>1, ReceiveTyped, ProbeTyped, EnterTyped, ReserveTyped, WaitTyped,
       CoreTyped, ExternalTyped, SettleTyped, PanicsTyped DEF WorkerStep
  <2>2. ASSUME NEW i \in Instances, Crash(i) \/ Shutdown(i) \/ Start(i)
        PROVE  TypeInv'
    BY <2>2, DaemonsTyped
  <2>3. ASSUME NEW i \in Instances, NEW id \in Ids, ReplayExpires(i, id)
        PROVE  TypeInv'
    BY <2>3, TimeTyped
  <2>4. ASSUME NEW id \in Ids, Age(id)
        PROVE  TypeInv'
    BY <2>4, TimeTyped
  <2> QED BY <1>1, <2>1, <2>2, <2>3, <2>4 DEF Next
<1>2. CASE UNCHANGED vars
  BY <1>2 DEF vars, durable, process, serving, history, bounds, TypeInv,
              TypeOK, StepOK
<1> QED BY <1>1, <1>2

\* Every variable keeps its type, and every step finds the attempt it needs:
\* an atomic payload in the core, a response the ledger may store when the
\* worker completes (outcomes are typed by the ledger's tables).
THEOREM TypeCorrect == Spec => []TypeOK
<1>1. TypeInv => TypeOK
  BY DEF TypeInv
<1> QED BY <1>1, InitTyped, NextTyped, PTL DEF Spec

-----------------------------------------------------------------------------
(* At-most-once execution: what its proof carries from step to step.       *)

\* The steps at which an external request is being executed or settled, and
\* those that come before a request passes its reservation.
Holding == {"run", "retain", "complete", "abandon"}
Early   == {"idle", "probe", "unconfirm", "gate", "reprobe", "prepare",
            "reserve"}

IsAtomic(load) == ClassOf[load] = "atomic"

\* An external or launch row is never marked atomic and never stores a
\* confirmation; a launch row stores nothing but its marker.
RowsOK ==
  \A id \in Ids :
    runtime[id] # None /\ ~IsAtomic(runtime[id].load)
      => /\ runtime[id].class # "atomic"
         /\ runtime[id].resp # "confirm"
         /\ ClassOf[runtime[id].load] = "launch"
              => runtime[id].resp \in {"none", "marker"}

\* The worker of an external request holds the unresolved row of its id.
HolderOK ==
  \A w \in Workers :
    pc[w] \in Holding /\ ~Atomic(w)
      => Unresolved(Row(w)) /\ Row(w).load = att[w].load

\* And it is the only one.
HolderAlone ==
  \A u, w \in Workers :
    /\ pc[u] \in Holding /\ ~Atomic(u)
    /\ pc[w] \in Holding /\ ~Atomic(w)
    /\ Id(u) = Id(w)
    => u = w

\* The worker in the handler holds the write lock, and no canonical row of
\* its id was committed since it looked.
ExecAlone ==
  \A w \in Workers : pc[w] = "exec" => txn = w /\ canonical[Id(w)] = None

\* A legacy reservation stays as it is until the ledger is bypassed.
LegacyKept ==
  \A id \in LegacyIds \ bypassed :
    /\ runtime[id] # None
    /\ runtime[id].class = "unknown" /\ runtime[id].owner = 0
    /\ runtime[id].resp = "none"
    /\ \A w \in Workers : pc[w] \notin Early => Id(w) # id
    /\ \A load \in Loads : applied[id][load] <= 1

\* An atomic effect has its canonical row.
AtomicOnce ==
  \A id \in Ids \ (lapsed \union LegacyIds), load \in Loads :
    IsAtomic(load)
      => /\ applied[id][load] <= 1
         /\ canonical[id] = None => applied[id][load] = 0

\* An external effect has its runtime row, and nobody about to run or to
\* release it.
Recorded(id, load) ==
  \/ applied[id][load] = 0
  \/ /\ applied[id][load] = 1
     /\ runtime[id] # None /\ runtime[id].load = load
     /\ \A w \in Workers :
          pc[w] \in {"run", "abandon"} => Id(w) # id \/ att[w].load # load

Remembered(id, load) == id \notin lapsed \/ ClassOf[load] = "launch"

ExternalOnce ==
  \A id \in Ids \ LegacyIds, load \in Loads :
    ~IsAtomic(load) /\ Remembered(id, load) => Recorded(id, load)

OnceInv == /\ RowsOK /\ HolderOK /\ HolderAlone /\ ExecAlone /\ LegacyKept
           /\ AtomicOnce /\ ExternalOnce

\* What a step does to a worker: it ends up before its reservation (or with no
\* attempt at all), or it goes on with the request it had.
Moves(u) ==
  \/ pc'[u] \in Early
  \/ /\ att'[u].id = att[u].id /\ att'[u].load = att[u].load
     /\ pc'[u] = "exec" => txn' = u /\ canonical'[Id(u)] = None
     /\ pc[u] \in Early => Id(u) \notin LegacyIds \ bypassed'
     /\ ~Atomic(u) /\ pc'[u] \in Holding
          => Unresolved(runtime'[Id(u)]) /\ runtime'[Id(u)].load = att[u].load

\* It does not begin to hold a row, nor return to a step that may release it.
Resumes(u) ==
  pc'[u] \in Holding /\ ~Atomic(u)
    => /\ pc[u] \in Holding
       /\ pc'[u] \in {"run", "abandon"} => pc[u] \in {"run", "abandon"}

LEMMA WorkersFrame ==
  ASSUME TypeInv, OnceInv, \A u \in Workers : Moves(u)
  PROVE  HolderOK' /\ ExecAlone'
<1>1. HolderOK'
  <2> SUFFICES ASSUME NEW u \in Workers, pc'[u] \in Holding, ~Atomic(u)'
               PROVE  Unresolved(Row(u))' /\ Row(u)'.load = att'[u].load
    BY DEF HolderOK
  <2>1. pc'[u] \notin Early
    BY DEF Holding, Early
  <2> QED BY <2>1 DEF Moves, Atomic, Class, Row, Id, Unresolved
<1>2. ExecAlone'
  <2> SUFFICES ASSUME NEW u \in Workers, pc'[u] = "exec"
               PROVE  txn' = u /\ canonical'[att'[u].id] = None
    BY DEF ExecAlone, Id
  <2> QED BY DEF Moves, Early, Id
<1> QED BY <1>1, <1>2

LEMMA HoldersFrame ==
  ASSUME TypeInv, OnceInv, \A u \in Workers : Moves(u) /\ Resumes(u)
  PROVE  HolderAlone'
<1> SUFFICES ASSUME NEW u \in Workers, NEW v \in Workers,
                    pc'[u] \in Holding, ~Atomic(u)', pc'[v] \in Holding,
                    ~Atomic(v)', att'[u].id = att'[v].id
             PROVE  u = v
  BY DEF HolderAlone, Id
<1>1. pc'[u] \notin Early /\ pc'[v] \notin Early
  BY DEF Holding, Early
<1>2. /\ att'[u].id = att[u].id /\ ~Atomic(u) /\ pc[u] \in Holding
      /\ att'[v].id = att[v].id /\ ~Atomic(v) /\ pc[v] \in Holding
  BY <1>1 DEF Moves, Resumes, Atomic, Class
<1> QED BY <1>2 DEF OnceInv, HolderAlone, Id

LEMMA LegacyFrame ==
  ASSUME TypeInv, OnceInv, \A u \in Workers : Moves(u),
         bypassed \subseteq bypassed',
         \A id \in LegacyIds \ bypassed' :
           runtime'[id] = runtime[id] /\ applied'[id] = applied[id]
  PROVE  LegacyKept'
<1> SUFFICES ASSUME NEW id \in LegacyIds \ bypassed'
             PROVE  /\ runtime'[id] # None
                    /\ runtime'[id].class = "unknown" /\ runtime'[id].owner = 0
                    /\ runtime'[id].resp = "none"
                    /\ \A w \in Workers : pc'[w] \notin Early
                                            => att'[w].id # id
                    /\ \A load \in Loads : applied'[id][load] <= 1
  BY DEF LegacyKept, Id
<1>1. id \in LegacyIds \ bypassed
  OBVIOUS
<1>2. ASSUME NEW w \in Workers, pc'[w] \notin Early PROVE att'[w].id # id
  BY <1>1, <1>2 DEF Moves, OnceInv, LegacyKept, Id
<1> QED BY <1>1, <1>2 DEF OnceInv, LegacyKept

LEMMA AtomicFrame ==
  ASSUME TypeInv, OnceInv, lapsed \subseteq lapsed',
         \A id \in Ids \ lapsed' :
           /\ canonical'[id] = None => canonical[id] = None
           /\ \A load \in Loads :
                IsAtomic(load) => applied'[id][load] = applied[id][load]
  PROVE  AtomicOnce'
BY DEF OnceInv, AtomicOnce, IsAtomic

LEMMA ExternalFrame ==
  ASSUME TypeInv, OnceInv, \A u \in Workers : Moves(u) /\ Resumes(u),
         lapsed \subseteq lapsed',
         NEW id \in Ids \ LegacyIds, NEW load \in Loads, ~IsAtomic(load),
         Remembered(id, load)',
         applied'[id][load] = applied[id][load],
         runtime[id] # None /\ runtime[id].load = load
           => runtime'[id] # None /\ runtime'[id].load = load
  PROVE  Recorded(id, load)'
<1>1. Recorded(id, load)
  BY DEF OnceInv, ExternalOnce, Remembered
<1>2. ASSUME NEW w \in Workers, pc'[w] \in {"run", "abandon"},
             att'[w].id = id, att'[w].load = load
      PROVE  pc[w] \in {"run", "abandon"} /\ Id(w) = id /\ att[w].load = load
  <2>1. pc'[w] \notin Early /\ pc'[w] \in Holding
    BY <1>2 DEF Early, Holding
  <2>2. att[w].id = id /\ att[w].load = load
    BY <1>2, <2>1 DEF Moves
  <2> QED BY <1>2, <2>1, <2>2 DEF Resumes, Atomic, Class, IsAtomic, Id
<1> QED BY <1>1, <1>2 DEF Recorded, Id

\* A step that touches neither table nor executes anything.
LEMMA CalmFrame ==
  ASSUME TypeInv, OnceInv, \A u \in Workers : Moves(u) /\ Resumes(u),
         durable' = durable, applied' = applied, lapsed' = lapsed,
         bypassed \subseteq bypassed'
  PROVE  OnceInv'
<1>1. RowsOK'
  BY DEF OnceInv, RowsOK, durable
<1>2. LegacyKept'
  BY LegacyFrame DEF durable
<1>3. AtomicOnce'
  BY AtomicFrame DEF durable
<1>4. ExternalOnce'
  <2> SUFFICES ASSUME NEW id \in Ids \ LegacyIds, NEW load \in Loads,
                      ~IsAtomic(load), Remembered(id, load)'
               PROVE  Recorded(id, load)'
    BY DEF ExternalOnce, IsAtomic
  <2> QED BY ExternalFrame DEF durable
<1> QED BY <1>1, <1>2, <1>3, <1>4, WorkersFrame, HoldersFrame DEF OnceInv

\* The workers that a step leaves alone.
LEMMA OtherWorker ==
  ASSUME TypeInv, OnceInv, NEW u \in Workers,
         pc'[u] = pc[u], att'[u] = att[u],
         pc[u] = "exec" => txn' = u /\ canonical'[Id(u)] = None,
         pc[u] \in Holding /\ ~Atomic(u) => runtime'[Id(u)] = runtime[Id(u)]
  PROVE  Moves(u) /\ Resumes(u)
<1>1. pc[u] \in Holding /\ ~Atomic(u)
        => Unresolved(runtime[Id(u)]) /\ runtime[Id(u)].load = att[u].load
  BY DEF OnceInv, HolderOK, Row
<1> QED BY <1>1 DEF Moves, Resumes

\* A step of one worker that leaves the tables alone.
LEMMA CalmWorker ==
  ASSUME TypeInv, OnceInv, NEW w \in Workers,
         \A u \in Workers \ {w} : pc'[u] = pc[u] /\ att'[u] = att[u],
         Moves(w), Resumes(w), durable' = durable, applied' = applied,
         lapsed' = lapsed, bypassed \subseteq bypassed', txn' = txn \/ txn = w
  PROVE  OnceInv'
<1>1. ASSUME NEW u \in Workers \ {w} PROVE Moves(u) /\ Resumes(u)
  <2>1. pc[u] = "exec" => txn' = u /\ canonical'[Id(u)] = None
    BY DEF OnceInv, ExecAlone, durable
  <2> QED BY <2>1, OtherWorker DEF durable
<1>2. \A u \in Workers : Moves(u) /\ Resumes(u)
  BY <1>1
<1> QED BY <1>2, CalmFrame

\* It answers, or goes to a step before the reservation.
LEMMA SetsBack ==
  ASSUME TypeInv, OnceInv, NEW w \in Workers, NEW step \in Early,
         pc' = [pc EXCEPT ![w] = step],
         \A u \in Workers \ {w} : att'[u] = att[u],
         durable' = durable, applied' = applied, lapsed' = lapsed,
         bypassed \subseteq bypassed', txn' = txn \/ txn = w
  PROVE  OnceInv'
<1>1. pc'[w] = step /\ \A u \in Workers \ {w} : pc'[u] = pc[u]
  BY DEF TypeInv, TypeOK
<1>2. Moves(w) /\ Resumes(w)
  BY <1>1 DEF Moves, Resumes, Early, Holding
<1> QED BY <1>1, <1>2, CalmWorker

\* It goes on with its request, holding no external row and not executing.
LEMMA GoesOn ==
  ASSUME TypeInv, OnceInv, NEW w \in Workers, NEW step \in Steps,
         pc' = [pc EXCEPT ![w] = step],
         att'[w].id = att[w].id, att'[w].load = att[w].load,
         \A u \in Workers \ {w} : att'[u] = att[u],
         step # "exec", step \in Holding => Atomic(w),
         pc[w] \in Early => Id(w) \notin LegacyIds \ bypassed',
         durable' = durable, applied' = applied, lapsed' = lapsed,
         bypassed \subseteq bypassed', txn' = txn \/ txn = w
  PROVE  OnceInv'
<1>1. pc'[w] = step /\ \A u \in Workers \ {w} : pc'[u] = pc[u]
  BY DEF TypeInv, TypeOK
<1>2. Moves(w) /\ Resumes(w)
  BY <1>1 DEF Moves, Resumes
<1> QED BY <1>1, <1>2, CalmWorker

LEMMA ReplyOnce ==
  ASSUME TypeInv, OnceInv, NEW w \in Workers, NEW kind, Reply(w, kind),
         durable' = durable, applied' = applied, lapsed' = lapsed,
         bypassed \subseteq bypassed', txn' = txn \/ txn = w
  PROVE  OnceInv'
<1>1. /\ pc' = [pc EXCEPT ![w] = "idle"]
      /\ \A u \in Workers \ {w} : att'[u] = att[u]
  BY DEF Reply, Goto, TypeInv, TypeOK
<1> QED BY <1>1, SetsBack DEF Early

LEMMA GotoWithOnce ==
  ASSUME TypeInv, OnceInv, NEW w \in Workers, NEW step \in Steps, NEW resp,
         GotoWith(w, step, resp), pc[w] \notin Early,
         step # "exec", step \in Holding => Atomic(w),
         durable' = durable, applied' = applied, lapsed' = lapsed,
         bypassed' = bypassed, txn' = txn \/ txn = w
  PROVE  OnceInv'
<1>1. att[w] \in Attempts
  BY Serves DEF Early
<1>2. /\ pc' = [pc EXCEPT ![w] = step]
      /\ att'[w].id = att[w].id /\ att'[w].load = att[w].load
      /\ \A u \in Workers \ {w} : att'[u] = att[u]
  BY <1>1 DEF GotoWith, Goto, TypeInv, TypeOK, Attempts
<1> QED BY <1>2, GoesOn

-----------------------------------------------------------------------------
(* Each worker step keeps OnceInv.                                         *)

LEMMA BeginOnce ==
  ASSUME TypeInv, OnceInv, NEW w \in Workers, Receive(w) \/ Enter(w)
  PROVE  OnceInv'
<1>1. CASE Receive(w)
  <2>1. pc' = [pc EXCEPT ![w] = "probe"]
        /\ \A u \in Workers \ {w} : att'[u] = att[u]
    BY <1>1 DEF Receive, Goto, TypeInv, TypeOK
  <2> QED BY <1>1, <2>1, SetsBack DEF Receive, Early, durable, history
<1>2. CASE AcquireGate(w)
  BY <1>2, SetsBack DEF AcquireGate, Goto, Early, durable, history
<1>3. CASE GatePoisoned(w)
  BY <1>3, ReplyOnce DEF GatePoisoned, durable, history
<1>4. CASE Prepare(w)
  BY <1>4, SetsBack DEF Prepare, Goto, Early, durable, history
<1>5. CASE PreparationFails(w)
  BY <1>5, ReplyOnce DEF PreparationFails, durable, history
<1> QED BY <1>1, <1>2, <1>3, <1>4, <1>5 DEF Enter

LEMMA ProbeOnce ==
  ASSUME TypeInv, OnceInv, NEW w \in Workers, Probe(w)
  PROVE  OnceInv'
<1>a. AfterProbe(w) \in Early
  BY DEF AfterProbe, Early
<1>1. CASE ProbeAnswers(w)
  BY <1>1, ReplyOnce DEF ProbeAnswers, durable, history
<1>2. CASE ProbeSupersedes(w)
  BY <1>2, SetsBack DEF ProbeSupersedes, Goto, Early, durable, history
<1>3. CASE ProbeFindsNothing(w)
  BY <1>3, <1>a, SetsBack DEF ProbeFindsNothing, Goto, durable, history
<1>4. CASE DropConfirmation(w) /\ runtime' = runtime
  BY <1>4, <1>a, SetsBack DEF DropConfirmation, Goto, durable, history
<1>5. CASE DropConfirmation(w) /\ runtime' # runtime
  <2>0. Id(w) \in Ids /\ att[w] \in Attempts
    BY <1>5, Serves DEF DropConfirmation
  <2>1. /\ runtime[Id(w)] # None /\ runtime[Id(w)].resp = "confirm"
        /\ runtime' = [runtime EXCEPT ![Id(w)] = None]
    BY <1>5 DEF DropConfirmation, SameLoad, Row
  <2>2. IsAtomic(runtime[Id(w)].load)
    BY <2>0, <2>1 DEF OnceInv, RowsOK
  <2>3. \A id \in Ids : id # Id(w) => runtime'[id] = runtime[id]
    BY <2>1 DEF TypeInv, TypeOK
  <2>4. runtime'[Id(w)] = None
    BY <2>0, <2>1 DEF TypeInv, TypeOK
  <2>5. /\ canonical' = canonical /\ txn' = txn /\ applied' = applied
        /\ lapsed' = lapsed /\ bypassed' = bypassed /\ att' = att
        /\ pc' = [pc EXCEPT ![w] = AfterProbe(w)]
    BY <1>5 DEF DropConfirmation, Goto, history
  <2>6. ASSUME NEW u \in Workers PROVE Moves(u) /\ Resumes(u)
    <3>1. CASE u = w
      BY <1>a, <2>5, <3>1 DEF Moves, Resumes, Early, Holding, TypeInv, TypeOK
    <3>2. CASE u # w
      <4>1. pc'[u] = pc[u]
        BY <2>5, <3>2 DEF TypeInv, TypeOK
      <4>2. pc[u] = "exec" => txn' = u /\ canonical'[Id(u)] = None
        BY <2>5 DEF OnceInv, ExecAlone
      <4>3. pc[u] \in Holding /\ ~Atomic(u)
              => runtime'[Id(u)] = runtime[Id(u)]
        <5> SUFFICES ASSUME pc[u] \in Holding, ~Atomic(u) PROVE Id(u) # Id(w)
          BY <2>3, Serves DEF Holding
        <5> QED BY <2>1 DEF OnceInv, HolderOK, Unresolved, Row
      <4> QED BY <2>5, <4>1, <4>2, <4>3, OtherWorker
    <3> QED BY <3>1, <3>2
  <2>7. RowsOK'
    BY <2>3, <2>4 DEF OnceInv, RowsOK, IsAtomic
  <2>8. LegacyKept'
    <3>1. ASSUME NEW id \in LegacyIds \ bypassed' PROVE runtime'[id] = runtime[id]
      <4>1. id \in Ids /\ runtime[id].resp = "none"
        BY <2>5, ConstantsAssumption DEF OnceInv, LegacyKept
      <4> QED BY <2>1, <2>3, <4>1
    <3> QED BY <3>1, <2>5, <2>6, LegacyFrame
  <2>9. AtomicOnce'
    BY <2>5, AtomicFrame
  <2>10. ExternalOnce'
    <3> SUFFICES ASSUME NEW id \in Ids \ LegacyIds, NEW load \in Loads,
                        ~IsAtomic(load), Remembered(id, load)'
                 PROVE  Recorded(id, load)'
      BY DEF ExternalOnce, IsAtomic
    <3>1. runtime[id] # None /\ runtime[id].load = load
            => runtime'[id] # None /\ runtime'[id].load = load
      BY <2>2, <2>3
    <3> QED BY <2>5, <2>6, <3>1, ExternalFrame
  <2> QED BY <2>6, <2>7, <2>8, <2>9, <2>10, WorkersFrame, HoldersFrame
          DEF OnceInv
<1> QED BY <1>1, <1>2, <1>3, <1>4, <1>5 DEF Probe

LEMMA ReserveFreshOnce ==
  ASSUME TypeInv, OnceInv, NEW w \in Workers, ReserveFresh(w)
  PROVE  OnceInv'
<1> DEFINE row == [load |-> att[w].load, owner |-> Inst(w), old |-> FALSE,
                   class |-> RowClass(att[w].load), resp |-> "none"]
           step == IF Atomic(w) THEN "core" ELSE "run"
<1>0. /\ pc[w] = "reserve" /\ att[w] \in Attempts /\ Id(w) \in Ids
      /\ att[w].load \in Loads /\ Inst(w) \in Instances
  BY Serves DEF ReserveFresh, Reserving
<1>1. /\ runtime[Id(w)] = None
      /\ runtime' = [runtime EXCEPT ![Id(w)] = row]
      /\ pc' = [pc EXCEPT ![w] = step]
      /\ att' = [att EXCEPT ![w].owns = TRUE]
      /\ canonical' = canonical /\ txn' = txn /\ applied' = applied
      /\ lapsed' = lapsed /\ bypassed' = bypassed
  BY DEF ReserveFresh, Row, Goto, history
<1>2. row \in Rows
  BY <1>0 DEF Rows, RowClass, Instances, Stored
<1>3. row # None
  BY <1>2, NoneAssumption
<1>4. runtime'[Id(w)] = row
      /\ \A id \in Ids : id # Id(w) => runtime'[id] = runtime[id]
  BY <1>0, <1>1 DEF TypeInv, TypeOK
<1>5. /\ pc'[w] = step /\ att'[w].id = att[w].id /\ att'[w].load = att[w].load
      /\ \A u \in Workers \ {w} : pc'[u] = pc[u] /\ att'[u] = att[u]
  BY <1>0, <1>1 DEF TypeInv, TypeOK, Attempts
<1>6. Id(w) \notin LegacyIds \ bypassed
  BY <1>1 DEF OnceInv, LegacyKept
<1>7. ASSUME NEW u \in Workers \ {w}, pc[u] \in Holding, ~Atomic(u)
      PROVE  Id(u) # Id(w)
  BY <1>1, <1>7 DEF OnceInv, HolderOK, Unresolved, Row
<1>8. ASSUME NEW u \in Workers \ {w} PROVE Moves(u) /\ Resumes(u)
  <2>1. pc[u] = "exec" => txn' = u /\ canonical'[Id(u)] = None
    BY <1>1 DEF OnceInv, ExecAlone
  <2>2. pc[u] \in Holding /\ ~Atomic(u) => runtime'[Id(u)] = runtime[Id(u)]
    BY <1>4, <1>7, Serves DEF Holding
  <2> QED BY <1>5, <2>1, <2>2, OtherWorker
<1>9. Moves(w)
  BY <1>1, <1>3, <1>4, <1>5, <1>6 DEF Moves, Unresolved, Holding, Early
<1>10. \A u \in Workers : Moves(u)
  BY <1>8, <1>9
<1>11. RowsOK'
  BY <1>0, <1>4 DEF OnceInv, RowsOK, IsAtomic, RowClass
<1>12. HolderAlone'
  <2> SUFFICES ASSUME NEW u \in Workers, NEW v \in Workers,
                      pc'[u] \in Holding, ~Atomic(u)', pc'[v] \in Holding,
                      ~Atomic(v)', att'[u].id = att'[v].id
               PROVE  u = v
    BY DEF HolderAlone, Id
  <2>1. ASSUME NEW x \in Workers \ {w}, pc'[x] \in Holding, ~Atomic(x)'
        PROVE  pc[x] \in Holding /\ ~Atomic(x) /\ att'[x].id = Id(x)
               /\ Id(x) # Id(w)
    BY <1>5, <1>7, <2>1 DEF Atomic, Class, Id
  <2>2. CASE u # w /\ v # w
    BY <2>1, <2>2 DEF OnceInv, HolderAlone, Id
  <2>3. CASE u = w /\ v # w
    BY <1>5, <2>1, <2>3 DEF Id
  <2>4. CASE u # w /\ v = w
    BY <1>5, <2>1, <2>4 DEF Id
  <2> QED BY <2>2, <2>3, <2>4
<1>13. LegacyKept'
  <2>1. ASSUME NEW id \in LegacyIds \ bypassed' PROVE runtime'[id] = runtime[id]
    BY <1>1, <1>4, <1>6, ConstantsAssumption
  <2> QED BY <1>1, <1>10, <2>1, LegacyFrame
<1>14. AtomicOnce'
  BY <1>1, AtomicFrame
<1>15. ExternalOnce'
  <2> SUFFICES ASSUME NEW id \in Ids \ LegacyIds, NEW load \in Loads,
                      ~IsAtomic(load), Remembered(id, load)'
               PROVE  Recorded(id, load)'
    BY DEF ExternalOnce, IsAtomic
  <2>1. Recorded(id, load)
    BY <1>1 DEF OnceInv, ExternalOnce, Remembered
  <2>2. CASE applied[id][load] = 0
    BY <1>1, <2>2 DEF Recorded
  <2>3. CASE applied[id][load] # 0
    <3>1. id # Id(w) /\ runtime[id] # None /\ runtime[id].load = load
      BY <1>1, <2>1, <2>3 DEF Recorded
    <3>2. ASSUME NEW u \in Workers, pc'[u] \in {"run", "abandon"}
          PROVE  att'[u].id # id \/ att'[u].load # load
      BY <1>5, <2>1, <2>3, <3>1, <3>2 DEF Recorded, Id
    <3> QED BY <1>1, <1>4, <2>1, <2>3, <3>1, <3>2 DEF Recorded, Id
  <2> QED BY <2>2, <2>3
<1> QED BY <1>10, <1>11, <1>12, <1>13, <1>14, <1>15, WorkersFrame DEF OnceInv

LEMMA ReserveOnce ==
  ASSUME TypeInv, OnceInv, NEW w \in Workers, Reserve(w)
  PROVE  OnceInv'
<1>0. /\ pc[w] = "reserve" /\ att[w] \in Attempts /\ Id(w) \in Ids
      /\ Inst(w) \in Instances
  BY Serves DEF Reserve, ReserveFresh, ReserveAnswers, ReserveJoins,
                ReserveTakesOver, ReserveFails, Reserving
<1>a. Inst(w) # 0
  BY <1>0 DEF Instances
<1>1. CASE ReserveFresh(w)
  BY <1>1, ReserveFreshOnce
<1>2. CASE ReserveAnswers(w)
  BY <1>2, ReplyOnce DEF ReserveAnswers, durable, history
<1>3. CASE ReserveJoins(w)
  <2>1. Id(w) \notin LegacyIds \ bypassed
    BY <1>3, <1>a DEF ReserveJoins, OnceInv, LegacyKept, Row
  <2> QED BY <1>3, <2>1, GoesOn
          DEF ReserveJoins, Goto, Steps, Holding, durable, history
<1>4. CASE ReserveTakesOver(w) /\ MayTakeOver(w)
  <2>1. Id(w) \notin LegacyIds \ bypassed
    BY <1>4 DEF MayTakeOver, OnceInv, LegacyKept, Row
  <2> QED BY <1>4, <2>1, GoesOn
          DEF ReserveTakesOver, Goto, Steps, Holding, durable, history
<1>5. CASE ReserveTakesOver(w) /\ ~MayTakeOver(w)
  BY <1>5, ReplyOnce DEF ReserveTakesOver, durable, history
<1>6. CASE ReserveFails(w) /\ Atomic(w)
  <2>1. Id(w) \in bypassed' /\ bypassed \subseteq bypassed'
    BY <1>6 DEF ReserveFails
  <2> QED BY <1>6, <2>1, GoesOn
          DEF ReserveFails, Goto, Steps, Holding, durable
<1>7. CASE ReserveFails(w) /\ ~Atomic(w)
  BY <1>7, ReplyOnce DEF ReserveFails, durable
<1> QED BY <1>1, <1>2, <1>3, <1>4, <1>5, <1>6, <1>7 DEF Reserve

LEMMA WaitOnce ==
  ASSUME TypeInv, OnceInv, NEW w \in Workers, Wait(w)
  PROVE  OnceInv'
<1>1. CASE WaitAnswers(w)
  BY <1>1, ReplyOnce DEF WaitAnswers, durable, history
<1>2. CASE WaitReleased(w) /\ Atomic(w)
  BY <1>2, ReplyOnce DEF WaitReleased, durable, history
<1>3. CASE WaitReleased(w) /\ ~Atomic(w)
  BY <1>3, SetsBack DEF WaitReleased, Goto, Early, durable, history
<1>4. CASE WaitTimesOut(w) /\ Goto(w, "core") /\ UNCHANGED att
  BY <1>4, GoesOn
     DEF WaitTimesOut, Goto, Steps, Early, Holding, durable, history
<1>5. CASE WaitTimesOut(w) /\ Reply(w, "pending")
  BY <1>5, ReplyOnce DEF WaitTimesOut, durable, history
<1> QED BY <1>1, <1>2, <1>3, <1>4, <1>5 DEF Wait, WaitTimesOut

LEMMA CoreBeginsOnce ==
  ASSUME TypeInv, OnceInv, NEW w \in Workers, CoreBegins(w)
  PROVE  OnceInv'
<1>1. /\ pc[w] = "core" /\ txn = None /\ canonical[Id(w)] = None /\ txn' = w
      /\ durable' = durable /\ applied' = applied /\ lapsed' = lapsed
      /\ bypassed' = bypassed /\ att' = att
  BY DEF CoreBegins, history
<1>2. pc'[w] = "exec" /\ \A u \in Workers \ {w} : pc'[u] = pc[u]
  BY DEF CoreBegins, Goto, TypeInv, TypeOK
<1>3. Moves(w) /\ Resumes(w)
  BY <1>1, <1>2 DEF Moves, Resumes, Early, Holding, durable
<1>4. ASSUME NEW u \in Workers \ {w} PROVE Moves(u) /\ Resumes(u)
  <2>1. pc[u] # "exec"
    BY <1>1, NoneAssumption DEF OnceInv, ExecAlone
  <2> QED BY <1>1, <1>2, <2>1, OtherWorker DEF durable
<1> QED BY <1>1, <1>3, <1>4, CalmFrame

LEMMA ExecCommitsOnce ==
  ASSUME TypeInv, OnceInv, NEW w \in Workers, ExecCommits(w)
  PROVE  OnceInv'
<1> DEFINE row == [load |-> att[w].load, old |-> FALSE]
<1>0. /\ pc[w] = "exec" /\ att[w] \in Attempts /\ Id(w) \in Ids
      /\ att[w].load \in Loads /\ Atomic(w)
  BY Serves DEF ExecCommits, Fits, Atomic, Class
<1>1. /\ canonical' = [canonical EXCEPT ![Id(w)] = row]
      /\ runtime' = runtime /\ lapsed' = lapsed /\ bypassed' = bypassed
      /\ Apply(Id(w), att[w].load)
      /\ pc' = [pc EXCEPT ![w] = "finalize"]
      /\ att' = [att EXCEPT ![w].resp = "ok"]
  BY DEF ExecCommits, GotoWith, Goto
<1>2. row \in Canonicals /\ row # None
  <2>1. row \in Canonicals
    BY <1>0 DEF Canonicals
  <2> QED BY <2>1, NoneAssumption
<1>3. /\ pc'[w] = "finalize" /\ att'[w].id = att[w].id
      /\ att'[w].load = att[w].load
      /\ \A u \in Workers \ {w} : pc'[u] = pc[u] /\ att'[u] = att[u]
  BY <1>0, <1>1 DEF TypeInv, TypeOK, Attempts
<1>4. txn = w /\ canonical[Id(w)] = None
  BY <1>0 DEF OnceInv, ExecAlone
<1>5. Id(w) \notin LegacyIds \ bypassed
  BY <1>0 DEF OnceInv, LegacyKept, Early
<1>6. Moves(w) /\ Resumes(w)
  BY <1>0, <1>3 DEF Moves, Resumes, Early, Holding
<1>7. ASSUME NEW u \in Workers \ {w} PROVE Moves(u) /\ Resumes(u)
  <2>1. pc[u] # "exec"
    BY <1>4 DEF OnceInv, ExecAlone
  <2> QED BY <1>1, <1>3, <2>1, OtherWorker
<1>8. \A u \in Workers : Moves(u) /\ Resumes(u)
  BY <1>6, <1>7
<1>9. /\ \A id \in Ids, load \in Loads :
           id # Id(w) \/ load # att[w].load
             => applied'[id][load] = applied[id][load]
      /\ applied[Id(w)][att[w].load] = 0
           => applied'[Id(w)][att[w].load] = 1
  BY <1>0, <1>1 DEF Apply, TypeInv, TypeOK
<1>10. RowsOK'
  BY <1>1 DEF OnceInv, RowsOK
<1>11. LegacyKept'
  <2>1. ASSUME NEW id \in LegacyIds \ bypassed' PROVE applied'[id] = applied[id]
    BY <1>0, <1>1, <1>5, ConstantsAssumption DEF Apply, TypeInv, TypeOK
  <2> QED BY <1>1, <1>8, <2>1, LegacyFrame
<1>12. AtomicOnce'
  <2> SUFFICES ASSUME NEW id \in Ids \ (lapsed \union LegacyIds),
                      NEW load \in Loads, IsAtomic(load)
               PROVE  /\ applied'[id][load] <= 1
                      /\ canonical'[id] = None => applied'[id][load] = 0
    BY <1>1 DEF AtomicOnce, IsAtomic
  <2>1. /\ applied[id][load] <= 1
        /\ canonical[id] = None => applied[id][load] = 0
    BY DEF OnceInv, AtomicOnce
  <2>2. CASE id = Id(w)
    <3>1. applied[id][load] = 0
      BY <1>4, <2>1, <2>2
    <3>2. canonical'[id] # None
      BY <1>0, <1>1, <1>2, <2>2 DEF TypeInv, TypeOK
    <3>3. applied'[id][load] <= 1
      BY <1>9, <2>2, <3>1
    <3> QED BY <3>2, <3>3
  <2>3. CASE id # Id(w)
    BY <1>0, <1>1, <1>9, <2>1, <2>3 DEF TypeInv, TypeOK
  <2> QED BY <2>2, <2>3
<1>13. ExternalOnce'
  <2> SUFFICES ASSUME NEW id \in Ids \ LegacyIds, NEW load \in Loads,
                      ~IsAtomic(load), Remembered(id, load)'
               PROVE  Recorded(id, load)'
    BY DEF ExternalOnce, IsAtomic
  <2>1. applied'[id][load] = applied[id][load]
    BY <1>0, <1>9 DEF IsAtomic, Atomic, Class
  <2> QED BY <1>1, <1>8, <2>1, ExternalFrame
<1> QED BY <1>8, <1>10, <1>11, <1>12, <1>13, WorkersFrame, HoldersFrame
        DEF OnceInv

LEMMA CoreOnce ==
  ASSUME TypeInv, OnceInv, NEW w \in Workers, Core(w)
  PROVE  OnceInv'
<1>0. pc[w] \in {"core", "exec", "finalize"}
  BY DEF Core, CoreBegins, CoreConflicts, CoreReplays, CoreFails, ExecCommits,
         ExecRefuses, Finalizes, FinalizeFails
<1>a. pc[w] \notin Early /\ Atomic(w) /\ att[w] \in Attempts
  BY <1>0, Serves DEF Early, Fits, Atomic, Class
<1>b. Release(w) \in Steps /\ Release(w) # "exec"
  BY DEF Release, Steps
<1>c. pc[w] = "exec" => txn = w
  BY DEF OnceInv, ExecAlone
<1>1. CASE CoreBegins(w)
  BY <1>1, CoreBeginsOnce
<1>2. CASE CoreConflicts(w)
  BY <1>2, <1>a, <1>b, GotoWithOnce DEF CoreConflicts, durable, history
<1>3. CASE CoreReplays(w)
  <2>1. /\ pc' = [pc EXCEPT ![w] = "finalize"]
        /\ att'[w].id = att[w].id /\ att'[w].load = att[w].load
        /\ \A u \in Workers \ {w} : att'[u] = att[u]
    BY <1>3, <1>a DEF CoreReplays, Goto, TypeInv, TypeOK, Attempts
  <2> QED BY <1>3, <1>a, <2>1, GoesOn
          DEF CoreReplays, Steps, Holding, durable, history
<1>4. CASE CoreFails(w)
  BY <1>4, <1>a, <1>b, <1>c, GotoWithOnce DEF CoreFails, durable, history
<1>5. CASE ExecCommits(w)
  BY <1>5, ExecCommitsOnce
<1>6. CASE ExecRefuses(w)
  BY <1>6, <1>a, <1>c, GotoWithOnce
     DEF ExecRefuses, Steps, durable, history
<1>7. CASE Finalizes(w)
  BY <1>7, <1>a, GoesOn DEF Finalizes, Goto, Steps, Holding, durable
<1>8. CASE FinalizeFails(w)
  BY <1>8, <1>a, <1>b, GotoWithOnce DEF FinalizeFails, durable, history
<1> QED BY <1>1, <1>2, <1>3, <1>4, <1>5, <1>6, <1>7, <1>8 DEF Core

LEMMA RunsOnce ==
  ASSUME TypeInv, OnceInv, NEW w \in Workers, Runs(w)
  PROVE  OnceInv'
<1>0. /\ pc[w] = "run" /\ att[w] \in Attempts /\ Id(w) \in Ids
      /\ att[w].load \in Loads /\ ~Atomic(w)
  BY Serves DEF Runs, Fits, Atomic, Class
<1>1. PICK resp \in {"ok", "refused", "confirm", "busy"}, acted \in BOOLEAN :
        /\ resp \in {"confirm", "busy"} => ~acted
        /\ IF acted THEN Apply(Id(w), att[w].load) ELSE UNCHANGED applied
        /\ GotoWith(w, AfterRun(w, resp), resp)
  BY DEF Runs
<1>2. /\ runtime' = runtime /\ canonical' = canonical /\ txn' = txn
      /\ lapsed' = lapsed /\ bypassed' = bypassed
  BY DEF Runs, durable
<1>3. /\ pc'[w] = AfterRun(w, resp)
      /\ att'[w].id = att[w].id /\ att'[w].load = att[w].load
      /\ \A u \in Workers \ {w} : pc'[u] = pc[u] /\ att'[u] = att[u]
  BY <1>0, <1>1 DEF GotoWith, Goto, TypeInv, TypeOK, Attempts
<1>4. /\ AfterRun(w, resp) \in {"retain", "complete", "abandon"}
      /\ acted => AfterRun(w, resp) # "abandon"
  BY <1>1 DEF AfterRun
<1>5. Unresolved(Row(w)) /\ Row(w).load = att[w].load
  BY <1>0 DEF OnceInv, HolderOK, Holding
<1>6. Moves(w) /\ Resumes(w)
  BY <1>0, <1>2, <1>3, <1>4, <1>5 DEF Moves, Resumes, Early, Holding, Row
<1>7. ASSUME NEW u \in Workers \ {w} PROVE Moves(u) /\ Resumes(u)
  <2>1. pc[u] = "exec" => txn' = u /\ canonical'[Id(u)] = None
    BY <1>2 DEF OnceInv, ExecAlone
  <2> QED BY <1>2, <1>3, <2>1, OtherWorker
<1>8. \A u \in Workers : Moves(u) /\ Resumes(u)
  BY <1>6, <1>7
<1>9. CASE ~acted
  BY <1>1, <1>2, <1>8, <1>9, CalmFrame DEF durable
<1>10. CASE acted
  <2>1. Id(w) \notin LegacyIds \ bypassed
    BY <1>0 DEF OnceInv, LegacyKept, Early
  <2>2. /\ \A id \in Ids, load \in Loads :
             id # Id(w) \/ load # att[w].load
               => applied'[id][load] = applied[id][load]
        /\ applied[Id(w)][att[w].load] = 0
             => applied'[Id(w)][att[w].load] = 1
    BY <1>0, <1>1, <1>10 DEF Apply, TypeInv, TypeOK
  <2>3. RowsOK'
    BY <1>2 DEF OnceInv, RowsOK
  <2>4. LegacyKept'
    <3>1. ASSUME NEW id \in LegacyIds \ bypassed'
          PROVE  applied'[id] = applied[id]
      BY <1>0, <1>1, <1>2, <1>10, <2>1, ConstantsAssumption
         DEF Apply, TypeInv, TypeOK
    <3> QED BY <1>2, <1>8, <3>1, LegacyFrame
  <2>5. AtomicOnce'
    <3>1. \A id \in Ids, load \in Loads :
            IsAtomic(load) => applied'[id][load] = applied[id][load]
      BY <1>0, <2>2 DEF IsAtomic, Atomic, Class
    <3> QED BY <1>2, <3>1, AtomicFrame
  <2>6. ExternalOnce'
    <3> SUFFICES ASSUME NEW id \in Ids \ LegacyIds, NEW load \in Loads,
                        ~IsAtomic(load), Remembered(id, load)'
                 PROVE  Recorded(id, load)'
      BY DEF ExternalOnce, IsAtomic
    <3>1. CASE id = Id(w) /\ load = att[w].load
      <4>1. Recorded(id, load)
        BY <1>2 DEF OnceInv, ExternalOnce, Remembered
      <4>2. applied[id][load] = 0
        BY <1>0, <3>1, <4>1 DEF Recorded
      <4>3. applied'[id][load] = 1
        BY <2>2, <3>1, <4>2
      <4>4. runtime'[id] # None /\ runtime'[id].load = load
        BY <1>2, <1>5, <3>1 DEF Row, Unresolved
      <4>5. ASSUME NEW u \in Workers, pc'[u] \in {"run", "abandon"}
            PROVE  att'[u].id # id \/ att'[u].load # load
        <5>1. u # w
          BY <1>3, <1>4, <1>10, <4>5
        <5>2. pc[u] \in {"run", "abandon"} /\ att'[u] = att[u]
          BY <1>3, <4>5, <5>1
        <5> SUFFICES ASSUME att[u].id = id, att[u].load = load PROVE FALSE
          BY <5>2
        <5> QED BY <1>0, <3>1, <5>1, <5>2
                DEF OnceInv, HolderAlone, Holding, Id, Atomic, Class
      <4> QED BY <4>3, <4>4, <4>5 DEF Recorded, Id
    <3>2. CASE ~(id = Id(w) /\ load = att[w].load)
      BY <1>2, <1>8, <2>2, <3>2, ExternalFrame
    <3> QED BY <3>1, <3>2
  <2> QED BY <1>8, <2>3, <2>4, <2>5, <2>6, WorkersFrame, HoldersFrame
          DEF OnceInv
<1> QED BY <1>9, <1>10

LEMMA ExternalStepOnce ==
  ASSUME TypeInv, OnceInv, NEW w \in Workers, External(w)
  PROVE  OnceInv'
<1>1. CASE Runs(w)
  BY <1>1, RunsOnce
<1>2. CASE Retains(w)
  <2>0. pc[w] = "retain" /\ att[w] \in Attempts
    BY <1>2, Serves DEF Retains
  <2>1. /\ pc'[w] = "complete"
        /\ att'[w].id = att[w].id /\ att'[w].load = att[w].load
        /\ \A u \in Workers \ {w} : pc'[u] = pc[u] /\ att'[u] = att[u]
    BY <1>2, <2>0 DEF Retains, GotoWith, Goto, TypeInv, TypeOK, Attempts
  <2>2. /\ durable' = durable /\ txn' = txn /\ applied' = applied
        /\ lapsed' = lapsed /\ bypassed' = bypassed
    BY <1>2 DEF Retains, history
  <2>3. ~Atomic(w) => Unresolved(Row(w)) /\ Row(w).load = att[w].load
    BY <2>0 DEF OnceInv, HolderOK, Holding
  <2>4. Moves(w) /\ Resumes(w)
    BY <2>0, <2>1, <2>2, <2>3 DEF Moves, Resumes, Early, Holding, Row, durable
  <2> QED BY <2>1, <2>2, <2>4, CalmWorker
<1> QED BY <1>1, <1>2 DEF External

\* A row that gets its response, or is released, by the worker w of its
\* request: no other worker holds it.
LEMMA OthersAway ==
  ASSUME TypeInv, OnceInv, NEW w \in Workers, pc[w] \in Holding,
         Completable(w), NEW u \in Workers, u # w,
         pc[u] \in Holding, ~Atomic(u)
  PROVE  Id(u) # Id(w)
<1> SUFFICES ASSUME Id(u) = Id(w) PROVE FALSE
  OBVIOUS
<1>1. runtime[Id(w)].load = att[w].load
  BY DEF Completable, SameLoad, Row
<1>2. runtime[Id(u)].load = att[u].load
  BY DEF OnceInv, HolderOK, Row
<1>3. ~Atomic(w)
  BY <1>1, <1>2 DEF Atomic, Class
<1> QED BY <1>3 DEF OnceInv, HolderAlone

LEMMA CompletesOnce ==
  ASSUME TypeInv, OnceInv, NEW w \in Workers, Completes(w)
  PROVE  OnceInv'
<1> DEFINE settled == [runtime EXCEPT ![Id(w)].resp = StoredResponse(w)]
           step == IF Atomic(w) THEN "prune" ELSE "publish"
<1>0. /\ pc[w] = "complete" /\ att[w] \in Attempts /\ Id(w) \in Ids
      /\ att[w].load \in Loads /\ Fits("complete", att[w])
      /\ Completable(w)
  BY Serves DEF Completes
<1>1. /\ runtime' = Pruned(settled) /\ lapsed' = lapsed \union PrunedIds(settled)
      /\ canonical' = canonical /\ txn' = txn /\ applied' = applied
      /\ bypassed' = bypassed /\ pc' = [pc EXCEPT ![w] = step] /\ att' = att
  BY DEF Completes, Goto
<1>2. runtime[Id(w)] \in Rows /\ runtime[Id(w)].load = att[w].load
      /\ runtime[Id(w)] # None /\ runtime[Id(w)].resp = "none"
  BY <1>0 DEF Completable, SameLoad, Unresolved, Row, TypeInv, TypeOK
<1>3. /\ settled[Id(w)] = [runtime[Id(w)] EXCEPT !.resp = StoredResponse(w)]
      /\ \A id \in Ids : id # Id(w) => settled[id] = runtime[id]
  BY <1>0 DEF TypeInv, TypeOK
<1>4. /\ settled[Id(w)].load = runtime[Id(w)].load
      /\ settled[Id(w)].class = runtime[Id(w)].class
      /\ settled[Id(w)].resp = StoredResponse(w)
  BY <1>2, <1>3 DEF Rows
<1>5. settled[Id(w)] # None
  <2>1. StoredResponse(w) \in Stored
    BY <1>0 DEF StoredResponse, Stored, Class, Fits
  <2>2. settled[Id(w)] \in Rows
    BY <1>2, <1>3, <2>1 DEF Rows
  <2> QED BY <2>2, NoneAssumption
<1> HIDE DEF settled
<1>6. \A id \in Ids : runtime'[id] = IF Expired(settled[id]) THEN None
                                     ELSE settled[id]
  BY <1>1 DEF Pruned
<1>7. ASSUME NEW id \in Ids, ~Settled(runtime[id]), id # Id(w)
      PROVE  runtime'[id] = runtime[id]
  BY <1>3, <1>6, <1>7 DEF Expired
<1>8. pc'[w] = step /\ \A u \in Workers \ {w} : pc'[u] = pc[u]
  BY <1>1 DEF TypeInv, TypeOK
<1>9. Id(w) \notin LegacyIds \ bypassed
  BY <1>0 DEF OnceInv, LegacyKept, Early
<1>10. Moves(w) /\ Resumes(w)
  BY <1>0, <1>1, <1>8 DEF Moves, Resumes, Early, Holding
<1>11. ASSUME NEW u \in Workers \ {w} PROVE Moves(u) /\ Resumes(u)
  <2>1. pc[u] = "exec" => txn' = u /\ canonical'[Id(u)] = None
    BY <1>1 DEF OnceInv, ExecAlone
  <2>2. ASSUME pc[u] \in Holding, ~Atomic(u)
        PROVE  runtime'[Id(u)] = runtime[Id(u)]
    <3>1. Id(u) # Id(w)
      BY <1>0, <2>2, OthersAway DEF Holding
    <3>2. Id(u) \in Ids
      BY <2>2, Serves DEF Holding
    <3>3. ~Settled(runtime[Id(u)])
      BY <2>2 DEF OnceInv, HolderOK, Unresolved, Settled, Row
    <3> QED BY <1>7, <3>1, <3>2, <3>3
  <2> QED BY <1>1, <1>8, <2>1, <2>2, OtherWorker
<1>12. \A u \in Workers : Moves(u) /\ Resumes(u)
  BY <1>10, <1>11
<1>13. RowsOK'
  <2> SUFFICES ASSUME NEW id \in Ids, runtime'[id] # None,
                      ~IsAtomic(runtime'[id].load)
               PROVE  /\ runtime'[id].class # "atomic"
                      /\ runtime'[id].resp # "confirm"
                      /\ ClassOf[runtime'[id].load] = "launch"
                           => runtime'[id].resp \in {"none", "marker"}
    BY DEF RowsOK, IsAtomic
  <2>1. runtime'[id] = settled[id]
    BY <1>6
  <2>2. CASE id = Id(w)
    <3>1. ~IsAtomic(runtime[id].load) /\ runtime[id].class # "atomic"
      BY <1>2, <1>4, <2>1, <2>2 DEF OnceInv, RowsOK
    <3> QED BY <1>0, <1>2, <1>4, <2>1, <2>2, <3>1
            DEF StoredResponse, Class, Fits, IsAtomic
  <2>3. CASE id # Id(w)
    BY <1>3, <2>1, <2>3 DEF OnceInv, RowsOK
  <2> QED BY <2>2, <2>3
<1>14. LegacyKept'
  <2>1. ASSUME NEW id \in LegacyIds \ bypassed' PROVE runtime'[id] = runtime[id]
    <3>1. id \in Ids /\ id # Id(w) /\ ~Settled(runtime[id])
      BY <1>1, <1>9, ConstantsAssumption DEF OnceInv, LegacyKept, Settled
    <3> QED BY <1>7, <3>1
  <2> QED BY <1>1, <1>12, <2>1, LegacyFrame
<1>15. AtomicOnce'
  BY <1>1, AtomicFrame
<1>16. ExternalOnce'
  <2> SUFFICES ASSUME NEW id \in Ids \ LegacyIds, NEW load \in Loads,
                      ~IsAtomic(load), Remembered(id, load)'
               PROVE  Recorded(id, load)'
    BY DEF ExternalOnce, IsAtomic
  <2>1. ASSUME runtime[id] # None, runtime[id].load = load
        PROVE  runtime'[id] # None /\ runtime'[id].load = load
    <3>1. settled[id] # None /\ settled[id].load = load
      BY <1>3, <1>4, <1>5, <2>1
    <3>2. ~Expired(settled[id])
      <4> SUFFICES ASSUME Expired(settled[id]) PROVE FALSE
        OBVIOUS
      <4>1. settled[id].class # "atomic"
        <5>1. runtime[id].class # "atomic"
          BY <2>1 DEF OnceInv, RowsOK
        <5> QED BY <1>3, <1>4, <5>1
      <4>2. id \in lapsed'
        BY <1>1, <4>1 DEF PrunedIds
      <4>3. ClassOf[load] = "launch"
        BY <4>2 DEF Remembered
      <4>4. settled[id].resp \in {"none", "marker"}
        <5>1. runtime[id].resp \in {"none", "marker"}
          BY <2>1, <4>3 DEF OnceInv, RowsOK
        <5>2. CASE id = Id(w)
          BY <1>2, <1>4, <2>1, <4>3, <5>2 DEF StoredResponse, Class
        <5> QED BY <1>3, <5>1, <5>2
      <4> QED BY <4>4 DEF Expired, Settled
    <3> QED BY <1>6, <3>1, <3>2
  <2> QED BY <1>1, <1>12, <2>1, ExternalFrame
<1> QED BY <1>12, <1>13, <1>14, <1>15, <1>16, WorkersFrame, HoldersFrame
        DEF OnceInv

LEMMA AbandonsOnce ==
  ASSUME TypeInv, OnceInv, NEW w \in Workers, Abandons(w)
  PROVE  OnceInv'
<1>0. /\ pc[w] = "abandon" /\ att[w] \in Attempts /\ Id(w) \in Ids
      /\ att[w].load \in Loads /\ Completable(w)
  BY Serves DEF Abandons, Abandonable
<1>1. /\ runtime' = [runtime EXCEPT ![Id(w)] = None]
      /\ canonical' = canonical /\ txn' = txn /\ applied' = applied
      /\ lapsed' = lapsed /\ bypassed' = bypassed
      /\ pc' = [pc EXCEPT ![w] = AfterAbandon(w)]
      /\ att' = [att EXCEPT ![w].owns = FALSE]
  BY DEF Abandons, Goto
<1>2. runtime[Id(w)] # None /\ runtime[Id(w)].load = att[w].load
  BY <1>0 DEF Completable, SameLoad, Row
<1>3. runtime'[Id(w)] = None
      /\ \A id \in Ids : id # Id(w) => runtime'[id] = runtime[id]
  BY <1>0, <1>1 DEF TypeInv, TypeOK
<1>4. /\ pc'[w] \in {"prune", "publish"}
      /\ att'[w].id = att[w].id /\ att'[w].load = att[w].load
      /\ \A u \in Workers \ {w} : pc'[u] = pc[u] /\ att'[u] = att[u]
  BY <1>0, <1>1 DEF AfterAbandon, TypeInv, TypeOK, Attempts
<1>5. Id(w) \notin LegacyIds \ bypassed
  BY <1>0 DEF OnceInv, LegacyKept, Early
<1>6. Moves(w) /\ Resumes(w)
  BY <1>0, <1>4 DEF Moves, Resumes, Early, Holding
<1>7. ASSUME NEW u \in Workers \ {w} PROVE Moves(u) /\ Resumes(u)
  <2>1. pc[u] = "exec" => txn' = u /\ canonical'[Id(u)] = None
    BY <1>1 DEF OnceInv, ExecAlone
  <2>2. ASSUME pc[u] \in Holding, ~Atomic(u)
        PROVE  runtime'[Id(u)] = runtime[Id(u)]
    <3>1. Id(u) # Id(w)
      BY <1>0, <2>2, OthersAway DEF Holding
    <3>2. Id(u) \in Ids
      BY <2>2, Serves DEF Holding
    <3> QED BY <1>3, <3>1, <3>2
  <2> QED BY <1>4, <2>1, <2>2, OtherWorker
<1>8. \A u \in Workers : Moves(u) /\ Resumes(u)
  BY <1>6, <1>7
<1>9. RowsOK'
  BY <1>3 DEF OnceInv, RowsOK, IsAtomic
<1>10. LegacyKept'
  <2>1. ASSUME NEW id \in LegacyIds \ bypassed' PROVE runtime'[id] = runtime[id]
    BY <1>1, <1>3, <1>5, ConstantsAssumption
  <2> QED BY <1>1, <1>8, <2>1, LegacyFrame
<1>11. AtomicOnce'
  BY <1>1, AtomicFrame
<1>12. ExternalOnce'
  <2> SUFFICES ASSUME NEW id \in Ids \ LegacyIds, NEW load \in Loads,
                      ~IsAtomic(load), Remembered(id, load)'
               PROVE  Recorded(id, load)'
    BY DEF ExternalOnce, IsAtomic
  <2>1. CASE id = Id(w)
    <3>1. Recorded(id, load)
      BY <1>1 DEF OnceInv, ExternalOnce, Remembered
    <3>2. applied[id][load] = 0
      BY <1>0, <1>2, <2>1, <3>1 DEF Recorded
    <3> QED BY <1>1, <3>2 DEF Recorded
  <2>2. CASE id # Id(w)
    BY <1>1, <1>3, <1>8, <2>2, ExternalFrame
  <2> QED BY <2>1, <2>2
<1> QED BY <1>8, <1>9, <1>10, <1>11, <1>12, WorkersFrame, HoldersFrame
        DEF OnceInv

LEMMA PruneCanonicalOnce ==
  ASSUME TypeInv, OnceInv, NEW w \in Workers, PruneCanonical(w)
  PROVE  OnceInv'
<1>0. pc[w] = "prune" /\ att[w] \in Attempts /\ Id(w) \in Ids
  BY Serves DEF PruneCanonical
<1>1. /\ runtime' = runtime /\ txn' = txn /\ applied' = applied
      /\ bypassed' = bypassed /\ att' = att
      /\ pc' = [pc EXCEPT ![w] = "publish"]
  BY DEF PruneCanonical, Goto
<1>2. /\ lapsed \subseteq lapsed'
      /\ \A id \in Ids : canonical[id] = None => canonical'[id] = None
      /\ \A id \in Ids \ lapsed' : canonical'[id] = canonical[id]
  BY DEF PruneCanonical, Forgettable, TypeInv, TypeOK
<1>3. pc'[w] = "publish" /\ \A u \in Workers \ {w} : pc'[u] = pc[u]
  BY <1>1 DEF TypeInv, TypeOK
<1>4. Id(w) \notin LegacyIds \ bypassed
  BY <1>0 DEF OnceInv, LegacyKept, Early
<1>5. Moves(w) /\ Resumes(w)
  BY <1>1, <1>3, <1>4 DEF Moves, Resumes, Holding
<1>6. ASSUME NEW u \in Workers \ {w} PROVE Moves(u) /\ Resumes(u)
  <2>1. pc[u] = "exec" => txn' = u /\ canonical'[Id(u)] = None
    BY <1>1, <1>2, Serves DEF OnceInv, ExecAlone
  <2> QED BY <1>1, <1>3, <2>1, OtherWorker
<1>7. \A u \in Workers : Moves(u) /\ Resumes(u)
  BY <1>5, <1>6
<1>8. RowsOK'
  BY <1>1 DEF OnceInv, RowsOK
<1>9. LegacyKept'
  BY <1>1, <1>7, LegacyFrame
<1>10. AtomicOnce'
  BY <1>1, <1>2, AtomicFrame
<1>11. ExternalOnce'
  <2> SUFFICES ASSUME NEW id \in Ids \ LegacyIds, NEW load \in Loads,
                      ~IsAtomic(load), Remembered(id, load)'
               PROVE  Recorded(id, load)'
    BY DEF ExternalOnce, IsAtomic
  <2> QED BY <1>1, <1>2, <1>7, ExternalFrame
<1> QED BY <1>7, <1>8, <1>9, <1>10, <1>11, WorkersFrame, HoldersFrame
        DEF OnceInv

LEMMA SettleOnce ==
  ASSUME TypeInv, OnceInv, NEW w \in Workers, Settle(w)
  PROVE  OnceInv'
<1>0. pc[w] \in {"complete", "abandon", "prune", "publish"}
  BY DEF Settle, Completes, CompleteFails, Abandons, AbandonFails,
         PruneCanonical, Publishes
<1>a. pc[w] \notin Early /\ att[w] \in Attempts
  BY <1>0, Serves DEF Early
<1>1. CASE Completes(w)
  BY <1>1, CompletesOnce
<1>2. CASE CompleteFails(w) /\ Atomic(w)
  <2>1. \E step \in {"abandon", "prune"} : Goto(w, step)
    BY <1>2 DEF CompleteFails
  <2> QED BY <1>2, <1>a, <2>1, GoesOn
          DEF CompleteFails, Goto, Steps, Holding, durable
<1>3. CASE CompleteFails(w) /\ ~Atomic(w)
  BY <1>3, <1>a, GotoWithOnce
     DEF CompleteFails, Steps, Holding, durable
<1>4. CASE Abandons(w)
  BY <1>4, AbandonsOnce
<1>5. CASE AbandonFails(w)
  BY <1>5, <1>a, GoesOn
     DEF AbandonFails, AfterAbandon, Goto, Steps, Holding, durable
<1>6. CASE PruneCanonical(w)
  BY <1>6, PruneCanonicalOnce
<1>7. CASE Publishes(w)
  BY <1>7, ReplyOnce DEF Publishes, durable, history
<1> QED BY <1>1, <1>2, <1>3, <1>4, <1>5, <1>6, <1>7 DEF Settle

LEMMA PanicsOnce ==
  ASSUME TypeInv, OnceInv, NEW w \in Workers, Panics(w)
  PROVE  OnceInv'
BY ReplyOnce DEF Panics, durable

-----------------------------------------------------------------------------
(* Daemons and time.                                                       *)

LEMMA CrashOnce ==
  ASSUME TypeInv, OnceInv, NEW i \in Instances, Crash(i)
  PROVE  OnceInv'
<1>1. /\ durable' = durable /\ applied' = applied /\ lapsed' = lapsed
      /\ bypassed' = bypassed
      /\ txn' = IF txn \in Busy(i) THEN None ELSE txn
  BY DEF Crash, history
<1>2. ASSUME NEW u \in Workers PROVE Moves(u) /\ Resumes(u)
  <2>1. CASE u \in Busy(i)
    BY <2>1 DEF Crash, Moves, Resumes, Early, Holding
  <2>2. CASE u \notin Busy(i)
    <3>1. pc'[u] = pc[u] /\ att'[u] = att[u]
      BY <2>2 DEF Crash
    <3>2. pc[u] = "exec" => txn' = u /\ canonical'[Id(u)] = None
      BY <1>1, <2>2 DEF OnceInv, ExecAlone, durable
    <3> QED BY <1>1, <3>1, <3>2, OtherWorker DEF durable
  <2> QED BY <2>1, <2>2
<1> QED BY <1>1, <1>2, CalmFrame

LEMMA IdleOnce ==
  ASSUME TypeInv, OnceInv, serving' = serving, txn' = txn,
         durable' = durable, applied' = applied, lapsed' = lapsed,
         bypassed' = bypassed
  PROVE  OnceInv'
BY DEF OnceInv, RowsOK, HolderOK, HolderAlone, ExecAlone, LegacyKept,
       AtomicOnce, ExternalOnce, Recorded, Remembered, serving, durable,
       Row, Id, Atomic, Class, Unresolved

LEMMA StartOnce ==
  ASSUME TypeInv, OnceInv, NEW i \in Instances, Start(i)
  PROVE  OnceInv'
<1>1. /\ runtime' = Pruned(runtime) /\ lapsed' = lapsed \union PrunedIds(runtime)
      /\ canonical' = canonical /\ txn' = txn /\ applied' = applied
      /\ bypassed' = bypassed /\ pc' = pc /\ att' = att
  BY DEF Start, serving
<1>2. \A id \in Ids : runtime'[id] = IF Expired(runtime[id]) THEN None
                                     ELSE runtime[id]
  BY <1>1 DEF Pruned
<1>3. ASSUME NEW u \in Workers PROVE Moves(u) /\ Resumes(u)
  <2>1. pc[u] = "exec" => txn' = u /\ canonical'[Id(u)] = None
    BY <1>1 DEF OnceInv, ExecAlone
  <2>2. pc[u] \in Holding /\ ~Atomic(u) => runtime'[Id(u)] = runtime[Id(u)]
    BY <1>2, Serves
       DEF OnceInv, HolderOK, Unresolved, Expired, Settled, Row, Holding
  <2> QED BY <1>1, <2>1, <2>2, OtherWorker
<1>4. RowsOK'
  BY <1>2 DEF OnceInv, RowsOK, IsAtomic
<1>5. LegacyKept'
  <2>1. ASSUME NEW id \in LegacyIds \ bypassed' PROVE runtime'[id] = runtime[id]
    BY <1>1, <1>2, ConstantsAssumption
       DEF OnceInv, LegacyKept, Expired, Settled
  <2> QED BY <1>1, <1>3, <2>1, LegacyFrame
<1>6. AtomicOnce'
  BY <1>1, AtomicFrame
<1>7. ExternalOnce'
  <2> SUFFICES ASSUME NEW id \in Ids \ LegacyIds, NEW load \in Loads,
                      ~IsAtomic(load), Remembered(id, load)'
               PROVE  Recorded(id, load)'
    BY DEF ExternalOnce, IsAtomic
  <2>1. ASSUME runtime[id] # None, runtime[id].load = load, Expired(runtime[id])
        PROVE  FALSE
    <3>1. runtime[id].class # "atomic"
      BY <2>1 DEF OnceInv, RowsOK
    <3>2. id \in lapsed'
      BY <1>1, <2>1, <3>1 DEF PrunedIds
    <3>3. ClassOf[load] = "launch"
      BY <3>2 DEF Remembered
    <3> QED BY <2>1, <3>3 DEF OnceInv, RowsOK, Expired, Settled
  <2> QED BY <1>1, <1>2, <1>3, <2>1, ExternalFrame
<1> QED BY <1>3, <1>4, <1>5, <1>6, <1>7, WorkersFrame, HoldersFrame
        DEF OnceInv

LEMMA AgeOnce ==
  ASSUME TypeInv, OnceInv, NEW id \in Ids, Age(id)
  PROVE  OnceInv'
<1>1. /\ txn' = txn /\ applied' = applied /\ lapsed' = lapsed
      /\ bypassed' = bypassed /\ pc' = pc /\ att' = att
  BY DEF Age, serving, history
<1>2. \A r \in Ids :
        /\ ~Settled(runtime[r]) => runtime'[r] = runtime[r]
        /\ runtime[r] # None
             => /\ runtime'[r] # None
                /\ runtime'[r].load = runtime[r].load
                /\ runtime'[r].class = runtime[r].class
                /\ runtime'[r].resp = runtime[r].resp
        /\ runtime[r] = None => runtime'[r] = None
  <2>1. CASE Settled(runtime[id])
    <3>1. runtime' = [runtime EXCEPT ![id].old = TRUE]
      BY <2>1 DEF Age
    <3>2. runtime[id] \in Rows
      BY <2>1 DEF Settled, TypeInv, TypeOK
    <3>3. /\ [runtime[id] EXCEPT !.old = TRUE] \in Rows
          /\ [runtime[id] EXCEPT !.old = TRUE].load = runtime[id].load
          /\ [runtime[id] EXCEPT !.old = TRUE].class = runtime[id].class
          /\ [runtime[id] EXCEPT !.old = TRUE].resp = runtime[id].resp
      BY <3>2 DEF Rows
    <3>4. [runtime[id] EXCEPT !.old = TRUE] # None
      BY <3>3, NoneAssumption
    <3>5. /\ runtime'[id] = [runtime[id] EXCEPT !.old = TRUE]
          /\ \A r \in Ids : r # id => runtime'[r] = runtime[r]
      BY <3>1 DEF TypeInv, TypeOK
    <3>6. runtime[id] # None
      BY <2>1 DEF Settled
    <3> QED BY <2>1, <3>3, <3>4, <3>5, <3>6
  <2>2. CASE ~Settled(runtime[id])
    BY <2>2 DEF Age
  <2> QED BY <2>1, <2>2
<1>3. \A r \in Ids : canonical'[r] = None <=> canonical[r] = None
  <2>1. CASE canonical[id] # None
    <3>1. canonical' = [canonical EXCEPT ![id].old = TRUE]
      BY <2>1 DEF Age
    <3>2. canonical[id] \in Canonicals
      BY <2>1 DEF TypeInv, TypeOK
    <3>3. [canonical[id] EXCEPT !.old = TRUE] \in Canonicals
      BY <3>2 DEF Canonicals
    <3>4. [canonical[id] EXCEPT !.old = TRUE] # None
      BY <3>3, NoneAssumption
    <3> QED BY <2>1, <3>1, <3>4 DEF TypeInv, TypeOK
  <2>2. CASE canonical[id] = None
    BY <2>2 DEF Age
  <2> QED BY <2>1, <2>2
<1>4. ASSUME NEW u \in Workers PROVE Moves(u) /\ Resumes(u)
  <2>1. pc[u] = "exec" => txn' = u /\ canonical'[Id(u)] = None
    BY <1>1, <1>3, Serves DEF OnceInv, ExecAlone
  <2>2. pc[u] \in Holding /\ ~Atomic(u) => runtime'[Id(u)] = runtime[Id(u)]
    BY <1>2, Serves DEF OnceInv, HolderOK, Unresolved, Settled, Row, Holding
  <2> QED BY <1>1, <2>1, <2>2, OtherWorker
<1>5. RowsOK'
  BY <1>2 DEF OnceInv, RowsOK, IsAtomic
<1>6. LegacyKept'
  <2>1. ASSUME NEW r \in LegacyIds \ bypassed' PROVE runtime'[r] = runtime[r]
    BY <1>1, <1>2, ConstantsAssumption DEF OnceInv, LegacyKept, Settled
  <2> QED BY <1>1, <1>4, <2>1, LegacyFrame
<1>7. AtomicOnce'
  BY <1>1, <1>3, AtomicFrame
<1>8. ExternalOnce'
  <2> SUFFICES ASSUME NEW r \in Ids \ LegacyIds, NEW load \in Loads,
                      ~IsAtomic(load), Remembered(r, load)'
               PROVE  Recorded(r, load)'
    BY DEF ExternalOnce, IsAtomic
  <2> QED BY <1>1, <1>2, <1>4, ExternalFrame
<1> QED BY <1>4, <1>5, <1>6, <1>7, <1>8, WorkersFrame, HoldersFrame
        DEF OnceInv

LEMMA InitOnce == Init => OnceInv
<1> SUFFICES ASSUME Init PROVE OnceInv
  OBVIOUS
<1>1. PICK L \in [LegacyIds -> Loads] :
        /\ runtime = [id \in Ids |-> IF id \in LegacyIds
                                       THEN LegacyRow(L[id]) ELSE None]
        /\ applied = [id \in Ids |-> [load \in Loads |->
                        IF id \in LegacyIds /\ L[id] = load THEN 1 ELSE 0]]
  BY DEF Init
<1>2. \A w \in Workers : pc[w] = "idle"
  BY DEF Init
<1>3. RowsOK
  BY <1>1 DEF RowsOK, LegacyRow
<1>4. HolderOK /\ HolderAlone /\ ExecAlone
  BY <1>2 DEF HolderOK, HolderAlone, ExecAlone, Holding
<1>5. LegacyKept
  <2> SUFFICES ASSUME NEW id \in LegacyIds
               PROVE  /\ runtime[id] # None
                      /\ runtime[id].class = "unknown" /\ runtime[id].owner = 0
                      /\ runtime[id].resp = "none"
                      /\ \A load \in Loads : applied[id][load] <= 1
    BY <1>2 DEF LegacyKept, Early
  <2>0. id \in Ids /\ L[id] \in Loads
    BY ConstantsAssumption
  <2>1. runtime[id] = LegacyRow(L[id])
    BY <1>1, <2>0
  <2>2. LegacyRow(L[id]) # None
    <3>1. LegacyRow(L[id]) \in Rows
      BY <2>0, BoundsAssumption DEF LegacyRow, Rows, Stored
    <3> QED BY <3>1, NoneAssumption
  <2> QED BY <1>1, <2>0, <2>1, <2>2 DEF LegacyRow
<1>6. AtomicOnce
  BY <1>1 DEF AtomicOnce
<1>7. ExternalOnce
  BY <1>1 DEF ExternalOnce, Recorded
<1> QED BY <1>3, <1>4, <1>5, <1>6, <1>7 DEF OnceInv

LEMMA NextOnce == TypeInv /\ OnceInv /\ [Next]_vars => OnceInv'
<1> SUFFICES ASSUME TypeInv, OnceInv, [Next]_vars PROVE OnceInv'
  OBVIOUS
<1>1. CASE Next
  <2>1. ASSUME NEW w \in Workers, Receive(w) \/ WorkerStep(w) \/ Panics(w)
        PROVE  OnceInv'
    BY <2>1, BeginOnce, ProbeOnce, ReserveOnce, WaitOnce, CoreOnce,
       ExternalStepOnce, SettleOnce, PanicsOnce DEF WorkerStep
  <2>2. ASSUME NEW i \in Instances, Crash(i) PROVE OnceInv'
    BY <2>2, CrashOnce
  <2>3. ASSUME NEW i \in Instances, Shutdown(i) PROVE OnceInv'
    BY <2>3, IdleOnce DEF Shutdown, history
  <2>4. ASSUME NEW i \in Instances, Start(i) PROVE OnceInv'
    BY <2>4, StartOnce
  <2>5. ASSUME NEW i \in Instances, NEW id \in Ids, ReplayExpires(i, id)
        PROVE  OnceInv'
    BY <2>5, IdleOnce DEF ReplayExpires, history
  <2>6. ASSUME NEW id \in Ids, Age(id) PROVE OnceInv'
    BY <2>6, AgeOnce
  <2> QED BY <1>1, <2>1, <2>2, <2>3, <2>4, <2>5, <2>6 DEF Next
<1>2. CASE UNCHANGED vars
  BY <1>2, IdleOnce DEF vars, history
<1> QED BY <1>1, <1>2

LEMMA OnceSuffices == TypeInv /\ OnceInv => AtMostOnce
<1> SUFFICES ASSUME TypeInv, OnceInv, NEW id \in Ids, NEW load \in Loads
             PROVE  \/ applied[id][load] <= 1
                    \/ id \in lapsed /\ ClassOf[load] # "launch"
                    \/ id \in LegacyIds \intersect bypassed
  BY DEF AtMostOnce
<1>1. CASE id \in LegacyIds
  BY <1>1 DEF OnceInv, LegacyKept
<1>2. CASE id \notin LegacyIds /\ IsAtomic(load)
  BY <1>2 DEF OnceInv, AtomicOnce, IsAtomic
<1>3. CASE id \notin LegacyIds /\ ~IsAtomic(load)
  BY <1>3 DEF OnceInv, ExternalOnce, Remembered, Recorded
<1> QED BY <1>1, <1>2, <1>3

\* For any set of ids, payloads, workers and daemon instances, with any number
\* of crashes, failures and resends: no request's effect happens twice before
\* its outcome is forgotten, and a workbench launch's never.
THEOREM ExecutedAtMostOnce == Spec => []AtMostOnce
<1>1. Init => TypeInv /\ OnceInv
  BY InitTyped, InitOnce
<1>2. TypeInv /\ OnceInv /\ [Next]_vars => TypeInv' /\ OnceInv'
  BY NextTyped, NextOnce
<1>3. TypeInv /\ OnceInv => AtMostOnce
  BY OnceSuffices
<1> QED BY <1>1, <1>2, <1>3, PTL DEF Spec

-----------------------------------------------------------------------------
(* Which steps write what.                                                 *)

LEMMA OnceHolds == Spec => [](TypeInv /\ OnceInv)
<1>1. Init => TypeInv /\ OnceInv
  BY InitTyped, InitOnce
<1>2. TypeInv /\ OnceInv /\ [Next]_vars => TypeInv' /\ OnceInv'
  BY NextTyped, NextOnce
<1> QED BY <1>1, <1>2, PTL DEF Spec

\* A worker keeps its request through its own steps, until it is idle.
LEMMA OwnStep ==
  ASSUME TypeInv, NEW w \in Workers, WorkerStep(w) \/ Panics(w)
  PROVE  /\ pc[w] # "idle" /\ att[w] \in Attempts
         /\ \A u \in Workers \ {w} : pc'[u] = pc[u] /\ att'[u] = att[u]
         /\ \/ pc'[w] = "idle" /\ att'[w] = None
            \/ /\ pc'[w] # "idle" /\ att'[w] \in Attempts
               /\ att'[w].id = att[w].id /\ att'[w].load = att[w].load
               /\ att'[w].inst = att[w].inst /\ att'[w].auth = att[w].auth
<1> DEFINE Result ==
      /\ \A u \in Workers \ {w} : pc'[u] = pc[u] /\ att'[u] = att[u]
      /\ \/ pc'[w] = "idle" /\ att'[w] = None
         \/ /\ pc'[w] # "idle" /\ att'[w] \in Attempts
            /\ att'[w].id = att[w].id /\ att'[w].load = att[w].load
            /\ att'[w].inst = att[w].inst /\ att'[w].auth = att[w].auth
<1>1. pc[w] # "idle"
  BY DEF WorkerStep, Probe, Enter, Reserve, Wait, Core, External, Settle,
         ProbeAnswers, ProbeSupersedes, DropConfirmation, ProbeFindsNothing,
         AcquireGate, GatePoisoned, Prepare, PreparationFails, ReserveFresh,
         ReserveAnswers, ReserveJoins, ReserveTakesOver, ReserveFails,
         Reserving, WaitAnswers, WaitReleased, WaitTimesOut, CoreBegins,
         CoreConflicts, CoreReplays, CoreFails, ExecCommits, ExecRefuses,
         Finalizes, FinalizeFails, Runs, Retains, Completes, CompleteFails,
         Abandons, AbandonFails, PruneCanonical, Publishes, Panics
<1>2. att[w] \in Attempts
  BY <1>1, Serves
<1>3. ASSUME NEW step, NEW a \in Attempts, step # "idle",
             pc' = [pc EXCEPT ![w] = step], att' = [att EXCEPT ![w] = a],
             a.id = att[w].id, a.load = att[w].load, a.inst = att[w].inst,
             a.auth = att[w].auth
      PROVE  Result
  BY <1>3 DEF TypeInv, TypeOK
<1>4. ASSUME NEW step, step # "idle", Goto(w, step), att' = att
      PROVE  Result
  BY <1>2, <1>4 DEF Goto, TypeInv, TypeOK
<1>5. ASSUME NEW step, step # "idle", NEW resp \in Responses,
             GotoWith(w, step, resp)
      PROVE  Result
  <2>1. [att[w] EXCEPT !.resp = resp] \in Attempts
    BY <1>2 DEF Attempts
  <2> QED BY <1>2, <1>3, <1>5, <2>1 DEF GotoWith, Goto, Attempts
<1>6. ASSUME NEW kind, Reply(w, kind) PROVE Result
  BY <1>6 DEF Reply, Goto, TypeInv, TypeOK
<1> SUFFICES Result
  BY <1>1, <1>2
<1> HIDE DEF Result
<1>7. CASE Probe(w)
  <2>1. AfterProbe(w) # "idle"
    BY DEF AfterProbe
  <2> QED BY <1>4, <1>6, <1>7, <2>1
          DEF Probe, ProbeAnswers, ProbeSupersedes, DropConfirmation,
              ProbeFindsNothing
<1>8. CASE Enter(w)
  BY <1>4, <1>6, <1>8 DEF Enter, AcquireGate, GatePoisoned, Prepare,
                          PreparationFails
<1>9. CASE Reserve(w)
  <2>1. CASE ReserveFresh(w)
    <3>1. [att[w] EXCEPT !.owns = TRUE] \in Attempts
      BY <1>2 DEF Attempts
    <3> QED BY <1>2, <1>3, <2>1, <3>1 DEF ReserveFresh, Goto, Attempts
  <2>2. CASE ReserveAnswers(w)
    BY <1>6, <2>2 DEF ReserveAnswers
  <2>3. CASE ReserveJoins(w)
    BY <1>4, <2>3 DEF ReserveJoins
  <2>4. CASE ReserveTakesOver(w)
    BY <1>4, <1>6, <2>4 DEF ReserveTakesOver
  <2>5. CASE ReserveFails(w)
    BY <1>4, <1>6, <2>5 DEF ReserveFails
  <2> QED BY <1>9, <2>1, <2>2, <2>3, <2>4, <2>5 DEF Reserve
<1>10. CASE Wait(w)
  BY <1>4, <1>6, <1>10 DEF Wait, WaitAnswers, WaitReleased, WaitTimesOut
<1>11. CASE Core(w)
  <2>1. Release(w) # "idle"
    BY DEF Release
  <2>2. CASE CoreReplays(w)
    <3>1. [att[w] EXCEPT !.resp = "ok", !.fresh = FALSE] \in Attempts
      BY <1>2 DEF Attempts, Responses
    <3> QED BY <1>2, <1>3, <2>2, <3>1 DEF CoreReplays, Goto, Attempts
  <2>3. CASE CoreBegins(w) \/ Finalizes(w)
    BY <1>4, <2>3 DEF CoreBegins, Finalizes
  <2>4. CASE CoreConflicts(w) \/ CoreFails(w) \/ FinalizeFails(w)
    BY <1>5, <2>1, <2>4 DEF CoreConflicts, CoreFails, FinalizeFails, Responses
  <2>5. CASE ExecCommits(w) \/ ExecRefuses(w)
    BY <1>5, <2>5 DEF ExecCommits, ExecRefuses, Responses
  <2> QED BY <1>11, <2>2, <2>3, <2>4, <2>5 DEF Core
<1>12. CASE External(w)
  <2>1. CASE Runs(w)
    <3>1. PICK resp \in {"ok", "refused", "confirm", "busy"} :
            GotoWith(w, AfterRun(w, resp), resp)
      BY <2>1 DEF Runs
    <3>2. AfterRun(w, resp) # "idle" /\ resp \in Responses
      BY DEF AfterRun, Responses
    <3> QED BY <1>5, <3>1, <3>2
  <2>2. CASE Retains(w)
    BY <1>4, <1>5, <2>2 DEF Retains, Responses
  <2> QED BY <1>12, <2>1, <2>2 DEF External
<1>13. CASE Settle(w)
  <2>1. AfterAbandon(w) # "idle"
    BY DEF AfterAbandon
  <2>2. CASE Completes(w)
    BY <1>4, <2>2 DEF Completes
  <2>3. CASE CompleteFails(w)
    BY <1>4, <1>5, <2>3 DEF CompleteFails, Responses
  <2>4. CASE Abandons(w)
    <3>1. [att[w] EXCEPT !.owns = FALSE] \in Attempts
      BY <1>2 DEF Attempts
    <3> QED BY <1>2, <1>3, <2>1, <2>4, <3>1 DEF Abandons, Goto, Attempts
  <2>5. CASE AbandonFails(w) \/ PruneCanonical(w)
    BY <1>4, <2>1, <2>5 DEF AbandonFails, PruneCanonical
  <2>6. CASE Publishes(w)
    BY <1>6, <2>6 DEF Publishes
  <2> QED BY <1>13, <2>2, <2>3, <2>4, <2>5, <2>6 DEF Settle
<1>14. CASE Panics(w)
  BY <1>6, <1>14 DEF Panics
<1> QED BY <1>7, <1>8, <1>9, <1>10, <1>11, <1>12, <1>13, <1>14
        DEF WorkerStep

\* Nobody but itself, and the end of its process, moves a worker.
LEMMA WorkerMoves ==
  ASSUME TypeInv, [Next]_vars, NEW u \in Workers
  PROVE  \/ pc'[u] = pc[u] /\ att'[u] = att[u]
         \/ Receive(u) \/ WorkerStep(u) \/ Panics(u)
         \/ \E i \in Instances : Crash(i) /\ u \in Busy(i)
<1>1. ASSUME NEW w \in Workers, Receive(w), w # u
      PROVE  pc'[u] = pc[u] /\ att'[u] = att[u]
  BY <1>1 DEF Receive, Goto, TypeInv, TypeOK
<1>2. ASSUME NEW w \in Workers, WorkerStep(w) \/ Panics(w), w # u
      PROVE  pc'[u] = pc[u] /\ att'[u] = att[u]
  BY <1>2, OwnStep
<1>3. ASSUME NEW i \in Instances, Crash(i), u \notin Busy(i)
      PROVE  pc'[u] = pc[u] /\ att'[u] = att[u]
  BY <1>3 DEF Crash
<1>4. ASSUME NEW i \in Instances, Shutdown(i) \/ Start(i)
      PROVE  pc'[u] = pc[u] /\ att'[u] = att[u]
  BY <1>4 DEF Shutdown, Start, serving
<1>5. ASSUME NEW id \in Ids, Age(id) \/ \E i \in Instances : ReplayExpires(i, id)
      PROVE  pc'[u] = pc[u] /\ att'[u] = att[u]
  BY <1>5 DEF Age, ReplayExpires, serving
<1> QED BY <1>1, <1>2, <1>3, <1>4, <1>5 DEF Next, vars, serving

\* Effects come from the transaction and from external handlers, and stay.
LEMMA AppliedSteps ==
  ASSUME TypeInv, [Next]_vars, NEW id \in Ids, NEW load \in Loads
  PROVE  \/ applied'[id][load] = applied[id][load]
         \/ \E w \in Workers :
              /\ ExecCommits(w) \/ Runs(w)
              /\ Id(w) = id /\ att[w].load = load
              /\ applied'[id][load] >= 1
              /\ applied'[id][load] >= applied[id][load]
<1> DEFINE Applies(w) == /\ Id(w) = id /\ att[w].load = load
                         /\ applied'[id][load] >= 1
                         /\ applied'[id][load] >= applied[id][load]
<1>1. ASSUME NEW w \in Workers, ExecCommits(w) \/ Runs(w),
             applied'[id][load] # applied[id][load]
      PROVE  Applies(w)
  <2>1. Id(w) \in Ids /\ att[w].load \in Loads
    BY <1>1, Serves DEF ExecCommits, Runs
  <2>2. Apply(Id(w), att[w].load)
    BY <1>1 DEF ExecCommits, Runs
  <2> QED BY <1>1, <2>1, <2>2 DEF Apply, TypeInv, TypeOK
<1>2. CASE \E w \in Workers : Receive(w) \/ WorkerStep(w) \/ Panics(w)
  <2>1. PICK w \in Workers : Receive(w) \/ WorkerStep(w) \/ Panics(w)
    BY <1>2
  <2>2. applied' = applied \/ ExecCommits(w) \/ Runs(w)
    BY <2>1
       DEF WorkerStep, Probe, Enter, Reserve, Wait, Core, External, Settle,
           ProbeAnswers, ProbeSupersedes, DropConfirmation, ProbeFindsNothing,
           AcquireGate, GatePoisoned, Prepare, PreparationFails, ReserveFresh,
           ReserveAnswers, ReserveJoins, ReserveTakesOver, ReserveFails,
           WaitAnswers, WaitReleased, WaitTimesOut, CoreBegins, CoreConflicts,
           CoreReplays, CoreFails, ExecRefuses, Finalizes, FinalizeFails,
           Retains, Completes, CompleteFails, Abandons, AbandonFails,
           PruneCanonical, Publishes, Panics, Receive, history
  <2> QED BY <1>1, <2>1, <2>2
<1>3. CASE ~\E w \in Workers : Receive(w) \/ WorkerStep(w) \/ Panics(w)
  BY <1>3 DEF Next, Crash, Shutdown, Start, ReplayExpires, Age, vars, history
<1> QED BY <1>2, <1>3

LEMMA AppliedGrows ==
  ASSUME TypeInv, [Next]_vars, NEW id \in Ids, NEW load \in Loads
  PROVE  applied'[id][load] >= applied[id][load]
<1>1. applied[id][load] \in 0..2
  BY DEF TypeInv, TypeOK
<1> QED BY <1>1, AppliedSteps

\* What identifies a row is set once.
Kept(r, s) == /\ s # None /\ s.load = r.load /\ s.owner = r.owner
              /\ s.class = r.class

\* What a completion makes of the row of its request.
LEMMA CompletedRow ==
  ASSUME TypeInv, NEW w \in Workers, Completes(w)
  PROVE  /\ Unresolved(Row(w)) /\ Row(w).load = att[w].load
         /\ \/ runtime'[Id(w)] = None /\ Class(w) # "launch"
            \/ /\ Kept(Row(w), runtime'[Id(w)])
               /\ runtime'[Id(w)].resp = StoredResponse(w)
         /\ \A id \in Ids \ {Id(w)} :
              runtime'[id] = IF Expired(runtime[id]) THEN None ELSE runtime[id]
<1> DEFINE settled == [runtime EXCEPT ![Id(w)].resp = StoredResponse(w)]
           row == [Row(w) EXCEPT !.resp = StoredResponse(w)]
<1>1. /\ pc[w] = "complete" /\ Completable(w)
      /\ runtime' = Pruned(settled)
  BY DEF Completes
<1>2. Id(w) \in Ids /\ att[w] \in Attempts /\ Fits("complete", att[w])
  BY <1>1, Serves
<1>3. Row(w) \in Rows /\ Unresolved(Row(w)) /\ Row(w).load = att[w].load
  BY <1>1, <1>2 DEF Completable, SameLoad, Row, TypeInv, TypeOK
<1>4. StoredResponse(w) \in Stored
  BY <1>2 DEF StoredResponse, Class, Fits, Stored
<1>5. /\ row \in Rows /\ row.load = Row(w).load /\ row.owner = Row(w).owner
      /\ row.class = Row(w).class /\ row.resp = StoredResponse(w)
  BY <1>3, <1>4 DEF Rows
<1>6. row # None
  BY <1>5, NoneAssumption
<1>7. settled[Id(w)] = row /\ \A id \in Ids \ {Id(w)} : settled[id] = runtime[id]
  BY <1>2 DEF Row, TypeInv, TypeOK
<1>8. \A id \in Ids : runtime'[id] = IF Expired(settled[id]) THEN None
                                     ELSE settled[id]
  BY <1>1 DEF Pruned
<1>9. Expired(row) => Class(w) # "launch"
  BY <1>5 DEF Expired, StoredResponse
<1> QED BY <1>2, <1>3, <1>5, <1>6, <1>7, <1>8, <1>9 DEF Kept

\* The life of a row: a fresh reservation, the response of a worker with the
\* same request, age, and removal by that worker, an approval or retention.
RowReserved(id) ==
  \E w \in Workers :
    /\ ReserveFresh(w) /\ Id(w) = id /\ runtime[id] = None
    /\ runtime'[id] # None /\ runtime'[id].load = att[w].load
    /\ runtime'[id].owner = Inst(w) /\ runtime'[id].resp = "none"
    /\ runtime'[id].class = RowClass(att[w].load)
RowSettled(id) ==
  \E w \in Workers :
    /\ Completes(w) /\ Id(w) = id
    /\ Unresolved(runtime[id]) /\ runtime[id].load = att[w].load
    /\ Kept(runtime[id], runtime'[id])
    /\ runtime'[id].resp = StoredResponse(w)
RowAged(id) ==
  /\ Settled(runtime[id])
  /\ Kept(runtime[id], runtime'[id]) /\ runtime'[id].resp = runtime[id].resp
RowRemoved(id) ==
  /\ runtime[id] # None /\ runtime'[id] = None
  /\ \/ Settled(runtime[id]) /\ runtime[id].resp # "marker"
     \/ \E w \in Workers :
          /\ Id(w) = id /\ att[w].load = runtime[id].load
          /\ Unresolved(runtime[id])
          /\ Abandons(w) \/ (Completes(w) /\ Class(w) # "launch")

LEMMA RowSteps ==
  ASSUME TypeInv, [Next]_vars, NEW id \in Ids
  PROVE  \/ runtime'[id] = runtime[id]
         \/ RowReserved(id) \/ RowSettled(id) \/ RowAged(id) \/ RowRemoved(id)
<1> DEFINE Result == runtime'[id] = runtime[id] \/ RowReserved(id)
                     \/ RowSettled(id) \/ RowAged(id) \/ RowRemoved(id)
<1> SUFFICES Result
  OBVIOUS
<1>1. ASSUME NEW w \in Workers, DropConfirmation(w) PROVE Result
  <2>1. Id(w) \in Ids
    BY <1>1, Serves DEF DropConfirmation
  <2>2. CASE Id(w) = id /\ SameLoad(w, Row(w)) /\ Row(w).resp = "confirm"
    BY <1>1, <2>1, <2>2 DEF DropConfirmation, Row, SameLoad, Settled,
                            RowRemoved, TypeInv, TypeOK
  <2>3. CASE ~(Id(w) = id /\ SameLoad(w, Row(w)) /\ Row(w).resp = "confirm")
    BY <1>1, <2>1, <2>3 DEF DropConfirmation, TypeInv, TypeOK
  <2> QED BY <2>2, <2>3
<1>2. ASSUME NEW w \in Workers, ReserveFresh(w) PROVE Result
  <2>1. /\ att[w] \in Attempts /\ Id(w) \in Ids
        /\ Inst(w) \in Instances /\ att[w].load \in Loads
    BY <1>2, Serves DEF ReserveFresh, Reserving
  <2> DEFINE row == [load |-> att[w].load, owner |-> Inst(w), old |-> FALSE,
                     class |-> RowClass(att[w].load), resp |-> "none"]
  <2>2. row \in Rows
    BY <2>1 DEF Rows, RowClass, Instances, Stored
  <2>3. row # None
    BY <2>2, NoneAssumption
  <2>4. runtime[Id(w)] = None /\ runtime' = [runtime EXCEPT ![Id(w)] = row]
    BY <1>2 DEF ReserveFresh, Row
  <2> QED BY <1>2, <2>1, <2>3, <2>4 DEF RowReserved, TypeInv, TypeOK
<1>3. ASSUME NEW w \in Workers, Completes(w) PROVE Result
  <2>1. CASE Id(w) = id
    BY <1>3, <2>1, CompletedRow DEF RowSettled, RowRemoved, Row, Unresolved
  <2>2. CASE Id(w) # id
    BY <1>3, <2>2, CompletedRow DEF RowRemoved, Expired, Settled
  <2> QED BY <2>1, <2>2
<1>4. ASSUME NEW w \in Workers, Abandons(w) PROVE Result
  <2>1. Id(w) \in Ids
    BY <1>4, Serves DEF Abandons
  <2> QED BY <1>4, <2>1 DEF Abandons, Abandonable, Completable, SameLoad,
                            Unresolved, Row, RowRemoved, TypeInv, TypeOK
<1>5. ASSUME NEW i \in Instances, Start(i) PROVE Result
  <2>1. runtime'[id] = IF Expired(runtime[id]) THEN None ELSE runtime[id]
    BY <1>5 DEF Start, Pruned
  <2> QED BY <2>1 DEF Expired, Settled, RowRemoved
<1>6. ASSUME NEW r \in Ids, Age(r) PROVE Result
  <2>1. CASE r = id /\ Settled(runtime[id])
    <3>1. runtime[id] \in Rows
      BY <2>1 DEF Settled, TypeInv, TypeOK
    <3> DEFINE row == [runtime[id] EXCEPT !.old = TRUE]
    <3>2. /\ row \in Rows /\ row.load = runtime[id].load
          /\ row.owner = runtime[id].owner /\ row.class = runtime[id].class
          /\ row.resp = runtime[id].resp
      BY <3>1 DEF Rows
    <3>3. runtime'[id] = row
      BY <1>6, <2>1 DEF Age, TypeInv, TypeOK
    <3>4. row # None
      BY <3>2, NoneAssumption
    <3> HIDE DEF row
    <3> QED BY <2>1, <3>2, <3>3, <3>4 DEF RowAged, Kept
  <2>2. CASE ~(r = id /\ Settled(runtime[id]))
    BY <1>6, <2>2 DEF Age, TypeInv, TypeOK
  <2> QED BY <2>1, <2>2
<1>7. CASE runtime' = runtime
  BY <1>7
<1>8. \/ runtime' = runtime
      \/ \E w \in Workers : \/ DropConfirmation(w) \/ ReserveFresh(w)
                            \/ Completes(w) \/ Abandons(w)
      \/ \E i \in Instances : Start(i)
      \/ \E r \in Ids : Age(r)
  <2>1. ASSUME NEW w \in Workers, Receive(w) \/ WorkerStep(w) \/ Panics(w)
        PROVE  \/ runtime' = runtime \/ DropConfirmation(w) \/ ReserveFresh(w)
               \/ Completes(w) \/ Abandons(w)
    BY <2>1
       DEF WorkerStep, Probe, Enter, Reserve, Wait, Core, External, Settle,
           ProbeAnswers, ProbeSupersedes, ProbeFindsNothing, AcquireGate,
           GatePoisoned, Prepare, PreparationFails, ReserveAnswers,
           ReserveJoins, ReserveTakesOver, ReserveFails, WaitAnswers,
           WaitReleased, WaitTimesOut, CoreBegins, CoreConflicts, CoreReplays,
           CoreFails, ExecCommits, ExecRefuses, Finalizes, FinalizeFails, Runs,
           Retains, CompleteFails, AbandonFails, PruneCanonical, Publishes,
           Panics, Receive, durable
  <2>2. ASSUME NEW i \in Instances, Crash(i) \/ Shutdown(i)
        PROVE  runtime' = runtime
    BY <2>2 DEF Crash, Shutdown, durable
  <2>3. ASSUME NEW i \in Instances, NEW r \in Ids, ReplayExpires(i, r)
        PROVE  runtime' = runtime
    BY <2>3 DEF ReplayExpires, durable
  <2> QED BY <2>1, <2>2, <2>3 DEF Next, vars, durable
<1> QED BY <1>1, <1>2, <1>3, <1>4, <1>5, <1>6, <1>7, <1>8

\* The life of a canonical row: committed, aged, forgotten.
CanonicalCommitted(id) ==
  \E w \in Workers :
    /\ ExecCommits(w) /\ Id(w) = id
    /\ canonical'[id] # None /\ canonical'[id].load = att[w].load
CanonicalAged(id) ==
  /\ canonical[id] # None /\ canonical'[id] # None
  /\ canonical'[id].load = canonical[id].load
CanonicalForgotten(id) ==
  canonical[id] # None /\ canonical'[id] = None /\ id \in lapsed'

LEMMA CanonicalSteps ==
  ASSUME TypeInv, [Next]_vars, NEW id \in Ids
  PROVE  \/ canonical'[id] = canonical[id]
         \/ CanonicalCommitted(id) \/ CanonicalAged(id)
         \/ CanonicalForgotten(id)
<1> DEFINE Result == canonical'[id] = canonical[id] \/ CanonicalCommitted(id)
                     \/ CanonicalAged(id) \/ CanonicalForgotten(id)
<1> SUFFICES Result
  OBVIOUS
<1>1. ASSUME NEW w \in Workers, ExecCommits(w) PROVE Result
  <2> DEFINE row == [load |-> att[w].load, old |-> FALSE]
  <2>1. Id(w) \in Ids /\ att[w].load \in Loads
    BY <1>1, Serves DEF ExecCommits
  <2>2. row \in Canonicals
    BY <2>1 DEF Canonicals
  <2>3. row # None
    BY <2>2, NoneAssumption
  <2> QED BY <1>1, <2>1, <2>3 DEF ExecCommits, CanonicalCommitted, TypeInv,
                                  TypeOK
<1>2. ASSUME NEW w \in Workers, PruneCanonical(w) PROVE Result
  <2>1. CASE canonical'[id] = canonical[id]
    BY <2>1
  <2>2. CASE canonical'[id] # canonical[id]
    <3>1. /\ canonical' = [r \in Ids |-> IF Forgettable(r) THEN None
                                         ELSE canonical[r]]
          /\ lapsed' = lapsed \union {r \in Ids : Forgettable(r)
                                               /\ ~Unresolved(runtime[r])}
      BY <1>2, <2>2 DEF PruneCanonical
    <3> QED BY <2>2, <3>1 DEF Forgettable, CanonicalForgotten
  <2> QED BY <2>1, <2>2
<1>3. ASSUME NEW r \in Ids, Age(r) PROVE Result
  <2>1. CASE r = id /\ canonical[id] # None
    <3>1. canonical[id] \in Canonicals
      BY <2>1 DEF TypeInv, TypeOK
    <3> DEFINE row == [canonical[id] EXCEPT !.old = TRUE]
    <3>2. row \in Canonicals /\ row.load = canonical[id].load
      BY <3>1 DEF Canonicals
    <3>3. canonical'[id] = row
      BY <1>3, <2>1 DEF Age, TypeInv, TypeOK
    <3>4. row # None
      BY <3>2, NoneAssumption
    <3> HIDE DEF row
    <3> QED BY <2>1, <3>2, <3>3, <3>4 DEF CanonicalAged
  <2>2. CASE ~(r = id /\ canonical[id] # None)
    BY <1>3, <2>2 DEF Age, TypeInv, TypeOK
  <2> QED BY <2>1, <2>2
<1>4. CASE canonical' = canonical
  BY <1>4
<1>5. \/ canonical' = canonical
      \/ \E w \in Workers : ExecCommits(w) \/ PruneCanonical(w)
      \/ \E r \in Ids : Age(r)
  <2>1. ASSUME NEW w \in Workers, Receive(w) \/ WorkerStep(w) \/ Panics(w)
        PROVE  canonical' = canonical \/ ExecCommits(w) \/ PruneCanonical(w)
    BY <2>1
       DEF WorkerStep, Probe, Enter, Reserve, Wait, Core, External, Settle,
           ProbeAnswers, ProbeSupersedes, DropConfirmation, ProbeFindsNothing,
           AcquireGate, GatePoisoned, Prepare, PreparationFails, ReserveFresh,
           ReserveAnswers, ReserveJoins, ReserveTakesOver, ReserveFails,
           WaitAnswers, WaitReleased, WaitTimesOut, CoreBegins, CoreConflicts,
           CoreReplays, CoreFails, ExecRefuses, Finalizes, FinalizeFails, Runs,
           Retains, Completes, CompleteFails, Abandons, AbandonFails,
           Publishes, Panics, Receive, durable
  <2>2. ASSUME NEW i \in Instances, Crash(i) \/ Shutdown(i) \/ Start(i)
        PROVE  canonical' = canonical
    BY <2>2 DEF Crash, Shutdown, Start, durable
  <2>3. ASSUME NEW i \in Instances, NEW r \in Ids, ReplayExpires(i, r)
        PROVE  canonical' = canonical
    BY <2>3 DEF ReplayExpires, durable
  <2> QED BY <2>1, <2>2, <2>3 DEF Next, vars, durable
<1> QED BY <1>1, <1>2, <1>3, <1>4, <1>5

\* A retained response is held once and then lost for good.
ReplayRetained(i, id) ==
  /\ replays'[i][id] = "held"
  /\ \E w \in Workers : Retains(w) /\ Inst(w) = i /\ Id(w) = id
                        /\ att[w].resp = "ok"

LEMMA ReplaySteps ==
  ASSUME TypeInv, [Next]_vars, NEW i \in Instances, NEW id \in Ids
  PROVE  \/ replays'[i][id] = replays[i][id] \/ replays'[i][id] = "gone"
         \/ ReplayRetained(i, id)
<1> DEFINE Result == \/ replays'[i][id] = replays[i][id]
                     \/ replays'[i][id] = "gone" \/ ReplayRetained(i, id)
<1> SUFFICES Result
  OBVIOUS
<1>1. ASSUME NEW w \in Workers, Retains(w) PROVE Result
  <2>1. Inst(w) \in Instances /\ Id(w) \in Ids
    BY <1>1, Serves DEF Retains
  <2>2. CASE replays' = [replays EXCEPT ![Inst(w)][Id(w)] = "gone"]
    BY <2>1, <2>2 DEF TypeInv, TypeOK
  <2>3. CASE /\ replays' = [replays EXCEPT ![Inst(w)][Id(w)] = "held"]
             /\ att[w].resp = "ok"
    <3>1. CASE Inst(w) = i /\ Id(w) = id
      <4>1. replays'[i][id] = "held"
        BY <2>3, <3>1 DEF TypeInv, TypeOK
      <4> QED BY <1>1, <2>3, <3>1, <4>1 DEF ReplayRetained
    <3>2. CASE ~(Inst(w) = i /\ Id(w) = id)
      BY <2>1, <2>3, <3>2 DEF TypeInv, TypeOK
    <3> QED BY <3>1, <3>2
  <2> QED BY <1>1, <2>2, <2>3 DEF Retains
<1>2. ASSUME NEW w \in Workers, CompleteFails(w) PROVE Result
  <2>1. Inst(w) \in Instances /\ Id(w) \in Ids
    BY <1>2, Serves DEF CompleteFails
  <2>2. \/ replays' = [replays EXCEPT ![Inst(w)][Id(w)] = "gone"]
        \/ replays' = replays
    BY <1>2 DEF CompleteFails
  <2> QED BY <2>1, <2>2 DEF TypeInv, TypeOK
<1>3. ASSUME NEW j \in Instances, Crash(j) \/ Shutdown(j) PROVE Result
  <2>1. CASE Crash(j)
    BY <2>1 DEF Crash, TypeInv, TypeOK
  <2>2. CASE Shutdown(j)
    <3>1. CASE i = j
      BY <2>2, <3>1 DEF Shutdown, TypeInv, TypeOK
    <3>2. CASE i # j
      BY <2>2, <3>2 DEF Shutdown, TypeInv, TypeOK
    <3> QED BY <3>1, <3>2
  <2> QED BY <1>3, <2>1, <2>2
<1>4. ASSUME NEW j \in Instances, NEW r \in Ids, ReplayExpires(j, r)
      PROVE  Result
  BY <1>4 DEF ReplayExpires, TypeInv, TypeOK
<1>5. CASE replays' = replays
  BY <1>5
<1>6. \/ replays' = replays
      \/ \E w \in Workers : Retains(w) \/ CompleteFails(w)
      \/ \E j \in Instances : Crash(j) \/ Shutdown(j)
      \/ \E j \in Instances, r \in Ids : ReplayExpires(j, r)
  <2>1. ASSUME NEW w \in Workers, Receive(w) \/ WorkerStep(w) \/ Panics(w)
        PROVE  replays' = replays \/ Retains(w) \/ CompleteFails(w)
    BY <2>1
       DEF WorkerStep, Probe, Enter, Reserve, Wait, Core, External, Settle,
           ProbeAnswers, ProbeSupersedes, DropConfirmation, ProbeFindsNothing,
           AcquireGate, GatePoisoned, Prepare, PreparationFails, ReserveFresh,
           ReserveAnswers, ReserveJoins, ReserveTakesOver, ReserveFails,
           WaitAnswers, WaitReleased, WaitTimesOut, CoreBegins, CoreConflicts,
           CoreReplays, CoreFails, ExecCommits, ExecRefuses, Finalizes,
           FinalizeFails, Runs, Completes, Abandons, AbandonFails,
           PruneCanonical, Publishes, Panics, Receive, process
  <2>2. ASSUME NEW j \in Instances, Start(j) PROVE replays' = replays
    BY <2>2 DEF Start
  <2>3. ASSUME NEW r \in Ids, Age(r) PROVE replays' = replays
    BY <2>3 DEF Age, process
  <2> QED BY <2>1, <2>2, <2>3 DEF Next, vars, process
<1> QED BY <1>1, <1>2, <1>3, <1>4, <1>5, <1>6

\* An answer is the stored outcome of the request's own row, or what the
\* worker executed.
Replayed(w, t) ==
  /\ ProbeAnswers(w) \/ ReserveAnswers(w) \/ WaitAnswers(w)
  /\ SameLoad(w, Row(w)) /\ Settled(Row(w)) /\ t.kind = ReplayKind(w)
Published(w, t) == Publishes(w) /\ t.kind = att[w].resp

LEMMA ToldSteps ==
  ASSUME TypeInv, [Next]_vars, NEW t \in told', t \notin told
  PROVE  \E w \in Workers : /\ t.id = Id(w) /\ t.load = att[w].load
                            /\ t.kind \in {"ok", "swallowed"}
                            /\ Replayed(w, t) \/ Published(w, t)
<1>1. ASSUME NEW w \in Workers, NEW kind, Reply(w, kind)
      PROVE  /\ t.id = Id(w) /\ t.load = att[w].load /\ t.kind = kind
             /\ kind \in {"ok", "swallowed"}
  BY <1>1 DEF Reply
<1>2. ASSUME NEW w \in Workers, Receive(w) \/ WorkerStep(w) \/ Panics(w)
      PROVE  /\ t.id = Id(w) /\ t.load = att[w].load
             /\ t.kind \in {"ok", "swallowed"}
             /\ Replayed(w, t) \/ Published(w, t)
  <2>1. CASE ProbeAnswers(w) \/ ReserveAnswers(w)
    BY <1>1, <2>1 DEF ProbeAnswers, ReserveAnswers, Replayed
  <2>2. CASE WaitAnswers(w)
    BY <1>1, <2>2 DEF WaitAnswers, Replayed
  <2>3. CASE Publishes(w)
    BY <1>1, <2>3 DEF Publishes, Published
  <2>4. told' # told
    OBVIOUS
  <2>5. CASE Probe(w) \/ Enter(w) \/ Receive(w)
    BY <1>1, <2>1, <2>4, <2>5
       DEF Probe, Enter, Receive, ProbeSupersedes, DropConfirmation,
           ProbeFindsNothing, AcquireGate, GatePoisoned, Prepare,
           PreparationFails
  <2>6. CASE Reserve(w) \/ Wait(w)
    BY <1>1, <2>1, <2>2, <2>4, <2>6
       DEF Reserve, Wait, ReserveFresh, ReserveJoins, ReserveTakesOver,
           ReserveFails, WaitReleased, WaitTimesOut
  <2>7. CASE Core(w) \/ External(w)
    BY <2>4, <2>7
       DEF Core, External, CoreBegins, CoreConflicts, CoreReplays, CoreFails,
           ExecCommits, ExecRefuses, Finalizes, FinalizeFails, Runs, Retains
  <2>8. CASE Settle(w) \/ Panics(w)
    BY <1>1, <2>3, <2>4, <2>8
       DEF Settle, Completes, CompleteFails, Abandons, AbandonFails,
           PruneCanonical, Panics
  <2> QED BY <1>2, <2>5, <2>6, <2>7, <2>8 DEF WorkerStep
<1>3. ASSUME ~\E w \in Workers : Receive(w) \/ WorkerStep(w) \/ Panics(w)
      PROVE  told' = told
  BY <1>3 DEF Next, Crash, Shutdown, Start, ReplayExpires, Age, vars, serving
<1> QED BY <1>2, <1>3

LEMMA HistoryGrows ==
  ASSUME TypeInv, [Next]_vars
  PROVE  lapsed \subseteq lapsed' /\ bypassed \subseteq bypassed'
         /\ finalized \subseteq finalized' /\ told \subseteq told'
<1> DEFINE Result == lapsed \subseteq lapsed' /\ bypassed \subseteq bypassed'
                     /\ finalized \subseteq finalized' /\ told \subseteq told'
<1> SUFFICES Result
  OBVIOUS
<1>1. ASSUME NEW w \in Workers, Probe(w) \/ Enter(w) \/ Receive(w)
      PROVE  Result
  BY <1>1 DEF Probe, Enter, Receive, ProbeAnswers, ProbeSupersedes,
              DropConfirmation, ProbeFindsNothing, AcquireGate, GatePoisoned,
              Prepare, PreparationFails, Reply, history
<1>2. ASSUME NEW w \in Workers, Reserve(w) \/ Wait(w) PROVE Result
  BY <1>2 DEF Reserve, Wait, ReserveFresh, ReserveAnswers, ReserveJoins,
              ReserveTakesOver, ReserveFails, WaitAnswers, WaitReleased,
              WaitTimesOut, Reply, history
<1>3. ASSUME NEW w \in Workers, Core(w) \/ External(w) PROVE Result
  BY <1>3 DEF Core, External, CoreBegins, CoreConflicts, CoreReplays,
              CoreFails, ExecCommits, ExecRefuses, Finalizes, FinalizeFails,
              Runs, Retains, history
<1>4. ASSUME NEW w \in Workers, Settle(w) \/ Panics(w) PROVE Result
  BY <1>4 DEF Settle, Completes, CompleteFails, Abandons, AbandonFails,
              PruneCanonical, Publishes, Panics, Reply, history
<1>5. ASSUME NEW i \in Instances, Crash(i) \/ Shutdown(i) \/ Start(i)
      PROVE  Result
  BY <1>5 DEF Crash, Shutdown, Start, serving, history
<1>6. ASSUME NEW i \in Instances, NEW id \in Ids, ReplayExpires(i, id) \/ Age(id)
      PROVE  Result
  BY <1>6 DEF ReplayExpires, Age, serving, history
<1>7. CASE UNCHANGED vars
  BY <1>7 DEF vars, serving, history
<1>8. 1 \in Instances
  BY BoundsAssumption DEF Instances
<1> QED BY <1>1, <1>2, <1>3, <1>4, <1>5, <1>6, <1>7, <1>8 DEF Next, WorkerStep

\* Where a worker gets its success from.
LEMMA SuccessSteps ==
  ASSUME TypeInv, [Next]_vars, NEW u \in Workers, pc'[u] # "idle",
         att'[u].resp = "ok"
  PROVE  /\ pc[u] # "idle" /\ att[u] \in Attempts
         /\ att'[u].id = att[u].id /\ att'[u].load = att[u].load
         /\ \/ att[u].resp = "ok"
            \/ ExecCommits(u) \/ CoreReplays(u)
            \/ Runs(u) /\ Apply(Id(u), att[u].load)
<1>1. CASE pc'[u] = pc[u] /\ att'[u] = att[u]
  BY <1>1, Serves
<1>2. CASE Receive(u)
  BY <1>2 DEF Receive, TypeInv, TypeOK
<1>3. CASE \E i \in Instances : Crash(i) /\ u \in Busy(i)
  BY <1>3 DEF Crash
<1>4. CASE WorkerStep(u) \/ Panics(u)
  <2>1. /\ pc[u] # "idle" /\ att[u] \in Attempts
        /\ att'[u].id = att[u].id /\ att'[u].load = att[u].load
    BY <1>4, OwnStep
  <2>2. ASSUME att[u].resp # "ok", ~ExecCommits(u), ~CoreReplays(u)
        PROVE  Runs(u) /\ Apply(Id(u), att[u].load)
    <3>1. ASSUME NEW step, NEW resp, GotoWith(u, step, resp) PROVE resp = "ok"
      BY <2>1, <3>1 DEF GotoWith, TypeInv, TypeOK, Attempts
    <3>2. att' # att
      BY <2>2
    <3>3. ASSUME NEW kind, Reply(u, kind) PROVE FALSE
      BY <3>3 DEF Reply, Goto, TypeInv, TypeOK
    <3>4. CASE Runs(u)
      BY <3>1, <3>4 DEF Runs
    <3>5. CASE Retains(u)
      BY <2>2, <3>1, <3>2, <3>5 DEF Retains
    <3>6. CASE Probe(u) \/ Enter(u)
      BY <3>2, <3>3, <3>6
         DEF Probe, Enter, ProbeAnswers, ProbeSupersedes, DropConfirmation,
             ProbeFindsNothing, AcquireGate, GatePoisoned, Prepare,
             PreparationFails
    <3>7. CASE ReserveFresh(u)
      BY <2>1, <2>2, <3>7 DEF ReserveFresh, TypeInv, TypeOK, Attempts
    <3>8. CASE (Reserve(u) /\ ~ReserveFresh(u)) \/ Wait(u)
      BY <3>2, <3>3, <3>8
         DEF Reserve, Wait, ReserveAnswers, ReserveJoins, ReserveTakesOver,
             ReserveFails, WaitAnswers, WaitReleased, WaitTimesOut
    <3>9. CASE Core(u)
      BY <2>2, <3>1, <3>2, <3>9
         DEF Core, CoreBegins, CoreConflicts, CoreFails, ExecRefuses,
             Finalizes, FinalizeFails
    <3>10. CASE Abandons(u)
      BY <2>1, <2>2, <3>10 DEF Abandons, TypeInv, TypeOK, Attempts
    <3>11. CASE (Settle(u) /\ ~Abandons(u)) \/ Panics(u)
      BY <3>1, <3>2, <3>3, <3>11
         DEF Settle, Completes, CompleteFails, AbandonFails, PruneCanonical,
             Publishes, Panics
    <3> QED BY <1>4, <3>4, <3>5, <3>6, <3>7, <3>8, <3>9, <3>10, <3>11
            DEF WorkerStep, External
  <2> QED BY <2>1, <2>2
<1> QED BY <1>1, <1>2, <1>3, <1>4, WorkerMoves

-----------------------------------------------------------------------------
(* What every carrier of a success says.                                   *)

Happened(id, load) == applied[id][load] >= 1

WorkersAreTrue ==
  \A w \in Workers :
    pc[w] # "idle" /\ att[w].resp = "ok" => Happened(Id(w), att[w].load)
CanonicalsAreTrue ==
  \A id \in Ids : canonical[id] # None => Happened(id, canonical[id].load)
RowsAreTrue ==
  \A id \in Ids :
    runtime[id] # None /\ runtime[id].resp = "ok"
      => Happened(id, runtime[id].load)

\* The launch worker between retaining its response and storing the marker.
Marking(w, i, id) ==
  pc[w] = "complete" /\ ~Atomic(w) /\ Id(w) = id /\ Inst(w) = i

\* A retained response belongs to the launch whose row is, or is about to be,
\* the marker.
ReplaysAreTrue ==
  \A i \in Instances, id \in Ids :
    replays[i][id] = "held"
      => /\ runtime[id] # None /\ ClassOf[runtime[id].load] = "launch"
         /\ Happened(id, runtime[id].load)
         /\ \/ runtime[id].resp = "marker"
            \/ \E w \in Workers : Marking(w, i, id)

AnswersInv == /\ WorkersAreTrue /\ CanonicalsAreTrue /\ RowsAreTrue
              /\ ReplaysAreTrue /\ SuccessIsReal

\* Once applied, a payload has taken effect.
LEMMA ApplyHappens ==
  ASSUME TypeInv, NEW id \in Ids, NEW load \in Loads, Apply(id, load)
  PROVE  applied'[id][load] >= 1
<1>1. applied[id][load] \in 0..2 /\ applied[id] \in [Loads -> 0..2]
  BY DEF TypeInv, TypeOK
<1>2. applied'[id][load] = IF applied[id][load] < 2 THEN applied[id][load] + 1
                           ELSE applied[id][load]
  BY DEF Apply, TypeInv, TypeOK
<1> QED BY <1>1, <1>2

LEMMA WorkersStayTrue ==
  ASSUME TypeInv, AnswersInv, [Next]_vars
  PROVE  WorkersAreTrue'
<1> SUFFICES ASSUME NEW u \in Workers, pc'[u] # "idle", att'[u].resp = "ok"
             PROVE  applied'[att'[u].id][att'[u].load] >= 1
  BY DEF WorkersAreTrue, Happened, Id
<1>1. /\ pc[u] # "idle"
      /\ att'[u].id = att[u].id /\ att'[u].load = att[u].load
      /\ Id(u) \in Ids /\ att[u].load \in Loads
  BY SuccessSteps, Serves
<1>2. applied[Id(u)][att[u].load] \in 0..2
      /\ applied'[Id(u)][att[u].load] >= applied[Id(u)][att[u].load]
      /\ applied'[Id(u)][att[u].load] \in 0..2
  BY <1>1, AppliedGrows, NextTyped DEF TypeInv, TypeOK
<1>3. CASE att[u].resp = "ok"
  <2>1. applied[Id(u)][att[u].load] >= 1
    BY <1>1, <1>3 DEF AnswersInv, WorkersAreTrue, Happened
  <2> QED BY <1>1, <1>2, <2>1 DEF Id
<1>4. CASE Apply(Id(u), att[u].load)
  <2>1. applied'[Id(u)][att[u].load] >= 1
    BY <1>1, <1>4, ApplyHappens
  <2> QED BY <1>1, <2>1 DEF Id
<1>5. CASE CoreReplays(u)
  <2>1. canonical[Id(u)] # None /\ canonical[Id(u)].load = att[u].load
    BY <1>5 DEF CoreReplays, SameLoad
  <2>2. applied[Id(u)][att[u].load] >= 1
    BY <1>1, <2>1 DEF AnswersInv, CanonicalsAreTrue, Happened
  <2> QED BY <1>1, <1>2, <2>2 DEF Id
<1> QED BY <1>3, <1>4, <1>5, SuccessSteps DEF ExecCommits

LEMMA CanonicalsStayTrue ==
  ASSUME TypeInv, AnswersInv, [Next]_vars
  PROVE  CanonicalsAreTrue'
<1> SUFFICES ASSUME NEW id \in Ids, canonical'[id] # None
             PROVE  applied'[id][canonical'[id].load] >= 1
  BY DEF CanonicalsAreTrue, Happened
<1>1. CASE canonical'[id] = canonical[id] \/ CanonicalAged(id)
  <2>1. canonical[id] # None /\ canonical'[id].load = canonical[id].load
    BY <1>1 DEF CanonicalAged
  <2>2. canonical[id].load \in Loads /\ applied[id][canonical[id].load] \in 0..2
        /\ applied'[id][canonical[id].load] \in 0..2
    BY <2>1, NextTyped DEF TypeInv, TypeOK, Canonicals
  <2>3. applied[id][canonical[id].load] >= 1
    BY <2>1 DEF AnswersInv, CanonicalsAreTrue, Happened
  <2>4. applied'[id][canonical[id].load] >= applied[id][canonical[id].load]
    BY <2>2, AppliedGrows
  <2> QED BY <2>1, <2>2, <2>3, <2>4
<1>2. CASE CanonicalCommitted(id)
  <2>1. PICK w \in Workers : ExecCommits(w) /\ Id(w) = id
                             /\ canonical'[id].load = att[w].load
    BY <1>2 DEF CanonicalCommitted
  <2>2. att[w].load \in Loads /\ Apply(id, att[w].load)
    BY <2>1, Serves DEF ExecCommits
  <2> QED BY <2>1, <2>2 DEF Apply, TypeInv, TypeOK
<1> QED BY <1>1, <1>2, CanonicalSteps DEF CanonicalForgotten

LEMMA RowsStayTrue ==
  ASSUME TypeInv, AnswersInv, [Next]_vars
  PROVE  RowsAreTrue'
<1> SUFFICES ASSUME NEW id \in Ids, runtime'[id] # None,
                    runtime'[id].resp = "ok"
             PROVE  applied'[id][runtime'[id].load] >= 1
  BY DEF RowsAreTrue, Happened
<1>1. runtime[id] # None /\ runtime'[id].load = runtime[id].load
      /\ Happened(id, runtime[id].load)
  <2>1. CASE runtime'[id] = runtime[id] \/ RowAged(id)
    BY <2>1 DEF RowAged, Settled, Kept, AnswersInv, RowsAreTrue
  <2>2. CASE RowSettled(id)
    <3>1. PICK w \in Workers :
            /\ Completes(w) /\ Id(w) = id
            /\ Unresolved(runtime[id]) /\ runtime[id].load = att[w].load
            /\ Kept(runtime[id], runtime'[id])
            /\ runtime'[id].resp = StoredResponse(w)
      BY <2>2 DEF RowSettled
    <3>2. att[w].resp = "ok" /\ pc[w] # "idle"
      BY <3>1 DEF StoredResponse, Completes
    <3> QED BY <3>1, <3>2 DEF AnswersInv, WorkersAreTrue, Kept, Unresolved
  <2> QED BY <2>1, <2>2, RowSteps DEF RowReserved, RowRemoved
<1>2. runtime[id].load \in Loads
  BY <1>1 DEF TypeInv, TypeOK, Rows
<1>3. /\ applied[id][runtime[id].load] \in 0..2
      /\ applied'[id][runtime[id].load] \in 0..2
      /\ applied'[id][runtime[id].load] >= applied[id][runtime[id].load]
  BY <1>2, AppliedGrows, NextTyped DEF TypeInv, TypeOK
<1> QED BY <1>1, <1>3 DEF Happened

\* The worker that is about to store the marker stores it, or loses the
\* response.
LEMMA MarkingEnds ==
  ASSUME TypeInv, OnceInv, [Next]_vars, NEW i \in Instances, NEW id \in Ids,
         NEW w \in Workers, Marking(w, i, id), replays'[i][id] = "held",
         ClassOf[runtime[id].load] = "launch"
  PROVE  \/ Marking(w, i, id)'
         \/ Kept(runtime[id], runtime'[id]) /\ runtime'[id].resp = "marker"
<1>1. /\ pc[w] = "complete" /\ ~Atomic(w) /\ Id(w) = id /\ Inst(w) = i
      /\ Unresolved(runtime[id]) /\ runtime[id].load = att[w].load
  BY DEF Marking, OnceInv, HolderOK, Holding, Row
<1>2. Class(w) = "launch"
  BY <1>1 DEF Class
<1>3. CASE pc'[w] = pc[w] /\ att'[w] = att[w]
  BY <1>1, <1>3 DEF Marking, Atomic, Class, Id, Inst
<1>4. CASE Completes(w)
  BY <1>1, <1>2, <1>4, CompletedRow DEF Row, StoredResponse
<1>5. CASE CompleteFails(w)
  <2>1. replays' = [replays EXCEPT ![i][id] = "gone"]
    BY <1>1, <1>2, <1>5 DEF CompleteFails, Atomic
  <2> QED BY <2>1 DEF TypeInv, TypeOK
<1>6. CASE \E j \in Instances : Crash(j) /\ w \in Busy(j)
  BY <1>1, <1>6 DEF Crash, Busy, Inst, TypeInv, TypeOK
<1>7. CASE (WorkerStep(w) \/ Panics(w)) /\ ~Completes(w) /\ ~CompleteFails(w)
  BY <1>1, <1>7
     DEF WorkerStep, Probe, Enter, Reserve, Wait, Core, External, Settle,
         ProbeAnswers, ProbeSupersedes, DropConfirmation, ProbeFindsNothing,
         AcquireGate, GatePoisoned, Prepare, PreparationFails, ReserveFresh,
         ReserveAnswers, ReserveJoins, ReserveTakesOver, ReserveFails,
         Reserving, WaitAnswers, WaitReleased, WaitTimesOut, CoreBegins,
         CoreConflicts, CoreReplays, CoreFails, ExecCommits, ExecRefuses,
         Finalizes, FinalizeFails, Runs, Retains, Abandons, AbandonFails,
         PruneCanonical, Publishes, Panics
<1>8. CASE Receive(w)
  BY <1>1, <1>8 DEF Receive, TypeInv, TypeOK, StepOK, Fits
<1> QED BY <1>3, <1>4, <1>5, <1>6, <1>7, <1>8, WorkerMoves

LEMMA ReplaysStayTrue ==
  ASSUME TypeInv, OnceInv, AnswersInv, [Next]_vars
  PROVE  ReplaysAreTrue'
<1> SUFFICES ASSUME NEW i \in Instances, NEW id \in Ids,
                    replays'[i][id] = "held"
             PROVE  /\ runtime'[id] # None
                    /\ ClassOf[runtime'[id].load] = "launch"
                    /\ applied'[id][runtime'[id].load] >= 1
                    /\ \/ runtime'[id].resp = "marker"
                       \/ \E w \in Workers : Marking(w, i, id)'
  BY DEF ReplaysAreTrue, Happened
<1>1. ASSUME runtime[id] # None, Happened(id, runtime[id].load)
      PROVE  applied'[id][runtime[id].load] >= 1
  <2>1. runtime[id].load \in Loads
    BY <1>1 DEF TypeInv, TypeOK, Rows
  <2>2. /\ applied[id][runtime[id].load] \in 0..2
        /\ applied'[id][runtime[id].load] \in 0..2
        /\ applied'[id][runtime[id].load] >= applied[id][runtime[id].load]
    BY <2>1, AppliedGrows, NextTyped DEF TypeInv, TypeOK
  <2> QED BY <1>1, <2>2 DEF Happened
<1>2. CASE ReplayRetained(i, id)
  <2>1. PICK w \in Workers : /\ Retains(w) /\ Inst(w) = i /\ Id(w) = id
                             /\ att[w].resp = "ok"
    BY <1>2 DEF ReplayRetained
  <2>2. /\ pc[w] = "retain" /\ att[w] \in Attempts /\ Class(w) = "launch"
    BY <2>1, Serves DEF Retains, Fits, Class
  <2>3. Unresolved(runtime[id]) /\ runtime[id].load = att[w].load
    BY <2>1, <2>2 DEF OnceInv, HolderOK, Holding, Row, Atomic
  <2>4. runtime' = runtime
    BY <2>1 DEF Retains, durable
  <2>5. /\ pc'[w] = "complete" /\ att'[w].id = att[w].id
        /\ att'[w].load = att[w].load /\ att'[w].inst = att[w].inst
    <3>1. pc'[w] = "complete"
      BY <2>1 DEF Retains, GotoWith, Goto, TypeInv, TypeOK
    <3> QED BY <2>1, <3>1, OwnStep DEF WorkerStep, External
  <2>6. Marking(w, i, id)'
    BY <2>1, <2>2, <2>5 DEF Marking, Atomic, Class, Id, Inst
  <2>7. Happened(id, runtime[id].load)
    BY <2>1, <2>2, <2>3 DEF AnswersInv, WorkersAreTrue
  <2> QED BY <1>1, <2>2, <2>3, <2>4, <2>6, <2>7 DEF Unresolved, Class
<1>3. CASE replays[i][id] = "held"
  <2>1. /\ runtime[id] # None /\ ClassOf[runtime[id].load] = "launch"
        /\ Happened(id, runtime[id].load)
        /\ \/ runtime[id].resp = "marker"
           \/ \E w \in Workers : Marking(w, i, id)
    BY <1>3 DEF AnswersInv, ReplaysAreTrue
  <2>2. applied'[id][runtime[id].load] >= 1
    BY <1>1, <2>1
  <2>3. CASE \E w \in Workers : Marking(w, i, id)
    <3>1. PICK w \in Workers : Marking(w, i, id)
      BY <2>3
    <3>2. /\ pc[w] = "complete" /\ ~Atomic(w) /\ Id(w) = id
          /\ Unresolved(runtime[id])
      BY <3>1 DEF Marking, OnceInv, HolderOK, Holding, Row
    <3>3. \/ Marking(w, i, id)'
          \/ Kept(runtime[id], runtime'[id]) /\ runtime'[id].resp = "marker"
      BY <2>1, <3>1, MarkingEnds
    <3>4. ~RowRemoved(id)
      <4>1. ASSUME NEW u \in Workers, Id(u) = id, Abandons(u),
                   att[u].load = runtime[id].load
            PROVE  FALSE
        <5>1. pc[u] = "abandon" /\ ~Atomic(u)
          BY <2>1, <4>1 DEF Abandons, Atomic, Class
        <5> QED BY <3>2, <4>1, <5>1 DEF OnceInv, HolderAlone, Holding
      <4> QED BY <2>1, <3>2, <4>1 DEF RowRemoved, Settled, Unresolved, Class
    <3>5. Kept(runtime[id], runtime'[id])
      BY <2>1, <3>2, <3>4, RowSteps
         DEF RowReserved, RowSettled, RowAged, Kept
    <3> QED BY <2>1, <2>2, <3>3, <3>5 DEF Kept
  <2>4. CASE runtime[id].resp = "marker"
    BY <2>1, <2>2, <2>4, RowSteps
       DEF RowReserved, RowSettled, RowAged, RowRemoved, Kept, Unresolved
  <2> QED BY <2>1, <2>3, <2>4
<1> QED BY <1>2, <1>3, ReplaySteps

LEMMA AnswersStayReal ==
  ASSUME TypeInv, OnceInv, AnswersInv, [Next]_vars
  PROVE  SuccessIsReal'
<1> SUFFICES ASSUME NEW t \in told', t.kind = "ok"
             PROVE  applied'[t.id][t.load] >= 1
  BY DEF SuccessIsReal
<1>1. t.id \in Ids /\ t.load \in Loads
  BY NextTyped DEF TypeInv, TypeOK, Tellings
<1>2. Happened(t.id, t.load)
  <2>1. CASE t \in told
    BY <2>1 DEF AnswersInv, SuccessIsReal, Happened
  <2>2. CASE t \notin told
    <3>1. PICK w \in Workers : /\ t.id = Id(w) /\ t.load = att[w].load
                               /\ Replayed(w, t) \/ Published(w, t)
      BY <2>2, ToldSteps
    <3>2. pc[w] # "idle"
      BY <3>1 DEF Replayed, Published, ProbeAnswers, ReserveAnswers, Reserving,
                  WaitAnswers, Publishes
    <3>3. CASE Published(w, t)
      BY <3>1, <3>2, <3>3 DEF Published, AnswersInv, WorkersAreTrue
    <3>4. CASE Replayed(w, t)
      <4>1. /\ Row(w) # None /\ Row(w).load = att[w].load
            /\ ReplayKind(w) = "ok"
        BY <3>4 DEF Replayed, SameLoad
      <4>2. Inst(w) \in Instances
        BY <3>2, Serves
      <4>3. \/ Row(w).resp = "ok"
            \/ replays[Inst(w)][Id(w)] = "held"
        BY <4>1 DEF ReplayKind
      <4> QED BY <1>1, <3>1, <4>1, <4>2, <4>3
              DEF AnswersInv, RowsAreTrue, ReplaysAreTrue, Row
    <3> QED BY <3>1, <3>3, <3>4
  <2> QED BY <2>1, <2>2
<1>3. /\ applied[t.id][t.load] \in 0..2 /\ applied'[t.id][t.load] \in 0..2
      /\ applied'[t.id][t.load] >= applied[t.id][t.load]
  BY <1>1, AppliedGrows, NextTyped DEF TypeInv, TypeOK
<1> QED BY <1>2, <1>3 DEF Happened

LEMMA InitAnswers == Init => AnswersInv
BY DEF Init, AnswersInv, WorkersAreTrue, CanonicalsAreTrue, RowsAreTrue,
       ReplaysAreTrue, SuccessIsReal, LegacyRow

LEMMA AnswersHold == Spec => []AnswersInv
<1>1. TypeInv /\ OnceInv /\ AnswersInv /\ [Next]_vars => AnswersInv'
  BY WorkersStayTrue, CanonicalsStayTrue, RowsStayTrue, ReplaysStayTrue,
     AnswersStayReal DEF AnswersInv
<1> QED BY <1>1, InitAnswers, OnceHolds, PTL DEF Spec

\* A client is told of a success only if its very payload took effect: by the
\* worker that executed it, by a stored outcome of any daemon, or by a launch
\* response that is still retained.
THEOREM SuccessesAreReal == Spec => []SuccessIsReal
<1>1. AnswersInv => SuccessIsReal
  BY DEF AnswersInv
<1> QED BY <1>1, AnswersHold, PTL
-----------------------------------------------------------------------------
(* One payload per id, and the reservations of older daemons.              *)

\* The canonical row of an id names the only atomic payload that ran under it.
OnlyPayload ==
  \A id \in Ids \ (lapsed \union LegacyIds), load \in Loads :
    IsAtomic(load) /\ applied[id][load] > 0
      => canonical[id] # None /\ canonical[id].load = load

LEMMA PayloadStaysOnly ==
  ASSUME TypeInv, OnceInv, OnlyPayload, [Next]_vars
  PROVE  OnlyPayload'
<1> SUFFICES ASSUME NEW id \in Ids, id \notin lapsed' \union LegacyIds,
                    NEW load \in Loads, IsAtomic(load), applied'[id][load] > 0
             PROVE  canonical'[id] # None /\ canonical'[id].load = load
  BY DEF OnlyPayload, IsAtomic
<1>1. id \notin lapsed \union LegacyIds
  BY HistoryGrows
<1>2. CASE applied'[id][load] = applied[id][load]
  <2>1. canonical[id] # None /\ canonical[id].load = load
    BY <1>1, <1>2 DEF OnlyPayload
  <2>2. ~CanonicalCommitted(id)
    BY <2>1 DEF CanonicalCommitted, ExecCommits, OnceInv, ExecAlone
  <2> QED BY <2>1, <2>2, CanonicalSteps DEF CanonicalAged, CanonicalForgotten
<1>3. ASSUME NEW w \in Workers, ExecCommits(w) \/ Runs(w), Id(w) = id,
             att[w].load = load
      PROVE  canonical'[id] # None /\ canonical'[id].load = load
  <2>1. ExecCommits(w)
    <3>1. CASE Runs(w)
      BY <1>3, <3>1, Serves DEF Runs, Fits, IsAtomic
    <3> QED BY <1>3, <3>1
  <2> DEFINE row == [load |-> load, old |-> FALSE]
  <2>2. row # None
    <3>1. row \in Canonicals
      BY DEF Canonicals
    <3> QED BY <3>1, NoneAssumption
  <2>3. canonical'[id] = row
    BY <1>3, <2>1 DEF ExecCommits, TypeInv, TypeOK
  <2> QED BY <2>2, <2>3
<1> QED BY <1>2, <1>3, AppliedSteps

\* A request id that is used for two atomic commands runs only one of them:
\* the canonical row is written in the transaction of the command, whatever
\* became of the ledger.
THEOREM OnePayloadRuns == Spec => []OnePayloadPerId
<1>1. Init => OnlyPayload
  <2> SUFFICES ASSUME Init, NEW id \in Ids \ LegacyIds, NEW load \in Loads
               PROVE  ~(applied[id][load] > 0)
    BY DEF OnlyPayload
  <2> QED BY DEF Init
<1>2. TypeInv /\ OnceInv /\ OnlyPayload /\ [Next]_vars => OnlyPayload'
  BY PayloadStaysOnly
<1>3. OnlyPayload => OnePayloadPerId
  BY DEF OnlyPayload, OnePayloadPerId, IsAtomic
<1> QED BY <1>1, <1>2, <1>3, OnceHolds, PTL DEF Spec

\* The reservation of a daemon older than the canonical table is answered as
\* indeterminate, never executed again, as long as the ledger can be read.
THEOREM LegacyNeverRunsAgain == Spec => []LegacyStaysIndeterminate
<1>1. OnceInv => LegacyStaysIndeterminate
  BY DEF OnceInv, LegacyKept, LegacyStaysIndeterminate
<1> QED BY <1>1, OnceHolds, PTL

-----------------------------------------------------------------------------
(* A launch marker is stored after its response was retained.              *)

\* The worker of an external request made the reservation it holds.
HolderOwns ==
  \A w \in Workers :
    pc[w] \in Holding /\ ~Atomic(w) => Row(w).owner = Inst(w)

\* A launch about to store its marker has retained its response, or lost it.
LaunchRetained ==
  \A w \in Workers :
    pc[w] = "complete" /\ Class(w) = "launch"
      => replays[Inst(w)][Id(w)] # "never"

MarkersRetained ==
  \A id \in Ids :
    runtime[id] # None /\ runtime[id].resp = "marker"
      => \A i \in Instances :
           runtime[id].owner = i => replays[i][id] # "never"

MarkerInv == HolderOwns /\ LaunchRetained /\ MarkersRetained

\* A worker comes to hold an external row by reserving it.
LEMMA HolderComes ==
  ASSUME TypeInv, [Next]_vars, NEW u \in Workers,
         pc'[u] \in Holding, ~Atomic(u)', pc[u] \notin Holding
  PROVE  ReserveFresh(u)
<1>1. pc'[u] # pc[u] /\ pc'[u] # "idle"
  BY DEF Holding
<1>2. CASE Receive(u)
  BY <1>2 DEF Receive, Goto, TypeInv, TypeOK, Holding
<1>3. CASE \E i \in Instances : Crash(i) /\ u \in Busy(i)
  BY <1>1, <1>3 DEF Crash
<1>4. CASE WorkerStep(u) \/ Panics(u)
  <2>1. ~Atomic(u) /\ att[u] \in Attempts /\ Fits(pc[u], att[u])
    BY <1>1, <1>4, OwnStep, Serves DEF Atomic, Class
  <2>2. pc[u] \notin {"core", "exec", "finalize"}
    BY <2>1 DEF Fits, Atomic, Class
  <2>3. ASSUME NEW step, Goto(u, step), step \notin Holding PROVE FALSE
    BY <2>3 DEF Goto, TypeInv, TypeOK
  <2>4. ASSUME NEW kind, Reply(u, kind) PROVE FALSE
    BY <2>3, <2>4 DEF Reply, Holding
  <2>5. CASE Probe(u) \/ Enter(u)
    BY <2>1, <2>3, <2>4, <2>5
       DEF Probe, Enter, ProbeAnswers, ProbeSupersedes, DropConfirmation,
           ProbeFindsNothing, AfterProbe, AcquireGate, GatePoisoned, Prepare,
           PreparationFails, Holding
  <2>6. CASE (Reserve(u) /\ ~ReserveFresh(u)) \/ Wait(u)
    BY <2>1, <2>3, <2>4, <2>6
       DEF Reserve, Wait, ReserveAnswers, ReserveJoins, ReserveTakesOver,
           ReserveFails, MayTakeOver, WaitAnswers, WaitReleased, WaitTimesOut,
           Holding
  <2>7. ~Core(u)
    BY <2>2 DEF Core, CoreBegins, CoreConflicts, CoreReplays, CoreFails,
                ExecCommits, ExecRefuses, Finalizes, FinalizeFails
  <2>8. ~External(u)
    BY DEF External, Runs, Retains, Holding
  <2>9. CASE Settle(u) \/ Panics(u)
    BY <2>3, <2>4, <2>9
       DEF Settle, Completes, CompleteFails, Abandons, AbandonFails,
           PruneCanonical, Publishes, Panics, Holding
  <2> QED BY <1>4, <2>5, <2>6, <2>7, <2>8, <2>9 DEF WorkerStep
<1> QED BY <1>1, <1>2, <1>3, <1>4, WorkerMoves

\* A worker that goes on holding has its request and its row.
LEMMA HolderStays ==
  ASSUME TypeInv, OnceInv, [Next]_vars, NEW u \in Workers,
         pc'[u] \in Holding, ~Atomic(u)', pc[u] \in Holding
  PROVE  /\ att'[u].id = att[u].id /\ att'[u].load = att[u].load
         /\ att'[u].inst = att[u].inst
         /\ runtime'[Id(u)].owner = Row(u).owner
<1>1. /\ att'[u].id = att[u].id /\ att'[u].load = att[u].load
      /\ att'[u].inst = att[u].inst
  <2>1. pc'[u] # "idle" /\ att[u] # None
    BY Serves, NoneAssumption DEF Holding
  <2> QED BY <2>1, WorkerMoves, OwnStep DEF Receive, Crash
<1>2. Id(u) \in Ids
  BY Serves DEF Holding
<1>3. Unresolved(Row(u))
  BY <1>1 DEF OnceInv, HolderOK, Atomic, Class
<1>4. runtime'[Id(u)] # None
  <2>1. OnceInv'
    BY NextOnce
  <2> QED BY <1>1, <2>1 DEF OnceInv, HolderOK, Unresolved, Row, Id
<1>5. runtime'[Id(u)].owner = Row(u).owner
  BY <1>2, <1>3, <1>4, RowSteps
     DEF Row, RowReserved, RowSettled, RowAged, RowRemoved, Kept, Unresolved
<1> QED BY <1>1, <1>5

LEMMA OwnersStay ==
  ASSUME TypeInv, OnceInv, MarkerInv, [Next]_vars
  PROVE  HolderOwns'
<1> SUFFICES ASSUME NEW u \in Workers, pc'[u] \in Holding, ~Atomic(u)'
             PROVE  runtime'[att'[u].id].owner = att'[u].inst
  BY DEF HolderOwns, Row, Id, Inst
<1>1. CASE pc[u] \in Holding
  <2>1. ~Atomic(u)
    BY <1>1, HolderStays DEF Atomic, Class
  <2> QED BY <1>1, <2>1, HolderStays DEF MarkerInv, HolderOwns, Row, Id, Inst
<1>2. CASE pc[u] \notin Holding
  <2>1. ReserveFresh(u)
    BY <1>2, HolderComes
  <2>2. /\ att'[u].id = att[u].id /\ att'[u].inst = att[u].inst
        /\ Id(u) \in Ids
    BY <2>1, OwnStep, Serves
       DEF WorkerStep, Reserve, ReserveFresh, Reserving, Goto, TypeInv, TypeOK,
           Holding
  <2>3. runtime'[Id(u)].owner = Inst(u)
    BY <2>1, <2>2 DEF ReserveFresh, TypeInv, TypeOK
  <2> QED BY <2>2, <2>3 DEF Id, Inst
<1> QED BY <1>1, <1>2

LEMMA ReplaysStayKnown ==
  ASSUME TypeInv, [Next]_vars, NEW i \in Instances, NEW id \in Ids,
         replays[i][id] # "never"
  PROVE  replays'[i][id] # "never"
BY ReplaySteps DEF ReplayRetained

LEMMA LaunchesStayRetained ==
  ASSUME TypeInv, OnceInv, MarkerInv, [Next]_vars
  PROVE  LaunchRetained'
<1> SUFFICES ASSUME NEW u \in Workers, pc'[u] = "complete",
                    ClassOf[att'[u].load] = "launch"
             PROVE  replays'[att'[u].inst][att'[u].id] # "never"
  BY DEF LaunchRetained, Class, Id, Inst
<1>1. ~Atomic(u)' /\ pc'[u] \in Holding
  BY DEF Atomic, Class, Holding
<1>2. pc[u] \in Holding
  BY <1>1, HolderComes DEF ReserveFresh, Goto, TypeInv, TypeOK
<1>3. /\ att'[u].id = att[u].id /\ att'[u].load = att[u].load
      /\ att'[u].inst = att[u].inst
  BY <1>1, <1>2, HolderStays
<1>4. Id(u) \in Ids /\ Inst(u) \in Instances
  BY <1>2, Serves DEF Holding
<1>5. CASE pc[u] = "complete"
  BY <1>3, <1>4, <1>5, ReplaysStayKnown
     DEF MarkerInv, LaunchRetained, Class, Id, Inst
<1>6. CASE pc[u] # "complete"
  <2>1. WorkerStep(u)
    BY <1>2, <1>6, WorkerMoves
       DEF Receive, Crash, Panics, Reply, Goto, TypeInv, TypeOK, Holding
  <2>2. ~Abandons(u) /\ ~AbandonFails(u)
    BY DEF Abandons, AbandonFails, Goto, AfterAbandon, TypeInv, TypeOK
  <2>3. ~Runs(u)
    BY <1>3 DEF Runs, GotoWith, Goto, AfterRun, Class, TypeInv, TypeOK
  <2>4. Retains(u)
    BY <1>2, <1>6, <2>1, <2>2, <2>3
       DEF WorkerStep, Probe, Enter, Reserve, Wait, Core, External, Settle,
           ProbeAnswers, ProbeSupersedes, DropConfirmation, ProbeFindsNothing,
           AcquireGate, GatePoisoned, Prepare, PreparationFails, ReserveFresh,
           ReserveAnswers, ReserveJoins, ReserveTakesOver, ReserveFails,
           Reserving, WaitAnswers, WaitReleased, WaitTimesOut, CoreBegins,
           CoreConflicts, CoreReplays, CoreFails, ExecCommits, ExecRefuses,
           Finalizes, FinalizeFails, Completes, CompleteFails,
           PruneCanonical, Publishes, Holding
  <2>5. replays'[Inst(u)][Id(u)] \in {"held", "gone"}
    BY <1>4, <2>4 DEF Retains, TypeInv, TypeOK
  <2> QED BY <1>3, <2>5 DEF Id, Inst
<1> QED BY <1>5, <1>6

LEMMA MarkersStayRetained ==
  ASSUME TypeInv, OnceInv, MarkerInv, [Next]_vars
  PROVE  MarkersRetained'
<1> SUFFICES ASSUME NEW id \in Ids, runtime'[id] # None,
                    runtime'[id].resp = "marker",
                    NEW i \in Instances, runtime'[id].owner = i
             PROVE  replays'[i][id] # "never"
  BY DEF MarkersRetained
<1>1. CASE runtime[id] # None /\ runtime[id].resp = "marker"
           /\ runtime[id].owner = i
  BY <1>1, ReplaysStayKnown DEF MarkerInv, MarkersRetained
<1>2. CASE RowSettled(id)
  <2>1. PICK w \in Workers : /\ Completes(w) /\ Id(w) = id
                             /\ Kept(runtime[id], runtime'[id])
                             /\ runtime'[id].resp = StoredResponse(w)
    BY <1>2 DEF RowSettled
  <2>2. pc[w] = "complete" /\ att[w].resp \in Responses
    BY <2>1, Serves DEF Completes
  <2>3. Class(w) = "launch"
    BY <2>1, <2>2 DEF StoredResponse, Responses
  <2>4. Inst(w) = i
    BY <2>1, <2>2, <2>3
       DEF MarkerInv, HolderOwns, Holding, Atomic, Row, Kept
  <2>5. replays[i][id] # "never"
    BY <2>1, <2>2, <2>3, <2>4 DEF MarkerInv, LaunchRetained
  <2> QED BY <2>5, ReplaysStayKnown
<1>3. CASE RowAged(id)
  BY <1>1, <1>3 DEF RowAged, Settled, Kept
<1>4. ~RowReserved(id) /\ ~RowRemoved(id)
  BY DEF RowReserved, RowRemoved
<1> QED BY <1>1, <1>2, <1>3, <1>4, RowSteps

\* A waiter that is woken by a durable launch marker finds the live response:
\* the owner retained it, or lost it for good, before it stored the marker.
THEOREM MarkersFollowRetention == Spec => []MarkerAfterRetention
<1>1. Init => MarkerInv
  BY DEF Init, MarkerInv, HolderOwns, LaunchRetained, MarkersRetained, Holding,
         LegacyRow
<1>2. TypeInv /\ OnceInv /\ MarkerInv /\ [Next]_vars => MarkerInv'
  BY OwnersStay, LaunchesStayRetained, MarkersStayRetained DEF MarkerInv
<1>3. MarkerInv => MarkerAfterRetention
  BY DEF MarkerInv, MarkersRetained, MarkerAfterRetention
<1> QED BY <1>1, <1>2, <1>3, OnceHolds, PTL DEF Spec
-----------------------------------------------------------------------------
(* The promise of AtMostOnce.                                              *)

\* A step does one of the three things the promise speaks of: an effect, an
\* answer, or forgetting.
Acts(w) ==
  /\ ExecCommits(w) \/ Runs(w)
  /\ Apply(Id(w), att[w].load) /\ told' = told /\ lapsed' = lapsed
Answers(w) ==
  /\ pc[w] # "idle" /\ applied' = applied /\ lapsed' = lapsed
  /\ \E kind \in {"ok", "swallowed"} :
       told' = told \union {[id |-> Id(w), load |-> att[w].load,
                             kind |-> kind]}

LEMMA PromiseSteps ==
  ASSUME TypeInv, [Next]_vars
  PROVE  \/ applied' = applied /\ told' = told
         \/ \E w \in Workers : Acts(w) \/ Answers(w)
<1> DEFINE Result(w) == \/ applied' = applied /\ told' = told
                        \/ Acts(w) \/ Answers(w)
<1>1. ASSUME NEW w \in Workers, NEW kind, Reply(w, kind), pc[w] # "idle",
             applied' = applied, lapsed' = lapsed
      PROVE  Result(w)
  BY <1>1 DEF Reply, Answers
<1>2. ASSUME NEW w \in Workers, Probe(w) \/ Enter(w) \/ Receive(w)
      PROVE  Result(w)
  BY <1>1, <1>2
     DEF Probe, Enter, Receive, ProbeAnswers, ProbeSupersedes,
         DropConfirmation, ProbeFindsNothing, AcquireGate, GatePoisoned,
         Prepare, PreparationFails, history
<1>3. ASSUME NEW w \in Workers, Reserve(w) \/ Wait(w) PROVE Result(w)
  BY <1>1, <1>3
     DEF Reserve, Wait, Reserving, ReserveFresh, ReserveAnswers, ReserveJoins,
         ReserveTakesOver, ReserveFails, WaitAnswers, WaitReleased,
         WaitTimesOut, history
<1>4. ASSUME NEW w \in Workers, Core(w) \/ External(w) PROVE Result(w)
  BY <1>4 DEF Core, External, CoreBegins, CoreConflicts, CoreReplays,
              CoreFails, ExecCommits, ExecRefuses, Finalizes, FinalizeFails,
              Runs, Retains, history, Acts
<1>5. ASSUME NEW w \in Workers, Settle(w) \/ Panics(w) PROVE Result(w)
  BY <1>1, <1>5 DEF Settle, Completes, CompleteFails, Abandons, AbandonFails,
                    PruneCanonical, Publishes, Panics, history
<1>6. ASSUME ~\E w \in Workers : Receive(w) \/ WorkerStep(w) \/ Panics(w)
      PROVE  applied' = applied /\ told' = told
  BY <1>6 DEF Next, Crash, Shutdown, Start, ReplayExpires, Age, vars, serving,
              history
<1> QED BY <1>2, <1>3, <1>4, <1>5, <1>6 DEF WorkerStep

\* The ledger was read before every execution of a legacy reservation.
LegacySafe == LegacyIds \intersect bypassed = {}

\* Who acts does so for the first time, or after the request was forgotten.
LEMMA ActsOnce ==
  ASSUME TypeInv, OnceInv, LegacySafe, NEW w \in Workers, Acts(w)
  PROVE  \/ applied[Id(w)][att[w].load] = 0
         \/ Id(w) \in lapsed /\ ClassOf[att[w].load] # "launch"
<1>1. pc[w] \in {"exec", "run"}
  BY DEF Acts, ExecCommits, Runs
<1>2. Id(w) \in Ids /\ att[w].load \in Loads /\ Fits(pc[w], att[w])
  BY <1>1, Serves
<1>3. Id(w) \notin LegacyIds
  BY <1>1 DEF LegacySafe, OnceInv, LegacyKept, Early
<1>4. CASE pc[w] = "exec"
  <2>1. IsAtomic(att[w].load) /\ canonical[Id(w)] = None
    BY <1>2, <1>4 DEF Fits, IsAtomic, OnceInv, ExecAlone
  <2> QED BY <1>2, <1>3, <2>1 DEF IsAtomic, OnceInv, AtomicOnce
<1>5. CASE pc[w] = "run"
  <2>1. ~IsAtomic(att[w].load)
    BY <1>2, <1>5 DEF Fits, IsAtomic
  <2>2. CASE Remembered(Id(w), att[w].load)
    <3>1. Recorded(Id(w), att[w].load)
      BY <1>2, <1>3, <2>1, <2>2 DEF OnceInv, ExternalOnce
    <3> QED BY <1>5, <3>1 DEF Recorded
  <2> QED BY <2>2 DEF Remembered
<1> QED BY <1>1, <1>4, <1>5

\* The refinement mapping, by name.
Effects   == [r \in Ids \X Loads |-> applied[r[1]][r[2]]]
Succeeded == {<<t.id, t.load>> : t \in {u \in told : u.kind = "ok"}}
Forgotten == lapsed \X Loads

LEMMA StepPromised ==
  ASSUME TypeInv, OnceInv, LegacySafe, SuccessIsReal', [Next]_vars
  PROVE  [Promise!Next]_(Promise!vars)
<1>1. CASE applied' = applied /\ told' = told
  <2>1. Effects' = Effects /\ Succeeded' = Succeeded
    BY <1>1 DEF Effects, Succeeded
  <2>2. /\ Forgotten' \in SUBSET (Ids \X Loads)
        /\ Forgotten \subseteq Forgotten'
    BY HistoryGrows, NextTyped DEF Forgotten, TypeInv, TypeOK
  <2> QED BY <2>1, <2>2
          DEF Promise!Next, Promise!Forget, Effects, Succeeded, Forgotten
<1>2. ASSUME NEW w \in Workers, Acts(w) PROVE Promise!Next
  <2> DEFINE id == Id(w)  load == att[w].load
  <2>1. id \in Ids /\ load \in Loads
    BY <1>2, Serves DEF Acts, ExecCommits, Runs
  <2>2. \/ Effects[<<id, load>>] = 0
        \/ <<id, load>> \in Forgotten
              \ (Ids \X {l \in Loads : ClassOf[l] = "launch"})
    <3>1. Effects[<<id, load>>] = applied[id][load]
      BY <2>1 DEF Effects
    <3> QED BY <1>2, <2>1, <3>1, ActsOnce DEF Forgotten
  <2>3. Effects' = [Effects EXCEPT ![<<id, load>>] =
                      IF @ < 2 THEN @ + 1 ELSE @]
    <3> DEFINE G == [Effects EXCEPT ![<<id, load>>] =
                       IF @ < 2 THEN @ + 1 ELSE @]
    <3>1. ASSUME NEW r \in Ids \X Loads PROVE Effects'[r] = G[r]
      <4>1. PICK a \in Ids, b \in Loads : r = <<a, b>>
        OBVIOUS
      <4>2. Effects'[r] = applied'[a][b] /\ Effects[r] = applied[a][b]
        BY <4>1 DEF Effects
      <4>3. applied'[a][b] = IF a = id /\ b = load
                               THEN IF applied[a][b] < 2 THEN applied[a][b] + 1
                                                         ELSE applied[a][b]
                               ELSE applied[a][b]
        BY <1>2, <2>1 DEF Acts, Apply, TypeInv, TypeOK
      <4> QED BY <4>1, <4>2, <4>3, <2>1 DEF Effects
    <3>2. DOMAIN Effects' = Ids \X Loads /\ DOMAIN G = Ids \X Loads
      BY DEF Effects
    <3> QED BY <3>1, <3>2 DEF Effects
  <2>4. Succeeded' = Succeeded /\ Forgotten' = Forgotten
    BY <1>2 DEF Acts, Succeeded, Forgotten
  <2>5. <<id, load>> \in Ids \X Loads
    BY <2>1
  <2> QED BY <2>2, <2>3, <2>4, <2>5
          DEF Promise!Next, Promise!Execute, Effects, Succeeded, Forgotten
<1>3. ASSUME NEW w \in Workers, Answers(w) PROVE [Promise!Next]_(Promise!vars)
  <2> DEFINE id == Id(w)  load == att[w].load
  <2>1. id \in Ids /\ load \in Loads
    BY <1>3, Serves DEF Answers
  <2>2. Effects' = Effects /\ Forgotten' = Forgotten
    BY <1>3 DEF Answers, Effects, Forgotten
  <2>3. PICK kind \in {"ok", "swallowed"}, t \in Tellings :
          /\ t.id = id /\ t.load = load /\ t.kind = kind
          /\ told' = told \union {t}
    BY <1>3, <2>1 DEF Answers, Tellings
  <2>4. CASE kind = "ok"
    <3>1. Succeeded' = Succeeded \union {<<id, load>>}
      BY <2>3, <2>4 DEF Succeeded
    <3>2. Effects[<<id, load>>] > 0
      <4>1. applied'[id][load] >= 1
        BY <2>3, <2>4 DEF SuccessIsReal
      <4>2. applied' = applied /\ applied[id][load] \in 0..2
        BY <1>3, <2>1 DEF Answers, TypeInv, TypeOK
      <4> QED BY <2>1, <4>1, <4>2 DEF Effects
    <3>3. <<id, load>> \in Ids \X Loads
      BY <2>1
    <3> QED BY <2>2, <3>1, <3>2, <3>3
            DEF Promise!Next, Promise!Tell, Effects, Succeeded, Forgotten
  <2>5. CASE kind = "swallowed"
    <3>1. Succeeded' = Succeeded
      BY <2>3, <2>5 DEF Succeeded
    <3> QED BY <2>2, <3>1 DEF Promise!vars, Effects, Succeeded, Forgotten
  <2> QED BY <2>4, <2>5
<1> QED BY <1>1, <1>2, <1>3, PromiseSteps

LEMMA InitPromised == Init => Promise!Init
<1> SUFFICES ASSUME Init PROVE Promise!Init
  OBVIOUS
<1>1. PICK L \in [LegacyIds -> Loads] :
        applied = [id \in Ids |-> [load \in Loads |->
                     IF id \in LegacyIds /\ L[id] = load THEN 1 ELSE 0]]
  BY DEF Init
<1>2. \A id \in Ids, load \in Loads : applied[id][load] \in {0, 1}
  BY <1>1
<1>3. [r \in Ids \X Loads |-> applied[r[1]][r[2]]]
        \in [Ids \X Loads -> {0, 1}]
  BY <1>2
<1>4. {<<t.id, t.load>> : t \in {u \in told : u.kind = "ok"}} = {}
  BY DEF Init
<1>5. lapsed \X Loads = {}
  BY DEF Init
<1> QED BY <1>3, <1>4, <1>5 DEF Promise!Init

\* The ledger, its workers and its daemons implement the promise a client is
\* given, in every behaviour in which no reservation older than the canonical
\* table is executed because its ledger could not be read.
THEOREM PromiseIsKept == Spec /\ []LegacySafe => PromiseKept
<1>1. TypeInv /\ OnceInv /\ LegacySafe /\ SuccessIsReal' /\ [Next]_vars
        => [Promise!Next]_(Promise!vars)
  BY StepPromised
<1> QED BY <1>1, InitPromised, OnceHolds, SuccessesAreReal, PTL
        DEF Spec, PromiseKept, Promise!Spec

\* In particular wherever no older daemon left a reservation behind.
THEOREM PromiseKeptWithoutLegacy ==
  ASSUME LegacyIds = {}
  PROVE  Spec => PromiseKept
<1>1. LegacySafe
  BY DEF LegacySafe
<1> QED BY <1>1, PromiseIsKept, PTL
=============================================================================
