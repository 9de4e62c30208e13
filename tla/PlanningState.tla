--------------------------- MODULE PlanningState ---------------------------
(***************************************************************************)
(* The planning tables of a project - phases, goals, tasks, lanes, the     *)
(* claims on phases, and what each workspace has pinned and focused - and  *)
(* the commands that change them.  A command reads the tables when it is   *)
(* loaded and then makes a list of writer calls.  The daemon makes them    *)
(* all in one immediate transaction; with --direct, and always for phase   *)
(* finish, every call commits on its own and other processes come between. *)
(***************************************************************************)
EXTENDS Integers, Sequences, FiniteSets, SequencesExt

CONSTANTS
  Procs,        \* processes that execute commands
  DirectProcs,  \* those started with --direct
  Workspaces,   \* worktrees of the project
  At,           \* the workspace a process works in
  Owners,       \* identities a claim may name: branches and workspaces
  OwnerOf,      \* the identity of a workspace
  Stale,        \* identities whose branch or worktree is gone
  Epochs, Phases,
  EpochOf,      \* the epoch a phase is planned in at first
  Lanes, LaneIn,    \* lanes, and the phase each is created under
  Goals, Strikes,   \* goals, and those of them added by strike start
  Tasks, TaskIn,
  Arguments,    \* the statuses given to plan update-status
  MaxCommands,  \* a bound on the commands that are executed
  None

Unread   == "unread"   \* no owner has been read yet
Open     == {"pending", "in-progress"}
Closed   == {"completed", "abandoned"}
Existing == Open \union Closed

ASSUME PlanningConstants ==
  /\ DirectProcs \subseteq Procs
  /\ At \in [Procs -> Workspaces]
  /\ OwnerOf \in [Workspaces -> Owners]
  /\ Stale \subseteq Owners
  /\ EpochOf \in [Phases -> Epochs]
  /\ LaneIn \in [Lanes -> Phases]
  /\ Strikes \subseteq Goals
  /\ TaskIn \in [Tasks -> Goals]
  /\ Arguments \subseteq Existing
  /\ MaxCommands \in Nat
  /\ None \notin Owners \union Epochs \union Phases \union Lanes
  /\ Unread \notin Owners \union {None}
  /\ IsFiniteSet(Phases)

VARIABLES
  db,      \* the tables
  todo,    \* the writer calls a direct process has still to make
  moved,   \* the phases whose owner, epoch or goals another process has changed
           \* since the running command of a process was loaded (history)
  loaded   \* how many commands have been executed

vars == <<db, todo, moved, loaded>>

Me(x) == OwnerOf[At[x]]

(***************************************************************************)
(* Reading tables d.                                                       *)
(***************************************************************************)
Exists(d, p)   == d.phase[p] \in Existing
Running(d, p)  == d.phase[p] = "in-progress"
\* Faulty: a lane that has been started is forgotten.
PreparedLanesOf(d, p) == {l \in Lanes : LaneIn[l] = p /\ d.lane[l] = "prepared"}

LanesOf(d, p)  == {l \in Lanes : LaneIn[l] = p /\ d.lane[l] # "absent"}
GoalsOf(d, p)  == {g \in Goals : d.goal[g] # "absent" /\ d.home[g] = p}
TasksOf(d, g)  == {t \in Tasks : TaskIn[t] = g /\ d.task[t] # "absent"}
PhasesOf(d, e) == {p \in Phases : d.epoch[p] = e}

\* The pinned phase while it is in progress; without a pin, the only phase
\* in progress, if there is one.
Active(d, w) ==
  IF d.pin[w] # None
  THEN IF Running(d, d.pin[w]) THEN d.pin[w] ELSE None
  ELSE IF Cardinality({p \in Phases : Running(d, p)}) = 1
       THEN CHOOSE p \in Phases : Running(d, p)
       ELSE None

Started(d, p) ==
  \E g \in GoalsOf(d, p) :
    \/ d.goal[g] # "pending" \/ g \in d.logged
    \/ \E t \in TasksOf(d, g) : d.task[t] # "pending"

Mine(d, p, x) == d.owner[p] \in {None, Me(x)}

(***************************************************************************)
(* Writer calls.                                                           *)
(***************************************************************************)
Call(op, on)      == [op |-> op, on |-> on]
Claim(p, take)    == [op |-> "claim", on |-> p, take |-> take, seen |-> Unread]
Ensure(p)         == [op |-> "ensure", on |-> p, take |-> FALSE, seen |-> Unread]
Shelve(p)         == [op |-> "shelve", on |-> p, take |-> FALSE, seen |-> Unread]
Release(p)        == [op |-> "release", on |-> p, take |-> FALSE, seen |-> Unread]
Put(op, on, to)   == [op |-> op, on |-> on, to |-> to]

OnOwner == {"claim", "ensure", "shelve", "release"}

\* Lane focus is cleared wherever one of these lanes has it.
Unfocused(d, lanes) ==
  [w \in Workspaces |-> IF d.focus[w] \in lanes THEN None ELSE d.focus[w]]

\* Faulty: the focus on the phase's lanes stays.
SetStatusOnly(d, p, s) == [d EXCEPT !.phase[p] = s]

\* update_phase_status and complete_phase_and_clear_lane_focus
SetPhase(d, p, s) ==
  [d EXCEPT !.phase[p] = s,
            !.focus = IF s = "in-progress" THEN @ ELSE Unfocused(d, LanesOf(d, p))]

\* focus_phase_for_workspace keeps the focus on a lane of a running phase.
FocusPhase(d, w, p) ==
  [d EXCEPT !.pin[w] = p,
            !.focus[w] = IF Running(d, p) /\ @ \in LanesOf(d, p) THEN @ ELSE None]

\* Deleting phases takes their goals, tasks, claims and pins along.
Without(d, ps) ==
  LET gs == {g \in Goals : d.home[g] \in ps}
      ts == {t \in Tasks : TaskIn[t] \in gs}
  IN [d EXCEPT
       !.phase  = [p \in Phases |-> IF p \in ps THEN "absent" ELSE @[p]],
       !.epoch  = [p \in Phases |-> IF p \in ps THEN None ELSE @[p]],
       !.owner  = [p \in Phases |-> IF p \in ps THEN None ELSE @[p]],
       !.pin    = [w \in Workspaces |-> IF @[w] \in ps THEN None ELSE @[w]],
       !.goal   = [g \in Goals |-> IF g \in gs THEN "absent" ELSE @[g]],
       !.home   = [g \in Goals |-> IF g \in gs THEN None ELSE @[g]],
       !.logged = @ \ gs,
       !.task   = [t \in Tasks |-> IF t \in ts THEN "absent" ELSE @[t]]]

\* bankrupt_epoch
Bankrupt(d, e) ==
  LET open == {p \in PhasesOf(d, e) : d.phase[p] \in Open}
      gs   == {g \in Goals : d.goal[g] \in Open /\ d.home[g] \in PhasesOf(d, e)}
      dead == open \union {p \in PhasesOf(d, e) : d.phase[p] = "abandoned"}
  IN [d EXCEPT
       !.phase = [p \in Phases |-> IF p \in open THEN "abandoned" ELSE @[p]],
       !.goal  = [g \in Goals |-> IF g \in gs THEN "abandoned" ELSE @[g]],
       !.focus = Unfocused(d, UNION {LanesOf(d, p) : p \in dead})]

\* focus_workbench_lane and start_and_focus_workbench_lane
FocusLane(d, w, l) == [d EXCEPT !.pin[w] = LaneIn[l], !.focus[w] = l]
StartLane(d, w, l) == [FocusLane(d, w, l) EXCEPT !.lane[l] = "executing"]

\* remove_prepared_workbench_lane
RemoveLane(d, l) == [d EXCEPT !.lane[l] = "absent", !.focus = Unfocused(d, {l})]

RemoveGoal(d, g) ==
  [d EXCEPT !.goal[g] = "absent", !.home[g] = None, !.logged = @ \ {g},
            !.task = [t \in Tasks |-> IF TaskIn[t] = g THEN "absent" ELSE @[t]]]

\* A writer call and the checks around it succeed on tables d.
Allowed(x, c, d) ==
  CASE c.op = "claim"        -> Exists(d, c.on) /\ (c.take \/ Mine(d, c.on, x))
    [] c.op = "ensure"       -> Exists(d, c.on) /\ Mine(d, c.on, x)
    [] c.op = "release"      -> Mine(d, c.on, x) \/ d.owner[c.on] \in Stale
    [] c.op \in {"clear", "phase", "demote", "pin", "move phase"} -> Exists(d, c.on)
    [] c.op = "add phase"    -> d.phase[c.on] = "absent"
    [] c.op = "remove phase" -> Exists(d, c.on) /\ LanesOf(d, c.on) = {}
    [] c.op = "remove epoch" -> \A p \in PhasesOf(d, c.on) : LanesOf(d, p) = {}
    [] c.op = "add lane"     -> Exists(d, LaneIn[c.on]) /\ d.lane[c.on] = "absent"
    [] c.op = "focus lane"   -> d.lane[c.on] # "absent" /\ Running(d, LaneIn[c.on])
    [] c.op = "start lane"   -> d.lane[c.on] = "prepared" /\ Running(d, LaneIn[c.on])
    [] c.op = "remove lane"  -> d.lane[c.on] = "prepared"
    [] c.op \in {"add goal", "add strike"} -> Exists(d, c.to) /\ d.goal[c.on] = "absent"
    [] c.op = "move goal"    -> Exists(d, c.to) /\ d.goal[c.on] # "absent"
    [] c.op \in {"goal", "log goal", "remove goal"} -> d.goal[c.on] # "absent"
    [] c.op = "count"        -> d.home[c.on] = Active(d, At[x]) =>
                                  \A t \in TasksOf(d, c.on) : d.task[t] = "completed"
    [] c.op = "add task"     -> d.goal[TaskIn[c.on]] # "absent" /\ d.task[c.on] = "absent"
    [] c.op = "task"         -> d.task[c.on] # "absent"
    [] OTHER                 -> TRUE

\* What the call makes of them.
Effect(x, c, d) ==
  CASE c.op \in {"claim", "ensure"}  -> [d EXCEPT !.owner[c.on] = Me(x)]
    [] c.op \in {"release", "clear"} -> [d EXCEPT !.owner[c.on] = None]
    [] c.op = "shelve" -> IF Exists(d, c.on) /\ Mine(d, c.on, x)
                          THEN SetPhase([d EXCEPT !.owner[c.on] = Me(x)], c.on, "pending")
                          ELSE d
    [] c.op \in {"phase", "demote"}  -> SetPhase(d, c.on, c.to)
    [] c.op = "pin"          -> FocusPhase(d, At[x], c.on)
    [] c.op = "add phase"    -> [d EXCEPT !.phase[c.on] = "pending", !.epoch[c.on] = c.to]
    [] c.op = "move phase"   -> [d EXCEPT !.epoch[c.on] = c.to]
    [] c.op = "remove phase" -> Without(d, {c.on})
    [] c.op = "remove epoch" -> Without(d, PhasesOf(d, c.on))
    [] c.op = "bankrupt"     -> Bankrupt(d, c.on)
    [] c.op = "add lane"     -> [d EXCEPT !.lane[c.on] = "prepared"]
    [] c.op = "focus lane"   -> FocusLane(d, At[x], c.on)
    [] c.op = "start lane"   -> StartLane(d, At[x], c.on)
    [] c.op = "remove lane"  -> RemoveLane(d, c.on)
    [] c.op = "add goal"     -> [d EXCEPT !.home[c.on] = c.to, !.goal[c.on] = "pending"]
    [] c.op = "add strike"   -> [d EXCEPT !.home[c.on] = c.to, !.goal[c.on] = "in-progress"]
    [] c.op = "move goal"    -> [d EXCEPT !.home[c.on] = c.to]
    [] c.op = "goal"         -> [d EXCEPT !.goal[c.on] = c.to]
    [] c.op = "log goal"     -> [d EXCEPT !.logged = @ \union {c.on}]
    [] c.op = "remove goal"  -> RemoveGoal(d, c.on)
    [] c.op = "add task"     -> [d EXCEPT !.task[c.on] = "pending"]
    [] c.op = "task"         -> [d EXCEPT !.task[c.on] = c.to]
    [] OTHER                 -> d

(***************************************************************************)
(* Executing a command.                                                    *)
(***************************************************************************)
Idle(x)    == todo[x] = <<>>
Current(x) == Head(todo[x])

\* What a command has looked up of a phase.
Known(d, p) == <<d.owner[p], d.epoch[p], GoalsOf(d, p)>>

\* Changed owners, epochs and goals are held against the other running commands.
Notice(x) ==
  moved' = [y \in Procs |->
    CASE todo'[y] = <<>>            -> {}
      [] todo'[y] # <<>> /\ y = x -> moved[y]
      [] OTHER                      ->
           moved[y] \union {p \in Phases : Known(db', p) # Known(db, p)}]

\* A call that fails undoes those before it, and none is made after it.
After(x, d, c, before) ==
  IF before.ok /\ Allowed(x, c, before.db)
  THEN [ok |-> TRUE, db |-> Effect(x, c, before.db)]
  ELSE [ok |-> FALSE, db |-> d]

\* What the first n calls make of tables d.
Runs(x, d, calls) ==
  LET run[n \in 0..Len(calls)] ==
        IF n = 0 THEN [ok |-> TRUE, db |-> d] ELSE After(x, d, calls[n], run[n - 1])
  IN run

\* In one transaction.
InOne(x, calls) ==
  /\ db' = Runs(x, db, calls)[Len(calls)].db
  /\ UNCHANGED todo
  /\ Notice(x)

\* Call by call, from the tables that have been read now.
OneByOne(x, calls) ==
  /\ todo' = [todo EXCEPT ![x] = calls]
  /\ UNCHANGED <<db, moved>>

Loads(x) == Idle(x) /\ loaded < MaxCommands /\ loaded' = loaded + 1

Execute(x, calls) ==
  /\ Loads(x)
  /\ IF x \in DirectProcs THEN OneByOne(x, calls) ELSE InOne(x, calls)

Advance(x, rest, new) ==
  /\ todo' = [todo EXCEPT ![x] = rest]
  /\ db' = new
  /\ Notice(x)
  /\ UNCHANGED loaded

Return(x) == Advance(x, Tail(todo[x]), db)

\* A call fails, git refuses a phase finish, or the process dies.
Fail(x) == Advance(x, <<>>, db)
Dies(x) == ~Idle(x) /\ Fail(x)

\* shelve goes on to the demotion; a phase it may not touch stays as it is.
Holds(x) ==
  LET rest == Tail(todo[x]) IN
  IF Current(x).op = "shelve"
  THEN <<Put("demote", Current(x).on, "pending")>> \o rest
  ELSE rest

\* Faulty: whoever may not write goes on all the same.
Ignored(x) == Return(x)

Refused(x) == IF Current(x).op = "shelve" THEN Return(x) ELSE Fail(x)

(***************************************************************************)
(* Outside a transaction an owner is read in one statement and written in  *)
(* another, which names the owner that was read.                           *)
(***************************************************************************)
ReadOwner(x) ==
  /\ ~Idle(x) /\ Current(x).op \in OnOwner /\ Current(x).seen = Unread
  /\ LET c == Current(x)
         o == db.owner[c.on]
     IN CASE c.op = "release" /\ o = None -> Return(x)
          [] c.op \in {"ensure", "shelve"} /\ o = Me(x) -> Advance(x, Holds(x), db)
          [] o \notin {None, Me(x)} /\ ~c.take /\ ~(c.op = "release" /\ o \in Stale) -> Refused(x)
          [] OTHER -> Advance(x, <<[c EXCEPT !.seen = o]>> \o Tail(todo[x]), db)

\* Faulty: the claim does not name the owner that was read.
ClaimOwnerBlindly(x) ==
  /\ ~Idle(x) /\ Current(x).op \in OnOwner \ {"release"} /\ Current(x).seen # Unread
  /\ LET p == Current(x).on IN
     IF Exists(db, p) THEN Advance(x, Holds(x), [db EXCEPT !.owner[p] = Me(x)]) ELSE Refused(x)

\* claim_phase_owner_if_current, and what its callers make of a refusal.
ClaimOwner(x) ==
  /\ ~Idle(x) /\ Current(x).op \in OnOwner \ {"release"} /\ Current(x).seen # Unread
  /\ LET p == Current(x).on
         o == db.owner[p]
     IN \/ /\ Exists(db, p) /\ o = Current(x).seen
           /\ Advance(x, Holds(x), [db EXCEPT !.owner[p] = Me(x)])
        \/ /\ Exists(db, p) /\ o # Current(x).seen /\ o = Me(x)
           /\ Advance(x, Holds(x), db)
        \/ /\ ~Exists(db, p) \/ o \notin {Current(x).seen, Me(x)}
           /\ Refused(x)

\* clear_phase_owner_if_current
ReleaseOwner(x) ==
  /\ ~Idle(x) /\ Current(x).op = "release" /\ Current(x).seen # Unread
  /\ LET p == Current(x).on IN
     IF db.owner[p] = Current(x).seen
     THEN Advance(x, Tail(todo[x]), [db EXCEPT !.owner[p] = None])
     ELSE Fail(x)

WriterCall(x) ==
  /\ ~Idle(x) /\ Current(x).op \notin OnOwner
  /\ IF Allowed(x, Current(x), db)
     THEN Advance(x, Tail(todo[x]), Effect(x, Current(x), db))
     ELSE Fail(x)

(***************************************************************************)
(* The commands: what each requires of the tables it reads, and its calls. *)
(* Touch stands for the commands that only change titles and order.        *)
(***************************************************************************)
Starting(x, p) ==
  (IF Running(db, p) THEN <<>> ELSE <<Put("phase", p, "in-progress")>>) \o <<Call("pin", p)>>

\* Faulty: only the goals are asked.
NoGoalStarted(a) == \A g \in GoalsOf(db, a) : db.goal[g] = "pending"

MayLeave(a) == ~Started(db, a)

PhaseStart(x, p, take) ==
  LET a == Active(db, At[x])
      leaves == a \notin {None, p} /\ Mine(db, a, x)
  IN /\ db.phase[p] \in Open
     /\ leaves => MayLeave(a)
     /\ Execute(x, <<Claim(p, take)>> \o (IF leaves THEN <<Shelve(a)>> ELSE <<>>)
                   \o Starting(x, p))

\* A running phase of the epoch is preferred to a pending one.
EpochStart(x, p) ==
  LET Of(s) == {q \in PhasesOf(db, db.epoch[p]) : db.phase[q] = s /\ Mine(db, q, x)} IN
  /\ p \in Of("in-progress") \/ (Of("in-progress") = {} /\ p \in Of("pending"))
  /\ Execute(x, <<Claim(p, FALSE)>> \o Starting(x, p))

PhaseFocus(x, p)   == Exists(db, p) /\ Execute(x, <<Call("pin", p)>>)
PhaseRelease(x, p) == Exists(db, p) /\ Execute(x, <<Release(p)>>)
PhaseAdd(x, p, e)  == db.phase[p] = "absent" /\ Execute(x, <<Put("add phase", p, e)>>)
PhaseRemove(x, p)  == Exists(db, p) /\ Execute(x, <<Ensure(p), Call("remove phase", p)>>)
PhaseMove(x, p, e) == Exists(db, p) /\ Execute(x, <<Ensure(p), Put("move phase", p, e)>>)
Touch(x, p)        == Exists(db, p) /\ Execute(x, <<Ensure(p)>>)

\* Its git commands keep it out of any transaction.
PhaseFinish(x) ==
  LET a == Active(db, At[x]) IN
  /\ a # None
  /\ Loads(x)
  /\ OneByOne(x, <<Ensure(a), Put("phase", a, "completed"), Call("clear", a)>>)

EpochRemove(x, e) == Execute(x, <<Call("remove epoch", e)>>)

EpochBankrupt(x, e) ==
  LET ps == SetToSeq(PhasesOf(db, e)) IN
  Execute(x, [i \in DOMAIN ps |-> Ensure(ps[i])] \o <<Call("bankrupt", e)>>)

PlanUpdatePhase(x, p, s) ==
  Exists(db, p) /\ Execute(x, <<Ensure(p), Put("phase", p, s)>>)

LaneCreate(x, l) ==
  /\ db.phase[LaneIn[l]] \in Open /\ db.lane[l] = "absent"
  /\ Execute(x, <<Ensure(LaneIn[l]), Call("add lane", l)>>)

LaneFocus(x, l) ==
  /\ db.lane[l] # "absent" /\ Running(db, LaneIn[l])
  /\ Execute(x, <<Call("focus lane", l)>>)

LaneStart(x, l) ==
  /\ db.lane[l] = "prepared" /\ Running(db, LaneIn[l])
  /\ Execute(x, <<Ensure(LaneIn[l]), Call("start lane", l)>>)

LaneRemove(x, l) ==
  /\ db.lane[l] = "prepared"
  /\ Execute(x, <<Ensure(LaneIn[l]), Call("remove lane", l)>>)

GoalAdd(x, g, p) ==
  /\ db.goal[g] = "absent" /\ g \notin Strikes /\ Exists(db, p)
  /\ Execute(x, <<Ensure(p), Put("add goal", g, p)>>)

StrikeStart(x, g) ==
  LET a == Active(db, At[x]) IN
  /\ a # None
  /\ g \in Strikes /\ db.goal[g] = "absent"
  /\ \A s \in Strikes : db.goal[s] # "in-progress"
  /\ Execute(x, <<Ensure(a), Put("add strike", g, a)>>)

\* strike finish and strike abort
StrikeEnd(x, g, s) ==
  /\ g \in Strikes /\ db.goal[g] = "in-progress" /\ db.home[g] = Active(db, At[x])
  /\ Execute(x, <<Ensure(db.home[g]), Put("goal", g, s)>>
                \o (IF s = "completed" THEN <<Call("log goal", g)>> ELSE <<>>))

GoalMove(x, g, p) ==
  /\ db.goal[g] # "absent" /\ Exists(db, p)
  /\ Execute(x, <<Ensure(db.home[g]), Ensure(p), Put("move goal", g, p)>>)

GoalRemove(x, g) ==
  /\ db.goal[g] # "absent"
  /\ Execute(x, <<Ensure(db.home[g]), Call("remove goal", g)>>)

Completing(g) ==
  <<Ensure(db.home[g]), Call("count", g), Put("goal", g, "completed"), Call("log goal", g)>>

GoalComplete(x, g) ==
  /\ db.goal[g] \in Open /\ db.home[g] = Active(db, At[x])
  /\ Execute(x, Completing(g))

\* task complete, given a goal
GoalTaskComplete(x, g) ==
  /\ db.goal[g] # "absent" /\ Running(db, db.home[g])
  /\ Execute(x, Completing(g))

GoalAbandon(x, g) ==
  /\ db.goal[g] \notin {"absent", "abandoned"} /\ db.home[g] = Active(db, At[x])
  /\ Execute(x, <<Ensure(db.home[g]), Put("goal", g, "abandoned"), Call("log goal", g)>>)

PlanUpdateGoal(x, g, s) ==
  /\ db.goal[g] # "absent"
  /\ s = "completed" => g \in db.logged
  /\ Execute(x, <<Ensure(db.home[g]), Put("goal", g, s)>>)

\* Without --goal the active phase's active goal is meant, or its only one.
TaskAdd(x, t, named) ==
  LET g == TaskIn[t]
      active == {h \in GoalsOf(db, db.home[g]) : db.goal[h] = "in-progress"}
  IN /\ db.task[t] = "absent" /\ db.goal[g] # "absent"
     /\ IF named
        THEN db.goal[g] \in Open /\ db.phase[db.home[g]] \in Open
        ELSE /\ db.home[g] = Active(db, At[x])
             /\ active = {g} \/ (active = {} /\ GoalsOf(db, db.home[g]) = {g})
     /\ Execute(x, <<Ensure(db.home[g]), Call("add task", t)>>)

\* task start, log, complete and remove; a log leaves the status
TaskCommand(x, t, s) ==
  LET to == IF s = "logged" /\ db.task[t] # "pending" THEN db.task[t] ELSE s IN
  /\ db.task[t] # "absent" /\ Running(db, db.home[TaskIn[t]])
  /\ Execute(x, <<Ensure(db.home[TaskIn[t]]), Put("task", t, to)>>)

Commands(x) ==
  \/ \E p \in Phases :
       \/ \E take \in BOOLEAN : PhaseStart(x, p, take)
       \/ EpochStart(x, p) \/ PhaseFocus(x, p) \/ PhaseRelease(x, p)
       \/ PhaseRemove(x, p) \/ Touch(x, p)
       \/ \E e \in Epochs : PhaseAdd(x, p, e) \/ PhaseMove(x, p, e)
       \/ \E s \in Arguments : PlanUpdatePhase(x, p, s)
  \/ PhaseFinish(x)
  \/ \E e \in Epochs : EpochRemove(x, e) \/ EpochBankrupt(x, e)
  \/ \E l \in Lanes :
       LaneCreate(x, l) \/ LaneFocus(x, l) \/ LaneStart(x, l) \/ LaneRemove(x, l)
  \/ \E g \in Goals :
       \/ \E p \in Phases : GoalAdd(x, g, p) \/ GoalMove(x, g, p)
       \/ \E s \in {"completed", "abandoned"} : StrikeEnd(x, g, s)
       \/ \E s \in Arguments : PlanUpdateGoal(x, g, s)
       \/ StrikeStart(x, g) \/ GoalRemove(x, g) \/ GoalComplete(x, g)
       \/ GoalTaskComplete(x, g) \/ GoalAbandon(x, g)
  \/ \E t \in Tasks :
       \/ \E named \in BOOLEAN : TaskAdd(x, t, named)
       \/ \E s \in {"logged", "in-progress", "completed", "absent"} : TaskCommand(x, t, s)

Calls(x) ==
  ReadOwner(x) \/ ClaimOwner(x) \/ ReleaseOwner(x) \/ WriterCall(x) \/ Dies(x)

\* A plan nobody has started; the branch that claimed a phase may be gone.
Init ==
  /\ \E owner \in [Phases -> {None} \union Stale], home \in [Goals \ Strikes -> Phases] :
       db = [phase  |-> [p \in Phases |-> "pending"],
             epoch  |-> EpochOf,
             owner  |-> owner,
             pin    |-> [w \in Workspaces |-> None],
             focus  |-> [w \in Workspaces |-> None],
             lane   |-> [l \in Lanes |-> "prepared"],
             goal   |-> [g \in Goals |-> IF g \in Strikes THEN "absent" ELSE "pending"],
             home   |-> [g \in Goals |-> IF g \in Strikes THEN None ELSE home[g]],
             logged |-> {},
             task   |-> [t \in Tasks |-> IF TaskIn[t] \in Strikes THEN "absent" ELSE "pending"]]
  /\ todo = [x \in Procs |-> <<>>]
  /\ moved = [x \in Procs |-> {}]
  /\ loaded = 0

Next == \E x \in Procs : Commands(x) \/ Calls(x)

Spec == Init /\ [][Next]_vars

(***************************************************************************)
(* Properties.                                                             *)
(***************************************************************************)
Tables == [
  phase  : [Phases -> Existing \union {"absent"}],
  epoch  : [Phases -> Epochs \union {None}],
  owner  : [Phases -> Owners \union {None}],
  pin    : [Workspaces -> Phases \union {None}],
  focus  : [Workspaces -> Lanes \union {None}],
  lane   : [Lanes -> {"absent", "prepared", "executing"}],
  goal   : [Goals -> Existing \union {"absent"}],
  home   : [Goals -> Phases \union {None}],
  logged : SUBSET Goals,
  task   : [Tasks -> {"absent", "pending", "logged", "in-progress", "completed"}]]

\* The shape of the tables; a goal, a claim and a pin name an existing phase,
\* and a lane's phase exists.
TypeOK ==
  /\ db \in Tables
  /\ moved \in [Procs -> SUBSET Phases]
  /\ loaded \in 0..MaxCommands
  /\ \A g \in Goals : IF db.goal[g] = "absent" THEN db.home[g] = None
                                               ELSE Exists(db, db.home[g])
  /\ \A p \in Phases : db.owner[p] # None => Exists(db, p)
  /\ \A w \in Workspaces : db.pin[w] # None => Exists(db, db.pin[w])
  /\ \A l \in Lanes : db.lane[l] # "absent" => Exists(db, LaneIn[l])

\* A workspace focuses a lane only while the lane exists, its phase is in
\* progress and the workspace is pinned to that phase - whatever another
\* process completes, shelves, removes or focuses in between.
LaneFocusAgrees ==
  \A w \in Workspaces :
    LET l == db.focus[w] IN
    l # None => /\ db.lane[l] # "absent"
                /\ Running(db, LaneIn[l])
                /\ db.pin[w] = LaneIn[l]

\* The phases a call changes, or whose lanes, goals or tasks it changes.
Subject(d, c) ==
  CASE c.op \in {"phase", "demote", "remove phase", "move phase"} -> {c.on}
    [] c.op \in {"start lane", "remove lane", "add lane"} -> {LaneIn[c.on]}
    [] c.op \in {"add goal", "add strike"} -> {c.to}
    [] c.op = "move goal" -> {c.to} \union ({d.home[c.on]} \ {None})
    [] c.op \in {"goal", "remove goal", "log goal"} -> {d.home[c.on]} \ {None}
    [] c.op \in {"task", "add task"} -> {d.home[TaskIn[c.on]]} \ {None}
    [] c.op \in {"bankrupt", "remove epoch"} -> PhasesOf(d, c.on)
    [] OTHER -> {}

\* A process about to change a phase, its lanes, goals or tasks owns the phase,
\* unless its owner, epoch or goals changed under the command.  One command
\* does not ask whose phases it removes: epoch remove.
WritersOwn ==
  \A x \in Procs : ~Idle(x) /\ Current(x).op # "remove epoch" =>
    \A p \in Subject(db, Current(x)) :
      Exists(db, p) /\ p \notin moved[x] => db.owner[p] = Me(x)

\* "Phase ownership determines whether that workspace or branch may mutate the
\* phase and its goals and tasks" (docs/vision.md): whatever the command.  (A
\* claim whose branch or worktree is gone may be taken for nobody's.)
OwnersDecide ==
  \A x \in Procs : ~Idle(x) /\ Allowed(x, Current(x), db) =>
    \A p \in Subject(db, Current(x)) :
      Exists(db, p) /\ p \notin moved[x] => db.owner[p] \in {None, Me(x)} \union Stale

\* A claim passes from one identity to another only through a claim that asked
\* for it and, outside a transaction, had read the identity it replaces.
TakeOverIsAsked ==
  [][\A p \in Phases :
       LET o == db.owner[p] IN
       o # None /\ db'.owner[p] \notin {None, o}
       => \/ todo' = todo
          \/ \E x \in Procs : ~Idle(x) /\ Current(x) = [Claim(p, TRUE) EXCEPT !.seen = o]]_vars

\* A phase whose goals or tasks have been worked on is not put back to
\* pending by the start of another one in the daemon's transaction, but only
\* by plan update-status, which asks for just that.
StartedWorkIsNotShelved ==
  [][\A p \in Phases :
       Running(db, p) /\ Started(db, p) /\ db'.phase[p] = "pending"
       => \/ todo' # todo
          \/ \E x \in Procs : PlanUpdatePhase(x, p, "pending")]_vars
=============================================================================
