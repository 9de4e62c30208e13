------------------------ MODULE PlanningStateProofs -------------------------
(***************************************************************************)
(* Proofs about module PlanningState, for all values of its constants.     *)
(*                                                                         *)
(* First what a call does to the tables: they stay Good.  Then what a      *)
(* command may call: every command makes a list that is WellMade, and so   *)
(* claims a phase before it changes it.  A transaction runs the list in    *)
(* one step, by induction over its length; a direct process carries the    *)
(* rest of it from step to step, which PlanInv describes.                  *)
(***************************************************************************)
EXTENDS PlanningState, FiniteSetTheorems, SequenceTheorems,
        WellFoundedInduction, TLAPS

\* Whatever holds of 0 and is handed on holds of every number up to n.
LEMMA Induction ==
  ASSUME NEW n \in Nat, NEW S, 0 \in S,
         \A i \in 0..(n-1) : i \in S => i + 1 \in S
  PROVE  0..n \subseteq S
<1> DEFINE T == {i \in 0..n : i \notin S}
<1> SUFFICES ASSUME T # {} PROVE FALSE
  OBVIOUS
<1>1. PICK m \in T : \A k \in T : <<k, m>> \notin OpToRel(<, Nat)
  <2>1. T \subseteq Nat
    OBVIOUS
  <2> HIDE DEF T
  <2> QED BY <2>1, WFMin, NatLessThanWellFounded
<1>2. m \in 1..n /\ m \notin S
  OBVIOUS
<1>3. m - 1 \in 0..(n-1) /\ m - 1 \notin S
  BY <1>2
<1>4. m - 1 \in T
  BY <1>3
<1>5. <<m - 1, m>> \in OpToRel(<, Nat)
  <2> DEFINE pair == <<m - 1, m>>
  <2>1. pair \in Nat \X Nat /\ pair[1] < pair[2]
    BY <1>2
  <2> HIDE DEF pair
  <2>2. pair \in OpToRel(<, Nat)
    BY <2>1, Zenon DEF OpToRel
  <2> QED BY <2>2, Zenon DEF pair
<1> QED BY <1>1, <1>4, <1>5, Zenon

\* run is what the calls make of tables d, one after the other.
Follows(x, d, calls, run) ==
  run = [n \in 0..Len(calls) |->
           IF n = 0 THEN [ok |-> TRUE, db |-> d] ELSE After(x, d, calls[n], run[n - 1])]

LEMMA RunsFollow ==
  ASSUME NEW x, NEW d, NEW calls, Len(calls) \in Nat
  PROVE  Follows(x, d, calls, Runs(x, d, calls))
<1> DEFINE N == Len(calls)
           start == [ok |-> TRUE, db |-> d]
           F(k, f) == f = [n \in 0..k |-> IF n = 0 THEN start ELSE After(x, d, calls[n], f[n - 1])]
           S == {k \in 0..N : \E f : F(k, f)}
<1>1. 0 \in S
  <2> DEFINE f == [n \in 0..0 |-> start]
  <2>1. F(0, f)
    OBVIOUS
  <2>2. \E h : F(0, h)
    BY <2>1, Zenon
  <2> HIDE DEF F
  <2> QED BY <2>2
<1>2. ASSUME NEW k \in 0..(N-1), k \in S PROVE k + 1 \in S
  <2>1. PICK f : F(k, f)
    BY <1>2
  <2> DEFINE g == [n \in 0..(k+1) |-> IF n = k + 1 THEN After(x, d, calls[n], f[k]) ELSE f[n]]
  <2>2. F(k + 1, g)
    <3> HIDE DEF start
    <3>1. \A n \in 0..k : g[n] = f[n]
      OBVIOUS
    <3>2. \A n \in 0..(k+1) : g[n] = IF n = 0 THEN start ELSE After(x, d, calls[n], g[n - 1])
      <4> TAKE n \in 0..(k+1)
      <4>1. CASE n = k + 1
        BY <3>1, <4>1
      <4>2. CASE n = 0
        BY <2>1, <3>1, <4>2
      <4>3. CASE n \in 1..k
        BY <2>1, <3>1, <4>3
      <4> QED BY <4>1, <4>2, <4>3
    <3>3. g = [n \in 0..(k+1) |-> IF n = 0 THEN start ELSE After(x, d, calls[n], g[n - 1])]
      <4> HIDE DEF F
      <4>1. g = [n \in 0..(k+1) |-> g[n]]
        OBVIOUS
      <4> HIDE DEF g
      <4> QED BY <3>2, <4>1
    <3> QED BY <3>3
  <2>3. k + 1 \in 0..N
    OBVIOUS
  <2> HIDE DEF g, F
  <2> QED BY <2>2, <2>3
<1>3. N \in S
  <2>1. N \in Nat /\ N \in 0..N
    OBVIOUS
  <2>2. \A k \in 0..(N-1) : k \in S => k + 1 \in S
    BY <1>2
  <2> HIDE DEF S, N
  <2>3. 0..N \subseteq S
    BY <1>1, <2>1, <2>2, Induction
  <2> QED BY <2>1, <2>3
<1>4. \E f : F(N, f)
  BY <1>3
<1>5. \E f : Follows(x, d, calls, f)
  BY <1>4, Zenon DEF Follows
<1>6. Runs(x, d, calls) = CHOOSE f : Follows(x, d, calls, f)
  BY DEF Runs, Follows
<1> QED BY <1>5, <1>6, Zenon

\* Tables whose references lead somewhere.
Linked(d) ==
  /\ \A g \in Goals : IF d.goal[g] = "absent" THEN d.home[g] = None
                      ELSE d.home[g] \in Phases /\ Exists(d, d.home[g])
  /\ \A p \in Phases : d.owner[p] # None => Exists(d, p)
  /\ \A w \in Workspaces : d.pin[w] # None => Exists(d, d.pin[w])
  /\ \A l \in Lanes : d.lane[l] # "absent" => Exists(d, LaneIn[l])
  /\ \A t \in Tasks : d.task[t] # "absent" => d.goal[TaskIn[t]] # "absent"

\* Lane focus agrees with lanes, phases and pins.
Agreeing(d) ==
  \A w \in Workspaces :
    d.focus[w] # None => /\ d.lane[d.focus[w]] # "absent"
                         /\ Running(d, LaneIn[d.focus[w]])
                         /\ d.pin[w] = LaneIn[d.focus[w]]

Good(d) == d \in Tables /\ Linked(d) /\ Agreeing(d)

(***************************************************************************)
(* The calls commands make.                                                *)
(***************************************************************************)
OwnerCalls ==
  [op : {"claim"}, on : Phases, take : BOOLEAN, seen : Owners \union {None, Unread}] \union
  [op : OnOwner, on : Phases, take : {FALSE}, seen : Owners \union {None, Unread}]
PhasePuts  == [op : {"phase", "demote"}, on : Phases, to : Existing]
PhaseHomes == [op : {"add phase", "move phase"}, on : Phases, to : Epochs]
PhaseCalls == [op : {"pin", "clear", "remove phase"}, on : Phases]
EpochCalls == [op : {"remove epoch", "bankrupt"}, on : Epochs]
LaneCalls  == [op : {"add lane", "focus lane", "start lane", "remove lane"}, on : Lanes]
GoalHomes  == [op : {"add goal", "add strike", "move goal"}, on : Goals, to : Phases]
GoalPuts   == [op : {"goal"}, on : Goals, to : Existing]
GoalCalls  == [op : {"log goal", "remove goal", "count"}, on : Goals]
TaskPuts   == [op : {"task"}, on : Tasks, to : {"absent", "logged", "in-progress", "completed"}]
TaskCalls  == [op : {"add task"}, on : Tasks]

AllCalls ==
  UNION {OwnerCalls, PhasePuts, PhaseHomes, PhaseCalls, EpochCalls, LaneCalls, GoalHomes, GoalPuts,
         GoalCalls, TaskPuts, TaskCalls}

\* The calls that are the last of their command.
Enders == {"release", "clear", "add phase", "move phase", "remove phase", "remove epoch", "bankrupt",
           "add goal", "add strike", "move goal", "remove goal"}

Fresh(c) == c.op \in OnOwner => c.seen = Unread

\* The phases a call changes and its command has asked about.
Asked(d, c) == IF c.op = "remove epoch" THEN {} ELSE Subject(d, c)

\* A call before the i-th one claims phase p.
Covered(calls, i, p) ==
  \E j \in 1..(i - 1) : calls[j].op \in {"claim", "ensure"} /\ calls[j].on = p

\* What holds of call c, as the i-th one of a command that has read tables d
\* and puts phases back to pending, if at all, because that is asked for.
Sound(d, back, calls, i, c) ==
  /\ Fresh(c)
  /\ \A p \in Asked(d, c) : Covered(calls, i, p)
  /\ c.op = "shelve" => ~Started(d, c.on)
  /\ c.op = "add phase" => d.phase[c.on] = "absent"
  /\ c.op = "phase" /\ c.to = "pending" => c.on \in back
  /\ c.op # "demote"

WellMade(d, back, calls) ==
  /\ calls \in Seq(AllCalls)
  /\ \A i \in 1..Len(calls) : Sound(d, back, calls, i, calls[i])
  /\ \A i \in 1..(Len(calls) - 1) : calls[i].op \notin Enders

\* Other calls may follow.
Goes(d, back, calls) ==
  WellMade(d, back, calls) /\ \A i \in 1..Len(calls) : calls[i].op \notin Enders

(***************************************************************************)
(* What each call writes keeps the tables good.                            *)
(***************************************************************************)
LEMMA Assembled ==
  ASSUME NEW e, e \in Tables, Linked(e), Agreeing(e)
  PROVE  Good(e)
BY DEF Good

LEMMA OwnerWrites ==
  ASSUME NEW d, Good(d), NEW p \in Phases, NEW o \in Owners \union {None},
         o # None => Exists(d, p)
  PROVE  Good([d EXCEPT !.owner[p] = o])
<1> DEFINE e == [d EXCEPT !.owner[p] = o]
<1>1. d \in Tables /\ Linked(d) /\ Agreeing(d)
  BY DEF Good
<1>2. /\ e.owner = [d.owner EXCEPT ![p] = o]
      /\ e.phase = d.phase /\ e.focus = d.focus /\ e.pin = d.pin /\ e.lane = d.lane
      /\ e.goal = d.goal /\ e.home = d.home /\ e.task = d.task
  BY <1>1 DEF Tables
<1>3. e \in Tables
  BY <1>1 DEF Tables
<1> HIDE DEF e
<1>4. Linked(e)
  BY <1>1, <1>2 DEF Linked, Tables, Exists
<1>5. Agreeing(e)
  BY <1>1, <1>2 DEF Agreeing, Running
<1> QED BY <1>3, <1>4, <1>5, Assembled DEF e

LEMMA PhaseWrites ==
  ASSUME NEW d, Good(d), NEW p \in Phases, NEW s \in Existing, Exists(d, p)
  PROVE  Good(SetPhase(d, p, s))
<1> DEFINE e == SetPhase(d, p, s)
<1>1. d \in Tables /\ Linked(d) /\ Agreeing(d)
  BY DEF Good
<1>2. /\ e.phase = [d.phase EXCEPT ![p] = s]
      /\ e.focus = IF s = "in-progress" THEN d.focus ELSE Unfocused(d, LanesOf(d, p))
      /\ e.owner = d.owner /\ e.pin = d.pin /\ e.lane = d.lane /\ e.goal = d.goal
      /\ e.home = d.home /\ e.task = d.task
  BY <1>1 DEF SetPhase, Tables
<1>3. e \in Tables
  <2>1. Unfocused(d, LanesOf(d, p)) \in [Workspaces -> Lanes \union {None}]
    BY <1>1 DEF Unfocused, Tables
  <2>2. s \in Existing \union {"absent"}
    OBVIOUS
  <2> HIDE DEF e
  <2> QED BY <1>1, <2>1, <2>2 DEF Tables, e, SetPhase
<1> HIDE DEF e
<1>4. \A q \in Phases : e.phase[q] = IF q = p THEN s ELSE d.phase[q]
  BY <1>1, <1>2 DEF Tables
<1>5. \A q \in Phases : Exists(e, q) <=> Exists(d, q)
  BY <1>4 DEF Exists
<1>6. Linked(e)
  BY <1>1, <1>2, <1>5, PlanningConstants DEF Linked, Tables
<1>7. Agreeing(e)
  <2> SUFFICES ASSUME NEW w \in Workspaces, e.focus[w] # None
               PROVE  /\ e.lane[e.focus[w]] # "absent"
                      /\ Running(e, LaneIn[e.focus[w]])
                      /\ e.pin[w] = LaneIn[e.focus[w]]
    BY DEF Agreeing
  <2>1. e.focus[w] = d.focus[w]
    BY <1>2 DEF Unfocused
  <2>2. /\ d.lane[d.focus[w]] # "absent"
        /\ Running(d, LaneIn[d.focus[w]])
        /\ d.pin[w] = LaneIn[d.focus[w]]
    BY <1>1, <2>1 DEF Agreeing
  <2>3. d.focus[w] \in Lanes
    BY <1>1, <2>1 DEF Tables
  <2>4. LaneIn[d.focus[w]] = p => s = "in-progress"
    BY <1>2, <2>1, <2>2, <2>3 DEF Unfocused, LanesOf
  <2> QED BY <1>2, <1>4, <2>1, <2>2, <2>3, <2>4, PlanningConstants DEF Running
<1> QED BY <1>3, <1>6, <1>7, Assembled DEF e

LEMMA PinWrites ==
  ASSUME NEW d, Good(d), NEW p \in Phases, NEW w \in Workspaces, Exists(d, p)
  PROVE  Good(FocusPhase(d, w, p))
<1> DEFINE e == FocusPhase(d, w, p)
           f == IF Running(d, p) /\ d.focus[w] \in LanesOf(d, p) THEN d.focus[w] ELSE None
<1>1. d \in Tables /\ Linked(d) /\ Agreeing(d)
  BY DEF Good
<1>2. f \in Lanes \union {None}
  BY <1>1 DEF LanesOf
<1> HIDE DEF f
<1>3. /\ e.pin = [d.pin EXCEPT ![w] = p] /\ e.focus = [d.focus EXCEPT ![w] = f]
      /\ e.phase = d.phase /\ e.owner = d.owner /\ e.lane = d.lane /\ e.goal = d.goal
      /\ e.home = d.home /\ e.task = d.task
  BY <1>1 DEF FocusPhase, Tables, f
<1>4. e \in Tables
  <2>1. e = [d EXCEPT !.pin = [d.pin EXCEPT ![w] = p], !.focus = [d.focus EXCEPT ![w] = f]]
    BY <1>1 DEF FocusPhase, Tables, f
  <2> HIDE DEF e
  <2> QED BY <1>1, <1>2, <2>1 DEF Tables
<1> HIDE DEF e
<1>5. Linked(e)
  BY <1>1, <1>3, PlanningConstants DEF Linked, Tables, Exists
<1>6. Agreeing(e)
  BY <1>1, <1>3, PlanningConstants DEF Agreeing, Tables, Running, f, LanesOf
<1> QED BY <1>4, <1>5, <1>6, Assembled DEF e

\* The tables e differ from d in one phase's epoch.
LEMMA EpochWrites ==
  ASSUME NEW d, Good(d), NEW p \in Phases, NEW e \in Epochs
  PROVE  Good([d EXCEPT !.epoch[p] = e])
<1> DEFINE b == [d EXCEPT !.epoch[p] = e]
<1>1. d \in Tables /\ Linked(d) /\ Agreeing(d)
  BY DEF Good
<1>2. /\ b.owner = d.owner /\ b.phase = d.phase /\ b.focus = d.focus /\ b.pin = d.pin
      /\ b.lane = d.lane /\ b.goal = d.goal /\ b.home = d.home /\ b.task = d.task
  BY <1>1 DEF Tables
<1>3. b \in Tables
  BY <1>1 DEF Tables
<1> HIDE DEF b
<1>4. Linked(b)
  BY <1>1, <1>2 DEF Linked, Exists
<1>5. Agreeing(b)
  BY <1>1, <1>2 DEF Agreeing, Running
<1> QED BY <1>3, <1>4, <1>5, Assembled DEF b

LEMMA PhaseAdds ==
  ASSUME NEW d, Good(d), NEW p \in Phases, NEW e \in Epochs, d.phase[p] = "absent"
  PROVE  Good([d EXCEPT !.phase[p] = "pending", !.epoch[p] = e])
<1> DEFINE b == [d EXCEPT !.phase[p] = "pending"]
<1>1. d \in Tables /\ Linked(d) /\ Agreeing(d)
  BY DEF Good
<1>2. /\ b.phase = [d.phase EXCEPT ![p] = "pending"]
      /\ b.focus = d.focus /\ b.owner = d.owner /\ b.pin = d.pin /\ b.lane = d.lane
      /\ b.goal = d.goal /\ b.home = d.home /\ b.task = d.task
  BY <1>1 DEF Tables
<1>3. b \in Tables
  <2>1. "pending" \in Existing
    BY DEF Existing, Open
  <2> QED BY <1>1, <2>1 DEF Tables
<1>4. [d EXCEPT !.phase[p] = "pending", !.epoch[p] = e] = [b EXCEPT !.epoch[p] = e]
  BY <1>1 DEF Tables
<1> HIDE DEF b
<1>5. \A q \in Phases : Exists(d, q) => Exists(b, q)
  BY <1>1, <1>2 DEF Tables, Exists, Existing, Open, Closed
<1>6. Linked(b)
  BY <1>1, <1>2, <1>5, PlanningConstants DEF Linked, Tables
<1>7. \A q \in Phases : Running(d, q) => Running(b, q)
  BY <1>1, <1>2 DEF Tables, Running
<1>8. Agreeing(b)
  BY <1>1, <1>2, <1>7, PlanningConstants DEF Agreeing, Tables
<1>9. Good(b)
  BY <1>3, <1>6, <1>8, Assembled
<1> QED BY <1>4, <1>9, EpochWrites

LEMMA PhasesGo ==
  ASSUME NEW d, Good(d), NEW ps \in SUBSET Phases, \A p \in ps : LanesOf(d, p) = {}
  PROVE  Good(Without(d, ps))
<1> DEFINE e == Without(d, ps)
           gs == {g \in Goals : d.home[g] \in ps}
           ts == {t \in Tasks : TaskIn[t] \in gs}
<1>1. d \in Tables /\ Linked(d) /\ Agreeing(d)
  BY DEF Good
<1> DEFINE phase == [p \in Phases |-> IF p \in ps THEN "absent" ELSE d.phase[p]]
           epoch == [p \in Phases |-> IF p \in ps THEN None ELSE d.epoch[p]]
           owner == [p \in Phases |-> IF p \in ps THEN None ELSE d.owner[p]]
           pin   == [w \in Workspaces |-> IF d.pin[w] \in ps THEN None ELSE d.pin[w]]
           goal  == [g \in Goals |-> IF g \in gs THEN "absent" ELSE d.goal[g]]
           home  == [g \in Goals |-> IF g \in gs THEN None ELSE d.home[g]]
           task  == [t \in Tasks |-> IF t \in ts THEN "absent" ELSE d.task[t]]
<1>2. /\ phase \in [Phases -> Existing \union {"absent"}]
      /\ epoch \in [Phases -> Epochs \union {None}]
      /\ owner \in [Phases -> Owners \union {None}]
      /\ pin \in [Workspaces -> Phases \union {None}]
      /\ goal \in [Goals -> Existing \union {"absent"}]
      /\ home \in [Goals -> Phases \union {None}]
      /\ task \in [Tasks -> {"absent", "pending", "logged", "in-progress", "completed"}]
      /\ d.logged \ gs \in SUBSET Goals
  BY <1>1 DEF Tables
<1>3. e = [d EXCEPT !.phase = phase, !.epoch = epoch, !.owner = owner, !.pin = pin,
                    !.goal = goal, !.home = home, !.logged = d.logged \ gs, !.task = task]
  BY <1>1 DEF Without, Tables
<1> HIDE DEF phase, epoch, owner, pin, goal, home, task, e
<1>4. /\ e.phase = phase /\ e.owner = owner /\ e.pin = pin /\ e.goal = goal
      /\ e.home = home /\ e.task = task /\ e.focus = d.focus /\ e.lane = d.lane
  BY <1>1, <1>3 DEF Tables
<1>5. e \in Tables
  <2> HIDE DEF gs
  <2> QED BY <1>1, <1>2, <1>3 DEF Tables
<1>6. \A q \in Phases : q \notin ps => (Exists(e, q) <=> Exists(d, q)) /\ (Running(e, q) <=> Running(d, q))
  BY <1>4 DEF phase, Exists, Running
<1>7. \A l \in Lanes : d.lane[l] # "absent" => LaneIn[l] \in Phases \ ps
  BY PlanningConstants DEF LanesOf
<1>8. Linked(e)
  <2>1. \A g \in Goals : IF e.goal[g] = "absent" THEN e.home[g] = None
                         ELSE e.home[g] \in Phases /\ Exists(e, e.home[g])
    BY <1>1, <1>4, <1>6 DEF Linked, goal, home
  <2>2. \A p \in Phases : e.owner[p] # None => Exists(e, p)
    BY <1>1, <1>4, <1>6 DEF Linked, owner
  <2>3. \A w \in Workspaces : e.pin[w] # None => Exists(e, e.pin[w])
    BY <1>1, <1>4, <1>6 DEF Linked, pin, Tables
  <2>4. \A l \in Lanes : e.lane[l] # "absent" => Exists(e, LaneIn[l])
    BY <1>1, <1>4, <1>6, <1>7 DEF Linked
  <2>5. \A t \in Tasks : e.task[t] # "absent" => e.goal[TaskIn[t]] # "absent"
    BY <1>1, <1>4, PlanningConstants DEF Linked, task, goal
  <2> QED BY <2>1, <2>2, <2>3, <2>4, <2>5 DEF Linked
<1>9. Agreeing(e)
  <2> SUFFICES ASSUME NEW w \in Workspaces, d.focus[w] # None
               PROVE  /\ d.lane[d.focus[w]] # "absent"
                      /\ Running(e, LaneIn[d.focus[w]])
                      /\ e.pin[w] = LaneIn[d.focus[w]]
    BY <1>4 DEF Agreeing
  <2>1. d.focus[w] \in Lanes /\ d.lane[d.focus[w]] # "absent"
    BY <1>1 DEF Tables, Agreeing
  <2>2. LaneIn[d.focus[w]] \in Phases \ ps
    BY <1>7, <2>1
  <2> QED BY <1>1, <1>4, <1>6, <2>1, <2>2 DEF Agreeing, pin
<1> QED BY <1>5, <1>8, <1>9, Assembled DEF e

LEMMA EpochGoesBankrupt ==
  ASSUME NEW d, Good(d), NEW e \in Epochs
  PROVE  Good(Bankrupt(d, e))
<1> DEFINE open == {p \in PhasesOf(d, e) : d.phase[p] \in Open}
           gs   == {g \in Goals : d.goal[g] \in Open /\ d.home[g] \in PhasesOf(d, e)}
           dead == open \union {p \in PhasesOf(d, e) : d.phase[p] = "abandoned"}
           ls   == UNION {LanesOf(d, p) : p \in dead}
           b    == Bankrupt(d, e)
           phase == [p \in Phases |-> IF p \in open THEN "abandoned" ELSE d.phase[p]]
           goal  == [g \in Goals |-> IF g \in gs THEN "abandoned" ELSE d.goal[g]]
           focus == Unfocused(d, ls)
<1>1. d \in Tables /\ Linked(d) /\ Agreeing(d)
  BY DEF Good
<1>2. /\ phase \in [Phases -> Existing \union {"absent"}]
      /\ goal \in [Goals -> Existing \union {"absent"}]
      /\ focus \in [Workspaces -> Lanes \union {None}]
  <2>1. phase \in [Phases -> Existing \union {"absent"}]
    BY <1>1 DEF Tables, Existing, Closed
  <2>2. goal \in [Goals -> Existing \union {"absent"}]
    <3> HIDE DEF gs
    <3> QED BY <1>1 DEF Tables, Existing, Closed
  <2>3. focus \in [Workspaces -> Lanes \union {None}]
    <3> HIDE DEF ls
    <3> QED BY <1>1 DEF Tables, Unfocused
  <2> QED BY <2>1, <2>2, <2>3
<1>3. b = [d EXCEPT !.phase = phase, !.goal = goal, !.focus = focus]
  BY <1>1 DEF Bankrupt, Tables
<1>4. \A p \in Phases : phase[p] = IF p \in open THEN "abandoned" ELSE d.phase[p]
  OBVIOUS
<1>5. \A g \in Goals : goal[g] = "absent" <=> d.goal[g] = "absent"
  BY DEF Open
<1>6. \A w \in Workspaces : focus[w] # None => focus[w] = d.focus[w] /\ d.focus[w] \notin ls
  <2> HIDE DEF ls
  <2> QED BY DEF Unfocused
<1> HIDE DEF phase, goal, focus, b
<1>7. /\ b.phase = phase /\ b.goal = goal /\ b.focus = focus /\ b.owner = d.owner
      /\ b.pin = d.pin /\ b.lane = d.lane /\ b.home = d.home /\ b.task = d.task
  BY <1>1, <1>3 DEF Tables
<1>8. b \in Tables
  BY <1>1, <1>2, <1>3 DEF Tables
<1>9. \A q \in Phases : Exists(d, q) => Exists(b, q)
  BY <1>4, <1>7 DEF Exists, Existing, Closed
<1>10. Linked(b)
  <2> HIDE DEF open, gs, dead, ls
  <2>1. \A g \in Goals : IF b.goal[g] = "absent" THEN b.home[g] = None
                         ELSE b.home[g] \in Phases /\ Exists(b, b.home[g])
    BY <1>1, <1>5, <1>7, <1>9 DEF Linked
  <2>2. \A p \in Phases : b.owner[p] # None => Exists(b, p)
    BY <1>1, <1>7, <1>9 DEF Linked
  <2>3. \A w \in Workspaces : b.pin[w] # None => Exists(b, b.pin[w])
    BY <1>1, <1>7, <1>9 DEF Linked, Tables
  <2>4. \A l \in Lanes : b.lane[l] # "absent" => Exists(b, LaneIn[l])
    BY <1>1, <1>7, <1>9, PlanningConstants DEF Linked
  <2>5. \A t \in Tasks : b.task[t] # "absent" => b.goal[TaskIn[t]] # "absent"
    BY <1>1, <1>5, <1>7, PlanningConstants DEF Linked
  <2> QED BY <2>1, <2>2, <2>3, <2>4, <2>5 DEF Linked
<1>11. Agreeing(b)
  <2> SUFFICES ASSUME NEW w \in Workspaces, focus[w] # None
               PROVE  /\ d.lane[focus[w]] # "absent"
                      /\ Running(b, LaneIn[focus[w]])
                      /\ d.pin[w] = LaneIn[focus[w]]
    BY <1>7 DEF Agreeing
  <2> DEFINE l == d.focus[w]
  <2>1. focus[w] = l /\ l \notin ls
    BY <1>6
  <2>2. l \in Lanes /\ d.lane[l] # "absent" /\ Running(d, LaneIn[l]) /\ d.pin[w] = LaneIn[l]
    BY <1>1, <2>1 DEF Tables, Agreeing
  <2>3. LaneIn[l] \in Phases /\ l \in LanesOf(d, LaneIn[l])
    BY <2>2, PlanningConstants DEF LanesOf
  <2>4. LaneIn[l] \notin open
    BY <2>1, <2>3
  <2> QED BY <1>4, <1>7, <2>1, <2>2, <2>3, <2>4 DEF Running
<1> QED BY <1>8, <1>10, <1>11, Assembled DEF b

\* The tables e differ from d in the lanes, the pins and the focus only.
LEMMA LanesAssembled ==
  ASSUME NEW d, Good(d), NEW lane \in [Lanes -> {"absent", "prepared", "executing"}],
         NEW pin \in [Workspaces -> Phases \union {None}],
         NEW focus \in [Workspaces -> Lanes \union {None}],
         \A l \in Lanes : lane[l] # "absent" => Exists(d, LaneIn[l]),
         \A w \in Workspaces : pin[w] # None => Exists(d, pin[w]),
         \A w \in Workspaces :
           focus[w] # None => /\ lane[focus[w]] # "absent"
                              /\ Running(d, LaneIn[focus[w]])
                              /\ pin[w] = LaneIn[focus[w]]
  PROVE  Good([d EXCEPT !.lane = lane, !.pin = pin, !.focus = focus])
<1> DEFINE e == [d EXCEPT !.lane = lane, !.pin = pin, !.focus = focus]
<1>1. d \in Tables /\ Linked(d) /\ Agreeing(d)
  BY DEF Good
<1>2. /\ e.lane = lane /\ e.pin = pin /\ e.focus = focus /\ e.phase = d.phase
      /\ e.owner = d.owner /\ e.goal = d.goal /\ e.home = d.home /\ e.task = d.task
  BY <1>1 DEF Tables
<1>3. e \in Tables
  BY <1>1 DEF Tables
<1> HIDE DEF e
<1>4. Linked(e)
  BY <1>1, <1>2 DEF Linked, Exists
<1>5. Agreeing(e)
  BY <1>2 DEF Agreeing, Running
<1> QED BY <1>3, <1>4, <1>5, Assembled DEF e

LEMMA LaneAdds ==
  ASSUME NEW d, Good(d), NEW l \in Lanes, Exists(d, LaneIn[l])
  PROVE  Good([d EXCEPT !.lane[l] = "prepared"])
<1> DEFINE lane == [d.lane EXCEPT ![l] = "prepared"]
<1>1. d \in Tables /\ Linked(d) /\ Agreeing(d)
  BY DEF Good
<1>2. [d EXCEPT !.lane[l] = "prepared"] = [d EXCEPT !.lane = lane, !.pin = d.pin, !.focus = d.focus]
  BY <1>1 DEF Tables
<1>3. /\ lane \in [Lanes -> {"absent", "prepared", "executing"}]
      /\ d.pin \in [Workspaces -> Phases \union {None}]
      /\ d.focus \in [Workspaces -> Lanes \union {None}]
  BY <1>1 DEF Tables
<1>4. \A k \in Lanes : lane[k] = IF k = l THEN "prepared" ELSE d.lane[k]
  BY <1>1 DEF Tables
<1> HIDE DEF lane
<1>5. \A k \in Lanes : lane[k] # "absent" => Exists(d, LaneIn[k])
  BY <1>1, <1>4 DEF Linked
<1>6. \A w \in Workspaces :
        d.focus[w] # None => /\ lane[d.focus[w]] # "absent"
                             /\ Running(d, LaneIn[d.focus[w]])
                             /\ d.pin[w] = LaneIn[d.focus[w]]
  BY <1>1, <1>3, <1>4 DEF Agreeing
<1>7. \A w \in Workspaces : d.pin[w] # None => Exists(d, d.pin[w])
  BY <1>1 DEF Linked
<1>8. Good([d EXCEPT !.lane = lane, !.pin = d.pin, !.focus = d.focus])
  BY <1>3, <1>5, <1>6, <1>7, LanesAssembled
<1> QED BY <1>2, <1>8

LEMMA LaneFocuses ==
  ASSUME NEW d, Good(d), NEW l \in Lanes, NEW w \in Workspaces,
         Running(d, LaneIn[l]), d.lane[l] # "absent"
  PROVE  /\ Good(FocusLane(d, w, l))
         /\ Good(StartLane(d, w, l))
<1> DEFINE pin == [d.pin EXCEPT ![w] = LaneIn[l]]
           focus == [d.focus EXCEPT ![w] = l]
           lane == [d.lane EXCEPT ![l] = "executing"]
<1>1. d \in Tables /\ Linked(d) /\ Agreeing(d)
  BY DEF Good
<1>2. /\ FocusLane(d, w, l) = [d EXCEPT !.lane = d.lane, !.pin = pin, !.focus = focus]
      /\ StartLane(d, w, l) = [d EXCEPT !.lane = lane, !.pin = pin, !.focus = focus]
  BY <1>1 DEF Tables, FocusLane, StartLane
<1>3. /\ lane \in [Lanes -> {"absent", "prepared", "executing"}]
      /\ d.lane \in [Lanes -> {"absent", "prepared", "executing"}]
      /\ pin \in [Workspaces -> Phases \union {None}]
      /\ focus \in [Workspaces -> Lanes \union {None}]
  BY <1>1, PlanningConstants DEF Tables
<1>4. /\ \A k \in Lanes : lane[k] = IF k = l THEN "executing" ELSE d.lane[k]
      /\ \A v \in Workspaces : pin[v] = IF v = w THEN LaneIn[l] ELSE d.pin[v]
      /\ \A v \in Workspaces : focus[v] = IF v = w THEN l ELSE d.focus[v]
  BY <1>1 DEF Tables
<1> HIDE DEF pin, focus, lane
<1>5. Exists(d, LaneIn[l])
  BY DEF Running, Exists, Existing, Open
<1>6. /\ \A k \in Lanes : lane[k] # "absent" => Exists(d, LaneIn[k])
      /\ \A k \in Lanes : d.lane[k] # "absent" => Exists(d, LaneIn[k])
      /\ \A v \in Workspaces : pin[v] # None => Exists(d, pin[v])
  BY <1>1, <1>4, <1>5 DEF Linked
<1>7. \A v \in Workspaces :
        focus[v] # None => /\ d.lane[focus[v]] # "absent"
                           /\ Running(d, LaneIn[focus[v]])
                           /\ pin[v] = LaneIn[focus[v]]
  BY <1>1, <1>4 DEF Agreeing
<1>8. \A v \in Workspaces : focus[v] # None => lane[focus[v]] # "absent"
  BY <1>3, <1>4, <1>7
<1>9. Good([d EXCEPT !.lane = d.lane, !.pin = pin, !.focus = focus])
  BY <1>3, <1>6, <1>7, LanesAssembled
<1>10. Good([d EXCEPT !.lane = lane, !.pin = pin, !.focus = focus])
  BY <1>3, <1>6, <1>7, <1>8, LanesAssembled
<1> QED BY <1>2, <1>9, <1>10

LEMMA LaneGoes ==
  ASSUME NEW d, Good(d), NEW l \in Lanes
  PROVE  Good(RemoveLane(d, l))
<1> DEFINE focus == Unfocused(d, {l})
           lane == [d.lane EXCEPT ![l] = "absent"]
<1>1. d \in Tables /\ Linked(d) /\ Agreeing(d)
  BY DEF Good
<1>2. RemoveLane(d, l) = [d EXCEPT !.lane = lane, !.pin = d.pin, !.focus = focus]
  <2>1. RemoveLane(d, l) = [d EXCEPT !.lane = lane, !.focus = focus]
    BY <1>1 DEF RemoveLane, Tables
  <2> HIDE DEF lane, focus
  <2> QED BY <1>1, <2>1 DEF Tables
<1>3. /\ lane \in [Lanes -> {"absent", "prepared", "executing"}]
      /\ d.pin \in [Workspaces -> Phases \union {None}]
      /\ focus \in [Workspaces -> Lanes \union {None}]
  BY <1>1 DEF Tables, Unfocused
<1>4. /\ \A k \in Lanes : lane[k] = IF k = l THEN "absent" ELSE d.lane[k]
      /\ \A v \in Workspaces : focus[v] # None => focus[v] = d.focus[v] /\ focus[v] # l
  BY <1>1 DEF Tables, Unfocused
<1> HIDE DEF focus, lane
<1>5. /\ \A k \in Lanes : lane[k] # "absent" => Exists(d, LaneIn[k])
      /\ \A v \in Workspaces : d.pin[v] # None => Exists(d, d.pin[v])
  BY <1>1, <1>4 DEF Linked
<1>6. \A v \in Workspaces :
        focus[v] # None => /\ lane[focus[v]] # "absent"
                           /\ Running(d, LaneIn[focus[v]])
                           /\ d.pin[v] = LaneIn[focus[v]]
  BY <1>1, <1>3, <1>4 DEF Agreeing
<1>7. Good([d EXCEPT !.lane = lane, !.pin = d.pin, !.focus = focus])
  BY <1>3, <1>5, <1>6, LanesAssembled
<1> QED BY <1>2, <1>7

\* The tables e differ from d in the goals and tasks only.
LEMMA GoalsAssembled ==
  ASSUME NEW d, Good(d), NEW goal \in [Goals -> Existing \union {"absent"}],
         NEW home \in [Goals -> Phases \union {None}], NEW logged \in SUBSET Goals,
         NEW task \in [Tasks -> {"absent", "pending", "logged", "in-progress", "completed"}],
         \A g \in Goals : IF goal[g] = "absent" THEN home[g] = None
                          ELSE home[g] \in Phases /\ Exists(d, home[g]),
         \A t \in Tasks : task[t] # "absent" => goal[TaskIn[t]] # "absent"
  PROVE  Good([d EXCEPT !.goal = goal, !.home = home, !.logged = logged, !.task = task])
<1> DEFINE e == [d EXCEPT !.goal = goal, !.home = home, !.logged = logged, !.task = task]
<1>1. d \in Tables /\ Linked(d) /\ Agreeing(d)
  BY DEF Good
<1>2. /\ e.lane = d.lane /\ e.pin = d.pin /\ e.focus = d.focus /\ e.phase = d.phase
      /\ e.owner = d.owner /\ e.goal = goal /\ e.home = home /\ e.task = task
  BY <1>1 DEF Tables
<1>3. e \in Tables
  BY <1>1 DEF Tables
<1> HIDE DEF e
<1>4. Linked(e)
  BY <1>1, <1>2 DEF Linked, Exists
<1>5. Agreeing(e)
  BY <1>1, <1>2 DEF Agreeing, Running
<1> QED BY <1>3, <1>4, <1>5, Assembled DEF e

LEMMA GoalWrites ==
  ASSUME NEW d, Good(d), NEW g \in Goals, NEW p \in Phases, NEW s \in Existing, Exists(d, p)
  PROVE  /\ Good([d EXCEPT !.home[g] = p, !.goal[g] = s])
         /\ d.goal[g] # "absent" => Good([d EXCEPT !.home[g] = p])
<1> DEFINE goal == [d.goal EXCEPT ![g] = s]
           home == [d.home EXCEPT ![g] = p]
<1>1. d \in Tables /\ Linked(d)
  BY DEF Good
<1>2. /\ [d EXCEPT !.home[g] = p, !.goal[g] = s]
           = [d EXCEPT !.goal = goal, !.home = home, !.logged = d.logged, !.task = d.task]
      /\ [d EXCEPT !.home[g] = p]
           = [d EXCEPT !.goal = d.goal, !.home = home, !.logged = d.logged, !.task = d.task]
  BY <1>1 DEF Tables
<1>3. /\ goal \in [Goals -> Existing \union {"absent"}]
      /\ d.goal \in [Goals -> Existing \union {"absent"}]
      /\ home \in [Goals -> Phases \union {None}]
      /\ d.logged \in SUBSET Goals
      /\ d.task \in [Tasks -> {"absent", "pending", "logged", "in-progress", "completed"}]
  BY <1>1 DEF Tables
<1>4. /\ \A h \in Goals : goal[h] = IF h = g THEN s ELSE d.goal[h]
      /\ \A h \in Goals : home[h] = IF h = g THEN p ELSE d.home[h]
      /\ s # "absent"
  BY <1>1 DEF Tables, Existing, Open, Closed
<1> HIDE DEF goal, home
<1>5. \A h \in Goals : IF goal[h] = "absent" THEN home[h] = None
                       ELSE home[h] \in Phases /\ Exists(d, home[h])
  BY <1>1, <1>4 DEF Linked
<1>6. \A t \in Tasks : d.task[t] # "absent" => goal[TaskIn[t]] # "absent"
  BY <1>1, <1>4, PlanningConstants DEF Linked
<1>7. Good([d EXCEPT !.goal = goal, !.home = home, !.logged = d.logged, !.task = d.task])
  BY <1>3, <1>5, <1>6, GoalsAssembled
<1>8. ASSUME d.goal[g] # "absent"
      PROVE  Good([d EXCEPT !.goal = d.goal, !.home = home, !.logged = d.logged, !.task = d.task])
  <2>1. \A h \in Goals : IF d.goal[h] = "absent" THEN home[h] = None
                         ELSE home[h] \in Phases /\ Exists(d, home[h])
    BY <1>1, <1>4, <1>8 DEF Linked
  <2>2. \A t \in Tasks : d.task[t] # "absent" => d.goal[TaskIn[t]] # "absent"
    BY <1>1 DEF Linked
  <2> QED BY <1>3, <2>1, <2>2, GoalsAssembled
<1> QED BY <1>2, <1>7, <1>8

LEMMA GoalChanges ==
  ASSUME NEW d, Good(d), NEW g \in Goals, NEW s \in Existing, d.goal[g] # "absent"
  PROVE  /\ Good([d EXCEPT !.goal[g] = s])
         /\ Good([d EXCEPT !.logged = @ \union {g}])
<1> DEFINE goal == [d.goal EXCEPT ![g] = s]
           logged == d.logged \union {g}
<1>1. d \in Tables /\ Linked(d)
  BY DEF Good
<1>2. /\ [d EXCEPT !.goal[g] = s]
           = [d EXCEPT !.goal = goal, !.home = d.home, !.logged = d.logged, !.task = d.task]
      /\ [d EXCEPT !.logged = @ \union {g}]
           = [d EXCEPT !.goal = d.goal, !.home = d.home, !.logged = logged, !.task = d.task]
  BY <1>1 DEF Tables
<1>3. /\ goal \in [Goals -> Existing \union {"absent"}]
      /\ d.goal \in [Goals -> Existing \union {"absent"}]
      /\ d.home \in [Goals -> Phases \union {None}]
      /\ d.logged \in SUBSET Goals /\ logged \in SUBSET Goals
      /\ d.task \in [Tasks -> {"absent", "pending", "logged", "in-progress", "completed"}]
  BY <1>1 DEF Tables
<1>4. \A h \in Goals : goal[h] = "absent" <=> d.goal[h] = "absent"
  BY <1>1 DEF Tables, Existing, Open, Closed
<1> HIDE DEF goal, logged
<1>5. /\ \A h \in Goals : IF goal[h] = "absent" THEN d.home[h] = None
                          ELSE d.home[h] \in Phases /\ Exists(d, d.home[h])
      /\ \A h \in Goals : IF d.goal[h] = "absent" THEN d.home[h] = None
                          ELSE d.home[h] \in Phases /\ Exists(d, d.home[h])
  BY <1>1, <1>4 DEF Linked
<1>6. /\ \A t \in Tasks : d.task[t] # "absent" => goal[TaskIn[t]] # "absent"
      /\ \A t \in Tasks : d.task[t] # "absent" => d.goal[TaskIn[t]] # "absent"
  BY <1>1, <1>4, PlanningConstants DEF Linked
<1>7. Good([d EXCEPT !.goal = goal, !.home = d.home, !.logged = d.logged, !.task = d.task])
  BY <1>3, <1>5, <1>6, GoalsAssembled
<1>8. Good([d EXCEPT !.goal = d.goal, !.home = d.home, !.logged = logged, !.task = d.task])
  BY <1>3, <1>5, <1>6, GoalsAssembled
<1> QED BY <1>2, <1>7, <1>8

LEMMA GoalGoes ==
  ASSUME NEW d, Good(d), NEW g \in Goals
  PROVE  Good(RemoveGoal(d, g))
<1> DEFINE goal == [d.goal EXCEPT ![g] = "absent"]
           home == [d.home EXCEPT ![g] = None]
           logged == d.logged \ {g}
           task == [t \in Tasks |-> IF TaskIn[t] = g THEN "absent" ELSE d.task[t]]
<1>1. d \in Tables /\ Linked(d)
  BY DEF Good
<1>2. RemoveGoal(d, g)
        = [d EXCEPT !.goal = goal, !.home = home, !.logged = logged, !.task = task]
  BY <1>1 DEF RemoveGoal, Tables
<1>3. /\ goal \in [Goals -> Existing \union {"absent"}]
      /\ home \in [Goals -> Phases \union {None}]
      /\ logged \in SUBSET Goals
      /\ task \in [Tasks -> {"absent", "pending", "logged", "in-progress", "completed"}]
  BY <1>1 DEF Tables
<1>4. /\ \A h \in Goals : goal[h] = IF h = g THEN "absent" ELSE d.goal[h]
      /\ \A h \in Goals : home[h] = IF h = g THEN None ELSE d.home[h]
      /\ \A t \in Tasks : task[t] = IF TaskIn[t] = g THEN "absent" ELSE d.task[t]
  BY <1>1 DEF Tables
<1> HIDE DEF goal, home, logged, task
<1>5. \A h \in Goals : IF goal[h] = "absent" THEN home[h] = None
                       ELSE home[h] \in Phases /\ Exists(d, home[h])
  BY <1>1, <1>4 DEF Linked
<1>6. \A t \in Tasks : task[t] # "absent" => goal[TaskIn[t]] # "absent"
  BY <1>1, <1>4, PlanningConstants DEF Linked
<1>7. Good([d EXCEPT !.goal = goal, !.home = home, !.logged = logged, !.task = task])
  BY <1>3, <1>5, <1>6, GoalsAssembled
<1> QED BY <1>2, <1>7

LEMMA TaskWrites ==
  ASSUME NEW d, Good(d), NEW t \in Tasks,
         NEW s \in {"absent", "pending", "logged", "in-progress", "completed"},
         d.goal[TaskIn[t]] # "absent"
  PROVE  Good([d EXCEPT !.task[t] = s])
<1> DEFINE task == [d.task EXCEPT ![t] = s]
<1>1. d \in Tables /\ Linked(d)
  BY DEF Good
<1>2. [d EXCEPT !.task[t] = s]
        = [d EXCEPT !.goal = d.goal, !.home = d.home, !.logged = d.logged, !.task = task]
  BY <1>1 DEF Tables
<1>3. /\ d.goal \in [Goals -> Existing \union {"absent"}]
      /\ d.home \in [Goals -> Phases \union {None}]
      /\ d.logged \in SUBSET Goals
      /\ task \in [Tasks -> {"absent", "pending", "logged", "in-progress", "completed"}]
  BY <1>1 DEF Tables
<1>4. \A u \in Tasks : task[u] = IF u = t THEN s ELSE d.task[u]
  BY <1>1 DEF Tables
<1> HIDE DEF task
<1>5. \A h \in Goals : IF d.goal[h] = "absent" THEN d.home[h] = None
                       ELSE d.home[h] \in Phases /\ Exists(d, d.home[h])
  BY <1>1 DEF Linked
<1>6. \A u \in Tasks : task[u] # "absent" => d.goal[TaskIn[u]] # "absent"
  BY <1>1, <1>4 DEF Linked
<1>7. Good([d EXCEPT !.goal = d.goal, !.home = d.home, !.logged = d.logged, !.task = task])
  BY <1>3, <1>5, <1>6, GoalsAssembled
<1> QED BY <1>2, <1>7

LEMMA OwnerEffects ==
  ASSUME NEW x \in Procs, NEW d, Good(d), NEW c \in OwnerCalls, Allowed(x, c, d)
  PROVE  Good(Effect(x, c, d))
<1> DEFINE p == c.on
<1>1. p \in Phases /\ c.op \in OnOwner /\ Me(x) \in Owners
  BY PlanningConstants DEF OwnerCalls, OnOwner, Me
<1>2. CASE c.op \in {"claim", "ensure"}
  <2>1. Exists(d, p)
    BY <1>2 DEF Allowed
  <2>2. Effect(x, c, d) = [d EXCEPT !.owner[p] = Me(x)]
    BY <1>2 DEF Effect
  <2> HIDE DEF p
  <2> QED BY <1>1, <2>1, <2>2, OwnerWrites
<1>3. CASE c.op = "release"
  <2>1. Effect(x, c, d) = [d EXCEPT !.owner[p] = None]
    BY <1>3 DEF Effect
  <2> HIDE DEF p
  <2> QED BY <1>1, <2>1, OwnerWrites
<1>4. CASE c.op = "shelve"
  <2> DEFINE e == [d EXCEPT !.owner[p] = Me(x)]
  <2>1. Effect(x, c, d) = IF Exists(d, p) /\ Mine(d, p, x) THEN SetPhase(e, p, "pending") ELSE d
    BY <1>4 DEF Effect
  <2>2. ASSUME Exists(d, p) PROVE Good(SetPhase(e, p, "pending"))
    <3> HIDE DEF p
    <3>1. Good(e)
      BY <1>1, <2>2, OwnerWrites
    <3>2. Exists(e, p)
      BY <2>2 DEF Exists, Good, Tables
    <3>3. "pending" \in Existing
      BY DEF Existing, Open
    <3> HIDE DEF e
    <3> QED BY <1>1, <3>1, <3>2, <3>3, PhaseWrites
  <2> HIDE DEF e, p
  <2> QED BY <2>1, <2>2
<1> QED BY <1>1, <1>2, <1>3, <1>4 DEF OnOwner

LEMMA PhaseEffects ==
  ASSUME NEW x \in Procs, NEW d, Good(d), NEW c \in UNION {PhasePuts, PhaseHomes, PhaseCalls, EpochCalls},
         Allowed(x, c, d)
  PROVE  Good(Effect(x, c, d))
<1>1. CASE c \in PhasePuts
  <2>1. c.on \in Phases /\ c.to \in Existing /\ c.op \in {"phase", "demote"}
    BY <1>1 DEF PhasePuts
  <2>2. Exists(d, c.on)
    BY <2>1 DEF Allowed
  <2>3. Effect(x, c, d) = SetPhase(d, c.on, c.to)
    BY <2>1 DEF Effect
  <2> QED BY <2>1, <2>2, <2>3, PhaseWrites
<1>2. CASE c \in PhaseCalls
  <2>1. c.on \in Phases /\ c.op \in {"pin", "clear", "remove phase"}
    BY <1>2 DEF PhaseCalls
  <2>2. CASE c.op = "pin"
    <3>1. Exists(d, c.on) /\ Effect(x, c, d) = FocusPhase(d, At[x], c.on) /\ At[x] \in Workspaces
      BY <2>2, PlanningConstants DEF Allowed, Effect
    <3> QED BY <2>1, <3>1, PinWrites
  <2>3. CASE c.op = "clear"
    <3>1. Effect(x, c, d) = [d EXCEPT !.owner[c.on] = None]
      BY <2>3 DEF Effect
    <3> DEFINE p == c.on
    <3>2. Good([d EXCEPT !.owner[p] = None])
      <4>1. p \in Phases /\ None \in Owners \union {None}
        BY <2>1
      <4> HIDE DEF p
      <4> QED BY <4>1, OwnerWrites
    <3> QED BY <3>1, <3>2
  <2>4. CASE c.op = "remove phase"
    <3>1. Effect(x, c, d) = Without(d, {c.on}) /\ LanesOf(d, c.on) = {}
      BY <2>4 DEF Effect, Allowed
    <3>2. {c.on} \in SUBSET Phases /\ \A p \in {c.on} : LanesOf(d, p) = {}
      BY <2>1, <3>1
    <3> QED BY <3>1, <3>2, PhasesGo
  <2> QED BY <2>1, <2>2, <2>3, <2>4
<1>3. CASE c \in EpochCalls
  <2>1. c.on \in Epochs /\ c.op \in {"remove epoch", "bankrupt"}
    BY <1>3 DEF EpochCalls
  <2>2. CASE c.op = "remove epoch"
    <3>1. Effect(x, c, d) = Without(d, PhasesOf(d, c.on)) /\ \A p \in PhasesOf(d, c.on) : LanesOf(d, p) = {}
      BY <2>2 DEF Effect, Allowed
    <3>2. PhasesOf(d, c.on) \in SUBSET Phases
      BY DEF PhasesOf
    <3> QED BY <3>1, <3>2, PhasesGo
  <2>3. CASE c.op = "bankrupt"
    <3>1. Effect(x, c, d) = Bankrupt(d, c.on)
      BY <2>3 DEF Effect
    <3> QED BY <2>1, <3>1, EpochGoesBankrupt
  <2> QED BY <2>1, <2>2, <2>3
<1>4. CASE c \in PhaseHomes
  <2> DEFINE p == c.on
             e == c.to
  <2>1. p \in Phases /\ e \in Epochs /\ c.op \in {"add phase", "move phase"}
    BY <1>4 DEF PhaseHomes
  <2>2. CASE c.op = "add phase"
    <3>1. /\ d.phase[p] = "absent"
          /\ Effect(x, c, d) = [d EXCEPT !.phase[p] = "pending", !.epoch[p] = e]
      BY <2>2 DEF Effect, Allowed
    <3> HIDE DEF p, e
    <3>2. Good([d EXCEPT !.phase[p] = "pending", !.epoch[p] = e])
      BY <2>1, <3>1, PhaseAdds
    <3> QED BY <3>1, <3>2
  <2>3. CASE c.op = "move phase"
    <3>1. Effect(x, c, d) = [d EXCEPT !.epoch[p] = e]
      BY <2>3 DEF Effect
    <3> HIDE DEF p, e
    <3>2. Good([d EXCEPT !.epoch[p] = e])
      BY <2>1, EpochWrites
    <3> QED BY <3>1, <3>2
  <2> QED BY <2>1, <2>2, <2>3
<1> QED BY <1>1, <1>2, <1>3, <1>4

LEMMA LaneEffects ==
  ASSUME NEW x \in Procs, NEW d, Good(d), NEW c \in LaneCalls, Allowed(x, c, d)
  PROVE  Good(Effect(x, c, d))
<1> DEFINE l == c.on
<1>1. l \in Lanes /\ c.op \in {"add lane", "focus lane", "start lane", "remove lane"}
      /\ At[x] \in Workspaces
  BY PlanningConstants DEF LaneCalls
<1>2. CASE c.op = "add lane"
  <2>1. Exists(d, LaneIn[l]) /\ Effect(x, c, d) = [d EXCEPT !.lane[l] = "prepared"]
    BY <1>2 DEF Allowed, Effect
  <2> HIDE DEF l
  <2> QED BY <1>1, <2>1, LaneAdds
<1>3. CASE c.op \in {"focus lane", "start lane"}
  <2>1. /\ Running(d, LaneIn[l]) /\ d.lane[l] # "absent"
        /\ Effect(x, c, d) \in {FocusLane(d, At[x], l), StartLane(d, At[x], l)}
    BY <1>3 DEF Allowed, Effect
  <2> HIDE DEF l
  <2> QED BY <1>1, <2>1, LaneFocuses
<1>4. CASE c.op = "remove lane"
  <2>1. Effect(x, c, d) = RemoveLane(d, l)
    BY <1>4 DEF Effect
  <2> HIDE DEF l
  <2> QED BY <1>1, <2>1, LaneGoes
<1> QED BY <1>1, <1>2, <1>3, <1>4

LEMMA GoalEffects ==
  ASSUME NEW x \in Procs, NEW d, Good(d), NEW c \in GoalHomes \union GoalPuts \union GoalCalls,
         Allowed(x, c, d)
  PROVE  Good(Effect(x, c, d))
<1> DEFINE g == c.on
           p == c.to
<1>0. "pending" \in Existing /\ "in-progress" \in Existing
  BY DEF Existing, Open
<1>1. CASE c \in GoalHomes
  <2>1. g \in Goals /\ p \in Phases /\ c.op \in {"add goal", "add strike", "move goal"}
    BY <1>1 DEF GoalHomes
  <2>2. CASE c.op = "add goal"
    <3>1. Exists(d, p) /\ Effect(x, c, d) = [d EXCEPT !.home[g] = p, !.goal[g] = "pending"]
      BY <2>2 DEF Allowed, Effect
    <3> HIDE DEF g, p
    <3>2. Good([d EXCEPT !.home[g] = p, !.goal[g] = "pending"])
      BY <1>0, <2>1, <3>1, GoalWrites
    <3> QED BY <3>1, <3>2
  <2>3. CASE c.op = "add strike"
    <3>1. Exists(d, p) /\ Effect(x, c, d) = [d EXCEPT !.home[g] = p, !.goal[g] = "in-progress"]
      BY <2>3 DEF Allowed, Effect
    <3> HIDE DEF g, p
    <3>2. Good([d EXCEPT !.home[g] = p, !.goal[g] = "in-progress"])
      BY <1>0, <2>1, <3>1, GoalWrites
    <3> QED BY <3>1, <3>2
  <2>4. CASE c.op = "move goal"
    <3>1. Exists(d, p) /\ d.goal[g] # "absent" /\ Effect(x, c, d) = [d EXCEPT !.home[g] = p]
      BY <2>4 DEF Allowed, Effect
    <3> HIDE DEF g, p
    <3>2. Good([d EXCEPT !.home[g] = p])
      BY <1>0, <2>1, <3>1, GoalWrites
    <3> QED BY <3>1, <3>2
  <2> QED BY <2>1, <2>2, <2>3, <2>4
<1>2. CASE c \in GoalPuts
  <2> DEFINE s == c.to
  <2>1. g \in Goals /\ s \in Existing /\ c.op = "goal"
    BY <1>2 DEF GoalPuts
  <2>2. d.goal[g] # "absent" /\ Effect(x, c, d) = [d EXCEPT !.goal[g] = s]
    BY <2>1 DEF Allowed, Effect
  <2> HIDE DEF g, s
  <2>3. Good([d EXCEPT !.goal[g] = s])
    BY <2>1, <2>2, GoalChanges
  <2> QED BY <2>2, <2>3
<1>3. CASE c \in GoalCalls
  <2>1. g \in Goals /\ c.op \in {"log goal", "remove goal", "count"}
    BY <1>3 DEF GoalCalls
  <2>2. CASE c.op = "log goal"
    <3>1. d.goal[g] # "absent" /\ Effect(x, c, d) = [d EXCEPT !.logged = @ \union {g}]
      BY <2>2 DEF Allowed, Effect
    <3> HIDE DEF g
    <3>2. Good([d EXCEPT !.logged = @ \union {g}])
      BY <1>0, <2>1, <3>1, GoalChanges
    <3> QED BY <3>1, <3>2
  <2>3. CASE c.op = "remove goal"
    <3>1. Effect(x, c, d) = RemoveGoal(d, g)
      BY <2>3 DEF Effect
    <3> HIDE DEF g
    <3> QED BY <2>1, <3>1, GoalGoes
  <2>4. CASE c.op = "count"
    <3>1. Effect(x, c, d) = d
      BY <2>4 DEF Effect
    <3> QED BY <3>1
  <2> QED BY <2>1, <2>2, <2>3, <2>4
<1> QED BY <1>1, <1>2, <1>3

LEMMA TaskEffects ==
  ASSUME NEW x \in Procs, NEW d, Good(d), NEW c \in TaskPuts \union TaskCalls,
         Allowed(x, c, d)
  PROVE  Good(Effect(x, c, d))
<1> DEFINE t == c.on
<1>1. CASE c \in TaskPuts
  <2> DEFINE s == c.to
  <2>1. /\ t \in Tasks /\ c.op = "task"
        /\ s \in {"absent", "pending", "logged", "in-progress", "completed"}
    BY <1>1 DEF TaskPuts
  <2>2. d.task[t] # "absent" /\ Effect(x, c, d) = [d EXCEPT !.task[t] = s]
    BY <2>1 DEF Allowed, Effect
  <2> HIDE DEF t, s
  <2>3. d.goal[TaskIn[t]] # "absent"
    BY <2>1, <2>2 DEF Good, Linked
  <2>4. Good([d EXCEPT !.task[t] = s])
    BY <2>1, <2>3, TaskWrites
  <2> QED BY <2>2, <2>4
<1>2. CASE c \in TaskCalls
  <2>1. t \in Tasks /\ c.op = "add task"
    BY <1>2 DEF TaskCalls
  <2>2. d.goal[TaskIn[t]] # "absent" /\ Effect(x, c, d) = [d EXCEPT !.task[t] = "pending"]
    BY <2>1 DEF Allowed, Effect
  <2> HIDE DEF t
  <2>3. Good([d EXCEPT !.task[t] = "pending"])
    BY <2>1, <2>2, TaskWrites
  <2> QED BY <2>2, <2>3
<1> QED BY <1>1, <1>2

\* Every call that succeeds keeps the tables good.
LEMMA EffectKeeps ==
  ASSUME NEW x \in Procs, NEW d, Good(d), NEW c \in AllCalls, Allowed(x, c, d)
  PROVE  Good(Effect(x, c, d))
<1>1. CASE c \in OwnerCalls
  BY <1>1, OwnerEffects
<1>2. CASE c \in UNION {PhasePuts, PhaseHomes, PhaseCalls, EpochCalls}
  BY <1>2, PhaseEffects
<1>3. CASE c \in LaneCalls
  BY <1>3, LaneEffects
<1>4. CASE c \in GoalHomes \union GoalPuts \union GoalCalls
  BY <1>4, GoalEffects
<1>5. CASE c \in TaskPuts \union TaskCalls
  BY <1>5, TaskEffects
<1> QED BY <1>1, <1>2, <1>3, <1>4, <1>5 DEF AllCalls

LEMMA RunsStart ==
  ASSUME NEW x, NEW d, NEW calls, Len(calls) \in Nat
  PROVE  Runs(x, d, calls)[0] = [ok |-> TRUE, db |-> d]
<1> DEFINE start == [ok |-> TRUE, db |-> d]
<1>1. Follows(x, d, calls, Runs(x, d, calls))
  BY RunsFollow
<1>2. 0 \in 0..Len(calls)
  OBVIOUS
<1> QED BY <1>1, <1>2 DEF Follows

LEMMA RunsStep ==
  ASSUME NEW x, NEW d, NEW calls, Len(calls) \in Nat, NEW n \in 0..(Len(calls) - 1)
  PROVE  Runs(x, d, calls)[n + 1] = After(x, d, calls[n + 1], Runs(x, d, calls)[n])
<1> DEFINE run == Runs(x, d, calls)
           start == [ok |-> TRUE, db |-> d]
<1>1. run = [k \in 0..Len(calls) |-> IF k = 0 THEN start ELSE After(x, d, calls[k], run[k - 1])]
  <2>1. Follows(x, d, calls, run)
    BY RunsFollow
  <2> HIDE DEF run
  <2> QED BY <2>1, Zenon DEF Follows
<1> HIDE DEF run, start
<1> QED BY <1>1 DEF run

\* A transaction keeps the tables good, whatever its calls are.
LEMMA RunsKeep ==
  ASSUME NEW x \in Procs, NEW d, Good(d), NEW calls \in Seq(AllCalls)
  PROVE  Good(Runs(x, d, calls)[Len(calls)].db)
<1> DEFINE run == Runs(x, d, calls)
           N == Len(calls)
           S == {n \in 0..N : Good(run[n].db)}
<1>1. N \in Nat /\ \A n \in 1..N : calls[n] \in AllCalls
  OBVIOUS
<1>2. run[0] = [ok |-> TRUE, db |-> d]
  BY <1>1, RunsStart
<1>3. \A n \in 0..(N-1) : run[n + 1] = After(x, d, calls[n + 1], run[n])
  <2>1. Len(calls) \in Nat
    BY <1>1
  <2> HIDE DEF run, N
  <2> TAKE n \in 0..(N - 1)
  <2> QED BY <2>1, RunsStep DEF run, N
<1> HIDE DEF run, N
<1>4. 0 \in S
  BY <1>1, <1>2
<1>5. ASSUME NEW n \in 0..(N-1), n \in S PROVE n + 1 \in S
  <2>1. Good(run[n].db) /\ n + 1 \in 1..N /\ calls[n + 1] \in AllCalls
    BY <1>1, <1>5
  <2>2. Good(run[n + 1].db)
    <3>1. CASE run[n].ok /\ Allowed(x, calls[n + 1], run[n].db)
      <4>1. Good(Effect(x, calls[n + 1], run[n].db))
        BY <2>1, <3>1, EffectKeeps
      <4>2. run[n + 1].db = Effect(x, calls[n + 1], run[n].db)
        <5>1. run[n + 1] = [ok |-> TRUE, db |-> Effect(x, calls[n + 1], run[n].db)]
          BY <1>3, <1>5, <3>1, Zenon DEF After
        <5> QED BY <5>1
      <4> QED BY <4>1, <4>2
    <3>2. CASE ~(run[n].ok /\ Allowed(x, calls[n + 1], run[n].db))
      <4>1. run[n + 1].db = d
        <5>1. run[n + 1] = [ok |-> FALSE, db |-> d]
          BY <1>3, <1>5, <3>2, Zenon DEF After
        <5> QED BY <5>1
      <4> QED BY <4>1
    <3> QED BY <3>1, <3>2
  <2> QED BY <2>1, <2>2
<1>6. N \in S
  <2> HIDE DEF S
  <2>1. 0..N \subseteq S
    BY <1>1, <1>4, <1>5, Induction
  <2> QED BY <1>1, <2>1
<1> QED BY <1>6 DEF run, N

(***************************************************************************)
(* The lists of calls that commands make.                                  *)
(***************************************************************************)
LEMMA Listed ==
  ASSUME NEW S, NEW a \in S, NEW b \in S, NEW c \in S, NEW e \in S
  PROVE  /\ <<a, b>> = Append(<<a>>, b)
         /\ <<a, b, c>> = Append(<<a, b>>, c)
         /\ <<a, b, c, e>> = Append(<<a, b, c>>, e)
<1>1. ASSUME NEW s, NEW t, NEW u, s = <<a>>, t = <<a, b>>, u = Append(s, b)
      PROVE  t = u
  <2>1. s \in Seq(S) /\ Len(s) = 1 /\ s[1] = a
    BY <1>1
  <2>2. t \in Seq(S) /\ Len(t) = 2 /\ t[1] = a /\ t[2] = b
    BY <1>1
  <2>3. u \in Seq(S) /\ Len(u) = 2 /\ u[1] = a /\ u[2] = b
    BY <1>1, <2>1
  <2>4. Len(t) = Len(u) /\ \A i \in 1..Len(t) : t[i] = u[i]
    BY <2>2, <2>3
  <2> QED BY <2>2, <2>3, <2>4, SeqEqual
<1>2. ASSUME NEW s, NEW t, NEW u, s = <<a, b>>, t = <<a, b, c>>, u = Append(s, c)
      PROVE  t = u
  <2>1. s \in Seq(S) /\ Len(s) = 2 /\ s[1] = a /\ s[2] = b
    BY <1>2
  <2>2. t \in Seq(S) /\ Len(t) = 3 /\ t[1] = a /\ t[2] = b /\ t[3] = c
    BY <1>2
  <2>3. u \in Seq(S) /\ Len(u) = 3 /\ u[1] = a /\ u[2] = b /\ u[3] = c
    BY <1>2, <2>1
  <2>4. Len(t) = Len(u) /\ \A i \in 1..Len(t) : t[i] = u[i]
    BY <2>2, <2>3
  <2> QED BY <2>2, <2>3, <2>4, SeqEqual
<1>3. ASSUME NEW s, NEW t, NEW u, s = <<a, b, c>>, t = <<a, b, c, e>>, u = Append(s, e)
      PROVE  t = u
  <2>1. s \in Seq(S) /\ Len(s) = 3 /\ s[1] = a /\ s[2] = b /\ s[3] = c
    BY <1>3
  <2>2. t \in Seq(S) /\ Len(t) = 4 /\ t[1] = a /\ t[2] = b /\ t[3] = c /\ t[4] = e
    BY <1>3
  <2>3. u \in Seq(S) /\ Len(u) = 4 /\ u[1] = a /\ u[2] = b /\ u[3] = c /\ u[4] = e
    BY <1>3, <2>1
  <2>4. Len(t) = Len(u) /\ \A i \in 1..Len(t) : t[i] = u[i]
    BY <2>2, <2>3
  <2> QED BY <2>2, <2>3, <2>4, SeqEqual
<1> QED BY <1>1, <1>2, <1>3

LEMMA SingleSeq ==
  ASSUME NEW S, NEW c \in S, NEW s, s = <<c>>
  PROVE  /\ s \in Seq(S) /\ Len(s) = 1 /\ s[1] = c
         /\ \A i \in 1..Len(s) : i = 1
         /\ \A i \in 1..(Len(s) - 1) : FALSE
OBVIOUS

\* A command of one call.
LEMMA Single ==
  ASSUME NEW d, NEW back, NEW c \in AllCalls, Fresh(c), Asked(d, c) = {}, c.op # "demote", c.op # "shelve",
         c.op = "add phase" => d.phase[c.on] = "absent", c.op # "phase"
  PROVE  /\ WellMade(d, back, <<c>>)
         /\ c.op \notin Enders => Goes(d, back, <<c>>)
<1>1. ASSUME NEW s, s = <<c>>
      PROVE  WellMade(d, back, s) /\ (c.op \notin Enders => Goes(d, back, s))
  <2>1. s \in Seq(AllCalls) /\ Len(s) = 1 /\ s[1] = c
    BY <1>1, SingleSeq
  <2>2. Sound(d, back, s, 1, c)
    BY DEF Sound
  <2>3. \A i \in 1..Len(s) : i = 1
    BY <1>1, SingleSeq
  <2>4. \A i \in 1..(Len(s) - 1) : FALSE
    BY <1>1, SingleSeq
  <2>5. \A i \in 1..Len(s) : Sound(d, back, s, i, s[i])
    BY <2>1, <2>2, <2>3
  <2>6. WellMade(d, back, s)
    BY <2>1, <2>4, <2>5 DEF WellMade
  <2>7. c.op \notin Enders => \A i \in 1..Len(s) : s[i].op \notin Enders
    BY <2>1, <2>3
  <2> QED BY <2>6, <2>7 DEF Goes
<1> QED BY <1>1

\* One more call at the end of a list.
LEMMA Grows ==
  ASSUME NEW d, NEW back, NEW calls, Goes(d, back, calls), NEW c \in AllCalls, Sound(d, back, calls, Len(calls) + 1, c)
  PROVE  /\ WellMade(d, back, Append(calls, c))
         /\ c.op \notin Enders => Goes(d, back, Append(calls, c))
<1> SUFFICES ASSUME NEW more, more = Append(calls, c), NEW N, N = Len(calls)
             PROVE  WellMade(d, back, more) /\ (c.op \notin Enders => Goes(d, back, more))
  OBVIOUS
<1>1. /\ calls \in Seq(AllCalls) /\ N \in Nat
      /\ \A i \in 1..N : Sound(d, back, calls, i, calls[i]) /\ calls[i].op \notin Enders
  BY DEF Goes, WellMade
<1>2. /\ more \in Seq(AllCalls) /\ Len(more) = N + 1
      /\ \A i \in 1..N : more[i] = calls[i]
      /\ more[N + 1] = c
  BY <1>1
<1>3. \A i \in 1..(N+1) : \A p : Covered(calls, i, p) => Covered(more, i, p)
  <2> TAKE i \in 1..(N+1)
  <2> TAKE p
  <2> HAVE Covered(calls, i, p)
  <2>1. PICK j \in 1..(i-1) : calls[j].op \in {"claim", "ensure"} /\ calls[j].on = p
    BY DEF Covered
  <2>2. j \in 1..N
    BY <1>1
  <2> QED BY <1>2, <2>1, <2>2 DEF Covered
<1>4. \A i \in 1..(N+1) : \A b : Sound(d, back, calls, i, b) => Sound(d, back, more, i, b)
  BY <1>3 DEF Sound
<1>5. ASSUME NEW i \in 1..(N+1) PROVE Sound(d, back, more, i, more[i])
  <2>1. CASE i \in 1..N
    BY <1>1, <1>2, <1>4, <2>1
  <2>2. CASE i = N + 1
    BY <1>2, <1>4, <2>2
  <2> QED BY <1>1, <2>1, <2>2
<1>6. \A i \in 1..N : more[i].op \notin Enders
  BY <1>1, <1>2
<1>7. WellMade(d, back, more)
  BY <1>1, <1>2, <1>5, <1>6 DEF WellMade
<1>8. c.op \notin Enders => Goes(d, back, more)
  BY <1>1, <1>2, <1>6, <1>7 DEF Goes
<1> QED BY <1>7, <1>8

LEMMA CallKinds ==
  /\ \A p \in Phases, take \in BOOLEAN :
       {Claim(p, take), Ensure(p), Shelve(p), Release(p)} \subseteq AllCalls
  /\ \A p \in Phases, s \in Existing : Put("phase", p, s) \in AllCalls
  /\ \A p \in Phases, op \in {"pin", "clear", "remove phase"} : Call(op, p) \in AllCalls
  /\ \A p \in Phases, e \in Epochs, op \in {"add phase", "move phase"} : Put(op, p, e) \in AllCalls
  /\ \A e \in Epochs, op \in {"remove epoch", "bankrupt"} : Call(op, e) \in AllCalls
  /\ \A l \in Lanes, op \in {"add lane", "focus lane", "start lane", "remove lane"} :
       Call(op, l) \in AllCalls
  /\ \A g \in Goals, p \in Phases, op \in {"add goal", "add strike", "move goal"} :
       Put(op, g, p) \in AllCalls
  /\ \A g \in Goals, s \in Existing : Put("goal", g, s) \in AllCalls
  /\ \A g \in Goals, op \in {"log goal", "remove goal", "count"} : Call(op, g) \in AllCalls
  /\ \A t \in Tasks, s \in {"absent", "logged", "in-progress", "completed"} :
       Put("task", t, s) \in AllCalls
  /\ \A t \in Tasks : Call("add task", t) \in AllCalls
<1>1. ASSUME NEW p \in Phases, NEW take \in BOOLEAN
      PROVE  {Claim(p, take), Ensure(p), Shelve(p), Release(p)} \subseteq AllCalls
  <2>1. Claim(p, take) \in OwnerCalls
    BY DEF Claim, OwnerCalls
  <2>2. Ensure(p) \in OwnerCalls
    BY DEF Ensure, OwnerCalls, OnOwner
  <2>3. Shelve(p) \in OwnerCalls
    BY DEF Shelve, OwnerCalls, OnOwner
  <2>4. Release(p) \in OwnerCalls
    BY DEF Release, OwnerCalls, OnOwner
  <2>5. OwnerCalls \subseteq AllCalls
    BY DEF AllCalls
  <2> QED BY <2>1, <2>2, <2>3, <2>4, <2>5
<1>2. \A p \in Phases, s \in Existing : Put("phase", p, s) \in AllCalls
  BY DEF Put, AllCalls, PhasePuts
<1>3. \A p \in Phases, op \in {"pin", "clear", "remove phase"} : Call(op, p) \in AllCalls
  BY DEF Call, AllCalls, PhaseCalls
<1>11. \A p \in Phases, e \in Epochs, op \in {"add phase", "move phase"} : Put(op, p, e) \in AllCalls
  BY DEF Put, AllCalls, PhaseHomes
<1>4. \A e \in Epochs, op \in {"remove epoch", "bankrupt"} : Call(op, e) \in AllCalls
  BY DEF Call, AllCalls, EpochCalls
<1>5. \A l \in Lanes, op \in {"add lane", "focus lane", "start lane", "remove lane"} :
        Call(op, l) \in AllCalls
  BY DEF Call, AllCalls, LaneCalls
<1>6. \A g \in Goals, p \in Phases, op \in {"add goal", "add strike", "move goal"} :
        Put(op, g, p) \in AllCalls
  BY DEF Put, AllCalls, GoalHomes
<1>7. \A g \in Goals, s \in Existing : Put("goal", g, s) \in AllCalls
  BY DEF Put, AllCalls, GoalPuts
<1>8. \A g \in Goals, op \in {"log goal", "remove goal", "count"} : Call(op, g) \in AllCalls
  BY DEF Call, AllCalls, GoalCalls
<1>9. \A t \in Tasks, s \in {"absent", "logged", "in-progress", "completed"} :
        Put("task", t, s) \in AllCalls
  BY DEF Put, AllCalls, TaskPuts
<1>10. \A t \in Tasks : Call("add task", t) \in AllCalls
  BY DEF Call, AllCalls, TaskCalls
<1> QED BY <1>1, <1>2, <1>3, <1>4, <1>5, <1>6, <1>7, <1>8, <1>9, <1>10, <1>11

\* A call that may follow once phase p is claimed.
Suits(d, back, p, c) ==
  /\ c \in AllCalls
  /\ Fresh(c)
  /\ Asked(d, c) \subseteq {p}
  /\ c.op = "shelve" => ~Started(d, c.on)
  /\ c.op = "phase" => c.to # "pending" \/ c.on \in back
  /\ c.op \notin {"add phase", "demote"}

Claimed(calls, p) == \E j \in 1..Len(calls) : calls[j].op \in {"claim", "ensure"} /\ calls[j].on = p

LEMMA GoesIsSeq ==
  ASSUME NEW d, NEW back, NEW calls, Goes(d, back, calls)
  PROVE  calls \in Seq(AllCalls) /\ Len(calls) \in Nat
BY DEF Goes, WellMade

LEMMA Claimant ==
  ASSUME NEW p \in Phases, NEW take \in BOOLEAN, NEW c \in {Claim(p, take), Ensure(p)}
  PROVE  c \in AllCalls /\ c.op \in {"claim", "ensure"} /\ c.on = p /\ c.seen = Unread
<1>1. c \in AllCalls
  BY CallKinds
<1>2. c.op \in {"claim", "ensure"} /\ c.on = p /\ c.seen = Unread
  BY DEF Claim, Ensure
<1> QED BY <1>1, <1>2

\* The first call of most commands.
LEMMA Begun ==
  ASSUME NEW d, NEW back, NEW p \in Phases, NEW take \in BOOLEAN,
         NEW c \in {Claim(p, take), Ensure(p)}
  PROVE  Goes(d, back, <<c>>) /\ Claimed(<<c>>, p)
<1>1. c \in AllCalls /\ c.op \in {"claim", "ensure"} /\ c.on = p /\ c.seen = Unread
  BY Claimant
<1>2. Fresh(c) /\ Asked(d, c) = {} /\ c.op \notin Enders
  BY <1>1 DEF Fresh, Asked, Subject, Enders
<1>3. Goes(d, back, <<c>>)
  BY <1>1, <1>2, Single
<1>4. ASSUME NEW s, s = <<c>> PROVE Claimed(s, p)
  <2>1. s[1] = c /\ Len(s) = 1
    BY <1>1, <1>4, SingleSeq
  <2>2. 1 \in 1..Len(s)
    BY <2>1
  <2> QED BY <1>1, <2>1, <2>2 DEF Claimed
<1> QED BY <1>3, <1>4

\* One call more for a phase that has been claimed before.
LEMMA Follow ==
  ASSUME NEW d, NEW back, NEW calls, Goes(d, back, calls), NEW p, Claimed(calls, p),
         NEW c, Suits(d, back, p, c)
  PROVE  /\ WellMade(d, back, Append(calls, c))
         /\ Claimed(Append(calls, c), p)
         /\ c.op \notin Enders => Goes(d, back, Append(calls, c))
<1>1. calls \in Seq(AllCalls) /\ Len(calls) \in Nat
  BY GoesIsSeq
<1>2. Covered(calls, Len(calls) + 1, p)
  BY <1>1 DEF Covered, Claimed
<1>3. c \in AllCalls
  BY DEF Suits
<1>4. Sound(d, back, calls, Len(calls) + 1, c)
  BY <1>2 DEF Sound, Suits
<1>5. ASSUME NEW more, more = Append(calls, c) PROVE Claimed(more, p)
  <2>1. /\ Len(more) = Len(calls) + 1
        /\ \A i \in 1..Len(calls) : more[i] = calls[i]
    BY <1>1, <1>3, <1>5, AppendProperties
  <2>2. PICK j \in 1..Len(calls) : calls[j].op \in {"claim", "ensure"} /\ calls[j].on = p
    BY DEF Claimed
  <2>3. j \in 1..Len(more)
    BY <1>1, <2>1
  <2>4. more[j].op \in {"claim", "ensure"} /\ more[j].on = p
    BY <2>1, <2>2
  <2> QED BY <2>3, <2>4 DEF Claimed
<1> QED BY <1>3, <1>4, <1>5, Grows

\* A claim, and then one to three calls for its phase.
LEMMA Lists ==
  ASSUME NEW d, NEW back, NEW p \in Phases, NEW take \in BOOLEAN,
         NEW a \in {Claim(p, take), Ensure(p)},
         NEW b, Suits(d, back, p, b)
  PROVE  /\ WellMade(d, back, <<a, b>>)
         /\ Claimed(<<a, b>>, p)
         /\ b.op \notin Enders => Goes(d, back, <<a, b>>)
<1>1. a \in AllCalls /\ b \in AllCalls
  BY Claimant DEF Suits
<1>2. <<a, b>> = Append(<<a>>, b)
  BY <1>1, Listed
<1>3. Goes(d, back, <<a>>) /\ Claimed(<<a>>, p)
  BY Begun
<1> QED BY <1>2, <1>3, Follow

LEMMA LongerLists ==
  ASSUME NEW d, NEW back, NEW p \in Phases, NEW take \in BOOLEAN,
         NEW a \in {Claim(p, take), Ensure(p)},
         NEW b, Suits(d, back, p, b), b.op \notin Enders,
         NEW c, Suits(d, back, p, c)
  PROVE  /\ WellMade(d, back, <<a, b, c>>)
         /\ Claimed(<<a, b, c>>, p)
         /\ c.op \notin Enders => Goes(d, back, <<a, b, c>>)
<1>1. a \in AllCalls /\ b \in AllCalls /\ c \in AllCalls
  BY Claimant DEF Suits
<1>2. <<a, b, c>> = Append(<<a, b>>, c)
  BY <1>1, Listed
<1>3. Goes(d, back, <<a, b>>) /\ Claimed(<<a, b>>, p)
  BY Lists
<1> QED BY <1>2, <1>3, Follow

LEMMA LongestLists ==
  ASSUME NEW d, NEW back, NEW p \in Phases, NEW take \in BOOLEAN,
         NEW a \in {Claim(p, take), Ensure(p)},
         NEW b, Suits(d, back, p, b), b.op \notin Enders,
         NEW c, Suits(d, back, p, c), c.op \notin Enders,
         NEW e, Suits(d, back, p, e)
  PROVE  WellMade(d, back, <<a, b, c, e>>)
<1>1. a \in AllCalls /\ b \in AllCalls /\ c \in AllCalls /\ e \in AllCalls
  BY Claimant DEF Suits
<1>2. <<a, b, c, e>> = Append(<<a, b, c>>, e)
  BY <1>1, Listed
<1>3. Goes(d, back, <<a, b, c>>) /\ Claimed(<<a, b, c>>, p)
  BY LongerLists
<1> QED BY <1>2, <1>3, Follow

LEMMA SuitsPhase ==
  ASSUME NEW d, NEW back, NEW p \in Phases
  PROVE  /\ \A s \in Existing : s # "pending" \/ p \in back => Suits(d, back, p, Put("phase", p, s))
         /\ \A op \in {"pin", "clear", "remove phase"} : Suits(d, back, p, Call(op, p))
         /\ \A e \in Epochs : Suits(d, back, p, Put("move phase", p, e))
         /\ \A q \in Phases : Suits(d, back, p, Ensure(q))
         /\ \A q \in Phases : ~Started(d, q) => Suits(d, back, p, Shelve(q))
<1>1. ASSUME NEW s \in Existing, s # "pending" \/ p \in back
      PROVE  Suits(d, back, p, Put("phase", p, s))
  <2> DEFINE c == Put("phase", p, s)
  <2>1. c \in AllCalls /\ c.op = "phase" /\ c.on = p /\ c.to = s
    BY CallKinds DEF Put
  <2>2. Asked(d, c) = {p}
    BY <2>1 DEF Asked, Subject
  <2> HIDE DEF c
  <2>3. Suits(d, back, p, c)
    BY <1>1, <2>1, <2>2 DEF Suits, Fresh, OnOwner
  <2> QED BY <2>3 DEF c
<1>2. ASSUME NEW op \in {"pin", "clear", "remove phase"} PROVE Suits(d, back, p, Call(op, p))
  <2> DEFINE c == Call(op, p)
  <2>1. c \in AllCalls /\ c.op = op /\ c.on = p
    BY CallKinds DEF Call
  <2>2. Asked(d, c) \subseteq {p}
    BY <2>1 DEF Asked, Subject
  <2> HIDE DEF c
  <2>3. Suits(d, back, p, c)
    BY <2>1, <2>2 DEF Suits, Fresh, OnOwner
  <2> QED BY <2>3 DEF c
<1>3. ASSUME NEW q \in Phases, NEW c \in {Ensure(q), Shelve(q)}, c = Shelve(q) => ~Started(d, q)
      PROVE  Suits(d, back, p, c)
  <2>1. c \in AllCalls
    BY CallKinds
  <2>2. c.op \in {"ensure", "shelve"} /\ c.on = q /\ c.seen = Unread
    BY DEF Ensure, Shelve
  <2>3. Asked(d, c) = {}
    BY <2>2 DEF Asked, Subject
  <2>4. c.op = "shelve" => ~Started(d, c.on)
    BY <1>3, <2>2 DEF Ensure
  <2> QED BY <2>1, <2>2, <2>3, <2>4 DEF Suits, Fresh
<1>4. \A q \in Phases : Suits(d, back, p, Ensure(q))
  <2> TAKE q \in Phases
  <2>1. Ensure(q) # Shelve(q)
    <3>1. Ensure(q).op = "ensure" /\ Shelve(q).op = "shelve"
      BY DEF Ensure, Shelve
    <3> QED BY <3>1
  <2> QED BY <1>3, <2>1
<1>5. ASSUME NEW e \in Epochs PROVE Suits(d, back, p, Put("move phase", p, e))
  <2> DEFINE c == Put("move phase", p, e)
  <2>1. c \in AllCalls /\ c.op = "move phase" /\ c.on = p
    BY CallKinds DEF Put
  <2>2. Asked(d, c) = {p}
    BY <2>1 DEF Asked, Subject
  <2> HIDE DEF c
  <2>3. Suits(d, back, p, c)
    BY <2>1, <2>2 DEF Suits, Fresh, OnOwner
  <2> QED BY <2>3 DEF c
<1> QED BY <1>1, <1>2, <1>3, <1>4, <1>5

LEMMA SuitsLane ==
  ASSUME NEW d, NEW back, NEW l \in Lanes,
         NEW op \in {"add lane", "focus lane", "start lane", "remove lane"}
  PROVE  Suits(d, back, LaneIn[l], Call(op, l))
<1> DEFINE c == Call(op, l)
<1>1. c \in AllCalls /\ c.op = op /\ c.on = l
  BY CallKinds DEF Call
<1>2. Asked(d, c) \subseteq {LaneIn[l]}
  BY <1>1 DEF Asked, Subject
<1> HIDE DEF c
<1>3. Suits(d, back, LaneIn[l], c)
  BY <1>1, <1>2 DEF Suits, Fresh, OnOwner
<1> QED BY <1>3 DEF c

LEMMA SuitsGoal ==
  ASSUME NEW d, NEW back, NEW g \in Goals
  PROVE  /\ \A p \in Phases, op \in {"add goal", "add strike"} : Suits(d, back, p, Put(op, g, p))
         /\ \A s \in Existing : Suits(d, back, d.home[g], Put("goal", g, s))
         /\ \A op \in {"log goal", "remove goal", "count"} : Suits(d, back, d.home[g], Call(op, g))
<1>1. ASSUME NEW p \in Phases, NEW op \in {"add goal", "add strike"}
      PROVE  Suits(d, back, p, Put(op, g, p))
  <2> DEFINE c == Put(op, g, p)
  <2>1. c \in AllCalls /\ c.op = op /\ c.on = g /\ c.to = p
    BY CallKinds DEF Put
  <2>2. Asked(d, c) \subseteq {p}
    BY <2>1 DEF Asked, Subject
  <2> HIDE DEF c
  <2>3. Suits(d, back, p, c)
    BY <2>1, <2>2 DEF Suits, Fresh, OnOwner
  <2> QED BY <2>3 DEF c
<1>2. ASSUME NEW s \in Existing PROVE Suits(d, back, d.home[g], Put("goal", g, s))
  <2> DEFINE c == Put("goal", g, s)
  <2>1. c \in AllCalls /\ c.op = "goal" /\ c.on = g /\ c.to = s
    BY CallKinds DEF Put
  <2>2. Asked(d, c) \subseteq {d.home[g]}
    BY <2>1 DEF Asked, Subject
  <2> HIDE DEF c
  <2>3. Suits(d, back, d.home[g], c)
    BY <2>1, <2>2 DEF Suits, Fresh, OnOwner
  <2> QED BY <2>3 DEF c
<1>3. ASSUME NEW op \in {"log goal", "remove goal", "count"}
      PROVE  Suits(d, back, d.home[g], Call(op, g))
  <2> DEFINE c == Call(op, g)
  <2>1. c \in AllCalls /\ c.op = op /\ c.on = g
    BY CallKinds DEF Call
  <2>2. Asked(d, c) \subseteq {d.home[g]}
    BY <2>1 DEF Asked, Subject
  <2> HIDE DEF c
  <2>3. Suits(d, back, d.home[g], c)
    BY <2>1, <2>2 DEF Suits, Fresh, OnOwner
  <2> QED BY <2>3 DEF c
<1> QED BY <1>1, <1>2, <1>3

LEMMA SuitsTask ==
  ASSUME NEW d, NEW back, NEW t \in Tasks
  PROVE  /\ \A s \in {"absent", "logged", "in-progress", "completed"} :
              Suits(d, back, d.home[TaskIn[t]], Put("task", t, s))
         /\ Suits(d, back, d.home[TaskIn[t]], Call("add task", t))
<1>1. ASSUME NEW s \in {"absent", "logged", "in-progress", "completed"}
      PROVE  Suits(d, back, d.home[TaskIn[t]], Put("task", t, s))
  <2> DEFINE c == Put("task", t, s)
  <2>1. c \in AllCalls /\ c.op = "task" /\ c.on = t
    BY CallKinds DEF Put
  <2>2. Asked(d, c) \subseteq {d.home[TaskIn[t]]}
    BY <2>1 DEF Asked, Subject
  <2> HIDE DEF c
  <2>3. Suits(d, back, d.home[TaskIn[t]], c)
    BY <2>1, <2>2 DEF Suits, Fresh, OnOwner
  <2> QED BY <2>3 DEF c
<1>2. Suits(d, back, d.home[TaskIn[t]], Call("add task", t))
  <2> DEFINE c == Call("add task", t)
  <2>1. c \in AllCalls /\ c.op = "add task" /\ c.on = t
    BY CallKinds DEF Call
  <2>2. Asked(d, c) \subseteq {d.home[TaskIn[t]]}
    BY <2>1 DEF Asked, Subject
  <2> HIDE DEF c
  <2>3. Suits(d, back, d.home[TaskIn[t]], c)
    BY <2>1, <2>2 DEF Suits, Fresh, OnOwner
  <2> QED BY <2>3 DEF c
<1> QED BY <1>1, <1>2

LEMMA Appends ==
  ASSUME NEW S, NEW s \in Seq(S), NEW a \in S, NEW b \in S
  PROVE  /\ s \o <<a>> = Append(s, a)
         /\ s \o << >> = s
         /\ s \o (<< >> \o <<b>>) = Append(s, b)
         /\ s \o (<<a>> \o <<b>>) = Append(Append(s, a), b)
<1>1. s \o <<a>> = Append(s, a) /\ s \o <<b>> = Append(s, b) /\ Append(s, a) \in Seq(S)
  OBVIOUS
<1>2. s \o << >> = s /\ << >> \o <<b>> = <<b>>
  <2>1. <<b>> \in Seq(S)
    OBVIOUS
  <2> QED BY <2>1, ConcatEmptySeq
<1>3. s \o (<<a>> \o <<b>>) = (s \o <<a>>) \o <<b>>
  <2>1. <<a>> \in Seq(S) /\ <<b>> \in Seq(S)
    OBVIOUS
  <2> QED BY <2>1, ConcatAssociative
<1>4. ASSUME NEW t, t = Append(s, a) PROVE t \o <<b>> = Append(t, b)
  <2>1. t \in Seq(S)
    BY <1>1, <1>4
  <2> QED BY <2>1
<1> QED BY <1>1, <1>2, <1>3, <1>4

LEMMA ActiveRuns ==
  ASSUME NEW d, Good(d), NEW w \in Workspaces
  PROVE  /\ Active(d, w) \in Phases \union {None}
         /\ Active(d, w) # None => Running(d, Active(d, w))
<1>1. d.pin[w] \in Phases \union {None}
  BY DEF Good, Tables
<1>2. CASE d.pin[w] # None
  BY <1>1, <1>2 DEF Active
<1>3. CASE d.pin[w] = None
  <2> DEFINE ps == {p \in Phases : Running(d, p)}
  <2>1. CASE Cardinality(ps) = 1
    <3>1. ps # {}
      BY <2>1, FS_EmptySet
    <3>2. \E p \in Phases : Running(d, p)
      BY <3>1
    <3>3. Active(d, w) = CHOOSE p \in Phases : Running(d, p)
      BY <1>3, <2>1 DEF Active
    <3> QED BY <3>2, <3>3
  <2>2. CASE Cardinality(ps) # 1
    BY <1>3, <2>2 DEF Active
  <2> QED BY <2>1, <2>2
<1> QED BY <1>2, <1>3

\* A claim, whatever else, and then the phase is started and pinned.
LEMMA Starts ==
  ASSUME NEW x, NEW back, NEW p \in Phases, NEW s, Goes(db, back, s), Claimed(s, p)
  PROVE  WellMade(db, back, s \o Starting(x, p))
<1> DEFINE a == Put("phase", p, "in-progress")
           b == Call("pin", p)
<1>1. /\ a \in AllCalls /\ b \in AllCalls /\ s \in Seq(AllCalls)
      /\ Suits(db, back, p, a) /\ Suits(db, back, p, b)
  <2>1. "in-progress" \in Existing
    BY DEF Existing, Open
  <2> QED BY <2>1, CallKinds, SuitsPhase, GoesIsSeq
<1>2. a.op \notin Enders /\ b.op \notin Enders
  BY DEF Put, Call, Enders
<1>3. CASE Running(db, p)
  <2>1. s \o Starting(x, p) = s \o (<< >> \o <<b>>)
    BY <1>3 DEF Starting
  <2> HIDE DEF a, b
  <2>2. s \o (<< >> \o <<b>>) = Append(s, b)
    BY <1>1, Appends
  <2>3. WellMade(db, back, Append(s, b))
    BY <1>1, Follow
  <2> QED BY <2>1, <2>2, <2>3
<1>4. CASE ~Running(db, p)
  <2>1. s \o Starting(x, p) = s \o (<<a>> \o <<b>>)
    BY <1>4 DEF Starting
  <2> HIDE DEF a, b
  <2>2. s \o (<<a>> \o <<b>>) = Append(Append(s, a), b)
    BY <1>1, Appends
  <2>3. Goes(db, back, Append(s, a)) /\ Claimed(Append(s, a), p)
    BY <1>1, <1>2, Follow
  <2>4. WellMade(db, back, Append(Append(s, a), b))
    BY <1>1, <2>3, Follow
  <2> QED BY <2>1, <2>2, <2>4
<1> QED BY <1>3, <1>4

\* What a command is: a list of calls, and how they are made.
Commanded(x, back, calls) ==
  /\ WellMade(db, back, calls)
  /\ \A p \in back : PlanUpdatePhase(x, p, "pending")
  /\ Loads(x)
  /\ OneByOne(x, calls) \/ InOne(x, calls)

LEMMA Executed ==
  ASSUME NEW x, NEW calls, WellMade(db, {}, calls), Execute(x, calls)
  PROVE  \E back, c : Commanded(x, back, c)
<1>1. Loads(x) /\ (OneByOne(x, calls) \/ InOne(x, calls))
  BY DEF Execute
<1>2. Commanded(x, {}, calls)
  BY <1>1 DEF Commanded
<1> QED BY <1>2

LEMMA PhaseCommands ==
  ASSUME NEW x \in Procs, Good(db), NEW p \in Phases
  PROVE  /\ \A take \in BOOLEAN : PhaseStart(x, p, take) => \E back, calls : Commanded(x, back, calls)
         /\ EpochStart(x, p) => \E back, calls : Commanded(x, back, calls)
         /\ PhaseFocus(x, p) => \E back, calls : Commanded(x, back, calls)
         /\ PhaseRelease(x, p) => \E back, calls : Commanded(x, back, calls)
         /\ \A e \in Epochs : PhaseAdd(x, p, e) => \E back, calls : Commanded(x, back, calls)
         /\ \A e \in Epochs : PhaseMove(x, p, e) => \E back, calls : Commanded(x, back, calls)
         /\ PhaseRemove(x, p) => \E back, calls : Commanded(x, back, calls)
         /\ Touch(x, p) => \E back, calls : Commanded(x, back, calls)
         /\ \A s \in Arguments : PlanUpdatePhase(x, p, s) => \E back, calls : Commanded(x, back, calls)
<1>1. ASSUME NEW take \in BOOLEAN, PhaseStart(x, p, take)
      PROVE  \E back, calls : Commanded(x, back, calls)
  <2> DEFINE a == Active(db, At[x])
             leaves == a \notin {None, p} /\ Mine(db, a, x)
             more == IF leaves THEN <<Shelve(a)>> ELSE << >>
             s == <<Claim(p, take)>> \o more
  <2>1. (leaves => MayLeave(a)) /\ Execute(x, s \o Starting(x, p))
    BY <1>1 DEF PhaseStart
  <2>2. a \in Phases \union {None}
    BY ActiveRuns, PlanningConstants
  <2>3. Goes(db, {}, <<Claim(p, take)>>) /\ Claimed(<<Claim(p, take)>>, p)
    BY Begun
  <2>4. Goes(db, {}, s) /\ Claimed(s, p)
    <3>1. <<Claim(p, take)>> \in Seq(AllCalls)
      BY <2>3, GoesIsSeq
    <3>2. CASE leaves
      <4>1. a \in Phases /\ ~Started(db, a)
        BY <2>1, <2>2, <3>2 DEF MayLeave
      <4> HIDE DEF a
      <4>2. Shelve(a) \in AllCalls /\ Suits(db, {}, p, Shelve(a))
        BY <4>1, CallKinds, SuitsPhase
      <4>3. Shelve(a).op \notin Enders
        BY DEF Shelve, Enders
      <4>4. s = Append(<<Claim(p, take)>>, Shelve(a))
        <5>1. s = <<Claim(p, take)>> \o <<Shelve(a)>>
          BY <3>2
        <5> QED BY <3>1, <4>2, <5>1, Appends
      <4> QED BY <2>3, <4>2, <4>3, <4>4, Follow
    <3>3. CASE ~leaves
      <4>1. s = <<Claim(p, take)>> \o << >>
        BY <3>3
      <4>2. s = <<Claim(p, take)>>
        BY <3>1, <4>1, ConcatEmptySeq
      <4> QED BY <2>3, <4>2
    <3> QED BY <3>2, <3>3
  <2> HIDE DEF s
  <2>5. WellMade(db, {}, s \o Starting(x, p))
    BY <2>4, Starts
  <2> QED BY <2>1, <2>5, Executed
<1>2. ASSUME EpochStart(x, p) PROVE \E back, calls : Commanded(x, back, calls)
  <2>1. Execute(x, <<Claim(p, FALSE)>> \o Starting(x, p))
    BY <1>2 DEF EpochStart
  <2>2. Goes(db, {}, <<Claim(p, FALSE)>>) /\ Claimed(<<Claim(p, FALSE)>>, p)
    BY Begun
  <2>3. WellMade(db, {}, <<Claim(p, FALSE)>> \o Starting(x, p))
    BY <2>2, Starts
  <2> QED BY <2>1, <2>3, Executed
<1>3. ASSUME NEW c \in {Call("pin", p), Release(p)}, Execute(x, <<c>>)
      PROVE  \E back, calls : Commanded(x, back, calls)
  <2>1. c \in AllCalls
    BY CallKinds
  <2>2. c.op \in {"pin", "release"} /\ (c.op = "release" => c.seen = Unread)
    <3>1. CASE c = Call("pin", p)
      BY <3>1 DEF Call
    <3>2. CASE c = Release(p)
      BY <3>2 DEF Release
    <3> QED BY <3>1, <3>2
  <2>3. Asked(db, c) = {} /\ Fresh(c) /\ c.op \notin {"demote", "shelve", "phase", "add phase"}
    BY <2>2 DEF Asked, Subject, Fresh, OnOwner
  <2>4. WellMade(db, {}, <<c>>)
    BY <2>1, <2>3, Single
  <2> QED BY <1>3, <2>4, Executed
<1>4. PhaseFocus(x, p) => \E back, calls : Commanded(x, back, calls)
  BY <1>3 DEF PhaseFocus
<1>5. PhaseRelease(x, p) => \E back, calls : Commanded(x, back, calls)
  BY <1>3 DEF PhaseRelease
<1>6. ASSUME NEW e \in Epochs, PhaseAdd(x, p, e) PROVE \E back, calls : Commanded(x, back, calls)
  <2> DEFINE c == Put("add phase", p, e)
  <2>1. db.phase[p] = "absent" /\ Execute(x, <<c>>)
    BY <1>6 DEF PhaseAdd
  <2>2. c \in AllCalls /\ c.op = "add phase" /\ c.on = p
    BY CallKinds DEF Put
  <2> HIDE DEF c
  <2>3. Asked(db, c) = {} /\ Fresh(c)
    BY <2>2 DEF Asked, Subject, Fresh, OnOwner
  <2>4. WellMade(db, {}, <<c>>)
    BY <2>1, <2>2, <2>3, Single
  <2> QED BY <2>1, <2>4, Executed
<1>10. ASSUME NEW e \in Epochs, PhaseMove(x, p, e) PROVE \E back, calls : Commanded(x, back, calls)
  <2>1. Execute(x, <<Ensure(p), Put("move phase", p, e)>>)
    BY <1>10 DEF PhaseMove
  <2>2. Suits(db, {}, p, Put("move phase", p, e))
    BY SuitsPhase
  <2>3. WellMade(db, {}, <<Ensure(p), Put("move phase", p, e)>>)
    BY <2>2, Lists
  <2> QED BY <2>1, <2>3, Executed
<1>7. ASSUME PhaseRemove(x, p) PROVE \E back, calls : Commanded(x, back, calls)
  <2>1. Execute(x, <<Ensure(p), Call("remove phase", p)>>)
    BY <1>7 DEF PhaseRemove
  <2>2. Suits(db, {}, p, Call("remove phase", p))
    BY SuitsPhase
  <2>3. WellMade(db, {}, <<Ensure(p), Call("remove phase", p)>>)
    BY <2>2, Lists
  <2> QED BY <2>1, <2>3, Executed
<1>8. ASSUME Touch(x, p) PROVE \E back, calls : Commanded(x, back, calls)
  <2>1. Execute(x, <<Ensure(p)>>)
    BY <1>8 DEF Touch
  <2>2. WellMade(db, {}, <<Ensure(p)>>)
    BY Begun DEF Goes
  <2> QED BY <2>1, <2>2, Executed
<1>9. ASSUME NEW s \in Arguments, PlanUpdatePhase(x, p, s)
      PROVE  \E back, calls : Commanded(x, back, calls)
  <2> DEFINE back == IF s = "pending" THEN {p} ELSE {}
             calls == <<Ensure(p), Put("phase", p, s)>>
  <2>1. Execute(x, calls)
    BY <1>9 DEF PlanUpdatePhase
  <2>2. Suits(db, back, p, Put("phase", p, s))
    BY SuitsPhase, PlanningConstants
  <2>3. WellMade(db, back, calls)
    BY <2>2, Lists
  <2>4. \A q \in back : PlanUpdatePhase(x, q, "pending")
    BY <1>9
  <2>5. Loads(x) /\ (OneByOne(x, calls) \/ InOne(x, calls))
    BY <2>1 DEF Execute
  <2>6. Commanded(x, back, calls)
    BY <2>3, <2>4, <2>5 DEF Commanded
  <2> QED BY <2>6
<1> QED BY <1>1, <1>2, <1>4, <1>5, <1>6, <1>7, <1>8, <1>9, <1>10

LEMMA PhaseFinishes ==
  ASSUME NEW x \in Procs, Good(db), PhaseFinish(x)
  PROVE  \E back, calls : Commanded(x, back, calls)
<1> DEFINE a == Active(db, At[x])
           calls == <<Ensure(a), Put("phase", a, "completed"), Call("clear", a)>>
<1>1. a # None /\ Loads(x) /\ OneByOne(x, calls)
  BY DEF PhaseFinish
<1>2. a \in Phases
  BY <1>1, ActiveRuns, PlanningConstants
<1>3. "completed" \in Existing
  BY DEF Existing, Closed
<1> HIDE DEF a
<1>4. Suits(db, {}, a, Put("phase", a, "completed")) /\ Suits(db, {}, a, Call("clear", a))
  BY <1>2, <1>3, SuitsPhase
<1>5. Put("phase", a, "completed").op \notin Enders
  BY DEF Put, Enders
<1>6. WellMade(db, {}, calls)
  BY <1>2, <1>4, <1>5, LongerLists
<1>7. Commanded(x, {}, calls)
  BY <1>1, <1>6 DEF Commanded
<1> QED BY <1>7

\* A set as a list holds every member of it.
LEMMA AllListed ==
  ASSUME NEW S, IsFiniteSet(S), NEW ps, ps = SetToSeq(S)
  PROVE  /\ ps \in Seq(S)
         /\ \A p \in S : \E i \in 1..Len(ps) : ps[i] = p
<1> DEFINE N == Cardinality(S)
<1>1. N \in Nat /\ Bijection(1..N, S) # {}
  BY FS_CardinalityType DEF ExistsBijection
<1> HIDE DEF N
<1>2. \E f \in [1..N -> S] : IsInjective(f)
  BY <1>1 DEF Bijection, Injection
<1>3. ps = CHOOSE f \in [1..N -> S] : IsInjective(f)
  BY Zenon DEF SetToSeq, N
<1>4. ps \in [1..N -> S] /\ IsInjective(ps)
  BY <1>2, <1>3
<1>5. ps \in Injection(1..N, S)
  BY <1>4 DEF Injection
<1>6. IsFiniteSet(1..N) /\ Cardinality(1..N) = N
  BY <1>1, FS_Interval
<1>7. ps \in Surjection(1..N, S)
  BY <1>5, <1>6, FS_Injection DEF N
<1>8. ps \in Seq(S) /\ Len(ps) = N
  BY <1>1, <1>4
<1> QED BY <1>7, <1>8 DEF Surjection

LEMMA EpochCommands ==
  ASSUME NEW x \in Procs, Good(db), NEW e \in Epochs
  PROVE  /\ EpochRemove(x, e) => \E back, calls : Commanded(x, back, calls)
         /\ EpochBankrupt(x, e) => \E back, calls : Commanded(x, back, calls)
<1>1. ASSUME NEW op \in {"remove epoch", "bankrupt"}
      PROVE  /\ Call(op, e) \in AllCalls /\ Call(op, e).op = op
             /\ Call(op, e).on = e /\ Fresh(Call(op, e))
  <2> DEFINE c == Call(op, e)
  <2>1. c \in AllCalls /\ c.op = op /\ c.on = e
    BY CallKinds DEF Call
  <2> HIDE DEF c
  <2>2. Fresh(c)
    BY <2>1 DEF Fresh, OnOwner
  <2> QED BY <2>1, <2>2 DEF c
<1>2. ASSUME EpochRemove(x, e) PROVE \E back, calls : Commanded(x, back, calls)
  <2> DEFINE c == Call("remove epoch", e)
  <2>1. Execute(x, <<c>>)
    BY <1>2 DEF EpochRemove
  <2>2. c \in AllCalls /\ c.op = "remove epoch" /\ Fresh(c)
    BY <1>1
  <2> HIDE DEF c
  <2>3. Asked(db, c) = {}
    BY <2>2 DEF Asked
  <2>4. WellMade(db, {}, <<c>>)
    BY <2>2, <2>3, Single
  <2> QED BY <2>1, <2>4, Executed
<1>3. ASSUME EpochBankrupt(x, e) PROVE \E back, calls : Commanded(x, back, calls)
  <2> DEFINE S  == PhasesOf(db, e)
             ps == SetToSeq(S)
             s  == [i \in DOMAIN ps |-> Ensure(ps[i])]
             c  == Call("bankrupt", e)
  <2>1. Execute(x, s \o <<c>>)
    BY <1>3 DEF EpochBankrupt
  <2>2. c \in AllCalls /\ c.op = "bankrupt" /\ c.on = e /\ Fresh(c)
    BY <1>1
  <2>3. S \subseteq Phases /\ IsFiniteSet(S)
    <3>1. S \subseteq Phases /\ IsFiniteSet(Phases)
      BY PlanningConstants DEF PhasesOf
    <3> QED BY <3>1, FS_Subset
  <2>4. ps \in Seq(Phases) /\ \A p \in S : \E i \in 1..Len(ps) : ps[i] = p
    <3>1. ps \in Seq(S) /\ \A p \in S : \E i \in 1..Len(ps) : ps[i] = p
      <4> HIDE DEF S
      <4> QED BY <2>3, AllListed
    <3> HIDE DEF ps, S
    <3> QED BY <2>3, <3>1
  <2> HIDE DEF ps, S
  <2>5. /\ s \in Seq(AllCalls) /\ Len(s) = Len(ps) /\ Len(s) \in Nat
        /\ \A i \in 1..Len(s) : ps[i] \in Phases /\ s[i] = Ensure(ps[i])
    <3>1. \A i \in DOMAIN ps : ps[i] \in Phases /\ Ensure(ps[i]) \in AllCalls
      <4>1. \A p \in Phases : Ensure(p) \in AllCalls
        <5> TAKE p \in Phases
        <5> QED BY Claimant
      <4>2. \A i \in DOMAIN ps : ps[i] \in Phases
        BY <2>4
      <4> QED BY <4>1, <4>2
    <3>2. Len(ps) \in Nat /\ DOMAIN ps = 1..Len(ps)
      BY <2>4
    <3>3. s \in [1..Len(ps) -> AllCalls]
      BY <3>1, <3>2
    <3>4. \A i \in 1..Len(ps) : s[i] = Ensure(ps[i]) /\ ps[i] \in Phases
      BY <3>1, <3>2
    <3> HIDE DEF s
    <3>5. s \in Seq(AllCalls) /\ Len(s) = Len(ps)
      BY <3>2, <3>3
    <3> QED BY <3>2, <3>4, <3>5
  <2> HIDE DEF s, c
  <2>6. \A i \in 1..Len(s) : s[i].op = "ensure" /\ s[i].on = ps[i] /\ s[i].seen = Unread
    <3>1. \A p : Ensure(p).op = "ensure" /\ Ensure(p).on = p /\ Ensure(p).seen = Unread
      BY DEF Ensure
    <3> SUFFICES ASSUME NEW i \in 1..Len(s)
                 PROVE  s[i].op = "ensure" /\ s[i].on = ps[i] /\ s[i].seen = Unread
      OBVIOUS
    <3>2. s[i] = Ensure(ps[i])
      BY <2>5
    <3> QED BY <3>1, <3>2
  <2>7. \A i \in 1..Len(s) : Sound(db, {}, s, i, s[i]) /\ s[i].op \notin Enders
    <3> TAKE i \in 1..Len(s)
    <3>1. Asked(db, s[i]) = {} /\ Fresh(s[i])
      BY <2>6 DEF Asked, Subject, Fresh
    <3> QED BY <2>6, <3>1 DEF Sound, Enders
  <2>8. Goes(db, {}, s)
    BY <2>5, <2>7 DEF Goes, WellMade
  <2>9. Asked(db, c) = S
    BY <2>2 DEF Asked, Subject, S
  <2>10. \A p \in S : Covered(s, Len(s) + 1, p)
    BY <2>4, <2>5, <2>6 DEF Covered
  <2>11. Sound(db, {}, s, Len(s) + 1, c)
    BY <2>2, <2>9, <2>10 DEF Sound
  <2>12. WellMade(db, {}, Append(s, c))
    BY <2>2, <2>8, <2>11, Grows
  <2>13. s \o <<c>> = Append(s, c)
    BY <2>2, <2>5, Appends
  <2> QED BY <2>1, <2>12, <2>13, Executed
<1> QED BY <1>2, <1>3

\* A claim, then one call more for the phase.
LEMMA PairCommanded ==
  ASSUME NEW x, NEW p \in Phases, NEW c, Suits(db, {}, p, c), Execute(x, <<Ensure(p), c>>)
  PROVE  \E back, calls : Commanded(x, back, calls)
<1>1. WellMade(db, {}, <<Ensure(p), c>>)
  BY Lists
<1> QED BY <1>1, Executed

LEMMA LaneCommands ==
  ASSUME NEW x \in Procs, Good(db), NEW l \in Lanes
  PROVE  /\ LaneCreate(x, l) => \E back, calls : Commanded(x, back, calls)
         /\ LaneFocus(x, l) => \E back, calls : Commanded(x, back, calls)
         /\ LaneStart(x, l) => \E back, calls : Commanded(x, back, calls)
         /\ LaneRemove(x, l) => \E back, calls : Commanded(x, back, calls)
<1>1. LaneIn[l] \in Phases
  BY PlanningConstants
<1>2. ASSUME NEW op \in {"add lane", "start lane", "remove lane"},
             Execute(x, <<Ensure(LaneIn[l]), Call(op, l)>>)
      PROVE  \E back, calls : Commanded(x, back, calls)
  <2>1. Suits(db, {}, LaneIn[l], Call(op, l))
    BY SuitsLane
  <2> QED BY <1>1, <1>2, <2>1, PairCommanded
<1>3. ASSUME LaneFocus(x, l) PROVE \E back, calls : Commanded(x, back, calls)
  <2> DEFINE c == Call("focus lane", l)
  <2>1. Execute(x, <<c>>)
    BY <1>3 DEF LaneFocus
  <2>2. c \in AllCalls /\ c.op = "focus lane"
    BY CallKinds DEF Call
  <2> HIDE DEF c
  <2>3. Asked(db, c) = {} /\ Fresh(c)
    BY <2>2 DEF Asked, Subject, Fresh, OnOwner
  <2>4. WellMade(db, {}, <<c>>)
    BY <2>2, <2>3, Single
  <2> QED BY <2>1, <2>4, Executed
<1> QED BY <1>2, <1>3 DEF LaneCreate, LaneStart, LaneRemove

LEMMA HomeIsPhase ==
  ASSUME NEW d, Good(d), NEW g \in Goals, d.goal[g] # "absent"
  PROVE  d.home[g] \in Phases
BY DEF Good, Linked

\* A goal is counted, completed and logged.
LEMMA CompletingCommanded ==
  ASSUME NEW x, Good(db), NEW g \in Goals, db.goal[g] # "absent", Execute(x, Completing(g))
  PROVE  \E back, calls : Commanded(x, back, calls)
<1> DEFINE p == db.home[g]
           b == Call("count", g)
           c == Put("goal", g, "completed")
           e == Call("log goal", g)
<1>1. Execute(x, <<Ensure(p), b, c, e>>)
  BY DEF Completing
<1>2. p \in Phases
  BY HomeIsPhase
<1>3. "completed" \in Existing
  BY DEF Existing, Closed
<1>4. Suits(db, {}, p, b) /\ Suits(db, {}, p, c) /\ Suits(db, {}, p, e)
  BY <1>3, SuitsGoal
<1>5. b.op \notin Enders /\ c.op \notin Enders
  BY DEF Call, Put, Enders
<1> HIDE DEF p, b, c, e
<1>6. WellMade(db, {}, <<Ensure(p), b, c, e>>)
  BY <1>2, <1>4, <1>5, LongestLists
<1> QED BY <1>1, <1>6, Executed

\* A goal's status is set and logged.
LEMMA ClosingCommanded ==
  ASSUME NEW x, Good(db), NEW g \in Goals, db.goal[g] # "absent", NEW s \in Existing,
         Execute(x, <<Ensure(db.home[g]), Put("goal", g, s), Call("log goal", g)>>)
  PROVE  \E back, calls : Commanded(x, back, calls)
<1> DEFINE p == db.home[g]
           b == Put("goal", g, s)
           c == Call("log goal", g)
<1>1. Execute(x, <<Ensure(p), b, c>>)
  OBVIOUS
<1>2. p \in Phases
  BY HomeIsPhase
<1>3. Suits(db, {}, p, b) /\ Suits(db, {}, p, c)
  BY SuitsGoal
<1>4. b.op \notin Enders
  BY DEF Put, Enders
<1> HIDE DEF p, b, c
<1>5. WellMade(db, {}, <<Ensure(p), b, c>>)
  BY <1>2, <1>3, <1>4, LongerLists
<1> QED BY <1>1, <1>5, Executed

LEMMA GoalCommands ==
  ASSUME NEW x \in Procs, Good(db), NEW g \in Goals
  PROVE  /\ \A p \in Phases : GoalAdd(x, g, p) => \E back, calls : Commanded(x, back, calls)
         /\ \A p \in Phases : GoalMove(x, g, p) => \E back, calls : Commanded(x, back, calls)
         /\ \A s \in {"completed", "abandoned"} :
              StrikeEnd(x, g, s) => \E back, calls : Commanded(x, back, calls)
         /\ \A s \in Arguments : PlanUpdateGoal(x, g, s) => \E back, calls : Commanded(x, back, calls)
         /\ StrikeStart(x, g) => \E back, calls : Commanded(x, back, calls)
         /\ GoalRemove(x, g) => \E back, calls : Commanded(x, back, calls)
         /\ GoalComplete(x, g) => \E back, calls : Commanded(x, back, calls)
         /\ GoalTaskComplete(x, g) => \E back, calls : Commanded(x, back, calls)
         /\ GoalAbandon(x, g) => \E back, calls : Commanded(x, back, calls)
<1>0. {"completed", "abandoned"} \subseteq Existing
  BY DEF Existing, Closed
<1>1. ASSUME NEW p \in Phases, GoalAdd(x, g, p) PROVE \E back, calls : Commanded(x, back, calls)
  <2>1. Execute(x, <<Ensure(p), Put("add goal", g, p)>>)
    BY <1>1 DEF GoalAdd
  <2>2. Suits(db, {}, p, Put("add goal", g, p))
    BY SuitsGoal
  <2> QED BY <2>1, <2>2, PairCommanded
<1>2. ASSUME NEW p \in Phases, GoalMove(x, g, p) PROVE \E back, calls : Commanded(x, back, calls)
  <2> DEFINE q == db.home[g]
             a == Ensure(q)
             b == Ensure(p)
             c == Put("move goal", g, p)
             s == <<a, b>>
  <2>1. db.goal[g] # "absent" /\ Execute(x, <<a, b, c>>)
    BY <1>2 DEF GoalMove
  <2>2. q \in Phases
    BY <2>1, HomeIsPhase
  <2>3. c \in AllCalls /\ c.op = "move goal" /\ c.on = g /\ c.to = p
    BY CallKinds DEF Put
  <2>4. Asked(db, c) \subseteq {p, q}
    BY <2>3 DEF Asked, Subject
  <2>5. a \in AllCalls /\ b \in AllCalls
    BY <2>2, CallKinds
  <2>6. /\ a.op = "ensure" /\ a.on = q
        /\ b.op = "ensure" /\ b.on = p
    BY DEF Ensure
  <2>7. Suits(db, {}, q, b) /\ b.op \notin Enders
    BY <2>2, <2>6, SuitsPhase DEF Enders
  <2>8. Goes(db, {}, s)
    <3> HIDE DEF q, b
    <3> QED BY <2>2, <2>7, Lists
  <2> HIDE DEF q, a, b, c
  <2>9. s[1] = a /\ s[2] = b /\ Len(s) = 2
    BY <2>5
  <2>10. Fresh(c)
    BY <2>3 DEF Fresh, OnOwner
  <2> HIDE DEF s
  <2>11. Covered(s, Len(s) + 1, p) /\ Covered(s, Len(s) + 1, q)
    BY <2>6, <2>9 DEF Covered
  <2>12. Sound(db, {}, s, Len(s) + 1, c)
    BY <2>3, <2>4, <2>10, <2>11 DEF Sound
  <2>13. WellMade(db, {}, Append(s, c))
    BY <2>3, <2>8, <2>12, Grows
  <2>14. <<a, b, c>> = Append(s, c)
    <3>1. <<a, b, c>> = Append(<<a, b>>, c)
      <4>1. a \in AllCalls /\ b \in AllCalls /\ c \in AllCalls
        BY <2>3, <2>5
      <4> QED BY <4>1, Listed
    <3> QED BY <3>1 DEF s
  <2> QED BY <2>1, <2>13, <2>14, Executed
<1>3. ASSUME NEW s \in {"completed", "abandoned"}, StrikeEnd(x, g, s)
      PROVE  \E back, calls : Commanded(x, back, calls)
  <2> DEFINE p == db.home[g]
             a == Ensure(p)
             b == Put("goal", g, s)
             c == Call("log goal", g)
  <2>1. /\ db.goal[g] # "absent"
        /\ Execute(x, <<a, b>> \o (IF s = "completed" THEN <<c>> ELSE << >>))
    BY <1>3 DEF StrikeEnd
  <2>2. p \in Phases /\ s \in Existing
    BY <1>0, <2>1, HomeIsPhase
  <2>3. a \in AllCalls /\ b \in AllCalls /\ c \in AllCalls
    <3>1. a \in AllCalls
      <4> HIDE DEF p
      <4> QED BY <2>2, Claimant
    <3>2. b \in AllCalls /\ c \in AllCalls
      BY <2>2, CallKinds
    <3> HIDE DEF a, b, c
    <3> QED BY <3>1, <3>2
  <2>4. Suits(db, {}, p, b)
    BY <2>2, SuitsGoal
  <2>5. <<a, b>> \in Seq(AllCalls)
    <3> HIDE DEF a, b, c
    <3> QED BY <2>3
  <2>6. CASE s = "completed"
    <3>1. <<a, b>> \o <<c>> = <<a, b, c>>
      <4> HIDE DEF a, b, c
      <4>1. <<a, b>> \o <<c>> = Append(<<a, b>>, c)
        BY <2>3, <2>5, Appends
      <4>2. <<a, b, c>> = Append(<<a, b>>, c)
        BY <2>3, Listed
      <4> QED BY <4>1, <4>2
    <3>2. Execute(x, <<a, b, c>>)
      BY <2>1, <2>6, <3>1
    <3> QED BY <2>1, <2>2, <3>2, ClosingCommanded
  <2>7. CASE s # "completed"
    <3>1. <<a, b>> \o << >> = <<a, b>>
      <4> HIDE DEF a, b
      <4> QED BY <2>5, ConcatEmptySeq
    <3>2. Execute(x, <<a, b>>)
      BY <2>1, <2>7, <3>1
    <3> QED BY <2>2, <2>4, <3>2, PairCommanded
  <2> QED BY <2>6, <2>7
<1>4. ASSUME NEW s \in Arguments, PlanUpdateGoal(x, g, s)
      PROVE  \E back, calls : Commanded(x, back, calls)
  <2>1. db.goal[g] # "absent" /\ Execute(x, <<Ensure(db.home[g]), Put("goal", g, s)>>)
    BY <1>4 DEF PlanUpdateGoal
  <2>2. db.home[g] \in Phases /\ s \in Existing
    BY <2>1, HomeIsPhase, PlanningConstants
  <2>3. Suits(db, {}, db.home[g], Put("goal", g, s))
    BY <2>2, SuitsGoal
  <2> QED BY <2>1, <2>2, <2>3, PairCommanded
<1>5. ASSUME StrikeStart(x, g) PROVE \E back, calls : Commanded(x, back, calls)
  <2> DEFINE a == Active(db, At[x])
  <2>1. a # None /\ Execute(x, <<Ensure(a), Put("add strike", g, a)>>)
    BY <1>5 DEF StrikeStart
  <2>2. a \in Phases
    BY <2>1, ActiveRuns, PlanningConstants
  <2> HIDE DEF a
  <2>3. Suits(db, {}, a, Put("add strike", g, a))
    BY <2>2, SuitsGoal
  <2> QED BY <2>1, <2>2, <2>3, PairCommanded
<1>6. ASSUME GoalRemove(x, g) PROVE \E back, calls : Commanded(x, back, calls)
  <2>1. db.goal[g] # "absent" /\ Execute(x, <<Ensure(db.home[g]), Call("remove goal", g)>>)
    BY <1>6 DEF GoalRemove
  <2>2. db.home[g] \in Phases
    BY <2>1, HomeIsPhase
  <2>3. Suits(db, {}, db.home[g], Call("remove goal", g))
    BY SuitsGoal
  <2> QED BY <2>1, <2>2, <2>3, PairCommanded
<1>7. ASSUME GoalComplete(x, g) \/ GoalTaskComplete(x, g)
      PROVE  \E back, calls : Commanded(x, back, calls)
  <2>1. db.goal[g] # "absent" /\ Execute(x, Completing(g))
    BY <1>7 DEF GoalComplete, GoalTaskComplete, Open
  <2> QED BY <2>1, CompletingCommanded
<1>8. ASSUME GoalAbandon(x, g) PROVE \E back, calls : Commanded(x, back, calls)
  <2>1. /\ db.goal[g] # "absent"
        /\ Execute(x, <<Ensure(db.home[g]), Put("goal", g, "abandoned"), Call("log goal", g)>>)
    BY <1>8 DEF GoalAbandon
  <2> QED BY <1>0, <2>1, ClosingCommanded
<1> QED BY <1>1, <1>2, <1>3, <1>4, <1>5, <1>6, <1>7, <1>8

LEMMA TaskCommands ==
  ASSUME NEW x \in Procs, Good(db), NEW t \in Tasks
  PROVE  /\ \A named \in BOOLEAN : TaskAdd(x, t, named) => \E back, calls : Commanded(x, back, calls)
         /\ \A s \in {"logged", "in-progress", "completed", "absent"} :
              TaskCommand(x, t, s) => \E back, calls : Commanded(x, back, calls)
<1> DEFINE p == db.home[TaskIn[t]]
<1>1. TaskIn[t] \in Goals
  BY PlanningConstants
<1>2. ASSUME NEW named \in BOOLEAN, TaskAdd(x, t, named)
      PROVE  \E back, calls : Commanded(x, back, calls)
  <2>1. db.goal[TaskIn[t]] # "absent" /\ Execute(x, <<Ensure(p), Call("add task", t)>>)
    BY <1>2 DEF TaskAdd
  <2>2. p \in Phases
    BY <1>1, <2>1, HomeIsPhase
  <2>3. Suits(db, {}, p, Call("add task", t))
    BY SuitsTask
  <2> HIDE DEF p
  <2> QED BY <2>1, <2>2, <2>3, PairCommanded
<1>3. ASSUME NEW s \in {"logged", "in-progress", "completed", "absent"}, TaskCommand(x, t, s)
      PROVE  \E back, calls : Commanded(x, back, calls)
  <2> DEFINE to == IF s = "logged" /\ db.task[t] # "pending" THEN db.task[t] ELSE s
  <2>1. db.task[t] # "absent" /\ Execute(x, <<Ensure(p), Put("task", t, to)>>)
    BY <1>3 DEF TaskCommand
  <2>2. p \in Phases
    BY <1>1, <2>1, HomeIsPhase DEF Good, Linked
  <2>3. to \in {"absent", "logged", "in-progress", "completed"}
    BY DEF Good, Tables
  <2> HIDE DEF to
  <2>4. Suits(db, {}, p, Put("task", t, to))
    BY <2>3, SuitsTask
  <2> HIDE DEF p
  <2> QED BY <2>1, <2>2, <2>4, PairCommanded
<1> QED BY <1>2, <1>3

\* Every command is a list of calls that is well made.
LEMMA EveryCommand ==
  ASSUME NEW x \in Procs, Good(db), Commands(x)
  PROVE  \E back, calls : Commanded(x, back, calls)
<1>1. CASE \E p \in Phases :
             \/ \E take \in BOOLEAN : PhaseStart(x, p, take)
             \/ EpochStart(x, p) \/ PhaseFocus(x, p) \/ PhaseRelease(x, p)
             \/ PhaseRemove(x, p) \/ Touch(x, p)
             \/ \E e \in Epochs : PhaseAdd(x, p, e) \/ PhaseMove(x, p, e)
             \/ \E s \in Arguments : PlanUpdatePhase(x, p, s)
  BY <1>1, PhaseCommands
<1>2. CASE PhaseFinish(x)
  BY <1>2, PhaseFinishes
<1>3. CASE \E e \in Epochs : EpochRemove(x, e) \/ EpochBankrupt(x, e)
  BY <1>3, EpochCommands
<1>4. CASE \E l \in Lanes :
             LaneCreate(x, l) \/ LaneFocus(x, l) \/ LaneStart(x, l) \/ LaneRemove(x, l)
  BY <1>4, LaneCommands
<1>5. CASE \E g \in Goals :
             \/ \E p \in Phases : GoalAdd(x, g, p) \/ GoalMove(x, g, p)
             \/ \E s \in {"completed", "abandoned"} : StrikeEnd(x, g, s)
             \/ \E s \in Arguments : PlanUpdateGoal(x, g, s)
             \/ StrikeStart(x, g) \/ GoalRemove(x, g) \/ GoalComplete(x, g)
             \/ GoalTaskComplete(x, g) \/ GoalAbandon(x, g)
  BY <1>5, GoalCommands
<1>6. CASE \E t \in Tasks :
             \/ \E named \in BOOLEAN : TaskAdd(x, t, named)
             \/ \E s \in {"logged", "in-progress", "completed", "absent"} : TaskCommand(x, t, s)
  BY <1>6, TaskCommands
<1> QED BY <1>1, <1>2, <1>3, <1>4, <1>5, <1>6 DEF Commands

(***************************************************************************)
(* What a process that has calls left relies on.                           *)
(***************************************************************************)
SeenOK(x, c) ==
  c.op \in OnOwner => \/ c.seen \in {Unread, None, Me(x)}
                      \/ c.op = "claim" /\ c.take
                      \/ c.op = "release"

\* Calls s of process x, on tables d, when others have changed the phases m:
\* the owners it has read are no one else's unless it takes over, the phases
\* it goes on to change are its own or will be claimed before.
Carries(x, d, m, s) ==
  /\ s \in Seq(AllCalls)
  /\ \A i \in 1..Len(s) : SeenOK(x, s[i])
  /\ \A i \in 1..Len(s) : \A p \in Asked(d, s[i]) :
       p \in m \/ d.owner[p] = Me(x) \/ Covered(s, i, p)
  /\ \A i \in 1..(Len(s) - 1) : s[i].op \notin Enders

\* The inductive invariant.
PlanInv ==
  /\ Good(db)
  /\ moved \in [Procs -> SUBSET Phases]
  /\ loaded \in 0..MaxCommands
  /\ DOMAIN todo = Procs
  /\ \A x \in Procs : Carries(x, db, moved[x], todo[x])

LEMMA CarriesNone ==
  ASSUME NEW x, NEW d, NEW m
  PROVE  Carries(x, d, m, << >>)
BY DEF Carries

LEMMA CarriesCommand ==
  ASSUME NEW x, NEW d, NEW back, NEW m, NEW s, WellMade(d, back, s)
  PROVE  Carries(x, d, m, s)
<1>1. /\ s \in Seq(AllCalls)
      /\ \A i \in 1..Len(s) : Fresh(s[i]) /\ \A p \in Asked(d, s[i]) : Covered(s, i, p)
      /\ \A i \in 1..(Len(s) - 1) : s[i].op \notin Enders
  BY DEF WellMade, Sound
<1>2. \A i \in 1..Len(s) : SeenOK(x, s[i])
  BY <1>1 DEF Fresh, SeenOK
<1> QED BY <1>1, <1>2 DEF Carries

LEMMA SubjectStays ==
  ASSUME NEW d, NEW e, e.home = d.home, e.epoch = d.epoch, NEW c
  PROVE  Asked(e, c) = Asked(d, c)
BY DEF Asked, Subject, PhasesOf

\* What a call is about.
Shape(c) ==
  /\ c.op \in OnOwner => c \in OwnerCalls /\ c.on \in Phases
  /\ c.op \in {"phase", "demote", "remove phase", "move phase"} => c.on \in Phases
  /\ c.op \in {"bankrupt", "remove epoch"} => c.on \in Epochs
  /\ c.op \in {"start lane", "remove lane", "add lane"} => c.on \in Lanes
  /\ c.op \in {"add goal", "add strike", "move goal"} => c.on \in Goals /\ c.to \in Phases
  /\ c.op \in {"goal", "remove goal", "log goal"} => c.on \in Goals
  /\ c.op \in {"task", "add task"} => c.on \in Tasks

LEMMA CallShape ==
  ASSUME NEW c \in AllCalls
  PROVE  Shape(c)
<1>1. ASSUME c \in OwnerCalls PROVE Shape(c)
  BY <1>1 DEF Shape, OwnerCalls, OnOwner
<1>2. ASSUME c \in PhasePuts PROVE Shape(c)
  BY <1>2 DEF Shape, PhasePuts, OnOwner
<1>3. ASSUME c \in PhaseCalls PROVE Shape(c)
  BY <1>3 DEF Shape, PhaseCalls, OnOwner
<1>4. ASSUME c \in EpochCalls PROVE Shape(c)
  BY <1>4 DEF Shape, EpochCalls, OnOwner
<1>5. ASSUME c \in LaneCalls PROVE Shape(c)
  BY <1>5 DEF Shape, LaneCalls, OnOwner
<1>6. ASSUME c \in GoalHomes PROVE Shape(c)
  BY <1>6 DEF Shape, GoalHomes, OnOwner
<1>7. ASSUME c \in GoalPuts PROVE Shape(c)
  BY <1>7 DEF Shape, GoalPuts, OnOwner
<1>8. ASSUME c \in GoalCalls PROVE Shape(c)
  BY <1>8 DEF Shape, GoalCalls, OnOwner
<1>9. ASSUME c \in TaskPuts PROVE Shape(c)
  BY <1>9 DEF Shape, TaskPuts, OnOwner
<1>10. ASSUME c \in TaskCalls PROVE Shape(c)
  BY <1>10 DEF Shape, TaskCalls, OnOwner
<1>11. ASSUME c \in PhaseHomes PROVE Shape(c)
  BY <1>11 DEF Shape, PhaseHomes, OnOwner
<1> QED BY <1>1, <1>2, <1>3, <1>4, <1>5, <1>6, <1>7, <1>8, <1>9, <1>10, <1>11 DEF AllCalls

LEMMA EnderIsLast ==
  ASSUME NEW x, NEW d, NEW m, NEW s, Carries(x, d, m, s), s # << >>, s[1].op \in Enders
  PROVE  Tail(s) = << >>
<1>1. s \in Seq(AllCalls) /\ \A i \in 1..(Len(s) - 1) : s[i].op \notin Enders
  BY DEF Carries
<1>2. Len(s) = 1
  <2>1. Len(s) \in Nat \ {0}
    BY <1>1, EmptySeq
  <2>2. ~(1 \in 1..(Len(s) - 1))
    BY <1>1
  <2>3. \A n \in Nat \ {0} : 1 \in 1..(n - 1) \/ n = 1
    OBVIOUS
  <2> QED BY <2>1, <2>2, <2>3, Zenon
<1>3. Tail(s) \in Seq(AllCalls) /\ Len(Tail(s)) = 0
  <2>1. Tail(s) \in Seq(AllCalls) /\ Len(Tail(s)) = Len(s) - 1
    BY <1>1, HeadTailProperties
  <2> QED BY <1>2, <2>1
<1>4. Tail(s) # << >> => Len(Tail(s)) # 0
  BY <1>3, EmptySeq
<1> QED BY <1>3, <1>4

\* The owners in tables e are those in d, or the process is.
Retains(x, d, e) ==
  /\ e.home = d.home /\ e.epoch = d.epoch
  /\ \A p \in Phases : e.owner[p] \in {d.owner[p], Me(x)}

LEMMA SubjectTyped ==
  ASSUME NEW d, Good(d), NEW c \in AllCalls
  PROVE  Asked(d, c) \subseteq Phases
<1>1. Shape(c)
  BY CallShape
<1>2. /\ \A l \in Lanes : LaneIn[l] \in Phases
      /\ \A g \in Goals : d.home[g] \in Phases \union {None}
      /\ \A t \in Tasks : d.home[TaskIn[t]] \in Phases \union {None}
  BY PlanningConstants DEF Good, Tables
<1> QED BY <1>1, <1>2 DEF Shape, Asked, Subject, PhasesOf

\* A call is made that has others after it.
LEMMA CarriesOn ==
  ASSUME NEW x \in Procs, NEW d, Good(d), NEW e, Good(e), NEW m, NEW s, Carries(x, d, m, s),
         s # << >>, Retains(x, d, e),
         s[1].op \in {"claim", "ensure"} => e.owner[s[1].on] = Me(x)
  PROVE  Carries(x, e, m, Tail(s))
<1> DEFINE t == Tail(s)
<1>1. /\ s \in Seq(AllCalls) /\ Len(s) \in Nat \ {0}
      /\ \A i \in 1..Len(s) : s[i] \in AllCalls /\ SeenOK(x, s[i])
      /\ \A i \in 1..Len(s) : \A p \in Asked(d, s[i]) :
           p \in m \/ d.owner[p] = Me(x) \/ Covered(s, i, p)
      /\ \A i \in 1..(Len(s) - 1) : s[i].op \notin Enders
  BY DEF Carries
<1>2. /\ t \in Seq(AllCalls) /\ Len(t) = Len(s) - 1
      /\ \A i \in 1..Len(t) : t[i] = s[i + 1]
  BY <1>1
<1> HIDE DEF t
<1>3. ASSUME NEW i \in 1..Len(t), NEW p \in Asked(e, t[i])
      PROVE  p \in m \/ e.owner[p] = Me(x) \/ Covered(t, i, p)
  <2>1. i + 1 \in 1..Len(s) /\ t[i] = s[i + 1]
    BY <1>1, <1>2
  <2>2. p \in Asked(d, s[i + 1])
    BY <2>1, SubjectStays DEF Retains
  <2>3. p \in Phases
    BY <1>1, <2>1, <2>2, SubjectTyped
  <2>4. CASE p \in m \/ d.owner[p] = Me(x)
    BY <2>3, <2>4 DEF Retains
  <2>5. CASE Covered(s, i + 1, p)
    <3>1. PICK j \in 1..i : s[j].op \in {"claim", "ensure"} /\ s[j].on = p
      BY <1>1, <1>2, <2>5 DEF Covered
    <3>2. CASE j = 1
      BY <3>1, <3>2
    <3>3. CASE j # 1
      <4>1. j - 1 \in 1..(i - 1) /\ j - 1 \in 1..Len(t) /\ t[j - 1] = s[j]
        BY <1>1, <1>2, <3>1, <3>3
      <4>2. Covered(t, i, p)
        BY <3>1, <4>1 DEF Covered
      <4> QED BY <4>2
    <3> QED BY <3>2, <3>3
  <2> QED BY <1>1, <2>1, <2>2, <2>4, <2>5
<1>4. \A i \in 1..Len(t) : SeenOK(x, t[i])
  BY <1>1, <1>2
<1>5. \A i \in 1..(Len(t) - 1) : t[i].op \notin Enders
  BY <1>1, <1>2
<1>6. Carries(x, e, m, t)
  BY <1>2, <1>3, <1>4, <1>5 DEF Carries
<1> QED BY <1>6 DEF t

\* One call more in front of the rest.
LEMMA CarriesMore ==
  ASSUME NEW x, NEW d, NEW m, NEW t, Carries(x, d, m, t), NEW c \in AllCalls, SeenOK(x, c),
         \A p \in Asked(d, c) : p \in m \/ d.owner[p] = Me(x), c.op \notin Enders
  PROVE  Carries(x, d, m, <<c>> \o t)
<1> SUFFICES ASSUME NEW s, s = <<c>> \o t PROVE Carries(x, d, m, s)
  OBVIOUS
<1>1. /\ t \in Seq(AllCalls) /\ Len(t) \in Nat
      /\ \A i \in 1..Len(t) : SeenOK(x, t[i])
      /\ \A i \in 1..Len(t) : \A p \in Asked(d, t[i]) :
           p \in m \/ d.owner[p] = Me(x) \/ Covered(t, i, p)
      /\ \A i \in 1..(Len(t) - 1) : t[i].op \notin Enders
  BY DEF Carries
<1>2. /\ s \in Seq(AllCalls) /\ Len(s) = Len(t) + 1 /\ s[1] = c
      /\ \A i \in 1..Len(t) : s[i + 1] = t[i]
  BY <1>1
<1>3. \A i \in 2..Len(s) : i - 1 \in 1..Len(t) /\ s[i] = t[i - 1]
  BY <1>1, <1>2
<1>4. ASSUME NEW i \in 1..Len(s), NEW p \in Asked(d, s[i])
      PROVE  p \in m \/ d.owner[p] = Me(x) \/ Covered(s, i, p)
  <2>1. CASE i = 1
    BY <1>2, <1>4, <2>1
  <2>2. CASE i \in 2..Len(s)
    <3>1. i - 1 \in 1..Len(t) /\ s[i] = t[i - 1]
      BY <1>3, <2>2
    <3>2. p \in m \/ d.owner[p] = Me(x) \/ Covered(t, i - 1, p)
      BY <1>1, <1>4, <3>1
    <3>3. ASSUME Covered(t, i - 1, p) PROVE Covered(s, i, p)
      <4>1. PICK j \in 1..((i - 1) - 1) : t[j].op \in {"claim", "ensure"} /\ t[j].on = p
        BY <3>3 DEF Covered
      <4>2. j + 1 \in 1..(i - 1) /\ s[j + 1] = t[j]
        BY <1>1, <1>2, <2>2, <4>1
      <4> QED BY <4>1, <4>2 DEF Covered
    <3> QED BY <3>2, <3>3
  <2> QED BY <1>1, <1>2, <2>1, <2>2
<1>5. \A i \in 1..Len(s) : SeenOK(x, s[i])
  <2> TAKE i \in 1..Len(s)
  <2>1. i = 1 \/ i \in 2..Len(s)
    BY <1>1, <1>2
  <2> QED BY <1>1, <1>2, <1>3, <2>1
<1>6. \A i \in 1..(Len(s) - 1) : s[i].op \notin Enders
  <2> TAKE i \in 1..(Len(s) - 1)
  <2>1. CASE i = 1
    BY <1>2, <2>1
  <2>2. CASE i # 1
    <3>1. i \in 2..Len(s) /\ i - 1 \in 1..(Len(t) - 1)
      BY <1>1, <1>2, <2>2
    <3> QED BY <1>1, <1>3, <3>1
  <2> QED BY <2>1, <2>2
<1> QED BY <1>2, <1>4, <1>5, <1>6 DEF Carries

\* The phases whose owner, epoch or goals differ between tables d and e.
Altered(d, e) == {p \in Phases : Known(e, p) # Known(d, p)}

LEMMA AlteredIs ==
  ASSUME NEW d, NEW e, NEW p \in Phases
  PROVE  p \notin Altered(d, e) <=> /\ e.owner[p] = d.owner[p]
                                    /\ e.epoch[p] = d.epoch[p]
                                    /\ GoalsOf(e, p) = GoalsOf(d, p)
BY DEF Altered, Known

\* Another process has changed the tables.
LEMMA CarriesThrough ==
  ASSUME NEW x, NEW d, Good(d), NEW e, Good(e), NEW m, NEW s, Carries(x, d, m, s)
  PROVE  Carries(x, e, m \union Altered(d, e), s)
<1>1. /\ s \in Seq(AllCalls) /\ \A i \in 1..Len(s) : s[i] \in AllCalls
      /\ \A i \in 1..Len(s) : SeenOK(x, s[i])
      /\ \A i \in 1..Len(s) : \A p \in Asked(d, s[i]) :
           p \in m \/ d.owner[p] = Me(x) \/ Covered(s, i, p)
      /\ \A i \in 1..(Len(s) - 1) : s[i].op \notin Enders
  BY DEF Carries
<1>2. ASSUME NEW g \in Goals, NEW p \in Phases, e.home[g] = p
      PROVE  d.home[g] = p \/ p \in Altered(d, e)
  <2>1. e.goal[g] # "absent"
    BY <1>2, PlanningConstants DEF Good, Linked
  <2>2. g \in GoalsOf(e, p)
    BY <1>2, <2>1 DEF GoalsOf
  <2>3. d.home[g] # p => g \notin GoalsOf(d, p)
    BY DEF GoalsOf
  <2> QED BY <2>2, <2>3, AlteredIs
<1>3. ASSUME NEW c \in AllCalls, NEW p \in Asked(e, c)
      PROVE  p \in Asked(d, c) \/ p \in Altered(d, e)
  <2>1. p \in Phases
    BY <1>3, SubjectTyped
  <2>2. Shape(c)
    BY CallShape
  <2>3. CASE c.op \in {"goal", "remove goal", "log goal"}
    <3>1. c.on \in Goals /\ e.home[c.on] = p
      BY <1>3, <2>2, <2>3 DEF Shape, Asked, Subject
    <3>2. d.home[c.on] = p \/ p \in Altered(d, e)
      BY <1>2, <2>1, <3>1
    <3>3. p # None
      BY <2>1, PlanningConstants
    <3> QED BY <2>3, <3>2, <3>3 DEF Asked, Subject
  <2>4. CASE c.op \in {"task", "add task"}
    <3>1. TaskIn[c.on] \in Goals /\ e.home[TaskIn[c.on]] = p
      BY <1>3, <2>2, <2>4, PlanningConstants DEF Shape, Asked, Subject
    <3>2. d.home[TaskIn[c.on]] = p \/ p \in Altered(d, e)
      BY <1>2, <2>1, <3>1
    <3>3. p # None
      BY <2>1, PlanningConstants
    <3> QED BY <2>4, <3>2, <3>3 DEF Asked, Subject
  <2>5. CASE c.op = "move goal"
    <3>1. c.on \in Goals /\ (p = c.to \/ e.home[c.on] = p)
      BY <1>3, <2>2, <2>5 DEF Shape, Asked, Subject
    <3>2. p = c.to \/ d.home[c.on] = p \/ p \in Altered(d, e)
      BY <1>2, <2>1, <3>1
    <3>3. p # None
      BY <2>1, PlanningConstants
    <3> QED BY <2>5, <3>2, <3>3 DEF Asked, Subject
  <2>6. CASE c.op = "bankrupt"
    <3>1. e.epoch[p] = c.on
      BY <1>3, <2>6 DEF Asked, Subject, PhasesOf
    <3>2. d.epoch[p] = c.on \/ p \in Altered(d, e)
      BY <2>1, <3>1, AlteredIs
    <3> QED BY <2>1, <2>6, <3>2 DEF Asked, Subject, PhasesOf
  <2>7. CASE c.op \notin {"goal", "remove goal", "log goal", "task", "add task", "move goal",
                         "bankrupt"}
    BY <1>3, <2>7 DEF Asked, Subject
  <2> QED BY <2>3, <2>4, <2>5, <2>6, <2>7
<1>4. ASSUME NEW i \in 1..Len(s), NEW p \in Asked(e, s[i])
      PROVE  p \in m \union Altered(d, e) \/ e.owner[p] = Me(x) \/ Covered(s, i, p)
  <2>1. p \in Phases /\ (p \in Asked(d, s[i]) \/ p \in Altered(d, e))
    BY <1>1, <1>3, SubjectTyped
  <2>2. p \notin Altered(d, e) => e.owner[p] = d.owner[p]
    BY <2>1, AlteredIs
  <2> QED BY <1>1, <2>1, <2>2
<1> QED BY <1>1, <1>4 DEF Carries

\* Claims, releases and the calls that end a command apart, no call touches
\* an owner or moves a phase or a goal.
Same(e, d) == e.home = d.home /\ e.epoch = d.epoch /\ e.owner = d.owner

LEMMA PlainEffects ==
  ASSUME NEW x, NEW d, Good(d), NEW c, c.op \notin OnOwner \union Enders
  PROVE  Same(Effect(x, c, d), d)
<1>1. d \in Tables
  BY DEF Good
<1>2. CASE c.op \in {"phase", "demote"}
  <2>1. Effect(x, c, d) = SetPhase(d, c.on, c.to)
    BY <1>2 DEF Effect
  <2>2. Same(SetPhase(d, c.on, c.to), d)
    BY <1>1 DEF Same, SetPhase, Tables
  <2> QED BY <2>1, <2>2
<1>3. CASE c.op = "pin"
  <2>1. Effect(x, c, d) = FocusPhase(d, At[x], c.on)
    BY <1>3 DEF Effect
  <2>2. Same(FocusPhase(d, At[x], c.on), d)
    BY <1>1 DEF Same, FocusPhase, Tables
  <2> QED BY <2>1, <2>2
<1>4. CASE c.op \in {"add lane", "goal", "log goal", "add task", "task"}
  BY <1>1, <1>4 DEF Same, Effect, Tables
<1>5. CASE c.op \in {"focus lane", "start lane", "remove lane"}
  <2>1. Effect(x, c, d) \in {FocusLane(d, At[x], c.on), StartLane(d, At[x], c.on), RemoveLane(d, c.on)}
    BY <1>5 DEF Effect
  <2>2. ASSUME NEW e \in {FocusLane(d, At[x], c.on), StartLane(d, At[x], c.on), RemoveLane(d, c.on)}
        PROVE  Same(e, d)
    BY <1>1, <2>2 DEF Same, FocusLane, StartLane, RemoveLane, Tables
  <2> QED BY <2>1, <2>2
<1>6. CASE c.op \notin {"phase", "demote", "pin", "add lane", "goal", "log goal",
                        "add task", "task", "focus lane", "start lane", "remove lane"}
  BY <1>6 DEF Same, Effect, OnOwner, Enders
<1> QED BY <1>2, <1>3, <1>4, <1>5, <1>6

(***************************************************************************)
(* The steps of a process that makes its calls one by one.                 *)
(***************************************************************************)
\* The other processes notice what has changed, and carry on.
LEMMA Noticed ==
  ASSUME NEW x \in Procs, PlanInv, DOMAIN todo' = Procs, Notice(x), Good(db'),
         \A y \in Procs \ {x} : todo'[y] = todo[y],
         todo'[x] # << >> => Carries(x, db', moved[x], todo'[x])
  PROVE  /\ moved' \in [Procs -> SUBSET Phases]
         /\ \A y \in Procs : Carries(y, db', moved'[y], todo'[y])
<1>1. moved' = [y \in Procs |->
        CASE todo'[y] = << >>            -> {}
          [] todo'[y] # << >> /\ y = x -> moved[y]
          [] OTHER                       -> moved[y] \union Altered(db, db')]
  BY Zenon DEF Notice, Altered
<1>2. /\ Good(db) /\ \A y \in Procs : moved[y] \in SUBSET Phases
      /\ \A y \in Procs : Carries(y, db, moved[y], todo[y])
  BY DEF PlanInv
<1>3. Altered(db, db') \subseteq Phases
  BY DEF Altered
<1>4. \A y \in Procs :
        moved'[y] = CASE todo'[y] = << >>            -> {}
                      [] todo'[y] # << >> /\ y = x -> moved[y]
                      [] OTHER                       -> moved[y] \union Altered(db, db')
  BY <1>1, Zenon
<1>5. moved' \in [Procs -> SUBSET Phases]
  BY <1>1, <1>2, <1>3
<1>6. ASSUME NEW y \in Procs PROVE Carries(y, db', moved'[y], todo'[y])
  <2>1. CASE todo'[y] = << >>
    BY <2>1, CarriesNone
  <2>2. CASE todo'[y] # << >> /\ y = x
    BY <1>4, <2>2
  <2>3. CASE todo'[y] # << >> /\ y # x
    <3>1. todo'[y] = todo[y] /\ moved'[y] = moved[y] \union Altered(db, db')
      BY <1>4, <2>3
    <3>2. Carries(y, db', moved[y] \union Altered(db, db'), todo[y])
      BY <1>2, CarriesThrough
    <3> QED BY <3>1, <3>2
  <2> QED BY <2>1, <2>2, <2>3
<1> QED BY <1>5, <1>6

LEMMA Advances ==
  ASSUME NEW x \in Procs, PlanInv, NEW rest, NEW new, Advance(x, rest, new), Good(new),
         rest # << >> => Carries(x, new, moved[x], rest)
  PROVE  PlanInv'
<1>1. /\ todo' = [todo EXCEPT ![x] = rest] /\ db' = new /\ Notice(x) /\ loaded' = loaded
  BY DEF Advance
<1>2. DOMAIN todo = Procs
  BY DEF PlanInv
<1>3. /\ DOMAIN todo' = Procs /\ todo'[x] = rest
      /\ \A y \in Procs \ {x} : todo'[y] = todo[y]
  BY <1>1, <1>2
<1>4. Good(db') /\ (todo'[x] # << >> => Carries(x, db', moved[x], todo'[x]))
  BY <1>1, <1>3
<1>5. /\ moved' \in [Procs -> SUBSET Phases]
      /\ \A y \in Procs : Carries(y, db', moved'[y], todo'[y])
  BY <1>1, <1>3, <1>4, Noticed
<1> QED BY <1>1, <1>3, <1>4, <1>5 DEF PlanInv

LEMMA CurrentCall ==
  ASSUME NEW x \in Procs, PlanInv, ~Idle(x)
  PROVE  /\ Carries(x, db, moved[x], todo[x]) /\ todo[x] # << >> /\ todo[x] \in Seq(AllCalls)
         /\ Current(x) = todo[x][1] /\ Current(x) \in AllCalls /\ SeenOK(x, Current(x))
         /\ Len(todo[x]) \in Nat \ {0}
<1>1. Carries(x, db, moved[x], todo[x])
  BY DEF PlanInv
<1>2. todo[x] # << >>
  BY DEF Idle
<1>3. /\ todo[x] \in Seq(AllCalls) /\ \A i \in 1..Len(todo[x]) : SeenOK(x, todo[x][i])
  BY <1>1 DEF Carries
<1>4. Len(todo[x]) \in Nat \ {0}
  BY <1>2, <1>3, EmptySeq
<1>5. Current(x) = todo[x][1]
  BY <1>2, <1>3 DEF Current
<1>6. 1 \in 1..Len(todo[x])
  BY <1>4
<1>7. todo[x][1] \in AllCalls
  BY <1>3, <1>6
<1> QED BY <1>1, <1>2, <1>3, <1>4, <1>5, <1>6, <1>7

LEMMA Fails ==
  ASSUME NEW x \in Procs, PlanInv, Fail(x)
  PROVE  PlanInv'
<1>1. Good(db)
  BY DEF PlanInv
<1>2. Advance(x, << >>, db)
  BY DEF Fail
<1> QED BY <1>1, <1>2, Advances

\* What follows a claim that holds, on the tables it leaves.
LEMMA HoldsCarries ==
  ASSUME NEW x \in Procs, PlanInv, ~Idle(x), Current(x).op \in {"claim", "ensure", "shelve"},
         NEW e, Good(e), Retains(x, db, e), e.owner[Current(x).on] = Me(x)
  PROVE  Carries(x, e, moved[x], Holds(x))
<1> DEFINE s == todo[x]
           p == Current(x).on
<1>1. Carries(x, db, moved[x], s) /\ s # << >> /\ Current(x) = s[1] /\ Current(x) \in AllCalls
  BY CurrentCall
<1>2. Good(db)
  BY DEF PlanInv
<1>3. Carries(x, e, moved[x], Tail(s))
  BY <1>1, <1>2, CarriesOn
<1>4. CASE Current(x).op = "shelve"
  <2> DEFINE c == Put("demote", p, "pending")
  <2>1. Holds(x) = <<c>> \o Tail(s)
    BY <1>4 DEF Holds
  <2>2. p \in Phases
    <3>1. Shape(Current(x))
      BY <1>1, CallShape
    <3> QED BY <1>4, <3>1 DEF Shape, OnOwner
  <2>3. c.op = "demote" /\ c.on = p /\ c \in PhasePuts
    BY <2>2 DEF Put, PhasePuts, Existing, Open
  <2>4. c \in AllCalls
    BY <2>3 DEF AllCalls
  <2> HIDE DEF c
  <2>5. SeenOK(x, c) /\ Asked(e, c) = {p} /\ c.op \notin Enders
    BY <2>3 DEF SeenOK, OnOwner, Asked, Subject, Enders
  <2>6. Carries(x, e, moved[x], <<c>> \o Tail(s))
    BY <1>3, <2>4, <2>5, CarriesMore
  <2> QED BY <2>1, <2>6
<1>5. CASE Current(x).op # "shelve"
  <2>1. Holds(x) = Tail(s)
    BY <1>5 DEF Holds
  <2> QED BY <1>3, <2>1
<1> QED BY <1>4, <1>5

LEMMA Refuses ==
  ASSUME NEW x \in Procs, PlanInv, ~Idle(x), Refused(x)
  PROVE  PlanInv'
<1>1. CASE Current(x).op = "shelve"
  <2>1. Advance(x, Tail(todo[x]), db)
    BY <1>1 DEF Refused, Return
  <2>2. Good(db)
    BY DEF PlanInv
  <2>3. Carries(x, db, moved[x], todo[x]) /\ todo[x] # << >> /\ todo[x][1].op = "shelve"
    BY <1>1, CurrentCall
  <2>4. Retains(x, db, db)
    BY DEF Retains
  <2>5. Carries(x, db, moved[x], Tail(todo[x]))
    BY <2>2, <2>3, <2>4, CarriesOn
  <2> QED BY <2>1, <2>2, <2>5, Advances
<1>2. CASE Current(x).op # "shelve"
  BY <1>2, Fails DEF Refused
<1> QED BY <1>1, <1>2

LEMMA Prefixed ==
  ASSUME NEW S, NEW c \in S, NEW u \in Seq(S), NEW t, t = <<c>> \o u
  PROVE  /\ t \in Seq(S) /\ Len(t) = Len(u) + 1 /\ t[1] = c
         /\ \A i \in 1..Len(u) : t[i + 1] = u[i]
OBVIOUS

\* The owner that has been read is kept with the call.
LEMMA CarriesSeen ==
  ASSUME NEW x \in Procs, NEW d, NEW m, NEW s, Carries(x, d, m, s), s # << >>,
         NEW c \in AllCalls, SeenOK(x, c), c.op = s[1].op, c.on = s[1].on,
         Asked(d, c) = {}
  PROVE  Carries(x, d, m, <<c>> \o Tail(s))
<1> SUFFICES ASSUME NEW t, t = <<c>> \o Tail(s) PROVE Carries(x, d, m, t)
  OBVIOUS
<1>1. /\ s \in Seq(AllCalls)
      /\ \A i \in 1..Len(s) : SeenOK(x, s[i])
      /\ \A i \in 1..Len(s) : \A p \in Asked(d, s[i]) :
           p \in m \/ d.owner[p] = Me(x) \/ Covered(s, i, p)
      /\ \A i \in 1..(Len(s) - 1) : s[i].op \notin Enders
  BY DEF Carries
<1>2. Len(s) \in Nat \ {0}
  BY <1>1, EmptySeq
<1>3. /\ t \in Seq(AllCalls) /\ Len(t) = Len(s) /\ t[1] = c
      /\ \A i \in 2..Len(s) : t[i] = s[i]
  <2> DEFINE u == Tail(s)
  <2>1. /\ u \in Seq(AllCalls) /\ Len(u) = Len(s) - 1
        /\ \A i \in 1..Len(u) : u[i] = s[i + 1]
    BY <1>1, HeadTailProperties
  <2> HIDE DEF u
  <2>2. t = <<c>> \o u
    BY DEF u
  <2>3. /\ t \in Seq(AllCalls) /\ Len(t) = Len(u) + 1 /\ t[1] = c
        /\ \A i \in 1..Len(u) : t[i + 1] = u[i]
    <3>1. u \in Seq(AllCalls)
      BY <2>1
    <3>2. c \in AllCalls
      OBVIOUS
    <3> HIDE <1>1
    <3> QED BY ONLY <2>2, <3>1, <3>2, Prefixed
  <2>4. ASSUME NEW i \in 2..Len(s) PROVE t[i] = s[i]
    <3>1. i - 1 \in 1..Len(u) /\ (i - 1) + 1 = i
      BY <1>2, <2>1
    <3> QED BY <2>1, <2>3, <3>1
  <2> QED BY <1>2, <2>1, <2>3, <2>4
<1>4. \A i \in 1..Len(s) : i = 1 \/ i \in 2..Len(s)
  BY <1>2
<1>5. \A i \in 1..Len(s) : t[i].op = s[i].op /\ t[i].on = s[i].on
  BY <1>3, <1>4
<1>6. \A i \in 1..Len(s) : \A p : Covered(s, i, p) => Covered(t, i, p)
  <2> TAKE i \in 1..Len(s)
  <2> TAKE p
  <2>1. \A j \in 1..(i - 1) : j \in 1..Len(s)
    BY <1>2
  <2> QED BY <1>5, <2>1 DEF Covered
<1>7. ASSUME NEW i \in 1..Len(t), NEW p \in Asked(d, t[i])
      PROVE  p \in m \/ d.owner[p] = Me(x) \/ Covered(t, i, p)
  <2>1. i \in 2..Len(s) /\ t[i] = s[i]
    BY <1>3, <1>4, <1>7
  <2> QED BY <1>1, <1>3, <1>6, <1>7, <2>1
<1>8. \A i \in 1..Len(t) : SeenOK(x, t[i])
  BY <1>1, <1>3, <1>4
<1>9. \A i \in 1..(Len(t) - 1) : t[i].op \notin Enders
  <2>1. \A i \in 1..(Len(s) - 1) : i \in 1..Len(s)
    BY <1>2
  <2> QED BY <1>1, <1>3, <1>5, <2>1
<1> QED BY <1>3, <1>7, <1>8, <1>9 DEF Carries

LEMMA OwnersRead ==
  ASSUME NEW x \in Procs, PlanInv, ReadOwner(x)
  PROVE  PlanInv'
<1> DEFINE c == Current(x)
           o == db.owner[c.on]
           s == todo[x]
           first == c.op = "release" /\ o = None
           second == c.op \in {"ensure", "shelve"} /\ o = Me(x)
           third == o \notin {None, Me(x)} /\ ~c.take /\ ~(c.op = "release" /\ o \in Stale)
           kept == [c EXCEPT !.seen = o]
<1>1. /\ ~Idle(x) /\ c.op \in OnOwner
      /\ CASE first  -> Return(x)
           [] second -> Advance(x, Holds(x), db)
           [] third  -> Refused(x)
           [] OTHER  -> Advance(x, <<kept>> \o Tail(s), db)
  BY DEF ReadOwner
<1>2. \/ first /\ Return(x)
      \/ second /\ Advance(x, Holds(x), db)
      \/ third /\ Refused(x)
      \/ ~first /\ ~second /\ ~third /\ Advance(x, <<kept>> \o Tail(s), db)
  <2> HIDE DEF first, second, third, kept
  <2> QED BY <1>1, Zenon
<1>3. /\ Carries(x, db, moved[x], s) /\ s # << >> /\ c = s[1] /\ c \in AllCalls
      /\ Good(db) /\ Retains(x, db, db)
  <2>1. Good(db)
    BY DEF PlanInv
  <2>2. Retains(x, db, db)
    BY DEF Retains
  <2> QED BY <1>1, <2>1, <2>2, CurrentCall
<1>4. c \in OwnerCalls /\ c.on \in Phases
  <2>1. Shape(c)
    BY <1>3, CallShape
  <2> QED BY <1>1, <2>1 DEF Shape
<1>5. o \in Owners \union {None}
  BY <1>3, <1>4 DEF Good, Tables
<1>6. ASSUME first, Return(x) PROVE PlanInv'
  <2>1. s[1].op \in Enders
    BY <1>3, <1>6 DEF Enders
  <2>2. Tail(s) = << >>
    BY <1>3, <2>1, EnderIsLast
  <2>3. Advance(x, << >>, db)
    BY <1>6, <2>2 DEF Return
  <2> QED BY <1>3, <2>3, Advances
<1>7. ASSUME second, Advance(x, Holds(x), db) PROVE PlanInv'
  <2>1. Carries(x, db, moved[x], Holds(x))
    BY <1>1, <1>3, <1>7, HoldsCarries
  <2> QED BY <1>3, <1>7, <2>1, Advances
<1>8. ASSUME third, Refused(x) PROVE PlanInv'
  BY <1>1, <1>8, Refuses
<1>9. ASSUME ~first, ~second, ~third, Advance(x, <<kept>> \o Tail(s), db) PROVE PlanInv'
  <2>1. kept.op = c.op /\ kept.on = c.on /\ kept.take = c.take /\ kept.seen = o /\ kept \in OwnerCalls
    <3> HIDE DEF c, o
    <3> QED BY <1>4, <1>5 DEF OwnerCalls
  <2>2. kept \in AllCalls
    <3> HIDE DEF kept
    <3> QED BY <2>1 DEF AllCalls
  <2>3. c.take => c.op = "claim"
    <3> HIDE DEF c
    <3> QED BY <1>4 DEF OwnerCalls
  <2> HIDE DEF kept
  <2>4. SeenOK(x, kept)
    BY <1>9, <2>1, <2>3, Zenon DEF SeenOK
  <2>5. Asked(db, kept) = {}
    BY <1>1, <2>1 DEF Asked, Subject, OnOwner
  <2>6. Carries(x, db, moved[x], <<kept>> \o Tail(s))
    BY <1>3, <2>1, <2>2, <2>4, <2>5, CarriesSeen
  <2> QED BY <1>3, <1>9, <2>6, Advances
<1> QED BY <1>2, <1>6, <1>7, <1>8, <1>9

LEMMA OwnersClaimed ==
  ASSUME NEW x \in Procs, PlanInv, ClaimOwner(x)
  PROVE  PlanInv'
<1> DEFINE c == Current(x)
           p == c.on
           new == [db EXCEPT !.owner[p] = Me(x)]
<1>1. /\ ~Idle(x) /\ c.op \in {"claim", "ensure", "shelve"}
      /\ \/ Refused(x)
         \/ Exists(db, p) /\ Advance(x, Holds(x), new)
         \/ db.owner[p] = Me(x) /\ Advance(x, Holds(x), db)
  <2>1. ~Idle(x) /\ c.op \in OnOwner \ {"release"}
    BY DEF ClaimOwner
  <2>2. \/ Refused(x)
        \/ Exists(db, p) /\ Advance(x, Holds(x), new)
        \/ db.owner[p] = Me(x) /\ Advance(x, Holds(x), db)
    <3> HIDE DEF new
    <3> QED BY Zenon DEF ClaimOwner, new
  <2> QED BY <2>1, <2>2 DEF OnOwner
<1>2. c \in AllCalls /\ Good(db) /\ Me(x) \in Owners /\ Retains(x, db, db)
  <2>1. Good(db)
    BY DEF PlanInv
  <2> QED BY <1>1, <2>1, CurrentCall, PlanningConstants DEF Me, Retains
<1>3. p \in Phases
  <2>1. Shape(c)
    BY <1>2, CallShape
  <2> QED BY <1>1, <2>1 DEF Shape, OnOwner
<1>4. ASSUME Exists(db, p), Advance(x, Holds(x), new) PROVE PlanInv'
  <2> HIDE DEF p, c
  <2>1. Good(new)
    BY <1>2, <1>3, <1>4, OwnerWrites
  <2>2. /\ new.home = db.home /\ new.epoch = db.epoch /\ new.owner[p] = Me(x)
        /\ \A q \in Phases : new.owner[q] \in {db.owner[q], Me(x)}
    BY <1>2, <1>3 DEF Good, Tables
  <2> HIDE DEF new
  <2>3. Retains(x, db, new)
    BY <2>2 DEF Retains
  <2>4. Carries(x, new, moved[x], Holds(x))
    BY <1>1, <2>1, <2>2, <2>3, HoldsCarries DEF p, c
  <2> QED BY <1>4, <2>1, <2>4, Advances
<1>5. ASSUME db.owner[p] = Me(x), Advance(x, Holds(x), db) PROVE PlanInv'
  <2>1. Carries(x, db, moved[x], Holds(x))
    BY <1>1, <1>2, <1>5, HoldsCarries
  <2> QED BY <1>2, <1>5, <2>1, Advances
<1> QED BY <1>1, <1>4, <1>5, Refuses

LEMMA OwnersReleased ==
  ASSUME NEW x \in Procs, PlanInv, ReleaseOwner(x)
  PROVE  PlanInv'
<1> DEFINE p == Current(x).on
           new == [db EXCEPT !.owner[p] = None]
<1>1. /\ ~Idle(x) /\ Current(x).op = "release"
      /\ Fail(x) \/ Advance(x, Tail(todo[x]), new)
  <2> HIDE DEF new
  <2> QED BY Zenon DEF ReleaseOwner, new
<1>2. /\ Carries(x, db, moved[x], todo[x]) /\ todo[x] # << >> /\ Current(x) = todo[x][1]
      /\ Current(x) \in AllCalls /\ Good(db)
  BY <1>1, CurrentCall DEF PlanInv
<1>3. ASSUME Advance(x, Tail(todo[x]), new) PROVE PlanInv'
  <2>1. Tail(todo[x]) = << >>
    BY <1>1, <1>2, EnderIsLast DEF Enders
  <2>2. p \in Phases
    <3>1. Shape(Current(x))
      BY <1>2, CallShape
    <3> QED BY <1>1, <3>1 DEF Shape, OnOwner
  <2>3. Good(new)
    <3> HIDE DEF p
    <3>1. None \in Owners \union {None}
      OBVIOUS
    <3> QED BY <1>2, <2>2, <3>1, OwnerWrites
  <2> HIDE DEF new
  <2> QED BY <1>3, <2>1, <2>3, Advances
<1> QED BY <1>1, <1>3, Fails

LEMMA WriterCalls ==
  ASSUME NEW x \in Procs, PlanInv, WriterCall(x)
  PROVE  PlanInv'
<1> DEFINE c == Current(x)
           new == Effect(x, c, db)
<1>1. /\ ~Idle(x) /\ c.op \notin OnOwner
      /\ Fail(x) \/ (Allowed(x, c, db) /\ Advance(x, Tail(todo[x]), new))
  <2> HIDE DEF new
  <2> QED BY Zenon DEF WriterCall, new
<1>2. /\ Carries(x, db, moved[x], todo[x]) /\ todo[x] # << >> /\ c = todo[x][1]
      /\ c \in AllCalls /\ Good(db)
  BY <1>1, CurrentCall DEF PlanInv
<1>3. ASSUME Allowed(x, c, db), Advance(x, Tail(todo[x]), new) PROVE PlanInv'
  <2> HIDE DEF c
  <2>1. Good(new)
    BY <1>2, <1>3, EffectKeeps
  <2>2. CASE c.op \in Enders
    <3>1. Tail(todo[x]) = << >>
      BY <1>2, <2>2, EnderIsLast
    <3> HIDE DEF new
    <3> QED BY <1>3, <2>1, <3>1, Advances
  <2>3. CASE c.op \notin Enders
    <3>1. new.home = db.home /\ new.epoch = db.epoch /\ new.owner = db.owner
      BY <1>1, <1>2, <2>3, PlainEffects DEF Same
    <3> HIDE DEF new
    <3>2. Retains(x, db, new)
      BY <3>1 DEF Retains
    <3>3. todo[x][1].op \notin {"claim", "ensure"}
      BY <1>1, <1>2 DEF OnOwner
    <3>4. Carries(x, new, moved[x], Tail(todo[x]))
      BY <1>2, <2>1, <3>2, <3>3, CarriesOn
    <3> QED BY <1>3, <2>1, <3>4, Advances
  <2> QED BY <2>2, <2>3
<1> QED BY <1>1, <1>3, Fails

\* A command is loaded, and made in one transaction or begun.
LEMMA CommandsKeep ==
  ASSUME NEW x \in Procs, PlanInv, Commands(x)
  PROVE  PlanInv'
<1>1. /\ Good(db) /\ moved \in [Procs -> SUBSET Phases] /\ loaded \in 0..MaxCommands
      /\ DOMAIN todo = Procs /\ \A y \in Procs : Carries(y, db, moved[y], todo[y])
  BY DEF PlanInv
<1>2. PICK back, calls : Commanded(x, back, calls)
  BY <1>1, EveryCommand
<1>3. WellMade(db, back, calls) /\ Loads(x)
  BY <1>2 DEF Commanded
<1>4. loaded' \in 0..MaxCommands /\ todo[x] = << >>
  BY <1>1, <1>3, PlanningConstants DEF Loads, Idle
<1>5. CASE OneByOne(x, calls)
  <2>1. /\ db' = db /\ moved' = moved /\ DOMAIN todo' = Procs /\ todo'[x] = calls
        /\ \A y \in Procs \ {x} : todo'[y] = todo[y]
    BY <1>1, <1>5 DEF OneByOne
  <2>2. Carries(x, db, moved[x], calls)
    BY <1>3, CarriesCommand
  <2>3. \A y \in Procs : Carries(y, db', moved'[y], todo'[y])
    BY <1>1, <2>1, <2>2
  <2>4. Good(db')
    BY <1>1, <2>1
  <2> QED BY <1>1, <1>4, <2>1, <2>3, <2>4 DEF PlanInv
<1>6. CASE InOne(x, calls)
  <2>1. todo' = todo /\ Notice(x) /\ db' = Runs(x, db, calls)[Len(calls)].db
    BY <1>6 DEF InOne
  <2>2. calls \in Seq(AllCalls)
    BY <1>3 DEF WellMade
  <2>3. Good(db')
    BY <1>1, <2>1, <2>2, RunsKeep
  <2>4. /\ DOMAIN todo' = Procs /\ todo'[x] = << >>
        /\ \A y \in Procs \ {x} : todo'[y] = todo[y]
    BY <1>1, <1>4, <2>1
  <2>5. /\ moved' \in [Procs -> SUBSET Phases]
        /\ \A y \in Procs : Carries(y, db', moved'[y], todo'[y])
    BY <2>1, <2>3, <2>4, Noticed
  <2> QED BY <1>4, <2>3, <2>4, <2>5 DEF PlanInv
<1> QED BY <1>2, <1>5, <1>6 DEF Commanded

(***************************************************************************)
(* The theorems.                                                           *)
(***************************************************************************)
LEMMA InitPlanInv == Init => PlanInv
<1> SUFFICES ASSUME Init PROVE PlanInv
  OBVIOUS
<1>1. PICK owner \in [Phases -> {None} \union Stale], home \in [Goals \ Strikes -> Phases] :
       db = [phase  |-> [p \in Phases |-> "pending"],
             epoch  |-> EpochOf,
             owner  |-> owner,
             pin    |-> [w \in Workspaces |-> None],
             focus  |-> [w \in Workspaces |-> None],
             lane   |-> [l \in Lanes |-> "prepared"],
             goal   |-> [g \in Goals |-> IF g \in Strikes THEN "absent" ELSE "pending"],
             home   |-> [g \in Goals |-> IF g \in Strikes THEN None ELSE home[g]],
             logged |-> {},
             task   |-> [t \in Tasks |-> IF TaskIn[t] \in Strikes THEN "absent" ELSE "pending"]]
  BY DEF Init
<1>2. "pending" \in Existing
  BY DEF Existing, Open
<1> DEFINE phase  == [p \in Phases |-> "pending"]
           none   == [w \in Workspaces |-> None]
           lane   == [l \in Lanes |-> "prepared"]
           goal   == [g \in Goals |-> IF g \in Strikes THEN "absent" ELSE "pending"]
           homes  == [g \in Goals |-> IF g \in Strikes THEN None ELSE home[g]]
           task   == [t \in Tasks |-> IF TaskIn[t] \in Strikes THEN "absent" ELSE "pending"]
<1>3. /\ phase \in [Phases -> Existing \union {"absent"}]
      /\ EpochOf \in [Phases -> Epochs \union {None}]
      /\ owner \in [Phases -> Owners \union {None}]
      /\ none \in [Workspaces -> Phases \union {None}]
      /\ none \in [Workspaces -> Lanes \union {None}]
      /\ lane \in [Lanes -> {"absent", "prepared", "executing"}]
      /\ goal \in [Goals -> Existing \union {"absent"}]
      /\ homes \in [Goals -> Phases \union {None}]
      /\ task \in [Tasks -> {"absent", "pending", "logged", "in-progress", "completed"}]
  BY <1>2, PlanningConstants
<1>4. /\ \A p \in Phases : phase[p] = "pending"
      /\ \A w \in Workspaces : none[w] = None
      /\ \A g \in Goals : IF goal[g] = "absent" THEN homes[g] = None ELSE homes[g] \in Phases
      /\ \A t \in Tasks : task[t] # "absent" => goal[TaskIn[t]] # "absent"
  BY PlanningConstants
<1>5. db = [phase |-> phase, epoch |-> EpochOf, owner |-> owner, pin |-> none, focus |-> none, lane |-> lane,
            goal |-> goal, home |-> homes, logged |-> {}, task |-> task]
  BY <1>1
<1> HIDE DEF phase, none, lane, goal, homes, task
<1>6. db \in Tables
  BY <1>3, <1>5 DEF Tables
<1>7. /\ db.phase = phase /\ db.pin = none /\ db.focus = none /\ db.goal = goal
      /\ db.home = homes /\ db.task = task
  BY <1>5
<1>8. \A p \in Phases : Exists(db, p)
  BY <1>2, <1>4, <1>7 DEF Exists
<1>9. Linked(db)
  BY <1>4, <1>7, <1>8, PlanningConstants DEF Linked
<1>10. Agreeing(db)
  BY <1>4, <1>7 DEF Agreeing
<1>11. Good(db)
  BY <1>6, <1>9, <1>10 DEF Good
<1>12. /\ todo = [x \in Procs |-> << >>] /\ moved = [x \in Procs |-> {}] /\ loaded = 0
  BY DEF Init
<1>13. \A x \in Procs : Carries(x, db, moved[x], todo[x])
  BY <1>12, CarriesNone
<1> QED BY <1>11, <1>12, <1>13, PlanningConstants DEF PlanInv

LEMMA NextPlanInv == PlanInv /\ [Next]_vars => PlanInv'
<1> SUFFICES ASSUME PlanInv, [Next]_vars PROVE PlanInv'
  OBVIOUS
<1>1. ASSUME NEW x \in Procs, Commands(x) PROVE PlanInv'
  BY <1>1, CommandsKeep
<1>2. ASSUME NEW x \in Procs, ReadOwner(x) PROVE PlanInv'
  BY <1>2, OwnersRead
<1>3. ASSUME NEW x \in Procs, ClaimOwner(x) PROVE PlanInv'
  BY <1>3, OwnersClaimed
<1>4. ASSUME NEW x \in Procs, ReleaseOwner(x) PROVE PlanInv'
  BY <1>4, OwnersReleased
<1>5. ASSUME NEW x \in Procs, WriterCall(x) PROVE PlanInv'
  BY <1>5, WriterCalls
<1>6. ASSUME NEW x \in Procs, Dies(x) PROVE PlanInv'
  BY <1>6, Fails DEF Dies
<1>7. CASE UNCHANGED vars
  <2>1. db' = db /\ todo' = todo /\ moved' = moved /\ loaded' = loaded
    BY <1>7 DEF vars
  <2>2. Good(db') /\ \A x \in Procs : Carries(x, db', moved'[x], todo'[x])
    BY <2>1 DEF PlanInv
  <2> QED BY <2>1, <2>2 DEF PlanInv
<1> QED BY <1>1, <1>2, <1>3, <1>4, <1>5, <1>6, <1>7 DEF Next, Calls

LEMMA PlanInvariant == Spec => []PlanInv
BY InitPlanInv, NextPlanInv, PTL DEF Spec

\* The tables keep their shape, and what names a phase or a goal names one that
\* exists, whatever commands run and wherever they are interrupted.
THEOREM PlanTypeCorrect == Spec => []TypeOK
<1>1. PlanInv => TypeOK
  BY DEF PlanInv, Good, Linked, TypeOK
<1> QED BY <1>1, PlanInvariant, PTL

\* A focused lane exists, its phase runs and the workspace is pinned to it:
\* every call that takes one of these away clears the focus in the same write.
THEOREM FocusedLanesRun == Spec => []LaneFocusAgrees
<1>1. PlanInv => LaneFocusAgrees
  BY DEF PlanInv, Good, Agreeing, LaneFocusAgrees
<1> QED BY <1>1, PlanInvariant, PTL

\* Whoever is about to write to a phase owns it, unless another process took it
\* over, moved it or changed its goals since the command was loaded, or the
\* command is the one that does not ask: epoch remove.
THEOREM OnlyOwnersWrite == Spec => []WritersOwn
<1>1. ASSUME PlanInv PROVE WritersOwn
  <2> SUFFICES ASSUME NEW x \in Procs, ~Idle(x), NEW p \in Asked(db, Current(x)),
                      p \notin moved[x]
               PROVE  db.owner[p] = Me(x)
    BY DEF WritersOwn, Asked
  <2>1. /\ Carries(x, db, moved[x], todo[x]) /\ Current(x) = todo[x][1]
        /\ Len(todo[x]) \in Nat \ {0}
    BY <1>1, CurrentCall
  <2>2. 1 \in 1..Len(todo[x])
    BY <2>1
  <2>3. p \in moved[x] \/ db.owner[p] = Me(x) \/ Covered(todo[x], 1, p)
    BY <2>1, <2>2 DEF Carries
  <2>4. ~Covered(todo[x], 1, p)
    BY DEF Covered
  <2> QED BY <2>3, <2>4
<1> QED BY <1>1, PlanInvariant, PTL

\* Only claims put an owner where another one was.
LEMMA WritersClearOwners ==
  ASSUME NEW x, NEW d, Good(d), NEW c, c.op \notin OnOwner, NEW p \in Phases
  PROVE  Effect(x, c, d).owner[p] \in {None, d.owner[p]}
<1>1. d \in Tables
  BY DEF Good
<1>2. CASE c.op \notin Enders
  BY <1>2, PlainEffects DEF Same
<1>3. CASE c.op = "clear"
  BY <1>1, <1>3 DEF Effect, Tables
<1>4. CASE c.op \in {"remove phase", "remove epoch"}
  <2>1. ASSUME NEW ps PROVE Without(d, ps).owner[p] \in {None, d.owner[p]}
    BY <1>1 DEF Without, Tables
  <2>2. Effect(x, c, d) \in {Without(d, {c.on}), Without(d, PhasesOf(d, c.on))}
    BY <1>4 DEF Effect
  <2> QED BY <2>1, <2>2
<1>5. CASE c.op = "bankrupt"
  <2>1. Effect(x, c, d) = Bankrupt(d, c.on)
    BY <1>5 DEF Effect
  <2>2. Bankrupt(d, c.on).owner = d.owner
    BY <1>1 DEF Bankrupt, Tables
  <2> QED BY <2>1, <2>2
<1>6. CASE c.op \in {"add goal", "add strike", "move goal", "remove goal"}
  BY <1>1, <1>6 DEF Effect, RemoveGoal, Tables
<1>7. CASE c.op \in {"add phase", "move phase"}
  BY <1>1, <1>7 DEF Effect, Tables
<1> QED BY <1>2, <1>3, <1>4, <1>5, <1>6, <1>7 DEF Enders, OnOwner

LEMMA IdleTables ==
  ASSUME NEW x, Return(x) \/ Fail(x) \/ Refused(x) \/ ReadOwner(x) \/ Dies(x)
  PROVE  db' = db
<1>1. ASSUME Return(x) \/ Fail(x) PROVE db' = db
  BY <1>1 DEF Return, Fail, Advance
<1>2. ASSUME Refused(x) PROVE db' = db
  BY <1>1, <1>2 DEF Refused
<1>3. ASSUME ReadOwner(x) PROVE db' = db
  <2>1. \/ Return(x) \/ Refused(x) \/ \E rest : Advance(x, rest, db)
    BY <1>3 DEF ReadOwner
  <2> QED BY <1>1, <1>2, <2>1 DEF Advance
<1> QED BY <1>1, <1>2, <1>3 DEF Dies

\* A claim that names the owner it has read, and replaces it.
LEMMA ClaimTakesOver ==
  ASSUME PlanInv, NEW x \in Procs, ClaimOwner(x), NEW p \in Phases, db.owner[p] # None,
         db'.owner[p] \notin {None, db.owner[p]}
  PROVE  ~Idle(x) /\ Current(x) = [Claim(p, TRUE) EXCEPT !.seen = db.owner[p]]
<1> DEFINE c == Current(x)
           o == db.owner[p]
<1>1. /\ ~Idle(x) /\ c.op \in OnOwner \ {"release"}
      /\ \/ Refused(x) \/ Advance(x, Holds(x), db)
         \/ db.owner[c.on] = c.seen /\ Advance(x, Holds(x), [db EXCEPT !.owner[c.on] = Me(x)])
  BY DEF ClaimOwner
<1>2. c \in AllCalls /\ SeenOK(x, c) /\ Good(db)
  BY <1>1, CurrentCall DEF PlanInv
<1>3. db' # db
  OBVIOUS
<1>4. /\ db.owner[c.on] = c.seen
      /\ db' = [db EXCEPT !.owner[c.on] = Me(x)]
  BY <1>1, <1>3, IdleTables DEF Advance
<1>5. c \in OwnerCalls /\ c.on \in Phases
  <2>1. Shape(c)
    BY <1>2, CallShape
  <2> QED BY <1>1, <2>1 DEF Shape
<1>6. c.on = p /\ Me(x) # o /\ c.seen = o
  BY <1>2, <1>4 DEF Good, Tables
<1>7. o \in Owners /\ o # Unread
  BY <1>2, PlanningConstants DEF Good, Tables
<1> HIDE DEF c
<1>8. c.op = "claim" /\ c.take
  <2>1. c.op \in OnOwner /\ c.op # "release" /\ c.seen \notin {Unread, None, Me(x)}
    BY <1>1, <1>6, <1>7
  <2> QED BY <1>2, <2>1, Zenon DEF SeenOK
<1>9. c.take = TRUE /\ c = [op |-> "claim", on |-> p, take |-> TRUE, seen |-> o]
  <2>1. c.take = TRUE
    BY <1>5, <1>8 DEF OwnerCalls
  <2>2. c = [op |-> c.op, on |-> c.on, take |-> c.take, seen |-> c.seen]
    BY <1>5 DEF OwnerCalls
  <2> QED BY <1>6, <1>8, <2>1, <2>2
<1>10. [Claim(p, TRUE) EXCEPT !.seen = o] = [op |-> "claim", on |-> p, take |-> TRUE, seen |-> o]
  <2>1. ASSUME NEW take, NEW read, NEW r, r = [op |-> "claim", on |-> p, take |-> take, seen |-> Unread]
        PROVE  [r EXCEPT !.seen = read] = [op |-> "claim", on |-> p, take |-> take, seen |-> read]
    BY <2>1
  <2> DEFINE r == Claim(p, TRUE)
  <2>2. r = [op |-> "claim", on |-> p, take |-> TRUE, seen |-> Unread]
    BY Zenon DEF Claim
  <2> HIDE DEF o, r
  <2>3. [r EXCEPT !.seen = o] = [op |-> "claim", on |-> p, take |-> TRUE, seen |-> o]
    BY <2>1, <2>2, Zenon
  <2> QED BY <2>3 DEF r
<1> QED BY <1>1, <1>9, <1>10 DEF c

LEMMA TakeOverStep ==
  ASSUME PlanInv, Next, NEW p \in Phases, db.owner[p] # None,
         db'.owner[p] \notin {None, db.owner[p]}, todo' # todo
  PROVE  \E x \in Procs : ~Idle(x) /\ Current(x) = [Claim(p, TRUE) EXCEPT !.seen = db.owner[p]]
<1>1. PICK x \in Procs : Commands(x) \/ Calls(x)
  BY DEF Next
<1>2. db' # db /\ Good(db)
  BY DEF PlanInv
<1>3. CASE Commands(x)
  <2>1. PICK back, calls : Commanded(x, back, calls)
    BY <1>2, <1>3, EveryCommand
  <2> QED BY <1>2, <2>1 DEF Commanded, OneByOne, InOne
<1>4. CASE ReadOwner(x) \/ Dies(x)
  BY <1>2, <1>4, IdleTables
<1>5. CASE ClaimOwner(x)
  BY <1>5, ClaimTakesOver
<1>6. CASE ReleaseOwner(x)
  <2> DEFINE q == Current(x).on
             new == [db EXCEPT !.owner[q] = None]
  <2>1. Fail(x) \/ Advance(x, Tail(todo[x]), new)
    <3> HIDE DEF new
    <3> QED BY <1>6, Zenon DEF ReleaseOwner, new
  <2>2. db' = new
    BY <1>2, <2>1, IdleTables DEF Advance
  <2> HIDE DEF q
  <2>3. new.owner[p] \in {None, db.owner[p]}
    BY <1>2 DEF Good, Tables
  <2> QED BY <2>2, <2>3
<1>7. CASE WriterCall(x)
  <2> DEFINE new == Effect(x, Current(x), db)
  <2>1. Current(x).op \notin OnOwner /\ (Fail(x) \/ Advance(x, Tail(todo[x]), new))
    <3> HIDE DEF new
    <3> QED BY <1>7, Zenon DEF WriterCall, new
  <2>2. db' = new
    BY <1>2, <2>1, IdleTables DEF Advance
  <2>3. new.owner[p] \in {None, db.owner[p]}
    BY <1>2, <2>1, WritersClearOwners
  <2> QED BY <2>2, <2>3
<1> QED BY <1>1, <1>3, <1>4, <1>5, <1>6, <1>7 DEF Calls

\* Outside a transaction a claim replaces another identity only if the command
\* was asked to take over, and only the identity it had read.
THEOREM ClaimsAreNotStolen == Spec => TakeOverIsAsked
<1> DEFINE Step == \A p \in Phases :
                     LET o == db.owner[p] IN
                     o # None /\ db'.owner[p] \notin {None, o}
                     => \/ todo' = todo
                        \/ \E x \in Procs : ~Idle(x) /\ Current(x) = [Claim(p, TRUE) EXCEPT !.seen = o]
<1>1. PlanInv /\ Next => Step
  BY TakeOverStep
<1>2. PlanInv /\ [Next]_vars => [Step]_vars
  <2> HIDE DEF Step
  <2> QED BY <1>1
<1> QED BY <1>2, PlanInvariant, PTL DEF Spec, TakeOverIsAsked

(***************************************************************************)
(* A transaction and the phases whose work has been started.               *)
(***************************************************************************)
LEMMA EffectsOnPhase ==
  ASSUME NEW x, NEW d, Good(d), NEW c \in AllCalls, NEW p \in Phases, d.phase[p] # "pending",
         c.op \in {"shelve", "add phase", "phase", "demote"} =>
           c.on # p \/ (c.op = "phase" /\ c.to # "pending")
  PROVE  Effect(x, c, d).phase[p] # "pending"
<1>1. d \in Tables
  BY DEF Good
<1>2. CASE c.op = "shelve"
  <2> DEFINE e == [d EXCEPT !.owner[c.on] = Me(x)]
  <2>1. Effect(x, c, d) \in {SetPhase(e, c.on, "pending"), d}
    BY <1>2 DEF Effect
  <2>2. SetPhase(e, c.on, "pending").phase[p] = d.phase[p]
    <3> DEFINE q == c.on
    <3>1. e.phase = d.phase /\ q # p
      BY <1>1, <1>2 DEF Tables
    <3>2. SetPhase(e, q, "pending").phase = [e.phase EXCEPT ![q] = "pending"]
      <4> HIDE DEF q
      <4> QED BY <1>1 DEF SetPhase, Tables
    <3> HIDE DEF e, q
    <3> QED BY <1>1, <3>1, <3>2 DEF Tables, q
  <2> QED BY <2>1, <2>2
<1>3. CASE c.op \in {"phase", "demote"}
  <2>1. Effect(x, c, d) = SetPhase(d, c.on, c.to)
    BY <1>3 DEF Effect
  <2>2. SetPhase(d, c.on, c.to).phase = [d.phase EXCEPT ![c.on] = c.to]
    BY <1>1 DEF SetPhase, Tables
  <2> QED BY <1>1, <1>3, <2>1, <2>2 DEF Tables
<1>4. CASE c.op = "pin"
  <2>1. Effect(x, c, d) = FocusPhase(d, At[x], c.on)
    BY <1>4 DEF Effect
  <2>2. FocusPhase(d, At[x], c.on).phase = d.phase
    BY <1>1 DEF FocusPhase, Tables
  <2> QED BY <2>1, <2>2
<1>5. CASE c.op = "add phase"
  <2>1. Effect(x, c, d).phase = [d.phase EXCEPT ![c.on] = "pending"]
    BY <1>1, <1>5 DEF Effect, Tables
  <2> QED BY <1>1, <1>5, <2>1 DEF Tables
<1>6. CASE c.op \in {"remove phase", "remove epoch"}
  <2>1. ASSUME NEW ps PROVE Without(d, ps).phase[p] # "pending"
    BY <1>1 DEF Without, Tables
  <2>2. Effect(x, c, d) \in {Without(d, {c.on}), Without(d, PhasesOf(d, c.on))}
    BY <1>6 DEF Effect
  <2> QED BY <2>1, <2>2
<1>7. CASE c.op = "bankrupt"
  <2>1. Effect(x, c, d) = Bankrupt(d, c.on)
    BY <1>7 DEF Effect
  <2>2. Bankrupt(d, c.on).phase[p] \in {"abandoned", d.phase[p]}
    BY <1>1 DEF Bankrupt, Tables
  <2> QED BY <2>1, <2>2
<1>8. CASE c.op \in {"focus lane", "start lane", "remove lane"}
  <2>1. Effect(x, c, d) \in {FocusLane(d, At[x], c.on), StartLane(d, At[x], c.on), RemoveLane(d, c.on)}
    BY <1>8 DEF Effect
  <2>2. ASSUME NEW e \in {FocusLane(d, At[x], c.on), StartLane(d, At[x], c.on), RemoveLane(d, c.on)}
        PROVE  e.phase = d.phase
    BY <1>1, <2>2 DEF FocusLane, StartLane, RemoveLane, Tables
  <2> QED BY <2>1, <2>2
<1>9. CASE c.op \in {"claim", "ensure", "release", "clear", "add lane", "add goal", "add strike",
                     "move goal", "goal", "log goal", "remove goal", "add task", "task",
                     "move phase"}
  <2>1. Effect(x, c, d).phase = d.phase
    BY <1>1, <1>9 DEF Effect, RemoveGoal, Tables
  <2> QED BY <2>1
<1>10. CASE c.op \notin {"shelve", "phase", "demote", "pin", "add phase", "remove phase",
                         "remove epoch", "bankrupt", "focus lane", "start lane", "remove lane",
                         "claim", "ensure", "release", "clear", "add lane", "add goal",
                         "add strike", "move goal", "goal", "log goal", "remove goal",
                         "add task", "task", "move phase"}
  BY <1>10 DEF Effect
<1> QED BY <1>2, <1>3, <1>4, <1>5, <1>6, <1>7, <1>8, <1>9, <1>10

\* A transaction leaves the started phases running, unless one is put back.
LEMMA RunsSpare ==
  ASSUME NEW x \in Procs, NEW d, Good(d), NEW back, NEW calls, WellMade(d, back, calls),
         NEW p \in Phases, Running(d, p), Started(d, p), p \notin back
  PROVE  Runs(x, d, calls)[Len(calls)].db.phase[p] # "pending"
<1> DEFINE run == Runs(x, d, calls)
           N == Len(calls)
           S == {n \in 0..N : Good(run[n].db) /\ run[n].db.phase[p] # "pending"}
<1>1. /\ N \in Nat /\ \A n \in 1..N : calls[n] \in AllCalls
      /\ \A n \in 1..N : Sound(d, back, calls, n, calls[n])
  <2>1. calls \in Seq(AllCalls)
    BY DEF WellMade
  <2>2. Len(calls) \in Nat /\ \A n \in 1..Len(calls) : calls[n] \in AllCalls
    BY <2>1
  <2> QED BY <2>2 DEF WellMade
<1>2. run[0] = [ok |-> TRUE, db |-> d]
  BY <1>1, RunsStart
<1>3. \A n \in 0..(N-1) : run[n + 1] = After(x, d, calls[n + 1], run[n])
  <2>1. Len(calls) \in Nat
    BY <1>1
  <2> HIDE DEF run, N
  <2> TAKE n \in 0..(N - 1)
  <2> QED BY <2>1, RunsStep DEF run, N
<1> HIDE DEF run, N
<1>4. d.phase[p] = "in-progress"
  BY DEF Running
<1>5. 0 \in S
  BY <1>1, <1>2, <1>4
<1>6. ASSUME NEW n \in 0..(N-1), n \in S PROVE n + 1 \in S
  <2> DEFINE c == calls[n + 1]
  <2>1. /\ Good(run[n].db) /\ run[n].db.phase[p] # "pending"
        /\ n + 1 \in 1..N /\ c \in AllCalls /\ Sound(d, back, calls, n + 1, c)
    BY <1>1, <1>6
  <2> HIDE DEF c
  <2>2. c.op \in {"shelve", "add phase", "phase", "demote"} =>
           c.on # p \/ (c.op = "phase" /\ c.to # "pending")
    BY <1>4, <2>1 DEF Sound
  <2>3. CASE run[n].ok /\ Allowed(x, c, run[n].db)
    <3>1. Good(Effect(x, c, run[n].db))
      BY <2>1, <2>3, EffectKeeps
    <3>2. Effect(x, c, run[n].db).phase[p] # "pending"
      BY <2>1, <2>2, EffectsOnPhase
    <3>3. run[n + 1] = [ok |-> TRUE, db |-> Effect(x, c, run[n].db)]
      BY <1>3, <1>6, <2>3, Zenon DEF After, c
    <3>4. run[n + 1].db = Effect(x, c, run[n].db)
      BY <3>3
    <3> QED BY <2>1, <3>1, <3>2, <3>4
  <2>4. CASE ~(run[n].ok /\ Allowed(x, c, run[n].db))
    <3>1. run[n + 1] = [ok |-> FALSE, db |-> d]
      BY <1>3, <1>6, <2>4, Zenon DEF After, c
    <3>2. run[n + 1].db = d
      BY <3>1
    <3> QED BY <1>4, <2>1, <3>2
  <2> QED BY <2>3, <2>4
<1>7. N \in S
  <2> HIDE DEF S
  <2>1. 0..N \subseteq S
    BY <1>1, <1>5, <1>6, Induction
  <2> QED BY <1>1, <2>1
<1> QED BY <1>7 DEF run, N

LEMMA ShelvedStep ==
  ASSUME PlanInv, Next, NEW p \in Phases, Running(db, p), Started(db, p),
         db'.phase[p] = "pending", todo' = todo
  PROVE  \E x \in Procs : PlanUpdatePhase(x, p, "pending")
<1>1. PICK x \in Procs : Commands(x) \/ Calls(x)
  BY DEF Next
<1>2. Good(db) /\ db.phase[p] = "in-progress"
  BY DEF PlanInv, Running
<1>3. db' # db
  BY <1>2
<1>4. CASE Commands(x)
  <2>1. PICK back, calls : Commanded(x, back, calls)
    BY <1>2, <1>4, EveryCommand
  <2>2. InOne(x, calls) /\ WellMade(db, back, calls)
    BY <1>3, <2>1 DEF Commanded, OneByOne
  <2>3. p \notin back => Runs(x, db, calls)[Len(calls)].db.phase[p] # "pending"
    BY <1>2, <2>2, RunsSpare
  <2>4. p \in back
    BY <2>2, <2>3 DEF InOne
  <2> QED BY <2>1, <2>4 DEF Commanded
<1>5. CASE ReadOwner(x) \/ Dies(x)
  BY <1>3, <1>5, IdleTables
<1>6. CASE ClaimOwner(x)
  <2> DEFINE q == Current(x).on
             new == [db EXCEPT !.owner[q] = Me(x)]
  <2>1. \/ Refused(x) \/ Advance(x, Holds(x), db) \/ Advance(x, Holds(x), new)
    BY <1>6 DEF ClaimOwner
  <2>2. db' = new
    BY <1>3, <2>1, IdleTables DEF Advance
  <2> HIDE DEF q
  <2>3. new.phase = db.phase
    BY <1>2 DEF Good, Tables
  <2> QED BY <1>2, <2>2, <2>3
<1>7. CASE ReleaseOwner(x)
  <2> DEFINE q == Current(x).on
             new == [db EXCEPT !.owner[q] = None]
  <2>1. Fail(x) \/ Advance(x, Tail(todo[x]), new)
    <3> HIDE DEF new
    <3> QED BY <1>7, Zenon DEF ReleaseOwner, new
  <2>2. db' = new
    BY <1>3, <2>1, IdleTables DEF Advance
  <2> HIDE DEF q
  <2>3. new.phase = db.phase
    BY <1>2 DEF Good, Tables
  <2> QED BY <1>2, <2>2, <2>3
<1>8. CASE WriterCall(x)
  <2> DEFINE new == Effect(x, Current(x), db)
  <2>1. ~Idle(x) /\ (Fail(x) \/ Advance(x, Tail(todo[x]), new))
    <3> HIDE DEF new
    <3> QED BY <1>8, Zenon DEF WriterCall, new
  <2>2. todo' = [todo EXCEPT ![x] = Tail(todo[x])]
    BY <1>3, <2>1, IdleTables DEF Advance
  <2>3. /\ todo[x] # << >> /\ todo[x] \in Seq(AllCalls) /\ DOMAIN todo = Procs
        /\ Len(todo[x]) \in Nat \ {0}
    BY <2>1, CurrentCall DEF PlanInv
  <2>4. Len(Tail(todo[x])) = Len(todo[x]) - 1
    BY <2>3, HeadTailProperties
  <2>5. todo'[x] = Tail(todo[x])
    BY <2>2, <2>3
  <2>6. Tail(todo[x]) # todo[x]
    <3>1. \A n \in Nat \ {0} : n # n - 1
      OBVIOUS
    <3> QED BY <2>3, <2>4, <3>1, Zenon
  <2> QED BY <2>5, <2>6
<1> QED BY <1>1, <1>4, <1>5, <1>6, <1>7, <1>8 DEF Calls

\* In the daemon's transaction nothing puts a phase with started work back to
\* pending, but the command that names the phase and that status.
THEOREM StartedWorkStays == Spec => StartedWorkIsNotShelved
<1> DEFINE Step == \A p \in Phases :
                     Running(db, p) /\ Started(db, p) /\ db'.phase[p] = "pending"
                     => \/ todo' # todo
                        \/ \E x \in Procs : PlanUpdatePhase(x, p, "pending")
<1>1. PlanInv /\ Next => Step
  BY ShelvedStep
<1>2. PlanInv /\ [Next]_vars => [Step]_vars
  <2> HIDE DEF Step
  <2> QED BY <1>1
<1> QED BY <1>2, PlanInvariant, PTL DEF Spec, StartedWorkIsNotShelved

=============================================================================
