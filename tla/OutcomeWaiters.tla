-------------------------- MODULE OutcomeWaiters --------------------------
(***************************************************************************)
(* How requests wait for each other in one daemon: the condition variable  *)
(* behind wait_for_response.  The first request of an id reserves its row  *)
(* and executes; the others read the row and sleep until a notification or *)
(* their deadline.  A request that carries an approval first deletes the   *)
(* confirmation an earlier attempt was answered with.  The row lives in a  *)
(* database, the notification in the daemon's memory, and each is under a  *)
(* lock of its own.  The project gate, under which atomic requests execute *)
(* one at a time, is left out: everything here also holds without it.      *)
(***************************************************************************)
EXTENDS Naturals

CONSTANTS
  Ids,        \* request ids
  Requests,   \* requests, each handled by one thread
  IdOf,       \* the id of a request
  LoadOf,     \* its payload (the hash in the row)
  Loads,
  Approved,   \* the requests that carry an approval (auth.confirm)
  Inherited,  \* ids a worker of the daemon before this one still executes
  None

ASSUME WaiterConstants ==
  /\ IdOf \in [Requests -> Ids]
  /\ LoadOf \in [Requests -> Loads]
  /\ Approved \subseteq Requests
  /\ Inherited \subseteq Ids
  /\ None \notin Requests \union Loads

VARIABLES
  row,         \* the row of an id: its owner, payload and answer
  generation,  \* how many notifications there have been
  pc,          \* where a request is
  seen,        \* the generation a waiter observed
  read,        \* the row it then read, or its probe did
  late,        \* the waiters whose deadline has passed
  foreign      \* ids answered by the daemon before this one (history)

vars == <<row, generation, pc, seen, read, late, foreign>>

\* A confirmation asks the client for an approval; any other answer is final.
Answers == {"final", "confirmation"}
Rows  == [owner : Requests, load : Loads, answer : Answers \union {"none"}]
NoRow == [owner |-> None, load |-> None, answer |-> "none"]
Answered(entry) == entry.answer # "none"

Ended == {"answered", "conflict", "released", "timed out", "executed", "unheard"}

Init ==
  /\ row = [id \in Ids |-> NoRow]
  /\ generation = 0
  /\ pc = [r \in Requests |-> "new"]
  /\ seen = [r \in Requests |-> 0]
  /\ read = [r \in Requests |-> NoRow]
  /\ late = {}
  /\ foreign = {}

Mine(r)  == row[IdOf[r]]
Goes(r, to) == pc' = [pc EXCEPT ![r] = to]

(***************************************************************************)
(* Before it reserves: terminal_outcome_before_preparation.                *)
(***************************************************************************)
\* Faulty: an approved request supersedes whatever answer is stored.
SupersedesAny(r) == r \in Approved /\ Answered(Mine(r))

\* A stored confirmation does not answer a request that brings the approval.
Supersedes(r) == r \in Approved /\ Mine(r).answer = "confirmation"

Probes(r) ==
  /\ pc[r] = "new"
  /\ read' = [read EXCEPT ![r] = Mine(r)]
  /\ \/ Goes(r, CASE Mine(r) = NoRow                 -> "reserve"
                  [] Mine(r) # NoRow /\ Mine(r).load # LoadOf[r] -> "conflict"
                  [] Mine(r).load = LoadOf[r] /\ Supersedes(r)   -> "drop"
                  [] Mine(r).load = LoadOf[r] /\ Answered(Mine(r))
                       /\ ~Supersedes(r)                         -> "answered"
                  [] OTHER                            -> "reserve")
     \/ Goes(r, "reserve")   \* the lookup failed
  /\ UNCHANGED <<row, generation, seen, late, foreign>>

\* The delete names the payload and the response that were read; nobody is
\* notified of it.
DropsConfirmation(r) ==
  /\ pc[r] = "drop"
  /\ row' = IF Mine(r).load = read[r].load /\ Mine(r).answer = read[r].answer
               THEN [row EXCEPT ![IdOf[r]] = NoRow] ELSE row
  /\ Goes(r, "reserve")
  /\ UNCHANGED <<generation, seen, read, late, foreign>>

(***************************************************************************)
(* A request that executes: as the owner of its row, or beside the ledger. *)
(***************************************************************************)
Reserves(r) ==
  /\ pc[r] = "reserve"
  /\ IF Mine(r) = NoRow
     THEN /\ row' = [row EXCEPT ![IdOf[r]] =
                       [owner |-> r, load |-> LoadOf[r], answer |-> "none"]]
          /\ Goes(r, "owner")
     ELSE /\ Goes(r, CASE Mine(r).load # LoadOf[r] -> "conflict"
                       [] Mine(r).load = LoadOf[r] /\ Answered(Mine(r)) -> "answered"
                       [] OTHER -> "observe")
          /\ UNCHANGED row
  /\ UNCHANGED <<generation, seen, read, late, foreign>>

\* The ledger cannot be written: an atomic request runs all the same.
ReserveFails(r) ==
  /\ pc[r] = "reserve"
  /\ Goes(r, "beside")
  /\ UNCHANGED <<row, generation, seen, read, late, foreign>>

Unanswered(r) == Mine(r).load = LoadOf[r] /\ ~Answered(Mine(r))

\* complete updates whichever unanswered row has the id and the payload, a
\* row this request does not own too.
Completes(r) ==
  /\ pc[r] \in {"owner", "beside"}
  /\ IF Unanswered(r)
     THEN /\ \E answer \in Answers :
               row' = [row EXCEPT ![IdOf[r]].answer = answer]
          /\ Goes(r, "notify")
     ELSE Goes(r, "unheard") /\ UNCHANGED row
  /\ UNCHANGED <<generation, seen, read, late, foreign>>

\* abandon, by the owner; the row stays when somebody has answered it.
Abandons(r) ==
  /\ pc[r] = "owner"
  /\ IF Unanswered(r)
     THEN row' = [row EXCEPT ![IdOf[r]] = NoRow] /\ Goes(r, "notify")
     ELSE Goes(r, "unheard") /\ UNCHANGED row
  /\ UNCHANGED <<generation, seen, read, late, foreign>>

Awake(p) == IF p = "asleep" THEN "observe" ELSE p

\* Faulty: sleepers are woken, the generation stays.
NotifiesOnly(r) ==
  /\ pc[r] = "notify"
  /\ pc' = [q \in Requests |-> IF q = r THEN "executed" ELSE Awake(pc[q])]
  /\ UNCHANGED <<row, generation, seen, read, late, foreign>>

\* notify_waiters
Notifies(r) ==
  /\ pc[r] = "notify"
  /\ generation' = generation + 1
  /\ pc' = [q \in Requests |-> IF q = r THEN "executed" ELSE Awake(pc[q])]
  /\ UNCHANGED <<row, seen, read, late, foreign>>

\* A worker of the daemon before this one completes this daemon's row; the
\* waiters here are not told.
ForeignCompletes(id) ==
  /\ id \in Inherited
  /\ row[id] # NoRow /\ ~Answered(row[id])
  /\ \E answer \in Answers : row' = [row EXCEPT ![id].answer = answer]
  /\ foreign' = foreign \union {id}
  /\ UNCHANGED <<generation, pc, seen, read, late>>

(***************************************************************************)
(* A waiter: the loop of wait_for_response.                                *)
(***************************************************************************)
Observes(r) ==
  /\ pc[r] = "observe"
  /\ seen' = [seen EXCEPT ![r] = generation]
  /\ Goes(r, "read")
  /\ UNCHANGED <<row, generation, read, late, foreign>>

Reads(r) ==
  /\ pc[r] = "read"
  /\ read' = [read EXCEPT ![r] = Mine(r)]
  /\ Goes(r, CASE Mine(r) = NoRow             -> "released"
               [] Mine(r) # NoRow /\ Mine(r).load # LoadOf[r] -> "conflict"
               [] Mine(r) # NoRow /\ Mine(r).load = LoadOf[r] /\ Answered(Mine(r)) -> "answered"
               [] OTHER -> IF r \in late THEN "gives up" ELSE "lock")
  /\ UNCHANGED <<row, generation, seen, late, foreign>>

\* A late waiter reports that the request is pending, or replays the outcome
\* which its owner has committed without having answered the row yet.
GivesUp(r) ==
  /\ pc[r] = "gives up"
  /\ \E to \in {"timed out", "beside"} : Goes(r, to)
  /\ UNCHANGED <<row, generation, seen, read, late, foreign>>

\* Faulty: the generation is not compared before sleeping.
SleepsUnchecked(r) ==
  /\ pc[r] = "lock"
  /\ Goes(r, "asleep")
  /\ UNCHANGED <<row, generation, seen, read, late, foreign>>

\* Comparing the generation and going to sleep are one step under its lock.
Sleeps(r) ==
  /\ pc[r] = "lock"
  /\ Goes(r, IF generation = seen[r] THEN "asleep" ELSE "observe")
  /\ UNCHANGED <<row, generation, seen, read, late, foreign>>

DeadlinePasses(r) ==
  /\ pc[r] \in {"observe", "read", "lock", "asleep"} /\ r \notin late
  /\ late' = late \union {r}
  /\ UNCHANGED <<row, generation, pc, seen, read, foreign>>

\* The wait times out.
WakesLate(r) ==
  /\ pc[r] = "asleep" /\ r \in late
  /\ Goes(r, "observe")
  /\ UNCHANGED <<row, generation, seen, read, late, foreign>>

\* A condition variable may wake without cause.
WakesSpuriously(r) ==
  /\ pc[r] = "asleep"
  /\ Goes(r, "observe")
  /\ UNCHANGED <<row, generation, seen, read, late, foreign>>

Next ==
  \/ \E r \in Requests :
       \/ Probes(r) \/ DropsConfirmation(r)
       \/ Reserves(r) \/ ReserveFails(r) \/ Completes(r) \/ Abandons(r) \/ Notifies(r)
       \/ Observes(r) \/ Reads(r) \/ Sleeps(r) \/ GivesUp(r)
       \/ DeadlinePasses(r) \/ WakesLate(r) \/ WakesSpuriously(r)
  \/ \E id \in Ids : ForeignCompletes(id)

Spec == Init /\ [][Next]_vars

\* Threads that can run do; a deadline need not come while anyone watches,
\* and nothing wakes a sleeper but a notification or its deadline.
FairSpec ==
  /\ Spec
  /\ \A r \in Requests :
       /\ WF_vars(Probes(r)) /\ WF_vars(DropsConfirmation(r))
       /\ WF_vars(Reserves(r)) /\ WF_vars(Completes(r) \/ Abandons(r))
       /\ WF_vars(Notifies(r)) /\ WF_vars(WakesLate(r))
       /\ WF_vars(Observes(r)) /\ WF_vars(Reads(r))
       /\ WF_vars(Sleeps(r)) /\ WF_vars(GivesUp(r))

(***************************************************************************)
(* Properties.                                                             *)
(***************************************************************************)
Waiting == {"observe", "read", "lock", "asleep"}
Working == {"new", "drop", "reserve", "owner", "beside", "notify", "gives up"}

\* The rows name the requests that reserved them and their payloads.
TypeOK ==
  /\ row \in [Ids -> Rows \union {NoRow}]
  /\ generation \in Nat
  /\ pc \in [Requests -> Waiting \union Ended \union Working]
  /\ seen \in [Requests -> Nat]
  /\ read \in [Requests -> Rows \union {NoRow}]
  /\ late \subseteq Requests
  /\ foreign \subseteq Inherited

\* A request that sleeps on a row which has changed since it read it will be
\* notified: some worker is between its write and notify_waiters.  Only an
\* answer from another daemon's worker goes unannounced.
NoLostWakeUp ==
  \A r \in Requests :
    pc[r] = "asleep" /\ Mine(r) # read[r] /\ IdOf[r] \notin foreign
      => \E o \in Requests : pc[o] = "notify"

\* A stored answer stays for every resend, but for one case: a confirmation is
\* deleted, by a request under the same id and payload that brings the approval
\* it asks for.  A final answer never leaves (retention, a week later, is in
\* RequestOutcomes), and a row without an answer is deleted only while the
\* request that reserved it has not ended.
AnswersStay ==
  [][\A id \in Ids :
       /\ row[id].answer = "final" => row'[id] = row[id]
       /\ row[id].answer = "confirmation" /\ row'[id] # row[id] =>
            /\ row'[id] = NoRow
            /\ \E r \in Approved :
                 pc[r] = "drop" /\ IdOf[r] = id /\ LoadOf[r] = row[id].load
       /\ row[id] # NoRow /\ ~Answered(row[id]) /\ row'[id] = NoRow =>
            pc[row[id].owner] = "owner"]_vars

\* A request that waits returns once its id is answered, though its deadline
\* never comes; an answer from another daemon's worker it finds by then.
AnswerIsHeard ==
  \A r \in Requests :
    pc[r] \in Waiting /\ Answered(Mine(r)) ~>
      pc[r] \in Ended \/ (IdOf[r] \in foreign /\ r \notin late)

=============================================================================
