----------------------- MODULE OutcomeWaitersProofs -----------------------
(***************************************************************************)
(* No waiter sleeps past a notification, for any number of requests and    *)
(* ids.  The generation is what makes it so: a waiter that read the row    *)
(* before it changed has seen an older generation, or the worker that      *)
(* changed it has not yet notified.  The deletion of a confirmation tells  *)
(* nobody; whoever sleeps on that row is owed the notification of the      *)
(* answer it replaces.                                                     *)
(***************************************************************************)
EXTENDS OutcomeWaiters, TLAPS

\* What a waiter has seen is not newer than what there is.
Seen == \A r \in Requests : seen[r] <= generation

\* A notification wakes every sleeper: those asleep have seen the newest.
Sleepers == \A r \in Requests : pc[r] = "asleep" => seen[r] = generation

\* A waiter about to sleep has read an unanswered row.
Found ==
  \A r \in Requests :
    pc[r] \in {"lock", "asleep"} => read[r] # NoRow /\ ~Answered(read[r])

\* An approved request deletes the confirmation it has read.
Confirmed ==
  \A r \in Requests :
    pc[r] = "drop" => /\ r \in Approved /\ read[r].load = LoadOf[r]
                      /\ read[r].answer = "confirmation"

Pending == \E o \in Requests : pc[o] = "notify"

\* A waiter whose row changed since it read it, and whose generation is still
\* the newest, has a notification coming.
Warned ==
  \A r \in Requests :
    /\ pc[r] \in {"lock", "asleep"} /\ seen[r] = generation
    /\ row[IdOf[r]] # read[r] /\ IdOf[r] \notin foreign
    => Pending

\* A reservation without an answer has an owner that executes it.
Owned ==
  \A id \in Ids :
    row[id] # NoRow /\ ~Answered(row[id]) =>
      /\ pc[row[id].owner] = "owner" /\ IdOf[row[id].owner] = id
      /\ LoadOf[row[id].owner] = row[id].load

IInv == TypeOK /\ Seen /\ Sleepers /\ Found /\ Confirmed /\ Warned /\ Owned

RowType == Rows \union {NoRow}

USE WaiterConstants

\* Answering a row keeps its owner, and no answered row looks like none.
LEMMA AnsweredRow ==
  ASSUME TypeOK, NEW id \in Ids, NEW answer \in Answers
  PROVE  /\ [row[id] EXCEPT !.answer = answer].owner = row[id].owner
         /\ [row[id] EXCEPT !.answer = answer].answer = answer
         /\ [row[id] EXCEPT !.answer = answer] # NoRow
         /\ row[id] # NoRow => [row[id] EXCEPT !.answer = answer] \in RowType
<1>1. row[id] \in RowType /\ answer # "none"
  BY DEF TypeOK, RowType, Answers
<1>2. CASE row[id] = NoRow
  BY <1>1, <1>2 DEF NoRow
<1>3. CASE row[id] \in Rows
  BY <1>1, <1>3 DEF NoRow, Rows, RowType
<1>4. QED BY <1>1, <1>2, <1>3 DEF RowType

LEMMA InitIInv == Init => IInv
  BY DEF Init, IInv, TypeOK, Seen, Sleepers, Found, Confirmed, Warned, Owned, NoRow,
         Ended, Waiting, Working

\* A probe reads the row; the deletion that may follow leaves a row which
\* nobody has read as it was, for it was answered.
LEMMA ProbesIInv ==
  ASSUME IInv, NEW r \in Requests, Probes(r)
  PROVE  IInv'
<1> USE DEF Probes, Mine, Goes
<1>1. TypeOK'
  <2>1. pc' \in [Requests -> Waiting \union Ended \union Working]
    BY DEF IInv, TypeOK, Waiting, Ended, Working
  <2>2. read' \in [Requests -> RowType]
    BY DEF IInv, TypeOK, RowType
  <2>3. QED BY <2>1, <2>2 DEF IInv, TypeOK, RowType
<1>2. /\ UNCHANGED <<row, generation, seen, late, foreign>>
      /\ \A q \in Requests \ {r} : pc'[q] = pc[q] /\ read'[q] = read[q]
      /\ pc[r] = "new" /\ pc'[r] \in {"reserve", "conflict", "drop", "answered"}
      /\ pc'[r] = "drop" => /\ Mine(r).load = LoadOf[r] /\ Supersedes(r)
                            /\ read'[r] = Mine(r)
  BY DEF IInv, TypeOK
<1>3. (Seen /\ Sleepers /\ Found)'
  BY <1>2 DEF IInv, TypeOK, Seen, Sleepers, Found
<1>4. Confirmed'
  BY <1>2 DEF IInv, TypeOK, Confirmed, Supersedes
<1>5. Warned'
  <2>1. Pending => Pending'
    BY <1>2 DEF Pending
  <2>2. QED BY <1>2, <2>1 DEF IInv, Warned
<1>6. Owned'
  BY <1>2 DEF IInv, Owned, TypeOK, Rows
<1>7. QED BY <1>1, <1>3, <1>4, <1>5, <1>6 DEF IInv

LEMMA DropsIInv ==
  ASSUME IInv, NEW r \in Requests, DropsConfirmation(r)
  PROVE  IInv'
<1> USE DEF DropsConfirmation, Mine, Goes
<1>1. TypeOK'
  <2>1. row' \in [Ids -> RowType]
    <3>1. row \in [Ids -> RowType] /\ NoRow \in RowType
      BY DEF IInv, TypeOK, RowType
    <3> HIDE DEF RowType, NoRow
    <3>2. QED BY <3>1
  <2>2. pc' \in [Requests -> Waiting \union Ended \union Working]
    BY DEF IInv, TypeOK, Working
  <2>3. QED BY <2>1, <2>2 DEF IInv, TypeOK, RowType
<1>2. /\ UNCHANGED <<generation, seen, read, late, foreign>>
      /\ \A q \in Requests \ {r} : pc'[q] = pc[q]
      /\ pc[r] = "drop" /\ pc'[r] = "reserve"
      /\ \A id \in Ids : \/ row'[id] = row[id]
                         \/ row'[id] = NoRow /\ row[id].answer = "confirmation"
  BY DEF IInv, TypeOK, Confirmed
<1>3. (Seen /\ Sleepers /\ Found /\ Confirmed)'
  BY <1>2 DEF IInv, TypeOK, Seen, Sleepers, Found, Confirmed
<1>4. Warned'
  <2> SUFFICES ASSUME NEW q \in Requests, pc[q] \in {"lock", "asleep"},
                      seen[q] = generation, IdOf[q] \notin foreign,
                      row'[IdOf[q]] # read[q]
               PROVE  Pending'
    BY <1>2 DEF Warned
  <2>1. row[IdOf[q]] # read[q]
    <3>1. ~Answered(read[q])
      BY DEF IInv, Found
    <3>2. QED BY <1>2, <3>1 DEF Answered
  <2>2. Pending => Pending'
    BY <1>2 DEF Pending
  <2>3. QED BY <2>1, <2>2 DEF IInv, Warned
<1>5. Owned'
  BY <1>2 DEF IInv, Owned, TypeOK, Rows
<1>6. QED BY <1>1, <1>3, <1>4, <1>5 DEF IInv

\* Reserving changes a row only where there was none.
LEMMA ReservesIInv ==
  ASSUME IInv, NEW r \in Requests, Reserves(r)
  PROVE  IInv'
<1> DEFINE new == [owner |-> r, load |-> LoadOf[r], answer |-> "none"]
<1>1. new \in Rows /\ new # NoRow /\ IdOf[r] \in Ids
  BY DEF Rows, NoRow
<1>2. \/ /\ row[IdOf[r]] = NoRow /\ pc' = [pc EXCEPT ![r] = "owner"]
         /\ row' = [row EXCEPT ![IdOf[r]] = new]
      \/ /\ row' = row
         /\ \E to \in {"conflict", "answered", "observe"} : pc' = [pc EXCEPT ![r] = to]
  BY Zenon DEF Reserves, Mine, Goes
<1>3. /\ pc[r] = "reserve" /\ pc'[r] \in {"owner", "conflict", "answered", "observe"}
      /\ \A q \in Requests \ {r} : pc'[q] = pc[q]
      /\ UNCHANGED <<generation, seen, read, late, foreign>>
  BY <1>2 DEF Reserves, IInv, TypeOK
<1> HIDE DEF new
<1>4. TypeOK'
  <2>1. row' \in [Ids -> RowType]
    BY <1>1, <1>2 DEF IInv, TypeOK, RowType
  <2>2. pc' \in [Requests -> Waiting \union Ended \union Working]
    BY <1>2 DEF IInv, TypeOK, Waiting, Ended, Working
  <2>3. QED BY <1>3, <2>1, <2>2 DEF IInv, TypeOK, RowType
<1>5. (Seen /\ Sleepers /\ Found /\ Confirmed)'
  BY <1>3 DEF IInv, TypeOK, Seen, Sleepers, Found, Confirmed
<1>6. Warned'
  <2> SUFFICES ASSUME NEW q \in Requests, pc[q] \in {"lock", "asleep"},
                      seen[q] = generation, IdOf[q] \notin foreign,
                      row'[IdOf[q]] # read[q]
               PROVE  Pending'
    BY <1>3 DEF Warned
  <2>1. row[IdOf[q]] # read[q]
    BY <1>2 DEF IInv, TypeOK, Found
  <2>2. Pending => Pending'
    BY <1>3 DEF Pending
  <2>3. QED BY <2>1, <2>2 DEF IInv, Warned
<1>7. Owned'
  <2> SUFFICES ASSUME NEW id \in Ids, row'[id] # NoRow, ~Answered(row'[id])
               PROVE  /\ pc'[row'[id].owner] = "owner" /\ IdOf[row'[id].owner] = id
                      /\ LoadOf[row'[id].owner] = row'[id].load
    BY DEF Owned
  <2>1. CASE row'[id] = row[id]
    BY <1>3, <2>1 DEF IInv, TypeOK, Owned, Rows
  <2>2. CASE row'[id] # row[id]
    <3>1. id = IdOf[r] /\ row'[id] = new /\ pc'[r] = "owner"
      BY <1>1, <1>2, <2>2 DEF IInv, TypeOK
    <3>2. QED BY <3>1 DEF new
  <2>3. QED BY <2>1, <2>2
<1>8. QED BY <1>4, <1>5, <1>6, <1>7 DEF IInv

\* Whoever answers or deletes a row owes a notification.
LEMMA EndsIInv ==
  ASSUME IInv, NEW r \in Requests, Completes(r) \/ Abandons(r)
  PROVE  IInv'
<1>1. \/ /\ Unanswered(r) /\ pc' = [pc EXCEPT ![r] = "notify"]
         /\ \/ \E answer \in Answers :
                   row' = [row EXCEPT ![IdOf[r]].answer = answer]
            \/ row' = [row EXCEPT ![IdOf[r]] = NoRow]
      \/ ~Unanswered(r) /\ row' = row /\ pc' = [pc EXCEPT ![r] = "unheard"]
  BY DEF Completes, Abandons, Goes
<1>2. /\ pc[r] \in {"owner", "beside"} /\ pc'[r] \in {"notify", "unheard"}
      /\ \A q \in Requests \ {r} : pc'[q] = pc[q]
      /\ UNCHANGED <<generation, seen, read, late, foreign>>
      /\ IdOf[r] \in Ids
  BY <1>1 DEF Completes, Abandons, IInv, TypeOK
<1>3. Unanswered(r) => row[IdOf[r]] # NoRow
  BY DEF Unanswered, Mine, NoRow
<1>a. ASSUME NEW answer \in Answers, row' = [row EXCEPT ![IdOf[r]].answer = answer]
      PROVE  /\ Answered(row'[IdOf[r]])
             /\ \A id \in Ids \ {IdOf[r]} : row'[id] = row[id]
  <2>1. DOMAIN row = Ids /\ TypeOK
    BY DEF IInv, TypeOK
  <2>2. /\ row'[IdOf[r]] = [row[IdOf[r]] EXCEPT !.answer = answer]
        /\ \A id \in Ids \ {IdOf[r]} : row'[id] = row[id]
    BY ONLY <1>a, <1>2, <2>1
  <2>3. row'[IdOf[r]].answer = answer
    BY ONLY <1>2, <2>1, <2>2, AnsweredRow, answer \in Answers
  <2>4. QED BY ONLY <2>2, <2>3, answer \in Answers DEF Answered, Answers
<1>d. row' = [row EXCEPT ![IdOf[r]] = NoRow] =>
        row'[IdOf[r]] = NoRow /\ \A id \in Ids \ {IdOf[r]} : row'[id] = row[id]
  BY <1>2 DEF IInv, TypeOK
<1>4. \A id \in Ids :
        \/ row'[id] = row[id]
        \/ id = IdOf[r] /\ (row'[id] = NoRow \/ Answered(row'[id]))
  <2> HIDE DEF NoRow
  <2>1. QED BY ONLY <1>1, <1>a, <1>d
<1>e. Unanswered(r) => row'[IdOf[r]] = NoRow \/ Answered(row'[IdOf[r]])
  <2> HIDE DEF NoRow
  <2>1. QED BY ONLY <1>1, <1>a, <1>d
<1>5. TypeOK'
  <2>1. row' \in [Ids -> RowType]
    <3>1. row \in [Ids -> RowType] /\ NoRow \in RowType
      BY DEF IInv, TypeOK, RowType
    <3>2. ASSUME NEW answer \in Answers, Unanswered(r)
          PROVE  [row[IdOf[r]] EXCEPT !.answer = answer] \in RowType
      BY <1>2, <1>3, <3>2, AnsweredRow DEF IInv
    <3> HIDE DEF RowType, NoRow
    <3>3. QED BY <1>1, <3>1, <3>2
  <2>2. pc' \in [Requests -> Waiting \union Ended \union Working]
    BY <1>1 DEF IInv, TypeOK, Ended, Working
  <2>3. QED BY <1>2, <2>1, <2>2 DEF IInv, TypeOK, RowType
<1>6. (Seen /\ Sleepers /\ Found /\ Confirmed)'
  BY <1>2 DEF IInv, TypeOK, Seen, Sleepers, Found, Confirmed
<1>7. Warned'
  <2>1. CASE pc'[r] = "notify"
    BY <2>1 DEF Warned, Pending
  <2>2. CASE row' = row /\ pc[r] # "notify"
    <3>1. Pending => Pending'
      BY <1>2, <2>2 DEF Pending
    <3>2. QED BY <1>2, <2>2, <3>1 DEF IInv, Warned
  <2>3. QED BY <1>1, <1>2, <2>1, <2>2 DEF IInv, TypeOK
<1>8. Owned'
  <2> SUFFICES ASSUME NEW id \in Ids, row'[id] # NoRow, ~Answered(row'[id])
               PROVE  /\ pc'[row'[id].owner] = "owner" /\ IdOf[row'[id].owner] = id
                      /\ LoadOf[row'[id].owner] = row'[id].load
    BY DEF Owned
  <2>1. row'[id] = row[id]
    BY <1>4
  <2>2. /\ pc[row[id].owner] = "owner" /\ IdOf[row[id].owner] = id
        /\ LoadOf[row[id].owner] = row[id].load /\ row[id].owner \in Requests
    BY <2>1 DEF IInv, Owned, TypeOK, Rows
  <2>3. row[id].owner # r
    <3>1. CASE Unanswered(r)
      <4>1. row'[IdOf[r]] # row[IdOf[r]]
        BY <1>1, <1>2, <1>3, <1>e, <3>1 DEF Unanswered, Mine
      <4>2. QED BY <2>1, <2>2, <4>1
    <3>2. CASE ~Unanswered(r)
      BY <2>1, <2>2, <3>2 DEF Unanswered, Mine
    <3>3. QED BY <3>1, <3>2
  <2>4. QED BY <1>2, <2>1, <2>2, <2>3
<1>9. QED BY <1>5, <1>6, <1>7, <1>8 DEF IInv

\* After a notification nobody sleeps, and nobody has seen its generation.
LEMMA NotifiesIInv ==
  ASSUME IInv, NEW r \in Requests, Notifies(r)
  PROVE  IInv'
<1> USE DEF Notifies, Awake
<1>1. TypeOK'
  <2>0. generation' \in Nat
    <3>1. generation' = generation + 1
      OBVIOUS
    <3>2. generation \in Nat
      BY DEF IInv, TypeOK
    <3>3. QED BY ONLY <3>1, <3>2
  <2>1. pc' \in [Requests -> Waiting \union Ended \union Working]
    BY DEF IInv, TypeOK, Waiting, Ended, Working
  <2>2. QED BY <2>0, <2>1 DEF IInv, TypeOK
<1>2. \A q \in Requests : seen'[q] <= generation' /\ seen'[q] # generation'
  <2>1. generation \in Nat /\ generation' = generation + 1 /\ seen' = seen
    BY DEF IInv, TypeOK
  <2>2. \A q \in Requests : seen[q] \in Nat /\ seen[q] <= generation
    BY DEF IInv, TypeOK, Seen
  <2>3. QED BY <2>1, <2>2
<1>3. \A q \in Requests : pc'[q] # "asleep"
  BY DEF IInv, TypeOK
<1>4. Seen' /\ Sleepers' /\ Warned'
  BY ONLY <1>2, <1>3 DEF Seen, Sleepers, Warned
<1>5. \A q \in Requests : pc'[q] \in {"lock", "owner", "drop"} => pc[q] = pc'[q]
  BY DEF IInv, TypeOK
<1>6. Found' /\ Confirmed' /\ Owned'
  <2>1. \A q \in Requests : pc[q] = "owner" => pc'[q] = "owner"
    BY DEF IInv, TypeOK
  <2>2. QED BY <1>3, <1>5, <2>1 DEF IInv, TypeOK, Found, Confirmed, Owned, Rows
<1>7. QED BY <1>1, <1>4, <1>6 DEF IInv

\* Another daemon's answer is the one a waiter need not be told of.
LEMMA ForeignIInv ==
  ASSUME IInv, NEW id \in Ids, ForeignCompletes(id)
  PROVE  IInv'
<1>1. PICK answer \in Answers : row' = [row EXCEPT ![id].answer = answer]
  BY DEF ForeignCompletes
<1>2. /\ UNCHANGED <<generation, pc, seen, read, late>>
      /\ foreign' = foreign \union {id} /\ id \in Inherited /\ row[id] # NoRow
  BY DEF ForeignCompletes
<1>3. \A i \in Ids : row'[i] = row[i] \/ (i = id /\ Answered(row'[i]))
  BY <1>1, AnsweredRow DEF IInv, TypeOK, Answered, Answers
<1>4. TypeOK'
  <2>1. row' \in [Ids -> RowType]
    <3>1. row \in [Ids -> RowType]
          /\ [row[id] EXCEPT !.answer = answer] \in RowType
      BY <1>2, AnsweredRow DEF IInv, TypeOK, RowType
    <3> HIDE DEF RowType
    <3>2. QED BY <1>1, <3>1
  <2>2. QED BY <1>2, <2>1 DEF IInv, TypeOK, RowType
<1>5. (Seen /\ Sleepers /\ Found /\ Confirmed)'
  BY <1>2 DEF IInv, TypeOK, Seen, Sleepers, Found, Confirmed
<1>6. Warned'
  <2> SUFFICES ASSUME NEW q \in Requests, pc[q] \in {"lock", "asleep"},
                      seen[q] = generation, IdOf[q] \notin foreign', row'[IdOf[q]] # read[q]
               PROVE  Pending
    BY <1>2 DEF Warned, Pending
  <2>1. row[IdOf[q]] # read[q] /\ IdOf[q] \notin foreign
    BY <1>2, <1>3
  <2>2. QED BY <2>1 DEF IInv, Warned
<1>7. Owned'
  BY <1>2, <1>3 DEF IInv, Owned
<1>8. QED BY <1>4, <1>5, <1>6, <1>7 DEF IInv

\* The waiter's own steps read the row and move its counter.
LEMMA WaitsIInv ==
  ASSUME IInv, NEW r \in Requests,
         \/ ReserveFails(r) \/ Observes(r) \/ Reads(r) \/ Sleeps(r) \/ GivesUp(r)
         \/ DeadlinePasses(r) \/ WakesLate(r) \/ WakesSpuriously(r)
  PROVE  IInv'
<1> USE DEF ReserveFails, Observes, Reads, Sleeps, GivesUp, DeadlinePasses, WakesLate,
            WakesSpuriously, Mine, Goes
<1>1. TypeOK'
  <2>1. pc' \in [Requests -> Waiting \union Ended \union Working]
    BY DEF IInv, TypeOK, Waiting, Ended, Working
  <2>2. seen' \in [Requests -> Nat] /\ late' \subseteq Requests
    <3>1. /\ seen' = seen \/ seen' = [seen EXCEPT ![r] = generation]
          /\ late' = late \/ late' = late \union {r}
      BY ONLY ReserveFails(r) \/ Observes(r) \/ Reads(r) \/ Sleeps(r) \/ GivesUp(r)
              \/ DeadlinePasses(r) \/ WakesLate(r) \/ WakesSpuriously(r), Zenon
      DEF ReserveFails, Observes, Reads, Sleeps, GivesUp, DeadlinePasses, WakesLate,
          WakesSpuriously
    <3>2. QED BY ONLY <3>1, IInv, r \in Requests DEF IInv, TypeOK
  <2>3. read' \in [Requests -> RowType]
    BY DEF IInv, TypeOK, RowType
  <2>4. QED BY <2>1, <2>2, <2>3 DEF IInv, TypeOK, RowType
<1>2. Seen'
  <2>1. UNCHANGED generation /\ (seen' = seen \/ seen' = [seen EXCEPT ![r] = generation])
    OBVIOUS
  <2>2. generation \in Nat /\ seen \in [Requests -> Nat] /\ Seen
    BY DEF IInv, TypeOK
  <2>3. QED BY ONLY <2>1, <2>2 DEF Seen
<1>3. Sleepers'
  BY DEF IInv, TypeOK, Sleepers
<1>r. Reads(r) =>
        /\ read'[r] = row[IdOf[r]] /\ row' = row
        /\ pc'[r] \notin {"drop", "asleep"}
        /\ pc'[r] = "lock" => row[IdOf[r]] # NoRow /\ ~Answered(row[IdOf[r]])
  <2> SUFFICES ASSUME Reads(r) PROVE
        /\ read'[r] = row[IdOf[r]] /\ row' = row
        /\ pc'[r] \notin {"drop", "asleep"}
        /\ pc'[r] = "lock" => row[IdOf[r]] # NoRow /\ ~Answered(row[IdOf[r]])
    OBVIOUS
  <2> HIDE DEF NoRow
  <2>0. read \in [Requests -> RowType] /\ DOMAIN pc = Requests
    BY DEF IInv, TypeOK, RowType
  <2> DEFINE entry == row[IdOf[r]]
             then == CASE entry = NoRow -> "released"
                       [] entry # NoRow /\ entry.load # LoadOf[r] -> "conflict"
                       [] entry # NoRow /\ entry.load = LoadOf[r] /\ Answered(entry)
                            -> "answered"
                       [] OTHER -> IF r \in late THEN "gives up" ELSE "lock"
  <2>1. read' = [read EXCEPT ![r] = entry] /\ pc' = [pc EXCEPT ![r] = then] /\ row' = row
    BY ONLY Reads(r) DEF Reads, Goes, Mine
  <2>2. CASE entry = NoRow
    <3>1. then = "released" BY ONLY <2>2
    <3> HIDE DEF then
    <3>2. QED BY ONLY <2>0, <2>1, <3>1, r \in Requests
  <2>3. CASE entry # NoRow /\ entry.load # LoadOf[r]
    <3>1. then = "conflict" BY ONLY <2>3
    <3> HIDE DEF then
    <3>2. QED BY ONLY <2>0, <2>1, <3>1, r \in Requests
  <2>4. CASE entry # NoRow /\ entry.load = LoadOf[r] /\ Answered(entry)
    <3>1. then = "answered" BY ONLY <2>4
    <3> HIDE DEF then
    <3>2. QED BY ONLY <2>0, <2>1, <3>1, r \in Requests
  <2>5. CASE entry # NoRow /\ entry.load = LoadOf[r] /\ ~Answered(entry)
    <3>1. then \in {"gives up", "lock"} BY ONLY <2>5
    <3> HIDE DEF then
    <3>2. QED BY ONLY <2>0, <2>1, <2>5, <3>1, r \in Requests
  <2>6. QED BY ONLY <2>2, <2>3, <2>4, <2>5
<1>4. Found' /\ Confirmed'
  <2> SUFFICES ASSUME NEW q \in Requests
               PROVE  /\ pc'[q] \in {"lock", "asleep"}
                           => read'[q] # NoRow /\ ~Answered(read'[q])
                      /\ pc'[q] = "drop" =>
                           /\ q \in Approved /\ read'[q].load = LoadOf[q]
                           /\ read'[q].answer = "confirmation"
    BY DEF Found, Confirmed
  <2>1. CASE Reads(r) /\ q = r
    BY ONLY <2>1, <1>r
  <2>2. CASE ~(Reads(r) /\ q = r)
    <3>1. /\ pc'[q] \in {"lock", "asleep"} => pc[q] \in {"lock", "asleep"}
          /\ pc'[q] = "drop" => pc[q] = "drop"
          /\ read'[q] = read[q]
      BY <2>2 DEF IInv, TypeOK
    <3>2. QED BY <3>1 DEF IInv, Found, Confirmed
  <2>3. QED BY <2>1, <2>2
<1>5. Warned'
  <2>1. \A o \in Requests : pc[o] = "notify" => pc'[o] = "notify"
    BY DEF IInv, TypeOK
  <2>2. Pending => Pending'
    BY <2>1 DEF Pending
  <2> SUFFICES ASSUME NEW q \in Requests, pc'[q] \in {"lock", "asleep"}, seen'[q] = generation,
                      row[IdOf[q]] # read'[q], IdOf[q] \notin foreign
               PROVE  Pending'
    BY DEF Warned
  <2>3. CASE Reads(r) /\ q = r
    BY ONLY <2>3, <1>r, row[IdOf[q]] # read'[q]
  <2>4. CASE ~(Reads(r) /\ q = r)
    <3>1. pc[q] \in {"lock", "asleep"} /\ seen'[q] = seen[q] /\ read'[q] = read[q]
      BY <2>4 DEF IInv, TypeOK
    <3>2. QED BY <2>2, <3>1 DEF IInv, Warned
  <2>5. QED BY <2>3, <2>4
<1>6. Owned'
  <2>1. row' = row /\ pc[r] # "owner"
    OBVIOUS
  <2>2. DOMAIN pc = Requests /\ (pc' = pc \/ \E to : Goes(r, to))
    <3>1. DOMAIN pc = Requests
      BY DEF IInv, TypeOK
    <3>2. ASSUME ReserveFails(r) \/ Observes(r) \/ Reads(r) \/ Sleeps(r) PROVE \E to : Goes(r, to)
      BY ONLY <3>2, Zenon DEF ReserveFails, Observes, Reads, Sleeps
    <3>3. GivesUp(r) => \E to : Goes(r, to)
      BY ONLY Zenon DEF GivesUp
    <3>4. WakesLate(r) \/ WakesSpuriously(r) => \E to : Goes(r, to)
      BY ONLY Zenon DEF WakesLate, WakesSpuriously
    <3>5. DeadlinePasses(r) => pc' = pc
      BY ONLY Zenon DEF DeadlinePasses
    <3>6. QED
      BY ONLY <3>1, <3>2, <3>3, <3>4, <3>5,
              \/ ReserveFails(r) \/ Observes(r) \/ Reads(r) \/ Sleeps(r) \/ GivesUp(r)
              \/ DeadlinePasses(r) \/ WakesLate(r) \/ WakesSpuriously(r)
  <2>3. \A q \in Requests : pc[q] = "owner" => pc'[q] = "owner"
    BY ONLY <2>1, <2>2 DEF Goes
  <2>4. QED BY ONLY <2>1, <2>3, IInv DEF IInv, TypeOK, Owned, Rows, NoRow, Answered
<1>7. QED BY <1>1, <1>2, <1>3, <1>4, <1>5, <1>6 DEF IInv

LEMMA NextIInv == IInv /\ [Next]_vars => IInv'
<1> SUFFICES ASSUME IInv, [Next]_vars PROVE IInv'
  OBVIOUS
<1>1. CASE UNCHANGED vars
  BY <1>1 DEF vars, IInv, TypeOK, Seen, Sleepers, Found, Confirmed, Warned, Pending, Owned
<1>2. CASE Next
  BY <1>2, ProbesIInv, DropsIInv, ReservesIInv, EndsIInv, NotifiesIInv, ForeignIInv,
     WaitsIInv
  DEF Next
<1>3. QED BY <1>1, <1>2

LEMMA AlwaysIInv == Spec => []IInv
  BY InitIInv, NextIInv, PTL DEF Spec

\* The ledger's rows and the waiters' counters hold what
\* reserve_compatible and wait_for_response store in them.
THEOREM WaitersTypeCorrect == Spec => []TypeOK
<1>1. IInv => TypeOK BY DEF IInv
<1>2. QED BY <1>1, AlwaysIInv, PTL

\* However many requests wait in wait_for_response, under whatever ids and in
\* whatever order they read, lock and sleep: none sleeps on a changed row
\* unless a notification is on its way, or another process wrote the row.
THEOREM NoWakeUpIsLost == Spec => []NoLostWakeUp
<1>1. IInv => NoLostWakeUp
  BY DEF IInv, Sleepers, Warned, Pending, NoLostWakeUp, Mine
<1>2. QED BY <1>1, AlwaysIInv, PTL

\* An answer once stored is never replaced, and deleted only if it is a
\* confirmation, by an approved request; a reservation without an answer is
\* deleted only while its owner has not ended.
THEOREM StoredAnswersStay == Spec => AnswersStay
<1> DEFINE Stays(id) ==
       /\ row[id].answer = "final" => row'[id] = row[id]
       /\ row[id].answer = "confirmation" /\ row'[id] # row[id] =>
            /\ row'[id] = NoRow
            /\ \E r \in Approved :
                 pc[r] = "drop" /\ IdOf[r] = id /\ LoadOf[r] = row[id].load
       /\ row[id] # NoRow /\ ~Answered(row[id]) /\ row'[id] = NoRow =>
            pc[row[id].owner] = "owner"
<1>1. IInv /\ [Next]_vars => [\A id \in Ids : Stays(id)]_vars
  <2> SUFFICES ASSUME IInv, Next, NEW id \in Ids PROVE Stays(id)
    OBVIOUS
  <2>0. row[id] # NoRow /\ ~Answered(row[id]) => pc[row[id].owner] = "owner"
    BY DEF IInv, Owned
  <2>1. CASE row'[id] = row[id]
    BY <2>0, <2>1
  <2>2. ASSUME ~Answered(row[id]) PROVE Stays(id)
    BY <2>0, <2>2 DEF Answered
  <2>3. ASSUME NEW r \in Requests, Reserves(r), row'[id] # row[id]
        PROVE  Stays(id)
    <3>1. row[id] = NoRow
      BY <2>3 DEF Reserves, Mine, IInv, TypeOK
    <3>2. QED BY <2>2, <3>1 DEF NoRow, Answered
  <2>4. ASSUME NEW r \in Requests, Completes(r) \/ Abandons(r), row'[id] # row[id]
        PROVE  Stays(id)
    <3>1. Unanswered(r) /\ id = IdOf[r]
      BY <2>4 DEF Completes, Abandons, IInv, TypeOK
    <3>2. QED BY <2>2, <3>1 DEF Unanswered, Mine
  <2>5. ASSUME NEW i \in Ids, ForeignCompletes(i), row'[id] # row[id]
        PROVE  Stays(id)
    <3>1. ~Answered(row[i]) /\ id = i
      BY <2>5 DEF ForeignCompletes, IInv, TypeOK
    <3>2. QED BY <2>2, <3>1
  <2>6. ASSUME NEW r \in Requests, DropsConfirmation(r), row'[id] # row[id]
        PROVE  Stays(id)
    <3>1. /\ id = IdOf[r] /\ row'[id] = NoRow /\ pc[r] = "drop"
          /\ row[id].load = read[r].load /\ row[id].answer = read[r].answer
      BY <2>6 DEF DropsConfirmation, Mine, IInv, TypeOK
    <3>2. /\ r \in Approved /\ read[r].load = LoadOf[r]
          /\ read[r].answer = "confirmation"
      BY <3>1 DEF IInv, Confirmed
    <3>3. QED BY <3>1, <3>2 DEF Answered
  <2>7. QED BY <2>1, <2>3, <2>4, <2>5, <2>6
    DEF Next, Probes, ReserveFails, Observes, Reads, Sleeps, GivesUp, DeadlinePasses,
        WakesLate, WakesSpuriously, Notifies
<1>2. QED BY <1>1, AlwaysIInv, PTL DEF Spec, AnswersStay
=============================================================================
