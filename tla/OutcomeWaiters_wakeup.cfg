\* Three requests of one id, of which one differs and one brings an approval,
\* beside another id's.
CONSTANTS
  r1 = r1
  r2 = r2
  r3 = r3
  r4 = r4
  i = i
  j = j
  a = a
  b = b
  Ids = {i, j}
  Requests = {r1, r2, r3, r4}
  IdOf <- MCIdOf
  Loads = {a, b}
  LoadOf <- MCLoadOf
  Approved = {r2}
  Inherited = {i}
  None = None
SPECIFICATION FairSpec
CHECK_DEADLOCK FALSE
INVARIANTS
  NoLostWakeUp
PROPERTIES
  AnswersStay
  AnswerIsHeard
