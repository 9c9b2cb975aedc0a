SPECIFICATION Spec
CHECK_DEADLOCK FALSE
CONSTANTS
  Memories = {a, b, c}
  a = a
  b = b
  x = x
  y = y
  k = k
  j = j
  Statements = {x, y}
  Keys = {k, j}
  KeysGiven = {k}
  Expiries = {"never"}
  Known <- TwoToldAlready
  th = th
  r1 = r1
  r2 = r2
  Threads = {th}
  Turns = {r1, r2}
  ThreadOf <- OneThread
  Offer <- SaysY
  Asks <- TwoQuestions
  MayOffer <- MemoryAndReview
  Answers <- AttemptThenVerdict
  MaxRounds = 3
  MaxToolCalls = 6
  PlanCalls = 3
  Cycles = {c1, c2}
  Sessions = {s}
  Clicks = {q1, q2}
  MaxRequests = 2
  MaxFaults = 1
  Nil = Nil
SYMMETRY OneLikeAnother
INVARIANTS
  TypeOK
  ConflictsRespected
  OneUnfinishedCycle
PROPERTIES
  SettledStays
