SPECIFICATION Spec
CHECK_DEADLOCK FALSE
CONSTANTS
  Threads = {t1, t2}
  i = i
  m1 = m1
  m2 = m2
  Images = {i}
  Messages = {m1, m2}
  Files <- ImageTwice
  Owners = {Session, Nil}
  Keep = 1
  Upgrades = 2
  MaxArchives = 3
  MaxFaults = 1
  MaxRequests = 4
  MaxEvents = 4
  Nil = Nil
SYMMETRY OneThreadLikeAnother
INVARIANTS
  TypeOK
  HomeHealthy
PROPERTIES
  RestoreAllOrNothing
  DeletedIsGone
  OwnersKeep
