SPECIFICATION FairSpec
CHECK_DEADLOCK FALSE
CONSTANTS
  Jobs = {j1, j2}
  Threads = {t1, t2}
  Key <- OneImport
  Priority <- ImportPriority
  MaxFaults = 2
  MaxCancels = 1
  Nobody = Nobody
INVARIANTS
  TypeOK
PROPERTIES
  EverySettles
  ImplementsJobQueue
