SPECIFICATION Spec
CHECK_DEADLOCK FALSE
CONSTANTS
  Runs = {r1}
  Workers = {w1, w2}
  Kind <- AllDialogue
  ProcessIsolation = TRUE
  Slots = 2
  FaultKinds = {"service_crash", "worker_crash", "deadline", "store_error", "stall", "spawn_error"}
  MaxFaults = 2
  MaxRetries = 0
  Cancellable = {r1}
  MockRun = r2
  Nobody = Nobody
  Service = Service
  Ghost = Ghost
  ErrorResult = ErrorResult
SYMMETRY WorkerSymmetry
INVARIANTS
  TypeOK
  AppliedOnce
  ReportMatchesRecord
  ShownAnswerIsRecorded
  OneCallUntilRetry
  ExclusiveExecution
PROPERTIES
  PersistedStays
