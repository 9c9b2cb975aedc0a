SPECIFICATION FairSpec
CHECK_DEADLOCK FALSE
CONSTANTS
  Runs = {r1}
  Workers = {w1, w2}
  Kind <- AllSession
  ProcessIsolation = TRUE
  Slots = 1
  FaultKinds = {"service_crash", "worker_crash"}
  MaxFaults = 1
  MaxRetries = 0
  Cancellable = {r1}
  MockRun = r2
  Nobody = Nobody
  Service = Service
  Ghost = Ghost
  ErrorResult = ErrorResult
PROPERTIES
  CandidateResumes
