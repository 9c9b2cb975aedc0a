SPECIFICATION FairSpec
CHECK_DEADLOCK FALSE
CONSTANTS
  Runs = {r1, r2}
  Workers = {w1}
  Kind <- Mixed
  ProcessIsolation = FALSE
  Slots = 1
  FaultKinds = {"service_crash"}
  MaxFaults = 1
  MaxRetries = 1
  Cancellable = {}
  MockRun = r2
  Nobody = Nobody
  Service = Service
  Ghost = Ghost
  ErrorResult = ErrorResult
PROPERTIES
  EverySettles
