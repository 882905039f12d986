SPECIFICATION Spec
CONSTANTS
  POLL_INTERVAL = 2
  POLL_TIMEOUT = 180
  MaxQuery = 1
  Interval = 10
  Timeout = 15
  Retries = 30
  StartPeriod = 120
  Ages <- MCAges
  ReadyTimes <- MCReadyTimes
INVARIANTS
  OkWasHealthy
  WarmUpIsEnough
  BoundedWait
PROPERTIES
  PreflightEnds
CHECK_DEADLOCK FALSE
