\* A deadline that passes between two readings of the clock.
SPECIFICATION FairSpec
CONSTANTS
  a = a
  b = b
  host = host
  Jobs = {a, b}
  Origins = {host}
  OriginOf <- MCOriginOf
  Batches <- MCBatches
  OriginConnections = 3
  FailuresBeforePause = 1
  PauseMs = 1
  MaximumPauseMs = 2
  MaxActive = 2
  Connections = 3
  PerJob = 2
  Resident = TRUE
  ControlCapacity = 1
  RetryAfter = {1}
  MaxClock = 2
  MaxTrouble = 0
  MaxCommands = 0
PROPERTY DueJobsMove
CHECK_DEADLOCK FALSE
