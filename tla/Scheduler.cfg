\* Two jobs of one origin; three connections are enough for the second job to get less
\* than it may have, and an origin's cap of two for it to get nothing.
SPECIFICATION FairSpec
CONSTANTS
  a = a
  b = b
  host = host
  Jobs = {a, b}
  Origins = {host}
  OriginOf <- MCOriginOf
  Batches <- MCBatches
  OriginConnections = 3
  FailuresBeforePause = 1
  PauseMs = 1
  MaximumPauseMs = 2
  MaxActive = 2
  Connections = 3
  PerJob = 2
  Resident = TRUE
  ControlCapacity = 1
  RetryAfter = {1}
  MaxClock = 2
  MaxTrouble = 1
  MaxCommands = 2
INVARIANTS
  GrantsAreCounted
  ComesBackOnce
PROPERTIES
  DelaysAreObserved
  ShutdownReturns
CHECK_DEADLOCK FALSE
