SPECIFICATION FairSpec
CONSTANTS
  Connections = 2
  Size <- MCSize
  Strong = {1}
  Expected = 1
  CheckpointBytes = 1
  RetryLimit = 2
  CommitRetries = 1
  Failures = {"Transient", "Changed", "Panicked"}
  MaxSessions = 1
  MaxFaults = 1
  MaxCrashes = 0
  MaxControls = 2
  MaxCommands = 0
  MaxChanges = 1
  MaxBytes = 2
  MaxAttempts = 3
  LastGeneration = 9
PROPERTIES
  SessionsEnd
CHECK_DEADLOCK FALSE
