SPECIFICATION Spec
CONSTANTS
  Connections = 2
  Size <- MCOversize
  Strong = {1}
  Expected = 1
  CheckpointBytes = 1
  RetryLimit = 2
  CommitRetries = 1
  Failures = {"Transient", "Changed", "Panicked"}
  MaxSessions = 1
  MaxFaults = 0
  MaxCrashes = 0
  MaxControls = 1
  MaxCommands = 0
  MaxChanges = 0
  MaxBytes = 2
  MaxAttempts = 3
  LastGeneration = 9
INVARIANTS
  RunsUntilSettled
CHECK_DEADLOCK FALSE
