SPECIFICATION Spec
CONSTANTS
  Connections = 2
  Size <- MCSize
  Strong = {1}
  Expected = 1
  CheckpointBytes = 1
  RetryLimit = 2
  CommitRetries = 1
  Failures = {"Transient"}
  MaxSessions = 2
  MaxFaults = 1
  MaxCrashes = 1
  MaxControls = 1
  MaxCommands = 1
  MaxChanges = 1
  MaxBytes = 2
  MaxAttempts = 3
  LastGeneration = 9
INVARIANTS
  RecordedBytesAreStable
  OneRepresentationPerFile
  NoInternalError
  EndsAsRecorded
PROPERTIES
  WrittenIsKept
CHECK_DEADLOCK FALSE
