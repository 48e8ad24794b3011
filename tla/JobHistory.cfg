\* One owner and long histories: up to seven commits, with two reasons, two deadlines,
\* two representations and files of two bytes or none.
SPECIFICATION Spec
CONSTANTS
  o1 = o1
  Owners = {o1}
  Commands <- MCCommands
  MCTotals = {0, 2}
  MCValidators = {0, 1, 2}
  MCReasons = {"Storage", "Integrity"}
  MCTicks = {1, 2}
  MaxBytes = 2
  MaxAttempts = 2
  LastGeneration = 3
  MaxVersion = 7
INVARIANTS
  RecordRestorable
  VerifyingStopIsComplete
  RestIsDrained
PROPERTIES
  SeverityNeverLowers
  OneRepresentation
CHECK_DEADLOCK FALSE
