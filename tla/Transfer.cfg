\* A file of four units at two URLs, in two versions.
SPECIFICATION Spec
CONSTANTS
  Urls = {1, 2}
  Versions = {1, 2}
  Total = 4
  Threshold = 2
  Connections = 2
  MaxAttempts = 3
  MaxFaults = 2
  MaxPower = 1
  MaxChanges = 1
  MaxStrangers = 1
INVARIANTS
  PublishedIsWhole
  CommittedIsStable
  CompletedStands
PROPERTIES
  KeepsPromise
CHECK_DEADLOCK FALSE
