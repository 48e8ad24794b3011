\* Two blocks, two generations: enough for a replacement after a failed verification and
\* for a record that covers the file in two commits.
SPECIFICATION Spec
CONSTANTS
  Total = 2
  Expected = {0, 2}
  Journalled = TRUE
  MaxBytes = 2
  MaxAttempts = 3
  LastGeneration = 2
  MaxRuns = 3
  MaxFaults = 1
  MaxCrashes = 1
  MaxPowerCuts = 1
  MaxDamage = 1
  MaxForeign = 1
  MaxCommands = 2
INVARIANTS
  PublishedIsProven
  BytesAreKept
PROPERTIES
  KeepsPromise
CHECK_DEADLOCK FALSE
