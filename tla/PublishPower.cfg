\* One process crash between the link and the synced directory, then one loss of power.
SPECIFICATION Spec
CONSTANTS
  Total = 2
  Expected = {0, 2}
  Journalled = FALSE
  MaxBytes = 2
  MaxAttempts = 3
  LastGeneration = 2
  MaxRuns = 3
  MaxFaults = 0
  MaxCrashes = 1
  MaxPowerCuts = 1
  MaxDamage = 0
  MaxForeign = 0
  MaxCommands = 0
INVARIANT CompletedSurvives
CHECK_DEADLOCK FALSE
