SPECIFICATION Spec
CONSTANTS
  Requests <- MCRequests
  Links <- OutgrownLinks
  Priorities = {0, 1}
  Rates = {1, 2}
  MaxActive = 2
  MaxJobs = 2
  MaxPerOrigin = 1
  MaxAttempts = 2
  MaxReceipts = 2
  MaxPending = 1
  MaxUrl = 2
  MaxBytes = 1
  MaxRate = 1
  MaxCommands = 3
  MaxFaults = 1
  MaxOpens = 2
  MaxIds = 2
INVARIANTS
  SavedOpens
CHECK_DEADLOCK FALSE
