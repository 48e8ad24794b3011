\* Two handlers at once and two engines one after the other.
SPECIFICATION Spec
CONSTANTS
  c1 = c1
  c2 = c2
  Clients = {c1, c2}
  Requests <- MCRequests
  PathOf <- MCPathOf
  Cleartext = {2}
  Batches <- MCBatches
  Maxes = {1, 2}
  MaxJobs = 2
  MaxReceipts = 2
  MaxIds = 3
  MaxBoots = 2
  MaxAdds = 2
  MaxFaults = 1
  MaxRemovals = 1
INVARIANTS
  ReceiptsAreSound
  AcceptedIsRemembered
  QueuedAreHeld
  HandedOnce
SYMMETRY Symmetry
CHECK_DEADLOCK FALSE
