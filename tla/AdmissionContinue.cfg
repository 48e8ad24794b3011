\* A directory that remembers one link for two places.
SPECIFICATION Spec
CONSTANTS
  c1 = c1
  c2 = c2
  Clients = {c1, c2}
  Requests <- MCRequests
  PathOf <- MCPathOf
  Cleartext = {2}
  Batches <- MCBatches
  Maxes = {2}
  MaxJobs = 2
  MaxReceipts = 2
  MaxIds = 2
  MaxBoots = 2
  MaxAdds = 1
  MaxFaults = 0
  MaxRemovals = 0
INVARIANT
  DirectoryContinues
CHECK_DEADLOCK FALSE
