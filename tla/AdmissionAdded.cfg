\* A sensitive job that waits for a retry, asked for again by the next engine.
SPECIFICATION Spec
CONSTANTS
  c1 = c1
  c2 = c2
  Clients = {c1, c2}
  Requests <- MCRequests
  PathOf <- MCPathOf
  Cleartext = {2}
  Batches <- MCBatches
  Maxes = {2}
  MaxJobs = 2
  MaxReceipts = 2
  MaxIds = 2
  MaxBoots = 2
  MaxAdds = 2
  MaxFaults = 0
  MaxRemovals = 0
INVARIANT
  AddedAreTaken
CHECK_DEADLOCK FALSE
