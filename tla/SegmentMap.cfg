\* A file of three units in at most two or three segments, or an empty one: two leases
\* and two checkpoints between restarts, restarts anywhere, and a second generation.
SPECIFICATION Spec
CONSTANTS
  Totals = {0, 3}
  Maximums = {2, 3}
  Workers = {1}
  Minimums = {1}
  MaxId = 5
  MaxAttempt = 3
  MaxCheckpoint = 3
  MaxGeneration = 2
INVARIANTS
  TypeOK
  Partition
  CheckpointFrozen
  RepositoryAhead
  Restorable
PROPERTIES
  StaleLeaseStaysStale
  ImplementsByteProgress
