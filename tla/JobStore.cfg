\* Two owners, each with its own copy of the job: the commits of one fall between any
\* two steps of the other.  Four versions are enough for an owner to be overtaken while
\* it probes, transfers, stops or cancels, and for a replacement behind its back.
SPECIFICATION Spec
CONSTANTS
  o1 = o1
  o2 = o2
  Owners = {o1, o2}
  Commands <- MCCommands
  MCTotals = {1}
  MCValidators = {0, 1}
  MCReasons = {"Storage"}
  MCTicks = {1}
  MaxBytes = 1
  MaxAttempts = 1
  LastGeneration = 2
  MaxVersion = 4
SYMMETRY Symmetry
INVARIANTS
  CopyMatchesRecord
PROPERTIES
  FinalStatesAreFinal
CHECK_DEADLOCK FALSE
