----------------------------- MODULE MCJobStore -----------------------------
(***************************************************************************)
(* JobStore for TLC: every command, with one-byte files of two             *)
(* representations and one without a validator.                            *)
(***************************************************************************)
EXTENDS JobStore, TLC

CONSTANTS
  MCTotals,      \* sizes a probe may find
  MCValidators,  \* validators a probe may find
  MCReasons,     \* reasons a stop may give
  MCTicks        \* deadlines, and clock readings

Plain == {"Start", "Pause", "Resume", "Cancel", "Preempt", "AllSegmentsDurable",
          "RepresentationChanged", "WorkersDrained", "VerificationPassed",
          "PublishCommitted", "CleanupFinished", "ReplaceRepresentation"}

MCCommands ==
  {Command(n) : n \in Plain} \cup
  {[Command("ProbeSucceeded") EXCEPT !.total = t, !.validator = v] :
     t \in MCTotals, v \in MCValidators} \cup
  {[Command(n) EXCEPT !.at_tick = t] : n \in {"Retry", "RetryDue"}, t \in MCTicks} \cup
  {[Command(n) EXCEPT !.reason = r] : n \in {"RequireAction", "Fail"}, r \in MCReasons}

Symmetry == Permutations(Owners)
=============================================================================
