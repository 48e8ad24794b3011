-------------------------------- MODULE Job ---------------------------------
(***************************************************************************)
(* crates/domain/src/job.rs: the job aggregate and its commands, as        *)
(* operators on one job record.  Execute(j, c) is Job::execute: the set    *)
(* holds the resulting job, is {j} for an accepted command that changes    *)
(* nothing, and is empty for a refused one.  The segment map is a Progress *)
(* record: SegmentMap is shown to implement that.                          *)
(***************************************************************************)
EXTENDS Progress, FiniteSets

CONSTANTS
  MaxBytes,      \* the spec's max_bytes
  MaxAttempts,   \* where the attempt counter saturates (u8::MAX in the code)
  LastGeneration \* the largest generation              (u64::MAX in the code)

ASSUME JobAssumption == {MaxBytes, MaxAttempts, LastGeneration} \subseteq Nat

\* Absent values.  A job without a segment map has no byte in any state.
NoMap       == [Fresh(0) EXCEPT !.total = -1]
NoReason    == "None"
NoTick      == -1
NoValidator == 0

-----------------------------------------------------------------------------
(***************************************************************************)
(* StopTarget and JobCommand.                                              *)
(***************************************************************************)
Target(kind, at_tick, reason) == [kind |-> kind, at_tick |-> at_tick, reason |-> reason]
NoStop       == Target("None", NoTick, NoReason)
Simple(kind) == Target(kind, NoTick, NoReason)

Rank == [Verifying |-> 0, Queued |-> 1, Paused |-> 2, RetryWait |-> 3, NeedsAction |-> 4,
         Failed    |-> 5]

\* Mutant: the latest cause wins.
RaiseToLatest(a, b) == b

\* Concurrent causes never lower severity; the first reason of a rank wins.
Raise(a, b) ==
  CASE a.kind = "RetryWait" /\ b.kind = "RetryWait" ->
         IF b.at_tick > a.at_tick THEN b ELSE a
    [] Rank[b.kind] > Rank[a.kind] -> b
    [] OTHER -> a

Command(name) == [name |-> name, total |-> 0, validator |-> NoValidator,
                  at_tick |-> NoTick, reason |-> NoReason]

\* What a command carries: a retry its deadline, a demand or a failure its reason.
IsCommand(c) ==
  /\ {c.total, c.validator} \subseteq Nat /\ c.at_tick \in Nat \cup {NoTick}
  /\ c.name = "Retry" => c.at_tick # NoTick
  /\ (c.reason # NoReason) = (c.name \in {"RequireAction", "Fail"})

\* The commands that stop a running job, and where each wants it to land.
CauseKind == [Pause |-> "Paused", Preempt |-> "Queued", Retry |-> "RetryWait",
              RequireAction |-> "NeedsAction", Fail |-> "Failed"]
Cause(c)  == Target(CauseKind[c.name], c.at_tick, c.reason)

-----------------------------------------------------------------------------
(***************************************************************************)
(* Job.                                                                    *)
(***************************************************************************)
NewJob ==
  [state |-> "Queued", generation |-> 1, reason |-> NoReason, retry_at |-> NoTick,
   stop |-> NoStop, replace_on_drain |-> FALSE, attempts |-> 0,
   validator |-> NoValidator, segments |-> NoMap]

Complete(j)  == j.segments # NoMap /\ AllDurable(j.segments)
Quiescent(j) == ~HasActiveLeases(j.segments) /\ ~HasPendingCheckpoint(j.segments)

\* Mutant: written bytes that no checkpoint covered are forgotten.
SettledWhenQuiescent(j) == Quiescent(j)

Settled(j) == Quiescent(j) /\ (j.replace_on_drain \/ ~HasUnsynced(j.segments))

Removable == {"Queued", "Paused", "RetryWait", "NeedsAction", "Failed", "Completed", "Cancelled"}

\* What an event decides: all of the job but its undecided segment progress.
Projection(j) ==
  [state |-> j.state, generation |-> j.generation, reason |-> j.reason,
   retry_at |-> j.retry_at, stop |-> j.stop, replace_on_drain |-> j.replace_on_drain,
   attempts |-> j.attempts, validator |-> j.validator,
   durable_bytes |-> Cardinality(j.segments.durable)]

-----------------------------------------------------------------------------
(***************************************************************************)
(* Job::execute, by groups of its arms.                                    *)
(***************************************************************************)
Bump(attempts) == IF attempts < MaxAttempts THEN attempts + 1 ELSE attempts

Only(condition, k) == {x \in {k} : condition}

Begin(j, target) == [j EXCEPT !.state = "Stopping", !.stop = target]

\* ProbeSucceeded: existing bytes belong to one representation only.
Probed(j, c) ==
  IF j.segments = NoMap
    THEN Only(c.total <= MaxBytes,
              [j EXCEPT !.state = "Transferring", !.validator = c.validator,
                        !.segments = Fresh(c.total)])
    ELSE Only(/\ c.total <= MaxBytes
              /\ j.segments.total = c.total
              /\ c.validator # NoValidator
              /\ c.validator = j.validator,
              [j EXCEPT !.state = "Transferring"])

\* RepresentationChanged, Resume and the stop causes while Stopping.
Replacing(j) ==
  [j EXCEPT !.replace_on_drain = TRUE, !.stop = Raise(@, Simple("Queued"))]

\* Mutant: a replacement under way is not looked at.
ResumeStoppingComplete(j) ==
  IF j.stop.kind # "Paused" THEN j
  ELSE [j EXCEPT !.attempts = 0,
                 !.stop = Simple(IF Complete(j) THEN "Verifying" ELSE "Queued")]

ResumeStopping(j) ==
  IF j.stop.kind # "Paused" THEN j
  ELSE [j EXCEPT !.attempts = 0,
                 !.stop = Simple(IF Complete(j) /\ ~j.replace_on_drain
                                   THEN "Verifying" ELSE "Queued")]

NextGeneration(j) ==
  [j EXCEPT !.generation = @ + 1, !.segments = NoMap, !.validator = NoValidator]

\* The state a drained job lands in.
Land(j, target) ==
  LET k == [j EXCEPT !.stop = NoStop] IN
  CASE target.kind = "Verifying"   -> [k EXCEPT !.state = IF Complete(k) THEN "Verifying"
                                                                         ELSE "Paused"]
    [] target.kind \in {"Queued", "Paused"} -> [k EXCEPT !.state = target.kind]
    [] target.kind = "RetryWait"   -> [k EXCEPT !.state = "RetryWait",
                                                !.retry_at = target.at_tick]
    [] target.kind \in {"NeedsAction", "Failed"} ->
         [k EXCEPT !.state = target.kind, !.reason = target.reason]

WorkersDrained(j) ==
  Only(Settled(j) /\ (j.replace_on_drain => j.generation < LastGeneration),
       Land(IF j.replace_on_drain
              THEN NextGeneration([j EXCEPT !.replace_on_drain = FALSE]) ELSE j, j.stop))

\* Resume of a job at rest: back to the queue, or to verification when complete.
Resumed(j) ==
  [j EXCEPT !.state    = IF j.state # "RetryWait" /\ Complete(j) THEN "Verifying" ELSE "Queued",
            !.reason   = IF j.state \in {"NeedsAction", "Failed"} THEN NoReason ELSE @,
            !.retry_at = IF j.state = "RetryWait" THEN NoTick ELSE @,
            !.attempts = 0]

Replaced(j) ==
  [NextGeneration(j) EXCEPT !.reason = NoReason, !.retry_at = NoTick, !.attempts = 0,
                            !.state = "Queued"]

\* Mutant: the deadline of a waiting job survives its cancellation.
CancelledWithDeadline(j) ==
  [j EXCEPT !.state = "Cancelling", !.stop = NoStop, !.replace_on_drain = FALSE]

Cancelled(j) ==
  [j EXCEPT !.state = "Cancelling", !.stop = NoStop, !.replace_on_drain = FALSE,
            !.retry_at = NoTick]

Running   == {"Probing", "Transferring"}
Resumable == {"Paused", "RetryWait", "NeedsAction", "Failed"}

Execute(j, c) ==
  LET s == j.state
      n == c.name
      To(state) == [j EXCEPT !.state = state]
  IN
  CASE s = "Queued" /\ n = "Start" ->
         {[j EXCEPT !.state = "Probing", !.attempts = Bump(@)]}
    [] s = "Probing" /\ n = "ProbeSucceeded" -> Probed(j, c)
    [] s \in Running /\ n \in DOMAIN CauseKind -> {Begin(j, Cause(c))}
    [] s \in Running /\ n = "RepresentationChanged" ->
         {[Begin(j, Simple("Queued")) EXCEPT !.replace_on_drain = TRUE]}
    [] s = "Transferring" /\ n = "AllSegmentsDurable" ->
         Only(Complete(j), Begin(j, Simple("Verifying")))

    [] s = "Stopping" /\ n = "Resume" -> {ResumeStopping(j)}
    [] s = "Stopping" /\ n = "RepresentationChanged" ->
         {IF j.replace_on_drain THEN j ELSE Replacing(j)}
    [] s = "Stopping" /\ n \in DOMAIN CauseKind -> {[j EXCEPT !.stop = Raise(@, Cause(c))]}
    [] s = "Stopping" /\ n = "WorkersDrained" -> WorkersDrained(j)

    [] s \in {"Queued", "Verifying"} /\ n = "Pause" -> {To("Paused")}
    [] s = "RetryWait" /\ n = "Pause" -> {[To("Paused") EXCEPT !.retry_at = NoTick]}
    [] s \in {"Paused", "NeedsAction", "Failed", "Cancelling"} /\ n = "Pause" -> {j}

    [] s \in Resumable /\ n = "Resume" ->
         Only(~(s = "NeedsAction" /\ j.reason \in {"SourceChanged", "Integrity"}), Resumed(j))
    [] s \in Running \cup {"Queued", "Verifying", "Publishing"} /\ n = "Resume" -> {j}
    [] s = "RetryWait" /\ n = "RetryDue" ->
         Only(c.at_tick >= j.retry_at, [To("Queued") EXCEPT !.retry_at = NoTick])

    [] s \in {"Verifying", "Publishing"} /\ n = "RequireAction" ->
         {[To("NeedsAction") EXCEPT !.reason = c.reason]}
    [] s = "Verifying" /\ n = "Fail" -> {[To("Failed") EXCEPT !.reason = c.reason]}
    [] s = "Verifying" /\ n = "VerificationPassed" -> {To("Publishing")}
    [] s = "Publishing" /\ n = "PublishCommitted" -> {To("Completed")}

    [] s \in Running \cup Resumable \cup {"Queued", "Stopping", "Verifying"} /\ n = "Cancel" ->
         {Cancelled(j)}
    [] s = "Cancelling" /\ n = "Cancel" -> {j}
    [] s = "Cancelling" /\ n = "CleanupFinished" -> Only(Quiescent(j), To("Cancelled"))

    [] s \in {"NeedsAction", "Paused", "Failed"} /\ n = "ReplaceRepresentation" ->
         Only(j.generation < LastGeneration, Replaced(j))
    [] OTHER -> {}

\* The segment operations of a job, behind the state checks of map_mut and of the
\* operations that insist on one state.
SegmentStates == {"Transferring", "Stopping", "Cancelling"}

SegmentSteps(j) ==
  LET p == j.segments
      Ranges  == {lo .. hi : lo, hi \in Bytes(p.total)}
      Lease   == {LeaseBytes(p, B) : B \in {B \in Ranges : CanLease(p, B)}}
      Settle  == UNION {{MarkWritten(p, B), ReleaseBytes(p, B)} : B \in p.leased}
      Sync    == Only(CanPrepareSync(p), PrepareSync(p))
      Flushed == Only(p.ckpt = Prepared, AcknowledgeSync(p))
      Abandon == Only(HasPendingCheckpoint(p), DiscardCheckpoint(p))
      Discard == Only(j.state = "Stopping" /\ CanDiscardUnsynced(p), DiscardUnsynced(p))
  IN  IF j.state \notin SegmentStates \/ p = NoMap THEN {}
      ELSE (IF j.state = "Transferring" THEN Lease ELSE {}) \cup
           Settle \cup Sync \cup Flushed \cup Abandon \cup Discard
=============================================================================
