---------------------------- MODULE ResumePolicy ----------------------------
(***************************************************************************)
(* The two pure tables the older engine decides by: what a response to a   *)
(* range request allows (crates/resume-policy/src/lib.rs), and the life of *)
(* one attempt (crates/download-core/src/state.rs).                        *)
(*                                                                         *)
(* A parsed field is one of a few values: NoField for a field that is      *)
(* missing, repeated, too long or malformed, which every parser refuses.   *)
(***************************************************************************)
EXTENDS Integers

NoField == 0

\* ResumeRequest: a nonempty range inside the representation, pinned by a strong tag.
Request(start, end, total, tag) == [start |-> start, end |-> end, total |-> total, tag |-> tag]
RequestAllowed(q) == q.start < q.end /\ q.end <= q.total

\* Mutant: the tag of the answer is taken on trust.
CheckPartialUntagged(q, h) ==
  h.identity /\ h.start = q.start /\ h.end = q.end /\ h.total = q.total /\ h.length = q.end - q.start

\* check_partial: the identity encoding, the same strong tag, exactly the range that was
\* asked for, of the same total, and a length that agrees with it.
CheckPartial(q, h) ==
  /\ h.identity
  /\ h.tag # NoField /\ h.tag = q.tag
  /\ h.start = q.start /\ h.end = q.end /\ h.total = q.total
  /\ h.length = q.end - q.start

Evaluate(q, status, h) ==
  CASE status = 200 -> "RestartSeparately"
    [] status = 416 -> "Revalidate"
    [] status = 206 -> IF CheckPartial(q, h) THEN "ReadRange" ELSE "Reject"
    [] OTHER        -> "Reject"

-----------------------------------------------------------------------------
Illegal == "Illegal"

\* Download::command.  Start, Resume, Retry and Recover begin a new attempt.
Commanded(state, command) ==
  CASE state = "Queued" /\ command = "Start" -> "Probing"
    [] state \in {"Paused", "NeedsAction"} /\ command = "Resume" -> "Probing"
    [] state = "RetryWait" /\ command = "Retry" -> "Probing"
    [] state \in {"Probing", "Downloading", "Verifying"} /\ command = "Pause" -> "Pausing"
    [] state \in {"Queued", "RetryWait", "NeedsAction"} /\ command = "Pause" -> "Paused"
    [] state \in {"Probing", "Downloading", "Verifying", "Pausing"} /\ command = "Cancel" -> "Cancelling"
    [] state \in {"Queued", "Paused", "RetryWait", "NeedsAction"} /\ command = "Cancel" -> "Cancelled"
    [] state \notin {"Completed", "Cancelled", "Recovering"} /\ command = "Recover" -> "Recovering"
    [] OTHER -> Illegal

\* Download::event, of the attempt it names.
Working == {"Probing", "Downloading", "Verifying"}
Evented(state, event) ==
  CASE state = "Probing" /\ event = "ProbeSucceeded" -> "Downloading"
    [] state = "Downloading" /\ event = "TransferFinished" -> "Verifying"
    [] state = "Verifying" /\ event = "Verified" -> "Publishing"
    [] state = "Publishing" /\ event = "PublishSucceeded" -> "Completed"
    [] state = "Pausing" /\ event = "WorkersStopped" -> "Paused"
    [] state = "Cancelling" /\ event = "WorkersStopped" -> "Cancelled"
    [] state \in Working /\ event = "RetryableFailureAfterStop" -> "RetryWait"
    [] state \in Working \cup {"Publishing", "Recovering"} /\ event = "ActionRequiredAfterStop" -> "NeedsAction"
    [] state = "Recovering" /\ event = "Reconciled" -> "Paused"
    [] OTHER -> Illegal
=============================================================================
