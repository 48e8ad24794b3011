------------------------------ MODULE Session -------------------------------
(***************************************************************************)
(* crates/runtime/src/coordinator.rs and writer.rs: one job, run by one    *)
(* session after another.  A session is the coordinator (which alone       *)
(* changes the job), its workers, and the writer lane, a thread that takes *)
(* commands from a queue in order.  Around it: the repository, the part    *)
(* files, the origin, and whoever sends Pause and Cancel.                  *)
(*                                                                         *)
(* The coordinator is sequential; an action is what it does between two    *)
(* awaits.  decide, commit and apply are one action: only the coordinator  *)
(* reads the job and the record, and a crash between commit and apply is   *)
(* the same as a commit whose answer was lost.  How pending bytes are cut  *)
(* into leases is left open (SegmentMap has the cutting).  The lane's      *)
(* queue needs no bound: each worker has at most one write in it and the   *)
(* coordinator one command, and waiting for a permit is first come, first  *)
(* served as well.  A batch of coalesced writes answers as the same writes *)
(* one by one would.                                                       *)
(***************************************************************************)
EXTENDS Job, Sequences

CONSTANTS
  Connections,      \* workers a session may run
  Size,             \* representation -> its number of bytes
  Strong,           \* the representations that have a strong validator
  Expected,         \* the representation of the expected digest, or 0
  CheckpointBytes,  \* written bytes that trigger a checkpoint
  RetryLimit,       \* maximum_attempts of the retry policy
  Failures,         \* how a probe or a worker may fail
  CommitRetries,    \* how often an unanswered commit of extents is repeated
  MaxSessions, MaxFaults, MaxCrashes, \* bounds of the environment
  MaxControls, MaxCommands, MaxChanges

ASSUME SessionAssumption ==
  /\ Connections \in Nat \ {0} /\ Strong \subseteq DOMAIN Size
  /\ DOMAIN Size \subseteq Nat \ {NoValidator} /\ \A rep \in DOMAIN Size : Size[rep] \in Nat
  /\ Failures \subseteq {"Panicked", "Changed", "UserAction", "Fatal", "Transient"}
  /\ {CheckpointBytes, RetryLimit} \subseteq Nat \ {0}
  /\ {CommitRetries, MaxSessions, MaxFaults, MaxCrashes, MaxControls,
      MaxCommands, MaxChanges} \subseteq Nat

VARIABLES
  job,       \* the coordinator's copy
  record,    \* [job, extents]: the record, extents as a function byte -> content hashed
  parts,     \* generation -> [cached, stable]: its part file, byte -> content
  origin,    \* the representation the source serves
  session,   \* the coordinator's locals
  workers,   \* worker -> its task
  lane,      \* [generation, queue, failed]: the writer lane, of generation 0 when closed
  control,   \* the session's control channel
  asked,     \* the job was transferring when a control was sent
  budget     \* what the environment has left

vars == <<job, record, parts, origin, session, workers, lane, control, asked, budget>>

-----------------------------------------------------------------------------
Validator(rep)  == IF rep \in Strong THEN rep ELSE NoValidator
None            == [x \in {} |-> 0]
NewPart         == [cached |-> None, stable |-> None]

\* f overridden by g.
Override(f, g) == [x \in DOMAIN f \cup DOMAIN g |-> IF x \in DOMAIN g THEN g[x] ELSE f[x]]
RestrictTo(f, S) == [x \in DOMAIN f \cap S |-> f[x]]

NoSession ==
  [pc |-> "idle", live |-> FALSE, after |-> "close", stopping |-> FALSE, storage_failed |-> FALSE,
   unsynced |-> 0, attempt |-> 0, hashes |-> None, reply |-> "None", error |-> "None"]
NoLane  == [generation |-> 0, queue |-> <<>>, failed |-> FALSE]
NoTask  == [bytes |-> {}, at |-> 0, content |-> 0, phase |-> "free"]
Slots   == 1 .. Connections

LaneOpen == lane.generation # 0

Init ==
  /\ job = NewJob
  /\ record = [job |-> NewJob, extents |-> None]
  /\ parts = None
  /\ origin \in DOMAIN Size
  /\ session = NoSession
  /\ workers = [w \in Slots |-> NoTask]
  /\ lane = NoLane
  /\ control = <<>>
  /\ asked = FALSE
  /\ budget = [sessions |-> MaxSessions, faults |-> MaxFaults, crashes |-> MaxCrashes,
               controls |-> MaxControls, commands |-> MaxCommands, changes |-> MaxChanges]

Spend(what) ==
  /\ budget[what] > 0
  /\ budget' = [budget EXCEPT ![what] = @ - 1]

\* The coordinator goes on at another await, or gives the session up.
At(pc)       == [session EXCEPT !.pc = pc]

\* Mutant: an error ends the session as if the job had settled.
FailedQuietly(kind) == [session EXCEPT !.pc = "close"]
Failed(kind)        == [session EXCEPT !.pc = "close", !.error = kind]

Ask(kind) == lane' = [lane EXCEPT !.queue = Append(@, [kind |-> kind])]
Coordinating(pc) == session.pc = pc /\ UNCHANGED <<origin, asked>>

(***************************************************************************)
(* step: decide, commit, apply one command of job j, and go on as next     *)
(* says.  The repository may fail before or after the commit; then the     *)
(* session is given up.                                                    *)
(***************************************************************************)
Strip(k) == [k EXCEPT !.segments = IF @ = NoMap THEN NoMap ELSE Fresh(@.total)]

Recorded(k) ==
  [job |-> Strip(k),
   extents |-> IF k.generation = record.job.generation THEN record.extents ELSE None]

Reloaded ==
  [record.job EXCEPT !.segments =
     IF @ = NoMap THEN NoMap ELSE Restored(@.total, DOMAIN record.extents)]

Step(j, c, next) ==
  \/ \E k \in Execute(j, c) :
       /\ job' = k
       /\ record' = IF k = j THEN record ELSE Recorded(k)
       /\ session' = next
       /\ UNCHANGED budget
  \/ \E k \in Execute(j, c) \ {j} :
       /\ Spend("faults")
       /\ job' = j
       /\ record' \in {record, Recorded(k)}
       /\ session' = Failed("Commit")
  \/ /\ Execute(j, c) = {}
     /\ job' = j /\ session' = Failed("Domain")
     /\ UNCHANGED <<record, budget>>

\* stop_with: enter or raise Stopping, and stop the workers.
StopWith(j, c, next) ==
  IF j.state \in Running \cup {"Stopping"}
    THEN Step(j, c, [next EXCEPT !.stopping = TRUE])
    ELSE /\ job' = j /\ session' = [next EXCEPT !.stopping = TRUE]
         /\ UNCHANGED <<record, budget>>

Because(name, reason) == [Command(name) EXCEPT !.reason = reason]

\* on_transport_error.
TransportCommand(failure) ==
  CASE failure = "Changed"    -> Command("RepresentationChanged")
    [] failure = "UserAction" -> Because("RequireAction", "SourceChanged")
    [] failure = "Fatal"      -> Because("Fail", "Policy")
    [] failure = "Transient"  ->
         IF job.attempts < RetryLimit THEN [Command("Retry") EXCEPT !.at_tick = 1]
                                      ELSE Because("RequireAction", "Network")

\* on_storage_failure.
StorageFailure(j, next) ==
  StopWith(j, Because("RequireAction", "Storage"), [next EXCEPT !.storage_failed = TRUE])

\* on_control: the first message of the channel.
OnControl(next) ==
  /\ control # <<>>
  /\ control' = Tail(control)
  /\ IF Head(control) = "Pause" THEN StopWith(job, Command("Pause"), next)
     ELSE Step(job, Command("Cancel"), [next EXCEPT !.stopping = TRUE])

\* The extents or the intent could not be read, or the intent not recorded.
Unread(next) ==
  /\ Spend("faults")
  /\ session' = [next EXCEPT !.pc = "close", !.error = "Repository"]
  /\ UNCHANGED <<job, record>>

-----------------------------------------------------------------------------
(***************************************************************************)
(* Beginning: run_with and the first part of drive.                        *)
(***************************************************************************)
FirstStop == [Queued |-> "start", Verifying |-> "open", Publishing |-> "publish"]

Drive ==
  /\ session.pc = "idle" /\ session.error = "None"
  /\ job.state \in DOMAIN FirstStop
  /\ Spend("sessions")
  /\ session' = [NoSession EXCEPT !.pc = FirstStop[job.state], !.live = TRUE]
  /\ control' = <<>> /\ asked' = FALSE
  /\ UNCHANGED <<job, record, parts, origin, workers, lane>>

Start ==
  /\ Coordinating("start")
  /\ Step(job, Command("Start"), At("probe"))
  /\ UNCHANGED <<parts, workers, lane, control>>

\* The biased select of the probe looks at the control channel first.
ProbeControl ==
  /\ Coordinating("probe")
  /\ OnControl(At("finish"))
  /\ UNCHANGED <<parts, workers, lane>>

ProbeAnswered ==
  /\ Coordinating("probe") /\ control = <<>>
  /\ LET total     == Size[origin]
         validator == Validator(origin)
         changed   == job.segments # NoMap /\ \/ job.segments.total # total
                                              \/ validator = NoValidator
                                              \/ validator # job.validator
     IN  Step(job, IF changed THEN Command("RepresentationChanged")
                   ELSE [Command("ProbeSucceeded") EXCEPT !.total = total,
                                                          !.validator = validator],
              At(IF changed THEN "finish" ELSE "open"))
  /\ UNCHANGED <<parts, workers, lane, control>>

ProbeFailed ==
  /\ Coordinating("probe") /\ control = <<>>
  /\ \E failure \in Failures \ {"Panicked"} :
       StopWith(job, TransportCommand(failure), At("finish"))
  /\ UNCHANGED <<parts, workers, lane, control>>

(***************************************************************************)
(* open_part: create the part, or open it and compare every extent with    *)
(* its digest.                                                             *)
(***************************************************************************)
Proved(part) == \A b \in DOMAIN record.extents :
                  b \in DOMAIN part.cached /\ part.cached[b] = record.extents[b]

Openable == record.extents = None \/ job.generation \in DOMAIN parts
Intact   == record.extents = None \/ Proved(parts[job.generation])

OpenPart ==
  /\ Coordinating("open") /\ Openable /\ Intact
  /\ parts' = Override([g \in {job.generation} |-> NewPart], parts)
  /\ lane' = [NoLane EXCEPT !.generation = job.generation,
                            !.queue = IF job.state = "Verifying" THEN <<[kind |-> "Sync"]>>
                                                                 ELSE <<>>]
  /\ session' = At(IF job.state = "Verifying" THEN "vsync" ELSE "transfer")
  /\ UNCHANGED <<job, record, workers, control, budget>>

\* A job that was transferring stops; one that was to be verified needs a decision.
OpenFailed ==
  /\ Coordinating("open")
  /\ LET reason == IF Openable /\ ~Intact THEN "Integrity" ELSE "Storage"
         c      == Because("RequireAction", reason)
         next   == [At("finish") EXCEPT !.storage_failed = TRUE]
     IN  \/ IF job.state = "Verifying" THEN Step(job, c, [next EXCEPT !.pc = "close"])
                                       ELSE StopWith(job, c, next)
         \/ Unread(At("close"))
  /\ UNCHANGED <<parts, workers, lane, control>>

-----------------------------------------------------------------------------
(***************************************************************************)
(* transfer.                                                               *)
(***************************************************************************)
Busy    == {w \in Slots : workers[w].phase # "free"}
Results == {"Ok", "Cancelled", "Storage", "Panicked", "Changed", "UserAction", "Fatal", "Transient"}

\* A source without ranges has one segment: the whole file.
Leasable ==
  {B \in {lo .. hi : lo, hi \in Bytes(job.segments.total)} :
     /\ CanLease(job.segments, B)
     /\ job.validator = NoValidator => B = Bytes(job.segments.total)}

CanSpawn == job.state = "Transferring" /\ Busy # Slots /\ Leasable # {}

SpawnWorker(w) ==
  /\ Coordinating("transfer") /\ CanSpawn
  /\ w \notin Busy /\ \A v \in Slots \ Busy : w <= v
  /\ \E B \in Leasable :
       /\ job' = [job EXCEPT !.segments = LeaseBytes(@, B)]
       /\ workers' = [workers EXCEPT ![w] =
            [bytes |-> B, at |-> CHOOSE b \in B : \A c \in B : b <= c, content |-> 0,
             phase |-> "connect"]]
  /\ UNCHANGED <<record, parts, session, lane, control, budget>>

\* on_worker: settle the lease first, then act on the failure.
OnWorker(w) ==
  LET p == job.segments
      B == workers[w].bytes
      r == workers[w].phase
      released == [job EXCEPT !.segments = ReleaseBytes(p, B)]
  IN
  /\ r \in Results
  /\ workers' = [workers EXCEPT ![w] = NoTask]
  /\ CASE job.state \notin SegmentStates \/ B \notin p.leased ->
            /\ session' = Failed("Domain") /\ UNCHANGED <<job, record, budget>>
       [] r = "Ok" ->
            /\ job' = [job EXCEPT !.segments = MarkWritten(p, B)]
            /\ session' = [session EXCEPT !.unsynced = @ + Cardinality(B)]
            /\ UNCHANGED <<record, budget>>
       [] r = "Cancelled" ->
            /\ job' = released /\ UNCHANGED <<record, session, budget>>
       [] r = "Storage"  -> StorageFailure(released, session)
       [] r = "Panicked" -> StopWith(released, Because("Fail", "Unknown"), session)
       [] OTHER          -> StopWith(released, TransportCommand(r), session)

\* The loop has leased all it can: what it does before it waits.
CheckpointDue ==
  /\ job.state = "Transferring"
  /\ \/ Busy = {} /\ HasUnsynced(job.segments)
     \/ Busy # {} /\ session.unsynced >= CheckpointBytes

TransferCheckpoint ==
  /\ Coordinating("transfer") /\ ~CanSpawn /\ CheckpointDue
  /\ job' = [job EXCEPT !.segments = PrepareSync(@)]
  /\ Ask("Sync")
  /\ session' = [At("sync") EXCEPT !.after = "transfer"]
  /\ UNCHANGED <<record, parts, workers, control, budget>>

TransferWait ==
  /\ Coordinating("transfer") /\ ~CanSpawn /\ ~CheckpointDue /\ Busy # {}
  /\ \/ \E w \in Busy : OnWorker(w) /\ UNCHANGED control
     \/ OnControl(session) /\ UNCHANGED workers
  /\ UNCHANGED <<parts, lane>>

TransferDone ==
  /\ Coordinating("transfer") /\ ~CanSpawn /\ ~CheckpointDue /\ Busy = {}
  /\ CASE job.state # "Transferring" ->
            session' = At("finish") /\ UNCHANGED <<job, record, budget>>
       [] job.state = "Transferring" /\ AllDurable(job.segments) ->
            Step(job, Command("AllSegmentsDurable"), session)
       [] OTHER -> session' = Failed("Invariant") /\ UNCHANGED <<job, record, budget>>
  /\ UNCHANGED <<parts, workers, lane, control>>

-----------------------------------------------------------------------------
(***************************************************************************)
(* checkpoint: sync, hash what was frozen, commit it, acknowledge.         *)
(***************************************************************************)
Answered(pc) == Coordinating(pc) /\ session.reply # "None"
Taken(pc)    == [At(pc) EXCEPT !.reply = "None"]

Abandoned == [job EXCEPT !.segments = DiscardCheckpoint(@)]

SyncAnswered ==
  /\ Answered("sync")
  /\ IF session.reply = "Ok"
       THEN /\ job' = [job EXCEPT !.segments = AcknowledgeSync(@)]
            /\ Ask("Hash")
            /\ session' = Taken("hash")
            /\ UNCHANGED <<record, budget>>
       ELSE StorageFailure(Abandoned, Taken(session.after)) /\ UNCHANGED lane
  /\ UNCHANGED <<parts, workers, control>>

HashAnswered ==
  /\ Answered("hash")
  /\ IF session.reply = "Ok"
       THEN /\ session' = [Taken("commit") EXCEPT !.attempt = 0]
            /\ UNCHANGED <<job, record, budget>>
       ELSE StorageFailure(Abandoned, Taken(session.after))
  /\ UNCHANGED <<parts, workers, lane, control>>

\* SqliteRepository::durable, for this batch.
AdmitsBatch ==
  /\ record.job.generation = job.generation
  /\ record.job.state \in SegmentStates
  /\ \A b \in DOMAIN session.hashes \cap DOMAIN record.extents :
       session.hashes[b] = record.extents[b]
Stored == [record EXCEPT !.extents = Override(@, session.hashes)]

CommitExtents ==
  /\ Coordinating("commit")
  /\ \/ /\ AdmitsBatch
        /\ record' = Stored
        /\ job' = [job EXCEPT !.segments = AcknowledgeCommit(@)]
        /\ session' = [At(session.after) EXCEPT !.unsynced = 0, !.hashes = None]
        /\ UNCHANGED budget
     \* No answer: stored or not, it is sent again, until it has failed too often.
     \/ /\ Spend("faults")
        /\ record' \in {record} \cup Only(AdmitsBatch, Stored)
        /\ IF session.attempt < CommitRetries
             THEN session' = [session EXCEPT !.attempt = @ + 1] /\ UNCHANGED job
             ELSE session' = Failed("Commit") /\ job' = Abandoned
     \* Refused.
     \/ /\ ~AdmitsBatch \/ budget.faults > 0
        /\ session' = Failed("Commit") /\ job' = Abandoned
        /\ UNCHANGED <<record, budget>>
  /\ UNCHANGED <<parts, workers, lane, control>>

-----------------------------------------------------------------------------
(***************************************************************************)
(* finish.  It begins by joining the workers, but there are none left:     *)
(* transfer does not return before (see NoInternalError).                  *)
(***************************************************************************)
Finishing == Coordinating("finish") /\ UNCHANGED parts

FinishControl ==
  /\ Finishing /\ Busy = {} /\ control # <<>>
  /\ control' = Tail(control)
  /\ IF Head(control) = "Cancel" /\ job.state \in {"Stopping", "Paused"}
       THEN Step(job, Command("Cancel"), session)
       ELSE UNCHANGED <<job, record, session, budget>>
  /\ UNCHANGED <<workers, lane>>

\* After WorkersDrained, and for a job that has nothing to drain.
Verified == IF LaneOpen THEN "vsync" ELSE "close"
Landed(j) == At(IF \E k \in WorkersDrained(j) : k.state = "Verifying" THEN Verified
                                                                        ELSE "close")

Drain(j) ==
  /\ Step(j, Command("WorkersDrained"), Landed(j))
  /\ IF session'.pc = "vsync" THEN Ask("Sync") ELSE UNCHANGED lane

\* What the stop still has to save; a replacement does not want it.
Unsaved == HasUnsynced(job.segments) /\ ~job.replace_on_drain

\* Mutant: the final checkpoint is only taken when a periodic one would be due.
FinalCheckpointIfDue == Unsaved /\ ~session.storage_failed /\ session.unsynced > CheckpointBytes
FinalCheckpoint      == Unsaved /\ ~session.storage_failed

\* Mutant: what a failed storage could not save stays written.
Kept   == job
Saved  == IF Unsaved THEN [job EXCEPT !.segments = DiscardUnsynced(@)] ELSE job

FinishStopping ==
  /\ Finishing /\ Busy = {} /\ control = <<>> /\ job.state = "Stopping"
  /\ IF FinalCheckpoint
       THEN /\ job' = [job EXCEPT !.segments = PrepareSync(@)]
            /\ Ask("Sync")
            /\ session' = [At("sync") EXCEPT !.after = "drain"]
            /\ UNCHANGED <<record, budget>>
       ELSE Drain(Saved)
  /\ UNCHANGED <<workers, control>>

DrainAfterCheckpoint ==
  /\ Coordinating("drain")
  /\ Drain(IF session.storage_failed THEN Saved ELSE job)
  /\ UNCHANGED <<parts, workers, control>>

\* A cancelled job loses its part before its record says so.
FinishOther ==
  /\ Finishing /\ Busy = {} /\ control = <<>> /\ job.state # "Stopping"
  /\ CASE job.state = "Cancelling" /\ LaneOpen -> Ask("Discard") /\ session' = At("discard")
       [] job.state = "Cancelling" /\ ~LaneOpen -> session' = At("drop") /\ UNCHANGED lane
       [] OTHER -> session' = At("close") /\ UNCHANGED lane
  /\ UNCHANGED <<job, record, workers, control, budget>>

\* drop_part: best effort.
DropPart ==
  /\ Coordinating("drop")
  /\ parts' \in {parts, RestrictTo(parts, DOMAIN parts \ {job.generation})}
  /\ session' = At("cleanup")
  /\ UNCHANGED <<job, record, workers, lane, control, budget>>

DiscardAnswered ==
  /\ Answered("discard")
  /\ session' = Taken("cleanup")
  /\ UNCHANGED <<job, record, parts, workers, lane, control, budget>>

Cleanup ==
  /\ Coordinating("cleanup")
  /\ Step(job, Command("CleanupFinished"), At("close"))
  /\ UNCHANGED <<parts, workers, lane, control>>

-----------------------------------------------------------------------------
(***************************************************************************)
(* verify, and publish as the outcomes the session sees: its protocol      *)
(* with the destination is not part of this module.                        *)
(***************************************************************************)
VerifySynced ==
  /\ Answered("vsync")
  /\ \/ /\ session.reply = "Ok"
        /\ Ask("Verify") /\ session' = Taken("verify")
        /\ UNCHANGED <<job, record, budget>>
     \/ session.reply = "Ok" /\ Unread(Taken("close")) /\ UNCHANGED lane
     \/ /\ session.reply # "Ok"
        /\ Step(job, Because("RequireAction", "Storage"), Taken("close"))
        /\ UNCHANGED lane
  /\ UNCHANGED <<parts, workers, control>>

VerifyAnswered ==
  /\ Answered("verify")
  /\ IF session.reply = "Ok"
       THEN \/ Step(job, Command("VerificationPassed"), Taken("publish"))
            \/ Unread(Taken("close"))
       ELSE Step(job, Because("RequireAction", session.reply), Taken("close"))
  /\ UNCHANGED <<parts, workers, lane, control>>

PublishEnded ==
  /\ Coordinating("publish")
  /\ \/ /\ Step(job, Command("PublishCommitted"), At("close"))
        /\ parts' \in {parts} \cup
             Only(job'.state = "Completed", RestrictTo(parts, DOMAIN parts \ {job.generation}))
     \/ /\ \E reason \in {"Destination", "Integrity", "Storage"} :
             Step(job, Because("RequireAction", reason), At("close"))
        /\ UNCHANGED parts
     \/ Unread(At("close")) /\ UNCHANGED parts
  /\ UNCHANGED <<workers, lane, control>>

\* close: the workers are cancelled and joined, the lane empties its queue.
CloseStopWorkers ==
  /\ Coordinating("close") /\ ~session.stopping
  /\ session' = [session EXCEPT !.stopping = TRUE]
  /\ UNCHANGED <<job, record, parts, workers, lane, control, budget>>

Close ==
  /\ Coordinating("close") /\ session.stopping
  /\ \A w \in Busy : workers[w].phase \in Results
  /\ lane.queue = <<>>
  /\ workers' = [w \in Slots |-> NoTask]
  /\ lane' = NoLane
  /\ session' = [NoSession EXCEPT !.error = session.error]
  /\ UNCHANGED <<job, record, parts, control, budget>>

-----------------------------------------------------------------------------
(***************************************************************************)
(* fetch: one worker.  Cancellation is looked at first wherever it waits,  *)
(* but not while it waits for the lane's answer.                           *)
(***************************************************************************)
Working(w, phases) ==
  /\ workers[w].phase \in phases
  /\ UNCHANGED <<job, record, parts, origin, session, control, asked, budget>>
Becomes(w, phase) == workers' = [workers EXCEPT ![w].phase = phase]

\* Mutant: a worker that waits for the response does not look at the token.
WorkerCancelledLater(w) ==
  /\ Working(w, {"read", "tail"}) /\ session.stopping
  /\ Becomes(w, "Cancelled")
  /\ UNCHANGED lane

WorkerCancelled(w) ==
  /\ Working(w, {"connect", "read", "tail"}) /\ session.stopping
  /\ Becomes(w, "Cancelled")
  /\ UNCHANGED lane

WorkerFailed(w) ==
  /\ Working(w, {"connect", "read", "tail"}) /\ ~session.stopping
  /\ \E failure \in Failures : Becomes(w, failure)
  /\ UNCHANGED lane

\* Mutant: the stream is not bound to the validator.
WorkerConnectedUnbound(w) ==
  /\ Working(w, {"connect"}) /\ ~session.stopping
  /\ workers' = [workers EXCEPT ![w].phase = "read", ![w].content = origin]
  /\ UNCHANGED lane

\* The transport binds the stream to the validator; without one it asks for the file.
WorkerConnected(w) ==
  /\ Working(w, {"connect"}) /\ ~session.stopping
  /\ IF /\ Size[origin] = job.segments.total
        /\ job.validator \in {NoValidator, Validator(origin)}
       THEN workers' = [workers EXCEPT ![w].phase = "read", ![w].content = origin]
       ELSE Becomes(w, "Changed")
  /\ UNCHANGED lane

WorkerRead(w) ==
  /\ Working(w, {"read"}) /\ ~session.stopping
  /\ lane' = [lane EXCEPT !.queue =
                Append(@, [kind |-> "Write", worker |-> w, byte |-> workers[w].at,
                           content |-> workers[w].content])]
  /\ Becomes(w, "sent")

WorkerDone(w) ==
  /\ Working(w, {"tail"}) /\ ~session.stopping
  /\ Becomes(w, "Ok")
  /\ UNCHANGED lane

-----------------------------------------------------------------------------
(***************************************************************************)
(* The writer lane takes the next command.  A failure poisons it: every    *)
(* later command fails too.                                                *)
(***************************************************************************)
Command1 == Head(lane.queue)
Part     == parts[lane.generation]

Lane(kind) ==
  /\ lane.queue # <<>> /\ Command1.kind = kind
  /\ UNCHANGED <<job, record, origin, control, asked>>
LaneTakes(failed) == lane' = [lane EXCEPT !.queue = Tail(@), !.failed = failed]
Reply(r) == session' = [session EXCEPT !.reply = r] /\ UNCHANGED workers

WithByte == Override(Part.cached, [b \in {Command1.byte} |-> Command1.content])

PhaseAfter(w)        == IF workers[w].at + 1 \in workers[w].bytes THEN "read" ELSE "tail"

LaneWrite ==
  /\ Lane("Write") /\ ~lane.failed
  /\ LET w == Command1.worker IN
     /\ parts' = [parts EXCEPT ![lane.generation].cached = WithByte]
     /\ workers' = [workers EXCEPT ![w].at = @ + 1, ![w].phase = PhaseAfter(w)]
  /\ LaneTakes(FALSE)
  /\ UNCHANGED <<session, budget>>

\* Mutant: the lane answers a sync without syncing.
LaneSyncSkipped ==
  /\ Lane("Sync") /\ ~lane.failed
  /\ Reply("Ok") /\ LaneTakes(FALSE)
  /\ UNCHANGED <<parts, budget>>

LaneSync ==
  /\ Lane("Sync") /\ ~lane.failed
  /\ parts' = [parts EXCEPT ![lane.generation].stable = Part.cached]
  /\ Reply("Ok") /\ LaneTakes(FALSE)
  /\ UNCHANGED budget

LaneHash ==
  /\ Lane("Hash") /\ ~lane.failed
  /\ session' = [session EXCEPT !.reply = "Ok",
                   !.hashes = RestrictTo(Part.cached, job.segments.frozen)]
  /\ LaneTakes(FALSE)
  /\ UNCHANGED <<parts, workers, budget>>

\* A digest that does not match is a verdict and does not poison the lane.
LaneVerify ==
  /\ Lane("Verify") /\ ~lane.failed
  /\ Reply(IF /\ Proved(Part)
              /\ Expected = 0 \/ \A b \in DOMAIN Part.cached : Part.cached[b] = Expected
             THEN "Ok" ELSE "Integrity")
  /\ LaneTakes(FALSE)
  /\ UNCHANGED <<parts, budget>>

LaneDiscard ==
  /\ Lane("Discard") /\ ~lane.failed
  /\ parts' = RestrictTo(parts, DOMAIN parts \ {lane.generation})
  /\ Reply("Ok") /\ LaneTakes(TRUE)
  /\ UNCHANGED budget

\* The storage fails, or failed before.  A failed write may have reached the file.
LaneFails(kind) ==
  /\ Lane(kind)
  /\ IF lane.failed THEN UNCHANGED budget ELSE Spend("faults")
  /\ LaneTakes(TRUE)
  /\ IF kind = "Write"
       THEN /\ workers' = [workers EXCEPT ![Command1.worker].phase = "Storage"]
            /\ UNCHANGED session
            /\ parts' \in {parts} \cup
                 Only(~lane.failed, [parts EXCEPT ![lane.generation].cached = WithByte])
       ELSE Reply("Storage") /\ UNCHANGED parts

-----------------------------------------------------------------------------
(***************************************************************************)
(* The environment: whoever sends controls and commands, the source, and   *)
(* the crash of the process or of the machine.                             *)
(***************************************************************************)
Send(message) ==
  /\ session.live
  /\ Spend("controls")
  /\ control' = Append(control, message)
  /\ asked' = (asked \/ job.state = "Transferring")
  /\ UNCHANGED <<job, record, parts, origin, session, workers, lane>>

SourceChanges ==
  /\ Spend("changes")
  /\ origin' \in DOMAIN Size \ {origin}
  /\ UNCHANGED <<job, record, parts, session, workers, lane, control, asked>>

\* The service or the scheduler acts on a job at rest, and settles what it started.
Unsettled == Running \cup {"Stopping", "Cancelling"}
Settle(k) == [session EXCEPT !.pc = IF k.state \in Unsettled THEN "recover" ELSE "idle"]

AtRest(c) ==
  /\ Coordinating("idle") /\ session.error = "None"
  /\ Spend("commands")
  /\ \E k \in Execute(job, c) \ {job} :
       job' = k /\ record' = Recorded(k) /\ session' = Settle(k)
  /\ UNCHANGED <<parts, workers, lane, control>>

RestCommands ==
  {Command(name) : name \in {"Pause", "Resume", "Cancel", "ReplaceRepresentation"}} \cup
  {[Command("RetryDue") EXCEPT !.at_tick = 1]}

\* What was not synced may or may not have reached the disk.
Survivors(part) ==
  {Override(part.stable, RestrictTo(part.cached, S)) : S \in SUBSET DOMAIN part.cached}

Crash ==
  /\ Spend("crashes")
  /\ job' = Reloaded
  /\ session' = [NoSession EXCEPT !.pc = IF Reloaded.state \in Unsettled THEN "recover"
                                                                         ELSE "idle"]
  /\ workers' = [w \in Slots |-> NoTask]
  /\ lane' = NoLane
  /\ control' = <<>> /\ asked' = FALSE
  /\ parts' \in {f \in [DOMAIN parts -> UNION {{[cached |-> s, stable |-> s] :
                                      s \in Survivors(parts[g])} : g \in DOMAIN parts}] :
                  \A g \in DOMAIN parts : f[g].stable \in Survivors(parts[g])}
  /\ UNCHANGED <<record, origin>>

\* recover: a restored job is settled with ordinary commands.
Recover ==
  /\ Coordinating("recover")
  /\ CASE job.state \in Running   -> Step(job, Command("Pause"), At("recover"))
       [] job.state = "Verifying"  -> Step(job, Command("Pause"), At("close"))
       [] job.state = "Stopping"   -> Step(job, Command("WorkersDrained"), At("close"))
       [] job.state = "Cancelling" -> session' = At("drop") /\ UNCHANGED <<job, record, budget>>
       [] OTHER -> session' = At("close") /\ UNCHANGED <<job, record, budget>>
  /\ UNCHANGED <<parts, workers, lane, control>>

-----------------------------------------------------------------------------
Coordinator ==
  \/ Start \/ ProbeControl \/ ProbeAnswered \/ ProbeFailed \/ OpenPart \/ OpenFailed
  \/ (\E w \in Slots : SpawnWorker(w))
  \/ TransferCheckpoint \/ TransferWait \/ TransferDone
  \/ SyncAnswered \/ HashAnswered \/ CommitExtents
  \/ FinishControl \/ FinishStopping \/ DrainAfterCheckpoint \/ FinishOther
  \/ DropPart \/ DiscardAnswered \/ Cleanup
  \/ VerifySynced \/ VerifyAnswered \/ PublishEnded \/ CloseStopWorkers \/ Close \/ Recover

Worker(w) ==
  \/ WorkerCancelled(w) \/ WorkerFailed(w) \/ WorkerConnected(w) \/ WorkerRead(w)
  \/ WorkerDone(w)

WriterLane ==
  \/ LaneWrite \/ LaneSync \/ LaneHash \/ LaneVerify \/ LaneDiscard
  \/ \E kind \in {"Write", "Sync", "Hash", "Verify", "Discard"} : LaneFails(kind)

Next ==
  \/ Coordinator
  \/ \E w \in Slots : Worker(w)
  \/ WriterLane
  \/ Drive
  \/ \E message \in {"Pause", "Cancel"} : Send(message)
  \/ SourceChanges
  \/ \E c \in RestCommands : AtRest(c)
  \/ Crash

Spec == Init /\ [][Next]_vars

\* The coordinator, its workers and the lane keep going: tokio polls what is ready,
\* requests and reads have timeouts, and file operations return.
Fairness ==
  /\ WF_vars(Coordinator)
  /\ WF_vars(WriterLane)
  /\ \A w \in Slots : WF_vars(Worker(w))

FairSpec == Spec /\ Fairness

-----------------------------------------------------------------------------
(***************************************************************************)
(* Properties.                                                             *)
(***************************************************************************)
Idle == session.pc = "idle" /\ session.error = "None"

\* At every moment a crash is survived: each byte of the record was synced to the
\* part of its generation with the content its digest was taken from, and no later
\* write, not even one of a cancelled worker still in the lane, can touch it.
RecordedBytesAreStable ==
  record.job.state \notin {"Cancelling", "Cancelled", "Completed"} =>
    \A b \in DOMAIN record.extents :
      /\ record.job.generation \in DOMAIN parts
      /\ LET part == parts[record.job.generation] IN
           /\ b \in DOMAIN part.stable /\ part.stable[b] = record.extents[b]
           /\ b \in DOMAIN part.cached /\ part.cached[b] = record.extents[b]

\* The bytes of a record all come from one representation, and from the validator's
\* if there is one, however the source changes between probe, connections, retries,
\* crashes and sessions.
OneRepresentationPerFile ==
  \A b, c \in DOMAIN record.extents :
    /\ record.extents[b] = record.extents[c]
    /\ record.job.validator \in {NoValidator, record.extents[b]}

\* The coordinator never gives the domain a command or a token that it refuses, and
\* its own bookkeeping never contradicts itself; no worker outlives the transfer.
NoInternalError ==
  /\ session.error \notin {"Domain", "Invariant"}
  /\ session.pc \in {"transfer", "finish", "drain"} => ~HasPendingCheckpoint(job.segments)
  /\ session.pc = "finish" => Busy = {}

\* A session that ended without an error left the job as the record has it: nothing
\* is still leased, written or frozen, and a reload would give the same job.
EndsAsRecorded == Idle /\ job.state # "Cancelled" => job = Reloaded

\* Bytes a worker has finished are given up only by a crash, an error, a storage
\* failure or a new generation: a Pause, a retry or a severe stop saves them first.
WrittenIsKept ==
  [][LET Done(j) == j.segments.written \cup j.segments.durable IN
     /\ job'.generation = job.generation
     /\ session'.error = "None" /\ ~session'.storage_failed
     /\ budget'.crashes = budget.crashes
     => Done(job) \subseteq Done(job')]_vars

\* A session always comes to an end, whatever fails in it and whatever it is told.
SessionsEnd == session.pc # "idle" ~> session.pc = "idle"

\* docs/enterprise-runtime.md: a Pause or Cancel is not dropped.
StopsAreObeyed == asked => job.state # "Completed"

\* coordinator.rs, run: a Queued job is run "until it settles"; without a fault of the
\* repository, a session never leaves it probing, transferring or stopping.
RunsUntilSettled == session.pc = "idle" => job.state \notin Running \cup {"Stopping"}
=============================================================================
