------------------------------ MODULE JobStore ------------------------------
(***************************************************************************)
(* How a job and its record stay together: owners (a session of the        *)
(* coordinator, the service acting on a parked job, a second session)      *)
(* each hold a copy of the job loaded from the repository and change it by *)
(* decide, commit, apply.  The repository refuses what its record does not *)
(* match.  An owner may stop anywhere, a commit may land without its owner *)
(* learning of it, and segment work goes on between decide and apply.      *)
(***************************************************************************)
EXTENDS Job

CONSTANTS
  Owners,      \* who may hold a copy of the job
  Commands,    \* the commands that may be given
  MaxVersion   \* the largest version (u64::MAX in the code)

ASSUME StoreAssumption == MaxVersion \in Nat /\ \A c \in Commands : IsCommand(c)

VARIABLES
  row,         \* jobs, job_state and extents of the job, as the database has them
  copy,        \* owner -> [job, version], the copy in memory
  event,       \* owner -> the event decided and not yet applied, if any
  answer       \* owner -> "None", or what the repository just confirmed

vars == <<row, copy, event, answer>>

NoEvent == [version |-> 0]

\* The columns of job_state: what an event decides, but for the count of durable bytes.
Decided(outcome) == [f \in DOMAIN outcome \ {"durable_bytes"} |-> outcome[f]]

Init ==
  /\ row = [present |-> TRUE, version |-> 0, total |-> NoMap.total, extents |-> {},
            decided |-> Decided(Projection(NewJob))]
  /\ copy   = [o \in Owners |-> [job |-> NewJob, version |-> 0]]
  /\ event  = [o \in Owners |-> NoEvent]
  /\ answer = [o \in Owners |-> "None"]

-----------------------------------------------------------------------------
(***************************************************************************)
(* Job::restore.                                                           *)
(***************************************************************************)
NeedsPlan     == {"Transferring", "Verifying", "Publishing", "Completed"}
NeedsAllBytes == {"Verifying", "Publishing", "Completed"}

Planned == row.total # NoMap.total

Restorable ==
  LET d == row.decided IN
  /\ (d.stop # NoStop) = (d.state = "Stopping")
  /\ d.replace_on_drain => d.state = "Stopping"
  /\ (d.retry_at # NoTick) = (d.state = "RetryWait")
  /\ d.state \in {"NeedsAction", "Failed"} => d.reason # NoReason
  /\ d.state \in NeedsPlan => Planned
  /\ Planned \/ (row.extents = {} /\ d.validator = NoValidator)
  /\ Planned => row.total <= MaxBytes /\ row.extents \subseteq Bytes(row.total)
  /\ d.state \in NeedsAllBytes => Planned /\ row.extents = Bytes(row.total)

RestoredJob ==
  [f \in DOMAIN NewJob |->
     IF f = "segments" THEN IF Planned THEN Restored(row.total, row.extents) ELSE NoMap
                       ELSE row.decided[f]]

\* load_jobs.  The owner gives up what it had, wherever it was: a crash between any
\* two steps and the restart, or an error and the reload.
Load(o) ==
  /\ row.present
  /\ Restorable
  /\ copy'   = [copy EXCEPT ![o] = [job |-> RestoredJob, version |-> row.version]]
  /\ event'  = [event EXCEPT ![o] = NoEvent]
  /\ answer' = [answer EXCEPT ![o] = "None"]
  /\ UNCHANGED row

-----------------------------------------------------------------------------
\* Job::decide.  An accepted command that changes nothing has no event.
Decide(o, c) ==
  /\ event[o] = NoEvent /\ answer[o] = "None"
  /\ copy[o].version < MaxVersion
  /\ \E k \in Execute(copy[o].job, c) \ {copy[o].job} :
       event' = [event EXCEPT ![o] =
                   [version |-> copy[o].version + 1, from |-> copy[o].job.state,
                    to |-> k.state, generation |-> copy[o].job.generation,
                    command |-> c, outcome |-> Projection(k)]]
  /\ UNCHANGED <<row, copy, answer>>

(***************************************************************************)
(* SqliteRepository::transition, one transaction.                          *)
(***************************************************************************)
Replaces(e) == e.outcome.generation # row.decided.generation

IsProbe(e) == e.command.name = "ProbeSucceeded"

PlanAfter(e) ==
  CASE Replaces(e) -> NoMap.total
    [] ~Replaces(e) /\ IsProbe(e) /\ ~Planned -> e.command.total
    [] OTHER -> row.total

ValidatorAfter(e) ==
  CASE Replaces(e) -> NoValidator
    [] ~Replaces(e) /\ IsProbe(e) /\ ~Planned -> e.command.validator
    [] OTHER -> row.decided.validator

\* Mutant: a new generation inherits the extents.
ExtentsInherited(e) == row.extents

ExtentsAfter(e) == IF Replaces(e) THEN {} ELSE row.extents

\* Mutant: the version is not compared.
AcceptsAnyVersion(e) ==
  /\ row.present
  /\ e.from = row.decided.state
  /\ e.generation = row.decided.generation

\* Mutant: the state the event starts from is not compared either.
AcceptsStale(e) ==
  /\ row.present
  /\ e.generation = row.decided.generation

Accepts(e) ==
  /\ row.present
  /\ e.version = row.version + 1
  /\ e.from = row.decided.state
  /\ e.generation = row.decided.generation
  /\ IsProbe(e) /\ Planned /\ ~Replaces(e) =>
       /\ e.command.total = row.total
       /\ e.command.validator # NoValidator
       /\ e.command.validator = row.decided.validator
  /\ ValidatorAfter(e) = e.outcome.validator
  /\ e.outcome.durable_bytes <= Cardinality(ExtentsAfter(e))

\* The answer may be lost: the owner is told Unavailable and gives the event up.
CommitTransition(o) ==
  /\ event[o] # NoEvent /\ answer[o] = "None"
  /\ Accepts(event[o])
  /\ LET e == event[o] IN
       row' = [row EXCEPT !.version = e.version, !.total = PlanAfter(e),
                          !.extents = ExtentsAfter(e),
                          !.decided = Decided(e.outcome)]
  /\ \/ answer' = [answer EXCEPT ![o] = "Transition"] /\ UNCHANGED event
     \/ event' = [event EXCEPT ![o] = NoEvent] /\ UNCHANGED answer
  /\ UNCHANGED copy

Refuse(o) ==
  /\ event[o] # NoEvent /\ answer[o] = "None"
  /\ ~Accepts(event[o])
  /\ event' = [event EXCEPT ![o] = NoEvent]
  /\ UNCHANGED <<row, copy, answer>>

\* Job::apply: replay the command and compare everything the event decided.
Replayed(o, e) ==
  {k \in Execute(copy[o].job, e.command) \ {copy[o].job} :
     /\ e.from = copy[o].job.state
     /\ e.generation = copy[o].job.generation
     /\ e.version = copy[o].version + 1
     /\ k.state = e.to
     /\ Projection(k) = e.outcome}

Apply(o) ==
  /\ answer[o] = "Transition"
  /\ copy' = [copy EXCEPT ![o] =
                IF Replayed(o, event[o]) = {} THEN @
                ELSE [job |-> CHOOSE k \in Replayed(o, event[o]) : TRUE,
                      version |-> event[o].version]]
  /\ event'  = [event EXCEPT ![o] = NoEvent]
  /\ answer' = [answer EXCEPT ![o] = "None"]
  /\ UNCHANGED row

-----------------------------------------------------------------------------
\* The segment operations of the copy.
SegmentStep(o) ==
  /\ answer[o] # "Extents"
  /\ \E p \in SegmentSteps(copy[o].job) : copy' = [copy EXCEPT ![o].job.segments = p]
  /\ UNCHANGED <<row, event, answer>>

\* SqliteRepository::durable, called with the batch of a synced checkpoint.  A batch
\* that overlaps the extents is accepted if it is a retry, and refused otherwise.
CommitExtents(o) ==
  LET j == copy[o].job IN
  /\ j.segments.ckpt = Synced /\ answer[o] = "None" /\ event[o] = NoEvent
  /\ row.present /\ Planned
  /\ j.generation = row.decided.generation
  /\ row.decided.state \in SegmentStates
  /\ j.segments.frozen \subseteq Bytes(row.total)
  /\ row' = [row EXCEPT !.extents = @ \cup j.segments.frozen]
  /\ answer' \in {answer, [answer EXCEPT ![o] = "Extents"]}
  /\ UNCHANGED <<copy, event>>

\* Job::acknowledge_commit.
AcknowledgeExtents(o) ==
  /\ answer[o] = "Extents"
  /\ copy' = [copy EXCEPT ![o].job.segments = AcknowledgeCommit(@)]
  /\ answer' = [answer EXCEPT ![o] = "None"]
  /\ UNCHANGED <<row, event>>

\* SqliteRepository::remove, with the version the caller saw.
Remove(o) ==
  /\ event[o] = NoEvent /\ answer[o] = "None"
  /\ row.present
  /\ row.decided.state \in Removable
  /\ copy[o].version = row.version
  /\ row' = [row EXCEPT !.present = FALSE]
  /\ UNCHANGED <<copy, event, answer>>

Next ==
  \E o \in Owners :
    \/ Load(o)
    \/ \E c \in Commands : Decide(o, c)
    \/ CommitTransition(o)
    \/ Refuse(o)
    \/ Apply(o)
    \/ SegmentStep(o)
    \/ CommitExtents(o)
    \/ AcknowledgeExtents(o)
    \/ Remove(o)

Spec == Init /\ [][Next]_vars

-----------------------------------------------------------------------------
(***************************************************************************)
(* Properties.                                                             *)
(***************************************************************************)

\* The version names the decided state: a copy with the record's version has the
\* record's state, reason, deadlines, stop target, attempts, plan and validator, no
\* matter how many owners decided at once, what was lost, or how segments moved on
\* between decide and apply.  And no copy, however stale, takes a byte of the record's
\* generation for durable that the record does not have.
CopyMatchesRecord ==
  \A o \in Owners :
    /\ copy[o].version = row.version =>
         /\ Decided(Projection(copy[o].job)) = row.decided
         /\ copy[o].job.segments.total = row.total
    /\ copy[o].job.generation = row.decided.generation =>
         copy[o].job.segments.durable \subseteq row.extents

\* The record is one that Job::restore accepts, after every commit: a crash at any
\* point never leaves a job that cannot be loaded.
RecordRestorable == Restorable

\* A job that stops in order to be verified has all its bytes and keeps them: the arm
\* that sends an incomplete one to Paused is never needed.
VerifyingStopIsComplete ==
  \A o \in Owners :
    LET j == copy[o].job IN
    j.stop.kind = "Verifying" => Complete(j) /\ ~j.replace_on_drain

\* A job at rest left nothing behind: no lease, no checkpoint, no written byte that
\* was not committed; and a cancelled one has no worker and no checkpoint.
RestIsDrained ==
  \A o \in Owners :
    LET j == copy[o].job IN
    /\ j.state \notin SegmentStates \cup {"Cancelled"} =>
         Quiescent(j) /\ ~HasUnsynced(j.segments)
    /\ j.state = "Cancelled" => Quiescent(j)

\* While a job stops, no later cause lowers the severity of the recorded target, save
\* a Resume that takes back a Pause; and it leaves Stopping only to that target, or
\* to be cancelled.
SeverityNeverLowers ==
  [][row.decided.state = "Stopping" =>
       LET a == row.decided.stop
           b == row.decided'.stop
       IN  IF row.decided'.state = "Stopping"
             THEN \/ b.kind = a.kind /\ b.at_tick >= a.at_tick /\ b.reason = a.reason
                  \/ Rank[b.kind] > Rank[a.kind]
                  \/ a.kind = "Paused" /\ b.kind \in {"Queued", "Verifying"}
             ELSE row.decided'.state \in {a.kind, "Cancelling"}]_vars

\* Within a generation the record only gains extents, and its plan and validator are
\* set once: bytes of two representations never share a file.  A new generation is the
\* next one and starts from nothing.
OneRepresentation ==
  [][IF row.decided'.generation = row.decided.generation
       THEN /\ row.extents \subseteq row.extents'
            /\ Planned => /\ row.total' = row.total
                          /\ row.decided'.validator = row.decided.validator
       ELSE /\ row.decided'.generation = row.decided.generation + 1
            /\ row.extents' = {} /\ ~Planned']_vars

\* Nothing is written after a job was removed, and a completed or cancelled job never
\* changes again, whatever stale owners still try to commit.
FinalStatesAreFinal ==
  [][/\ ~row.present => row' = row
     /\ row.decided.state \in {"Completed", "Cancelled"} => row.decided' = row.decided]_vars
=============================================================================
