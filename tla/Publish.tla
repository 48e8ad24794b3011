------------------------------ MODULE Publish -------------------------------
(***************************************************************************)
(* crates/adapters/storage/src/lib.rs under the second half of a session   *)
(* (crates/runtime/src/coordinator.rs: open_part, verify, publish,         *)
(* resume_publish, attempt_publish, release_part, recover): how the bytes  *)
(* of a job get from its part file to the destination, one call of the     *)
(* file system or the repository at a time, so that a fault, a crash of    *)
(* the process or a loss of power falls between any two of them.           *)
(*                                                                         *)
(* The part of generation g is one inode with up to three names: in the    *)
(* private directory the part and, while it is proved, the staged link;    *)
(* and the destination.  The representation of generation g has content g  *)
(* in every block; 0 is a block never written, -1 a damaged one, and a     *)
(* digest is the content it was taken from.  How a session transfers is    *)
(* Session's subject: here one block after the other is written.  A failed *)
(* operation poisons the handle and the lane, and the session gives both   *)
(* up: no later operation meets them.                                      *)
(***************************************************************************)
EXTENDS Job, Sequences

CONSTANTS
  Total,        \* blocks of the file
  Expected,     \* the digests a request may carry: representations, 0 for none
  Journalled,   \* directory changes are one log, in order, that every sync forces
  MaxRuns, MaxFaults, MaxCrashes, MaxPowerCuts, MaxDamage, MaxForeign, MaxCommands

ASSUME PublishAssumption ==
  /\ Total \in Nat \ {0} /\ LastGeneration \in Nat \ {0} /\ Journalled \in BOOLEAN
  /\ {MaxRuns, MaxFaults, MaxCrashes, MaxPowerCuts, MaxDamage, MaxForeign,
      MaxCommands} \subseteq Nat

VARIABLES
  record,   \* [job, extents, intent, expected]: what the repository has of the job
  names,    \* [part, meta, staged, dest]: the directory entries
  past,     \* the entries a loss of power may bring back, the present ones included
  files,    \* generation -> [cached, stable]: the blocks of its part's inode
  metas,    \* generation -> [cached, stable]: "blank", "open" or "sealed"
  session,  \* [pc, handle]: the coordinator with its FilePart
  budget    \* what the environment has left

vars == <<record, names, past, files, metas, session, budget>>

-----------------------------------------------------------------------------
Generations == 1 .. LastGeneration
Blocks      == Bytes(Total)
None        == [b \in {} |-> 0]
Filled(c)   == [b \in Blocks |-> c]
Free        == 0
Foreign     == -1
Both(x)     == [cached |-> x, stable |-> x]

NoIntent == [generation |-> 0, digest |-> None]
NoHandle == [generation |-> 0, coverage |-> {}, protected |-> {}, synchronized |-> FALSE,
             verified |-> None, sealed |-> FALSE, published |-> FALSE, cancelled |-> FALSE]
Idle     == [pc |-> "idle", handle |-> NoHandle]

Init ==
  /\ record \in [job : {NewJob}, extents : {None}, intent : {NoIntent}, expected : Expected]
  /\ names = [part |-> {}, meta |-> {}, staged |-> {}, dest |-> Free]
  /\ past = {names}
  /\ files = [g \in Generations |-> Both(None)]
  /\ metas = [g \in Generations |-> Both("blank")]
  /\ session = Idle
  /\ budget = [runs |-> MaxRuns, faults |-> MaxFaults, crashes |-> MaxCrashes,
               power |-> MaxPowerCuts, damage |-> MaxDamage, foreign |-> MaxForeign,
               commands |-> MaxCommands]

Spend(what) ==
  /\ budget[what] > 0
  /\ budget' = [budget EXCEPT ![what] = @ - 1]

job    == record.job
gen    == record.job.generation
handle == session.handle
At(pc) == [session EXCEPT !.pc = pc]
With(pc, h) == [pc |-> pc, handle |-> h]

\* Directory entries change in memory first; sync_directory makes them last.
Renamed(n) == names' = n /\ past' = past \cup {n}
SyncParts  == past' = IF Journalled THEN {names'}
                      ELSE {[names' EXCEPT !.dest = s.dest] : s \in past}
SyncDestination ==
  past' = IF Journalled THEN {names} ELSE {[s EXCEPT !.dest = names.dest] : s \in past}

\* sync_all of a file: on its own it says nothing of the file's names.
SyncFile == past' = IF Journalled THEN {names'} ELSE past

UnchangedDisk == UNCHANGED <<names, past, files, metas>>

(***************************************************************************)
(* step: decide, commit, apply.  The answer may be lost, with or without   *)
(* the commit; then the session is given up and the job is loaded again.   *)
(***************************************************************************)

Recorded(k) ==
  IF k.generation = gen THEN [record EXCEPT !.job = k]
  ELSE [record EXCEPT !.job = k, !.extents = None, !.intent = NoIntent]

GiveUp(outcomes) == Spend("faults") /\ record' \in outcomes /\ session' = Idle

Step(c, next) ==
  \E k \in Execute(job, c) :
    \/ record' = Recorded(k) /\ session' = next /\ UNCHANGED budget
    \/ GiveUp({record, Recorded(k)})

Because(reason) == [Command("RequireAction") EXCEPT !.reason = reason]

\* publish_blocked, stop_with and the failure arms of open_part and verify.
Blocked(reason) ==
  Step(Because(reason), IF job.state = "Transferring" THEN At("drain") ELSE Idle)

\* The storage refuses, or fails, the operation at pc.
Failing(pc) ==
  /\ session.pc = pc /\ Spend("faults")
  /\ \E k \in Execute(job, Because("Storage")) : record' = Recorded(k)
  /\ session' = IF job.state = "Transferring" THEN At("drain") ELSE Idle

-----------------------------------------------------------------------------
(***************************************************************************)
(* A run: the job is queued, verifying, or was caught publishing.          *)
(***************************************************************************)
Run ==
  /\ session = Idle /\ Spend("runs")
  /\ \/ job.state = "Queued"     /\ session' = At("start")
     \/ job.state = "Verifying"  /\ session' = At("open")
     \/ job.state = "Publishing" /\ session' = At("attempt")
  /\ UNCHANGED record /\ UnchangedDisk

Start == session.pc = "start" /\ Step(Command("Start"), At("probe")) /\ UnchangedDisk

Probe ==
  /\ session.pc = "probe"
  /\ Step([Command("ProbeSucceeded") EXCEPT !.total = Total, !.validator = gen], At("open"))
  /\ UnchangedDisk

(***************************************************************************)
(* open_inner.  create_new refuses a part that is there; its size, the     *)
(* sidecar, its identity and the directory are then synced in this order.  *)
(***************************************************************************)
Creates == record.extents = None /\ gen \notin names.part

CreatePart ==
  /\ session.pc = "open" /\ Creates
  /\ \/ /\ Renamed([names EXCEPT !.part = @ \cup {gen}])
        /\ files' = [files EXCEPT ![gen] = Both(None)]
        /\ session' = At("createMeta")
        /\ UNCHANGED <<record, metas, budget>>
     \/ Failing("open") /\ UnchangedDisk

CreateMeta ==
  /\ session.pc = "createMeta"
  /\ \/ /\ gen \notin names.meta
        /\ Renamed([names EXCEPT !.meta = @ \cup {gen}])
        /\ metas' = [metas EXCEPT ![gen] = Both("blank")]
        /\ session' = At("setLen")
        /\ UNCHANGED <<record, files, budget>>
     \/ gen \in names.meta /\ Blocked("Storage") /\ UnchangedDisk
     \/ Failing("createMeta") /\ UnchangedDisk

SetLen ==
  /\ session.pc = "setLen" /\ UNCHANGED names
  /\ \/ /\ files' = [files EXCEPT ![gen] = Both(Filled(0))]
        /\ SyncFile /\ session' = At("identity")
        /\ UNCHANGED <<record, budget>>
     \/ Failing("setLen") /\ UNCHANGED <<files, past>>
  /\ UNCHANGED metas

AfterOpen == [Transferring |-> "transfer", Verifying |-> "vsync", Publishing |-> "rsync"]

WriteIdentity ==
  /\ session.pc = "identity"
  /\ metas' = [metas EXCEPT ![gen].cached = "open"]
  /\ session' = At("syncMeta")
  /\ UNCHANGED <<record, names, past, files, budget>>

\* The sidecar, then the directory.  A part whose creation ended before this, with a
\* failure or a crash, is opened as it is: nothing syncs its names later.
SyncCreated ==
  /\ session.pc \in {"syncMeta", "syncCreated"} /\ UNCHANGED <<names, files>>
  /\ \/ /\ session.pc = "syncMeta"
        /\ metas' = [metas EXCEPT ![gen].stable = metas[gen].cached]
        /\ SyncFile /\ session' = At("syncCreated")
        /\ UNCHANGED <<record, budget>>
     \/ /\ session.pc = "syncCreated"
        /\ SyncParts
        /\ session' = With(AfterOpen[job.state],
                           [NoHandle EXCEPT !.generation = gen, !.synchronized = TRUE])
        /\ UNCHANGED <<record, metas, budget>>
     \/ Failing(session.pc) /\ UNCHANGED <<past, metas>>

\* recover_extent: every recorded extent is hashed again.
Proved(g) == \A b \in DOMAIN record.extents :
               b \in DOMAIN files[g].cached /\ files[g].cached[b] = record.extents[b]

Wellformed(g) == metas[g].cached # "blank" /\ files[g].cached # None

Opened(g) ==
  [NoHandle EXCEPT !.generation = g, !.coverage = DOMAIN record.extents,
                   !.protected = DOMAIN record.extents, !.sealed = metas[g].cached = "sealed"]

OpenPart ==
  /\ session.pc \in {"open", "reopen"} /\ ~(session.pc = "open" /\ Creates)
  /\ IF gen \notin names.part \cap names.meta THEN Blocked("Storage")
     ELSE IF ~(Wellformed(gen) /\ Proved(gen)) THEN Blocked("Integrity")
     ELSE \/ session' = With(AfterOpen[job.state], Opened(gen)) /\ UNCHANGED <<record, budget>>
          \/ Failing(session.pc)
  /\ UnchangedDisk

-----------------------------------------------------------------------------
(***************************************************************************)
(* transfer, as far as the part sees it: write_at, sync, hash and commit.  *)
(***************************************************************************)
WriteAt(b) ==
  /\ session.pc = "transfer"
  /\ ~handle.sealed /\ b \notin handle.coverage /\ b \notin handle.protected
  /\ \/ /\ files' = [files EXCEPT ![gen].cached[b] = gen]
        /\ session' = With("transfer", [handle EXCEPT !.coverage = @ \cup {b},
                                          !.synchronized = FALSE, !.verified = None])
        /\ UNCHANGED <<record, budget>>
     \/ /\ Spend("faults")
        /\ files' \in {[files EXCEPT ![gen].cached[b] = c] : c \in {0, -1, gen}}
        /\ \E k \in Execute(job, Because("Storage")) : record' = Recorded(k)
        /\ session' = At("drain")
  /\ UNCHANGED <<names, past, metas>>

Flushed(pc) == With(pc, [handle EXCEPT !.synchronized = TRUE])

\* Mutant: the bytes are recorded while they are still in the cache.
CheckpointUnsynced ==
  /\ session.pc = "transfer" /\ handle.coverage # DOMAIN record.extents
  /\ session' = Flushed("commit")
  /\ UNCHANGED <<record, names, past, files, metas, budget>>

Checkpoint ==
  /\ session.pc = "transfer" /\ handle.coverage # DOMAIN record.extents
  /\ files' = [files EXCEPT ![gen].stable = files[gen].cached]
  /\ session' = Flushed("commit")
  /\ UNCHANGED <<record, names, metas, budget>> /\ SyncFile

CommitExtents ==
  /\ session.pc = "commit"
  /\ LET extents == [b \in handle.coverage |-> IF b \in DOMAIN record.extents
                                                THEN record.extents[b] ELSE files[gen].cached[b]]
         updated == [record EXCEPT !.extents = extents,
                       !.job.segments = Restored(Total, handle.coverage)]
     IN  \/ record' = updated /\ session' = At("transfer") /\ UNCHANGED budget
         \/ GiveUp({record, updated})
  /\ UnchangedDisk

TransferDone ==
  /\ session.pc = "transfer" /\ AllDurable(job.segments)
  /\ Step(Command("AllSegmentsDurable"), At("drain"))
  /\ UnchangedDisk

Drain ==
  /\ session.pc = "drain"
  /\ Step(Command("WorkersDrained"), IF job.stop.kind = "Verifying" THEN At("vsync") ELSE Idle)
  /\ UnchangedDisk

-----------------------------------------------------------------------------
(***************************************************************************)
(* verify.                                                                 *)
(***************************************************************************)
Sync ==
  /\ session.pc \in {"vsync", "rsync"}
  /\ files' = [files EXCEPT ![gen].stable = files[gen].cached]
  /\ session' = Flushed(IF session.pc = "vsync" THEN "verify" ELSE "rverify")
  /\ UNCHANGED <<record, names, metas, budget>> /\ SyncFile

SyncFails == session.pc \in {"vsync", "rsync"} /\ Failing(session.pc) /\ UnchangedDisk

FullyWritten(h) == h.coverage = Blocks

\* Mutant: the file is compared with itself only.
MatchesItself(g) == record.expected \in {0, g}

\* The record covers every byte and agrees with the file, and so does the request.
Matches(g) ==
  /\ DOMAIN record.extents = Blocks /\ Proved(g)
  /\ record.expected = 0 \/ \A b \in Blocks : files[g].cached[b] = record.expected

Verify ==
  /\ session.pc \in {"verify", "rverify"}
  /\ LET digest == files[gen].cached
         passed == Matches(gen) /\ (session.pc = "rverify" => digest = record.intent.digest)
     IN  IF ~(FullyWritten(handle) /\ handle.synchronized) THEN Blocked("Storage")
         ELSE IF ~passed THEN Blocked("Integrity")
         ELSE \/ /\ session' = With(IF session.pc = "verify" THEN "intent" ELSE "publish",
                                    [handle EXCEPT !.verified = digest])
                 /\ UNCHANGED <<record, budget>>
              \/ Failing(session.pc)
              \/ GiveUp({record})
  /\ UnchangedDisk

(***************************************************************************)
(* publish: the intent is recorded, then the job becomes Publishing.       *)
(***************************************************************************)
RecordIntent ==
  /\ session.pc = "intent"
  /\ LET updated == [record EXCEPT !.intent = [generation |-> gen, digest |-> handle.verified]]
     IN  \/ record' = updated /\ session' = At("passed") /\ UNCHANGED budget
         \/ GiveUp({record, updated})
  /\ UnchangedDisk

Passed ==
  /\ session.pc = "passed"
  /\ Step(Command("VerificationPassed"), At("attempt"))
  /\ UnchangedDisk

\* inspect: a file of the recorded size and digest.
Ours == names.dest \in Generations /\ files[names.dest].cached = record.intent.digest

Attempt ==
  /\ session.pc = "attempt"
  /\ IF record.intent.generation # gen THEN Blocked("Storage")
     ELSE \/ /\ names.dest = Free
             /\ session' = At(IF handle = NoHandle THEN "reopen" ELSE "publish")
             /\ UNCHANGED <<record, budget>>
          \/ /\ names.dest # Free /\ Ours
             /\ session' = At("committed")
             /\ UNCHANGED <<record, budget>>
          \/ names.dest # Free /\ ~Ours /\ Blocked("Destination")
          \/ GiveUp({record})
  /\ UnchangedDisk

-----------------------------------------------------------------------------
(***************************************************************************)
(* FilePart::publish, call by call.                                        *)
(***************************************************************************)
Publish ==
  /\ session.pc = "publish"
  /\ IF handle.verified = None \/ ~handle.synchronized \/ ~FullyWritten(handle)
       THEN Blocked("Storage")
     ELSE IF names.dest # Free THEN Blocked("Destination")
     ELSE \/ session' = At("seal") /\ UNCHANGED <<record, budget>>
          \/ Failing("publish")
  /\ UnchangedDisk

\* The generation is frozen on the disk before a second name can show its inode.
Seal ==
  /\ session.pc = "seal"
  /\ metas' = [metas EXCEPT ![gen].cached = "sealed"]
  /\ session' = At("sealSync")
  /\ UNCHANGED <<record, names, past, files, budget>>

SealSync ==
  /\ session.pc = "sealSync" /\ UNCHANGED <<names, files>>
  /\ \/ /\ metas' = [metas EXCEPT ![gen].stable = metas[gen].cached]
        /\ SyncFile
        /\ session' = With("stage", [handle EXCEPT !.sealed = TRUE])
        /\ UNCHANGED <<record, budget>>
     \/ Failing("sealSync") /\ UNCHANGED <<metas, past>>

Stage ==
  /\ session.pc = "stage"
  /\ \/ /\ gen \in names.part
        /\ Renamed([names EXCEPT !.staged = @ \cup {gen}])
        /\ session' = At("prove")
        /\ UNCHANGED <<record, budget>>
     \/ Failing("stage") /\ Renamed([names EXCEPT !.staged = @ \ {gen}])
  /\ UNCHANGED <<files, metas>>

Unstaged == [names EXCEPT !.staged = @ \ {gen}]

\* The staged link is hashed through a handle of its own.
Prove ==
  /\ session.pc = "prove"
  /\ \/ /\ files[gen].cached = handle.verified
        /\ session' = At("link")
        /\ UNCHANGED <<record, names, past, budget>>
     \/ files[gen].cached # handle.verified /\ Blocked("Storage") /\ Renamed(Unstaged)
     \/ Failing("prove") /\ Renamed(Unstaged)
  /\ UNCHANGED <<files, metas>>

\* Mutant: what is in the way is removed, and then the name is free.
LinkAfterRemoving ==
  /\ session.pc = "link"
  /\ \/ /\ names.dest = Free
        /\ Renamed([names EXCEPT !.dest = gen])
        /\ session' = At("unstage")
        /\ UNCHANGED <<record, budget>>
     \/ /\ names.dest # Free
        /\ Renamed([names EXCEPT !.dest = Free])
        /\ UNCHANGED <<record, session, budget>>
  /\ UNCHANGED <<files, metas>>

\* hard_link never replaces: it loses the race for the name.
Link ==
  /\ session.pc = "link"
  /\ \/ /\ names.dest = Free
        /\ Renamed([names EXCEPT !.dest = gen])
        /\ session' = At("unstage")
        /\ UNCHANGED <<record, budget>>
     \/ names.dest # Free /\ Blocked("Destination") /\ Renamed(Unstaged)
     \/ Failing("link") /\ Renamed(Unstaged)
  /\ UNCHANGED <<files, metas>>

Unstage ==
  /\ session.pc = "unstage"
  /\ Renamed(Unstaged)
  /\ session' = At("syncInode")
  /\ UNCHANGED <<record, files, metas, budget>>

SyncInode ==
  /\ session.pc = "syncInode" /\ UNCHANGED <<names, metas>>
  /\ \/ /\ files' = [files EXCEPT ![gen].stable = files[gen].cached]
        /\ SyncFile /\ session' = At("syncDest")
        /\ UNCHANGED <<record, budget>>
     \/ Failing("syncInode") /\ UNCHANGED <<files, past>>

\* Both directories; a failure leaves the file at the destination and the job blocked.
SyncDirectories ==
  /\ session.pc \in {"syncDest", "syncParts"}
  /\ \/ /\ UNCHANGED <<record, names, budget>>
        /\ IF session.pc = "syncDest"
             THEN SyncDestination /\ session' = At("syncParts")
             ELSE SyncParts /\ session' = With("committed", [handle EXCEPT !.published = TRUE])
     \/ Failing(session.pc) /\ UNCHANGED <<names, past>>
  /\ UNCHANGED <<files, metas>>

-----------------------------------------------------------------------------
(***************************************************************************)
(* The record, then the part: release_part and discard.                    *)
(***************************************************************************)
PublishCommitted ==
  /\ session.pc = "committed"
  /\ Step(Command("PublishCommitted"), At("release"))
  /\ UnchangedDisk

\* Without a handle drop_part opens one, if it can; then the handle is abandoned.
Release ==
  /\ session.pc \in {"release", "drop"}
  /\ LET after == IF session.pc = "drop" THEN At("cleanup") ELSE Idle
         found == gen \in names.part \cap names.meta /\ Wellformed(gen)
         h     == IF handle = NoHandle THEN Opened(gen) ELSE handle
     IN  \/ /\ session' = IF handle = NoHandle /\ ~found THEN after
                          ELSE With(IF session.pc = "drop" THEN "dropPart" ELSE "removePart",
                                    [h EXCEPT !.cancelled = ~h.published])
            /\ UNCHANGED budget
         \/ Spend("faults") /\ session' = after
  /\ UNCHANGED record /\ UnchangedDisk

\* The part first, then its sidecar, then the directory is synced.
Discard ==
  /\ session.pc \in {"removePart", "dropPart"}
  /\ handle.published \/ handle.cancelled
  /\ Renamed([names EXCEPT !.part = @ \ {handle.generation}])
  /\ session' = At(IF session.pc = "dropPart" THEN "dropMeta" ELSE "removeMeta")
  /\ UNCHANGED <<record, files, metas, budget>>

DiscardMeta ==
  /\ session.pc \in {"removeMeta", "dropMeta"}
  /\ \/ /\ names' = [names EXCEPT !.meta = @ \ {handle.generation}]
        /\ SyncParts
        /\ UNCHANGED budget
     \/ Spend("faults") /\ UNCHANGED <<names, past>>
  /\ session' = IF session.pc = "dropMeta" THEN With("cleanup", NoHandle) ELSE Idle
  /\ UNCHANGED <<record, files, metas>>

Cleanup ==
  /\ session.pc = "cleanup"
  /\ Step(Command("CleanupFinished"), Idle)
  /\ UnchangedDisk

-----------------------------------------------------------------------------
(***************************************************************************)
(* Between the runs: recover settles what a crash interrupted, and a user  *)
(* pauses, resumes, cancels or replaces.                                   *)
(***************************************************************************)
Recover ==
  /\ session = Idle
  /\ \/ job.state \in Running \cup {"Verifying"} /\ Step(Command("Pause"), Idle)
     \/ job.state = "Stopping"   /\ Step(Command("WorkersDrained"), Idle)
     \/ job.state = "Cancelling" /\ session' = At("drop") /\ UNCHANGED <<record, budget>>
  /\ UnchangedDisk

Order(name) ==
  /\ session = Idle /\ Spend("commands")
  /\ \E k \in Execute(job, Command(name)) \ {job} : record' = Recorded(k)
  /\ UNCHANGED session /\ UnchangedDisk

(***************************************************************************)
(* The environment.                                                        *)
(***************************************************************************)
Restart ==
  /\ session # Idle /\ Spend("crashes")
  /\ session' = Idle
  /\ UNCHANGED record /\ UnchangedDisk

\* What was not synced may or may not have reached the disk.
Survivors(file) ==
  {s \in [DOMAIN file.cached -> {0, -1} \cup Generations] :
     \A b \in DOMAIN s : s[b] \in {file.cached[b]} \cup
       (IF b \in DOMAIN file.stable THEN {file.stable[b]} ELSE {0})}

PowerCut ==
  /\ Spend("power")
  /\ \E s, t \in past :
       /\ Journalled => s = t
       /\ names' = [s EXCEPT !.dest = t.dest]
       /\ past' = {names'}
  /\ \E s \in Survivors(files[gen]), m \in {metas[gen].cached, metas[gen].stable} :
       /\ files' = [files EXCEPT ![gen] = Both(s)]
       /\ metas' = [metas EXCEPT ![gen] = Both(m)]
  /\ session' = Idle
  /\ UNCHANGED record

\* Something else writes to the part, where its digest is recorded: what is damaged before
\* its digest is taken nobody notices.  Nor between the proof of the staged link and the
\* destination, which the directory's access list has to prevent, nor afterwards.
Damage(b) ==
  /\ names.dest # gen /\ session.pc # "link"
  /\ b \in DOMAIN record.extents \cap DOMAIN files[gen].stable
  /\ Spend("damage")
  /\ files' = [files EXCEPT ![gen].cached[b] = -1, ![gen].stable[b] = -1]
  /\ UNCHANGED <<record, names, past, metas, session>>

\* Somebody else takes the destination, or frees it again.
Foreigner ==
  /\ names.dest \in {Free, Foreign} /\ Spend("foreign")
  /\ Renamed([names EXCEPT !.dest = IF @ = Free THEN Foreign ELSE Free])
  /\ UNCHANGED <<record, files, metas, session>>

Next ==
  \/ Run \/ Start \/ Probe \/ CreatePart \/ CreateMeta \/ SetLen
  \/ WriteIdentity \/ SyncCreated \/ OpenPart
  \/ (\E b \in Blocks : WriteAt(b)) \/ Checkpoint \/ CommitExtents \/ TransferDone \/ Drain
  \/ Sync \/ SyncFails \/ Verify \/ RecordIntent \/ Passed \/ Attempt
  \/ Publish \/ Seal \/ SealSync \/ Stage \/ Prove \/ Link \/ Unstage \/ SyncInode
  \/ SyncDirectories
  \/ PublishCommitted \/ Release \/ Discard \/ DiscardMeta \/ Cleanup
  \/ Recover
  \/ \E name \in {"Pause", "Resume", "Cancel", "ReplaceRepresentation"} : Order(name)
  \/ Restart \/ PowerCut \/ (\E b \in Blocks : Damage(b)) \/ Foreigner

Spec == Init /\ [][Next]_vars

-----------------------------------------------------------------------------
(***************************************************************************)
(* Properties.                                                             *)
(***************************************************************************)

\* The file at the destination is complete, undamaged and on the disk, is what the
\* request asked for, and its inode is sealed against every later session, whatever
\* failed or crashed on the way there.  (Damage comes before the proof: see Damage.)
PublishedIsProven ==
  names.dest \in Generations =>
    /\ files[names.dest] = Both(Filled(names.dest))
    /\ record.expected \in {0, names.dest}
    /\ metas[names.dest].stable = "sealed" \/ names.dest \notin names.meta

\* Where directory changes are one log (Journalled), a recorded byte is never lost:
\* whatever a loss of power brings back, the part of the generation or the destination
\* still has it, until the job is cancelled.
Holds(s) ==
  \/ gen \in s.part \cap s.meta
  \/ s.dest = gen

BytesAreKept ==
  job.state \notin {"Cancelling", "Cancelled"} /\ record.extents # None =>
    /\ \A s \in past : Holds(s)
    /\ budget.damage = MaxDamage => \A b \in DOMAIN record.extents :
         files[gen].stable[b] = record.extents[b]

\* Publishing keeps what Publication promises: only a free name is taken, at once and
\* whole, no step of the engine touches what stands there, and a job completes only while
\* its bytes stand there.  (Whether they stand there after a loss of power depends on the
\* directory having been forced: CompletedSurvives.)
Promise == INSTANCE Publication WITH
  Whole  <- Generations,
  seen   <- {s.dest : s \in past},
  losses <- MaxPowerCuts - budget.power,
  others <- MaxForeign - budget.foreign,
  dest   <- IF names.dest \in Generations /\ files[names.dest].cached # Filled(names.dest)
              THEN -2 ELSE names.dest,
  ending <- CASE job.state = "Completed" -> "completed"
              [] job.state = "Cancelled" -> "cancelled"
              [] OTHER -> "open"
KeepsPromise == Promise!Spec

\* docs/enterprise-storage.md: the synced directory makes a publication survive the
\* loss of power on Unix.  The file of a completed job is there whatever comes back.
CompletedSurvives == job.state = "Completed" => \A s \in past : s.dest = gen
=============================================================================
