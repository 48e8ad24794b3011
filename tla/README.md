# FHD in TLA+

A verification project for FHD, a download manager in Rust. The repository holds two
engines. The modules here model the new one (`crates/domain`, `crates/application`,
`crates/runtime`, `crates/adapters`, `crates/bins/daemon`) from a request to the file in
the download folder: admission, scheduling, the job and its record, the session that
moves bytes, and publication; and the older one (`crates/download-engine`,
`crates/transfer-store`, `crates/resume-policy`, `crates/download-core`): its queue, one
attempt, its job directory. Paths below are relative to the repository.

## 1. Inventory

### New engine

| Part | State it keeps | Operations | What makes it correct |
|---|---|---|---|
| Segment map, `domain/src/segments.rs` | segments with their state, counters, the pending checkpoint | split, steal, lease, mark_written, release, prepare/acknowledge sync, acknowledge_commit, discard, restore, replace_generation | the segments partition the file; late tokens change nothing; only synced and committed bytes become durable |
| Job, `domain/src/job.rs` | state, generation, reason, deadline, stop target, attempts, validator, segment map, version | commands through decide / apply, restore, segment operations behind a state check | a drained job left nothing behind; the more severe stop wins; bytes of two representations never meet |
| Transfer repository, `adapters/persistence/src/{lib,transfer}.rs` | rows of jobs, job_state, extents, intents, receipts | transition, durable, jobs, intent, remove, add | one version, one winner; every stored record can be restored |
| Coordinator, `runtime/src/coordinator.rs` | the session: the job, leases of its workers, unsynced count, writer, control channel | probe, open, transfer, checkpoint, finish, verify, publish, close, recover | recorded bytes are on disk; stops are obeyed; sessions end; nothing finished is lost |
| Writer lane, `runtime/src/writer.rs` | a queue of commands, a poisoned flag, the file | write (coalesced), sync, hash, verify, publish, discard | order is kept; nothing succeeds after a failure |
| Scheduler, `runtime/src/scheduler.rs`, and origin governor, `runtime/src/origin.rs` | ready and waiting queues, active sessions, grants, cooldowns | admit, promote, deliver, commands, shutdown | caps hold; every job comes back once; no deadline is slept over |
| Buffer pool, `runtime/src/buffers.rs` | permits and free blocks | acquire, append, drop | bounded memory, no leaked permit |
| Part storage, `adapters/storage` | part and meta files, locks, staged links | create, open, write, sync, recover_extent, verify, publish, discard | a foreign file is never replaced or claimed |
| HTTP transport, `adapters/http` | bindings, the last probe per source | probe, fetch, read | a stream is of the representation that was asked for |
| Admission, `application/src/lib.rs`, `bins/daemon/src/service.rs` | receipts, references, claimed destinations | add, restore, list | one job per key, whatever is retried |
| Retry policy, `domain/src/retry.rs` | none | decide | bounded, monotone delays |
| IPC, protocol, platform, config, telemetry, testkit | none that matters here | formats, system calls, output, fakes | not modelled |

### Older engine

`download-core` (state machine, ranges), `download-engine` (queue manager, parallel
fetch, queue store, rate limit), `transfer-store` (journal), `resume-policy` (decision
table), `queue-secrets`, `platform-files`.

| Part | State it keeps | Operations | What makes it correct |
|---|---|---|---|
| Queue manager, `download-engine/src/manager.rs`, `queue_store.rs`, `intake.rs` | jobs, queue, receipts, running workers, one encrypted snapshot, an inbox of proposals | add, pause, resume, cancel, retry, forget, move, limits, checkpoint, shutdown | an answered command is in the snapshot; a snapshot opens; nothing starts by itself after a crash |
| One attempt, `download-engine/src/{lib,parallel,unknown}.rs` | response, position, window of ranges, link to refresh | probe, sequential or parallel fetch, unknown length, rebind, verify, export | bytes of two representations never meet |
| Job directory, `transfer-store/src/lib.rs` | part file, one row, publication intent, published link | create, open, append, checkpoint, complete, rebind, finalize, publish | the row never claims more than the disk has; a stranger's file is left alone |
| Response policy, `resume-policy/src/lib.rs`; state machine, `download-core/src/state.rs` | none; one state | evaluate; commands and events | tables without holes |

### How the parts interact

The scheduler starts one session per admitted job and sends it `Pause` and `Cancel`
over a channel. The session's coordinator alone owns the `Job`; it changes it by
*decide* (domain), *commit* (repository), *apply* (domain). It leases segments to
workers, each a tokio task that fetches its range and sends buffers to the writer lane,
a thread of its own. Workers and coordinator share the lane's queue. A checkpoint is
*prepare_sync*, sync of the file, *acknowledge_sync*, hash of every range, commit of the
extents, *acknowledge_commit*. After a crash the repository is the only truth:
`load_jobs` rebuilds the job, `recover` settles it, and a new session proves every
extent against its digest before it goes on.

A request reaches the engine through `Service::add` or a batch of the one-shot engine,
becomes a row with a receipt (`AddDownload`), and is sent to the scheduler as a command.
The scheduler asks the origin governor for connections before it starts a session, and
sessions report failures and delays back to the governor. A verified part is sealed,
linked under a staged name, proved once more and linked at the destination, and only
then committed as published.

The older engine is one actor with a join set of workers. It saves the whole queue after
every change and before it answers; a worker has its own directory and row, and the two
share nothing but the request.

### What is hard

Late workers and late writes; a checkpoint that overlaps with running workers; commits whose answer
is lost; crashes between any two of those steps; causes of a stop that arrive in any order and any
number; a source that changes under a running transfer; controls that arrive when nobody reads
them; owners that hold stale copies; several names of one inode, and directories that lose entries
with the power; clocks read several times in one turn; saves that fail after they have stored. The
list, with lines, is `hazards` in `PROJECT.json`.

## 2. Modules

| Module | Models | Extends |
|---|---|---|
| `Progress` | operators on the byte-level view of a segment map | |
| `ByteProgress` | abstract specification: what a segment map promises | `Progress` |
| `SegmentMap` | `segments.rs`, with the holders of its tokens and the extents in the repository | |
| `Job` | `job.rs` as operators: `Execute(j, c)` is `Job::execute` | `Progress` |
| `JobStore` | decide, commit, apply over one record; `transfer.rs`, `remove` | `Job` |
| `Session` | `coordinator.rs`, `writer.rs`, part files, source, crash and recovery | `Job` |
| `Publication` | abstract specification: what publishing promises the owner of the folder | |
| `Publish` | part storage, and the second half of a session, call by call | `Job` |
| `OriginGovernor` | `origin.rs` as operators on the state of one origin | |
| `Scheduler` | `scheduler.rs` with its sessions, clock and senders | `OriginGovernor` |
| `Admission` | `AddDownload`, receipts, references, resident service, one-shot engine | |
| `QueueManager` | the older engine's actor, snapshot and inbox | |
| `ResumePolicy` | `resume-policy` and the state machine of `download-core`, as operators | |
| `Transfer` | one download of the older engine and its job directory | `ResumePolicy` |
| `SegmentMapProofs`, `JobStoreProofs`, `SessionProofs`, `PublishProofs`, `SchedulerProofs`, `AdmissionProofs`, `QueueManagerProofs`, `TransferProofs` | theorems and proofs (section 4) | the module named, `TLAPS` |
| `MCJobStore`, `MCSession`, `MCScheduler`, `MCAdmission`, `MCQueueManager` | values for TLC | |

`Publish` and `Transfer` each instantiate `Publication` with a refinement mapping, so both
engines are held to the same promise. In `Publication` the steps of others and the losses of power
are counted. A step that moves no counter is the engine's, and of the destination it may only take
a free name: that neither engine writes, replaces or removes what stands there, its own file
included, is part of what is refined. A loss of power brings back an entry of `seen`, which
grows with every change and shrinks only where a directory was forced.

**SegmentMap.** `segs` is the vector of segments as a function of their ids; `leases` are all
leases ever issued, because a `Lease` is `Copy` and may be presented again; `tickets` and `batches`
are the coordinator's; `persisted` are the extents of the repository. A reload is a new process or
session, and the leases of the one before are gone. One action per method. `CommitExtents` and
`AcknowledgeCommit` are two steps, so the repository may be ahead, and `Reload` (crash, or an error
followed by a reload) may come between. A refused call changes nothing and is no action.

**Job, JobStore.** `Execute` returns the set of resulting jobs: empty for a refusal, the
job itself for an accepted command without effect. The segment map of a job is its
`Progress` record, which `SegmentMap` is shown to implement, so these modules do not
repeat the cutting. In `JobStore`, owners hold copies of the job; `Load` is allowed
at any time and stands for crash, restart and reload; the answer of a commit may be
lost. `row.decided` holds the columns of `job_state`.

**Session.** `session.pc` names the await at which the coordinator is; an action is what
it does up to the next one. decide, commit, apply is one action here (`Step`), with the
two ways a commit can fail; `JobStore` has the finer view. The lane's queue is a
sequence. `parts` keeps for each generation what the operating system would return
(`cached`) and what is certain to survive (`stable`); a crash keeps `stable` and any
subset of the rest. A byte's content is the number of the representation it was read
from, and a digest is that content. Left out: how pending bytes are cut (any range may
be leased), coalescing of writes (it answers as the single writes would), the buffer
pool, the origin governor, and the protocol of publication, of which only the outcomes
are present: that is `Publish`. The sender of controls lives as long as the session, as in
the scheduler.

**Publish.** An action is one call of the file system or one commit. `names` are the
directory entries of part, sidecar, staged link and destination; `past` are the versions
of the directory that a loss of power may bring back, cleared when the directory is synced;
`files` and `metas` keep cached and stable contents of each inode. `Verify`, `Prove`
and the check of an occupied destination read contents, never names. `Order` is a command
given to a job at rest, `Foreigner` another program in the download folder, `Damage` a block
of the part that goes bad. Damage is taken to hit recorded blocks only before the staged
link is proved: nothing the code does afterwards could notice it. `Journalled` says whether
directory changes are one ordered log that every sync forces, as on ext4 or XFS;
`BytesAreKept` needs it, because a part whose creation was interrupted before the directory was
synced is opened later as it is, and nothing syncs its name then.

**Scheduler, OriginGovernor.** A turn of the loop is deliver the controls that were refused, one
after the other; take the waiting jobs off their queue and move each (a due one with a commit
that may fail); read the clock, admit one entry after the other, read the deadline, wait; between
these steps the clock, the senders and the sessions move. `turn` holds the loop's locals (the list
still to be taken in, the jobs being moved, the jobs skipped), `tasks` the session tasks with their
inboxes, `used` and `origins` the two counts of connections. Pause and Cancel are one
control: both make a session wind down or take a job off a queue, and what becomes of the
record is `JobStore`'s subject. A session reports to the governor, may come back ready or
waiting, may fail to commit or panic (`Join` handles all of them).

**Admission.** A handler's steps are its transactions; what it read before an await it uses
afterwards. `accepted` collects the answers that were given, so that a lost answer is simply one
not in it, and `answered` the jobs for which the engine itself has answered. The engine may be
reopened with another size limit or policy on unencrypted links, as resident or one-shot. A source
is a link together with that permission, and `bound` is the transport's registry: a source is bound
once in the life of an engine and never released, so a repeated request only reaches `AddDownload`
in a later life. Destinations are spellings: the resident engine stores the path one resolves to,
the one-shot engine the path as it was spelled, and `reopen` asks for what is stored. `failed`
remembers jobs the scheduler gave up because their session failed.

**QueueManager.** `Decodes` and `Opens` are the checks of `decode` and of `Manager::open`: the
queue and the receipts against the jobs, the directories, and of each job the length of its link,
its limit, its progress and (`sound`, one flag) the rest of its options and policy, which no
command changes. A link is the length of its text: `Refresh` bounds the text it is given (`raw`)
and stores what the parsed link prints (`normal`). `progress` are the counters that the workers
write at any time, `column` their values in the snapshot. The actor's `select!` is one action per
branch, each with its save, its answer and the scheduling that follows; refused commands change
nothing and are not actions. A save may fail with the snapshot written or not; the actor then
refuses everything and winds down. Opening turns every saved state but the final ones into Paused.
Filters of sequences are written with the positions they keep (`At`), which is what `retain` and
`sort_by_key` do to the queue and which, unlike a recursion, can be proved about.

**Transfer.** One job directory, attempts one after the other. A unit of content names its URL,
version and place, so that mixed files are visible as such. Strong tags name versions only,
because two URLs may use the same tags. The parallel window fetches ranges in any order
and hands them over in order. A link may be refreshed as often as one likes, also before the
row has been bound to the one before. `unix` is the build: `sync_directory` does nothing
elsewhere (`transfer-store/src/lib.rs:606`), so that there a receipt may say published of a name
that a loss of power takes away; `transfer-store/README.md:26` claims no more. The durable queue
of this engine is built on Windows only: both values are in the run.
`PowerLoss` keeps what was synced and any part of the rest; the
entry of the job directory itself is taken to survive, and so is the published file, which
is a link to the part that its owner is assumed not to edit in place.

## 3. Runs

| Run | Configuration | Shows |
|---|---|---|
| `segment_map` | files of 0 and 3 bytes, limits of 2 and 3 segments, 2 generations, every lease ever issued presented again | `TypeOK`, `Partition`, `CheckpointFrozen`, `RepositoryAhead`, `Restorable`, `StaleLeaseStaysStale`, refinement of `ByteProgress` |
| `job_store` | 2 owners (symmetric), all commands, 4 versions | `CopyMatchesRecord` (a copy equals the record of its version or is behind it), `FinalStatesAreFinal` |
| `job_history` | 1 owner, 7 versions | `RecordRestorable`, `VerifyingStopIsComplete`, `RestIsDrained`, `SeverityNeverLowers`, `OneRepresentation` |
| `session` | 2 workers, 2-byte files, 2 representations (one with a strong validator), 2 sessions, 1 fault, 1 crash, 1 control, 1 command at rest, 1 change of the source | `RecordedBytesAreStable`, `OneRepresentationPerFile`, `NoInternalError`, `EndsAsRecorded`, `WrittenIsKept` |
| `session_liveness` | 1 session, 2 controls, 1 fault, workers that fail transiently, find a changed source or panic | `SessionsEnd` |
| `session_pause` | expected violation | `StopsAreObeyed` |
| `publish` | 2 blocks, 2 generations, 3 sessions, 1 fault, 1 crash, 1 loss of power, 1 damaged block, 1 foreign file, 2 commands; 2.7 million states | `PublishedIsProven`, `BytesAreKept`, refinement of `Publication` (`KeepsPromise`) |
| `scheduler` | 2 jobs of one origin, 3 connections, 2 per job, clock to 2, 1 report or failure, 2 commands; 444 000 states | `GrantsAreCounted`, `ComesBackOnce`, `DelaysAreObserved`, `ShutdownReturns` |
| `admission` | 2 clients, 2 engines in turn, limits of 1 and 2 bytes, 1 fault, 1 removal, 3 identities; 1.1 million states | `ReceiptsAreSound`, `AcceptedIsRemembered`, `QueuedAreHeld`, `HandedOnce` |
| `admission_continue` | expected violation | `DirectoryContinues` |
| `queue_manager` | 2 jobs of one origin with one slot, a request that repeats the key of another, links that fit, 3 commands, 1 failed save or crash, 2 opens; 1.1 million states | `TypeOK`, `SavedOpens`, `AnswersAreDurable`, `AcceptedIsKept`, `RecoveredWaits` |
| `transfer` | 4 units at 2 URLs in 2 versions, 3 attempts, 2 faults, 1 loss of power, both builds, 1 change, 1 stranger; 3.3 million states | `PublishedIsWhole`, `CommittedIsStable`, `CompletedStands`, refinement of `Publication` (`KeepsPromise`) |

*Bounds.* Two workers and two bytes are enough for one worker to be late while the
other finishes, for a checkpoint to cover one byte and not the other, and for two
representations to meet in a file. One fault of storage or repository may fall on any
step, and a crash on any other. Four versions let an owner be overtaken while it
probes, transfers, stops or cancels; seven reach from a fresh job through a stop,
a resume and a replacement. Counters (`MaxAttempt`, `LastGeneration`, ...) stand for
`u64::MAX` and `u8::MAX`: the code stops or saturates there too, and the runs reach the
ends of the attempt counters. `NoInternalError` is checked with files within `max_bytes`;
a larger source is the subject of `SessionOversize.cfg` below.

In `publish` three sessions are one that publishes, one that finds what a crash left and one after
a replacement; a crash and a loss of power may fall into the same publication. In `scheduler` two
jobs of one origin make the second get fewer connections, none, or a delay that the first one
caused; two ticks pass a deadline and leave one beyond it. In `admission` two clients race for
identities, paths and sources, a request comes back after a crash with another digest, limit or
permission, one link is fetched to two paths by two engines, and the limit of two jobs makes a
third be refused. In `queue_manager` the second job waits behind the first for its origin, is
moved, retried and forgotten, and the queue is opened once more after a crash anywhere. Some cases
are left to the theorems: with four versions `job_store` reaches `Cancelled` and removed jobs, not
`Completed`; in `scheduler` the limit of an origin is that of the engine; in `queue_manager` the
slot of the origin binds before `MaxActive` does; `session_liveness` has no crash, so no recovery.
In `transfer` four units make two checkpoints and two ranges, and three attempts are one that is
cut, one that resumes and one that is too late.

*Deadlock* is checked for `segment_map`. In the others the system may stop: a
job may be completed, cancelled or removed, and the environment's budget ends.

*Fairness.* For `SessionsEnd`: weak fairness of the coordinator, of each worker and
of the lane. tokio polls every task that is ready; requests and reads carry timeouts
(`response`, `read_idle_timeout` in the HTTP adapter); file operations return. For
`ShutdownReturns`: weak fairness of the loop and of the clock, and of a session that was told
to stop, which reads its channel and ends (that is what `SessionsEnd` shows of it); a session
that was not told may run forever. Nothing is assumed of the environment: no control, no
crash, no command and no change has to happen. `QueueManager` and `Transfer` are checked
for safety only.

### Findings

* `session_pause`: `finish` drains the control channel and drops a `Pause`
  (`coordinator.rs:807`). If it was sent while the last checkpoint of a transfer was
  being taken, the job was still transferring, and it is verified and published all the
  same. `docs/enterprise-runtime.md:77` says that stop orders are not dropped.
* `admission_continue`: `reopen` leaves behind a remembered job whose path an earlier one has,
  but not one whose link an earlier one has; `open_many` binds every source of the batch
  (`daemon/src/lib.rs:511`), and `HttpTransport::bind` refuses a second time. Two runs that fetch
  one link to two places make a directory that cannot be continued. `daemon/src/lib.rs:665`
  says that the later job is left behind and the rest of the directory keeps working.

### Further configurations

Seven configurations are kept beside the runs. Each ends with the violation of its one property:
all but the last reproduce a behaviour in which a sentence of the repository promises more than the
code does, and the last shows that a hypothesis of a theorem is needed.

| Configuration | Property | What it reproduces |
|---|---|---|
| `SessionOversize.cfg` (`MCSession`) | `RunsUntilSettled` | a probe that finds more than `max_bytes` is refused by the domain (`job.rs:419`); the session ends with an error and the record stays `Probing`. The comment of `Coordinator::run` (`coordinator.rs:255`) says that a job is run until it settles |
| `SchedulerWakeup.cfg` (`MCScheduler`) | `DueJobsMove` | a deadline that passes between `promote_due` and `next_deadline` is filtered out by `*at > now` (`scheduler.rs:418`) and the loop sleeps until something else wakes it. `scheduler.rs:2`: "a retry deadline or an origin standing down is slept through exactly, never polled" |
| `AdmissionRestore.cfg` (`MCAdmission`) | `RememberedJobsStart` | `restore` takes only `Queued` and `RetryWait` jobs (`service.rs:299`): one in work when the process ended is held by nobody, and of two jobs with one source the later one is passed by. `service.rs:217`: "Jobs the directory remembered start straight away." |
| `AdmissionAdded.cfg` (`MCAdmission`) | `AddedAreTaken` | a sensitive job that waits for a retry is not restored, because its link was not stored; asked for again it is answered as accepted, and not handed over, because it is not `Queued` (`service.rs:394`). `service.rs:393`: "Already finished or resting: admitted, but nothing for the queue." |
| `AdmissionLinks.cfg` (`MCAdmission`) | `LinksStayOff` | a source is a link with the permission to fetch it unencrypted (`service.rs:327`, `daemon/src/lib.rs:494`). A link accepted as sensitive, asked for again under the other permission and without the flag, is another source, and its row has the link. `references.rs:32` says that a later run that forgets the flag cannot write the credential |
| `PublishPower.cfg` (`Publish`) | `CompletedSurvives` | on a file system that does not order directory changes, a job found already linked after a crash is committed without a sync of the directory (`coordinator.rs:935`), and a loss of power takes the file away from a completed job. `docs/enterprise-storage.md:23` says that the directory is synced on Unix |

| `QueueGrowth.cfg` (`MCQueueManager`) | `SavedOpens` | `Refresh` bounds the text of the new link (`download-engine/src/lib.rs:92`) and stores the normalised text (`manager.rs:977`), which percent-encoding makes longer. Past the bound it is saved and the command answered, and `decode` (`queue_store.rs:360`) refuses the queue the next time |

### Observations

Met while modelling; none of them contradicts a sentence of the repository, and the models keep
them as they are.

* `recover` settles a job caught `Stopping` by its target, which may be `Queued` or
  `Verifying`: the job goes on rather than resting.
* The sidecar of a part whose creation was interrupted is not synced when it is opened: after a
  loss of power it may be blank, and the job needs action although its bytes are there.
* A crash between the creation of the part and of its sidecar leaves a job that needs action
  until its representation is replaced; parts of earlier generations stay after a Cancel.
* A publication whose link succeeded and whose sync of the directory failed needs action; a
  Cancel then leaves the file in the folder.
* A crash between `commit_add` and the recording of references leaves a job without them, and a
  reopening under another size limit or permission makes a second job of the same request. `restore` does
  not look whether a destination is registered. That two requests may name one file in different
  spellings is described in `bins/daemon/tests/process.rs`.
* `on_command` enqueues the job of an `Admit` without the check for its identity that `run`
  makes of its own list (`scheduler.rs:366`). Two sessions of one job do not come of it, because
  a second request for the same source is refused when it is bound (`HandedOnce`); for the same
  reason a request whose answer was lost cannot be repeated before the engine is restarted, and
  `execute`'s branch for a conflict is never taken (part of `ReceiptsAreSound`).
* The scheduler's map from task ids to jobs (`owners`) only shrinks when a task fails.
* An attempt of the older engine at a file of unknown length can be repeated only from the
  start; a complete prefix without its marker, and a half-made directory, are described in
  the READMEs of the crates.

## 4. Proofs

Each proof module extends the module it is about. Every theorem holds for all values of the
constants that satisfy the module's `ASSUME`; none has a further hypothesis unless it is named
below. The assumptions only say of what kind the constants are: counts and bounds are natural
numbers, generations, connections and the limits of the older queue at least one, commands and
requests records with the fields of the code's types (`IsCommand`, `IsRequest`), tags numbers other
than the one that stands for "none". The number of workers, owners, clients, faults, crashes and
versions, and the sizes of files, are arbitrary. TLC evaluates the assumptions in every run.

An inductive invariant was first checked by TLC on the run of its module, then proved: it
holds initially, every action preserves it (one lemma per action or group of actions), and it
implies the properties.

### SegmentMapProofs

* `TypeCorrect`, `Partitioned`: `TypeOK`, with the bounds of all identifiers, attempts and
  sequences by their counters (`HandedOut`), is inductive, and `Partition` together with it; the
  steps that matter are a split (`Cut`) and a restore, for which lemmas say that the starts of the
  runs of durable and pending bytes partition the file.
* `Frozen`: only splits, leases and releases change segments, and none touches a written one.
* `MemoryBehindRepository`: not inductive as it stands. `Stored` also says which extents a pending
  checkpoint may already have in the repository.
* `StaleLeases`: follows from `HandedOut`: the attempt of every lease of the generation is
  below the counter, so that no later lease has it.
* `AlwaysRestores`: a counting argument. The extents in the repository, with or without those of the
  pending checkpoint, are whole segments of the map; a restored segment starts where one of
  the map's does (`FewStarts`), and the map keeps to the limit. It needs `Recorded`: extents are
  non-empty and apart, and those of a checkpoint were stored all or none.
* `Implements`: the refinement of `ByteProgress`, one lemma per operation that changes the bytes.
  Cutting a segment and storing extents are stuttering steps; a restart finds the durable bytes, or
  these and all of the frozen ones, again by `Recorded`.

### JobStoreProofs

`VersionNamesTheDecision`, `AlwaysRestorable`, `VerifiesOnlyWhole`, `RestsDrained`,
`StopsOnlyHarden`, `OneRepresentationPerGeneration` and `FinalIsFinal` state all seven properties
of the two runs, for any number of owners. `JobStep` is about one job: what `Execute` makes of a
consistent job is consistent and stands to it as `StepOf` says. The invariant says what each
place where a decision may be knows of the others. None of the properties is inductive alone: a
decision that waits for its commit was made from a copy that has since marked, synced or
acknowledged bytes, and a confirmed one may have been overtaken by another owner.

### SessionProofs

`RecordedIsOnDisk`, `NeverMixes`, `EndsSettled`, `WrittenStays` and `DomainNeverRefuses`: all five
safety properties of the run, for any number of connections, representations, sessions, crashes,
faults and controls. `DomainNeverRefuses` alone has a hypothesis, `Fits`: no source is larger than
`max_bytes` (the other case is `SessionOversize.cfg`), and sessions and commands together are
fewer than the generations there are (the code counts them in 64 bits).

A recorded byte is safe because of what happened before it was recorded, so the inductive
invariant `IInv` follows a byte from its lease to the record:

* the workers' ranges are disjoint from each other and from the recorded extents of the part they
  write to, also after the session has failed and they run on (`WorkersOK`), and a write in the
  lane is the one its worker waits for (`QueueOK`): so no late write touches a recorded byte;
* what a worker has written is in the part with the content of its stream, its stream is bound
  to the validator, and without a validator there is one worker with the whole file
  (`WorkerOK`, `LeasesOK`, `OneSegment`): so the written bytes have one content (`WrittenOK`);
* a checkpoint's bytes are on the disk once the sync was answered, and the hashes are theirs
  (`CheckpointOK`);
* the record has the coordinator's job and its durable bytes, or, while the commit is repeated,
  also those of the batch (`Match`); after a failure only what the record and the parts owe
  each other remains.

`WrittenStays` and `DomainNeverRefuses` rest on a description of every step (`NextMoves`): it
executes one command on a job with all the bytes of the coordinator's, in a state that accepts
it; or it leaves the recorded job alone and loses nothing; or it begins a session, acts on a job
at rest, or crashes. That the loop of `transfer` ends only with everything durable is
`NothingLeft`; that the drain's command is accepted needs a spare generation for every job
that runs or stops (`GenerationsOK`: each was paid for by a session or a command).

### PublishProofs

`PublishesOnlyProven`, `RecordedBytesStay` and `PublishingKeepsPromise`, the refinement of
`Publication`. What stands at the destination was proved through a handle that is long gone, so
the invariant carries the proof: what the record has of a block is what the representation of
its generation has; a digest in a handle or an intent is that of the whole representation; from
the sync before the verification on, the disk has what memory has; the inode behind the
destination is recorded to its last block and sealed, so that no later session writes to it; and
no loss of power brings back a destination with other bytes than those there are. The refinement
needs that every name that may come back is free, foreign or whole, and that no step but those of
a stranger and of the power changes the destination from anything but free. `RecordedBytesStay` says
`Journalled => ...`; without a journal it is false, and TLC shows the behaviour.

### SchedulerProofs

`GrantsAreAlwaysCounted`, `EveryJobComesBackOnce` and `DelaysAreAlwaysObserved`: the three safety
properties of the run, for any finite set of jobs, any origins, lists of jobs and limits. The two
first need each other: finishing a session gives the right grant back only if the loop knows
each session under its job (`Matched`), which a second session of one job would break; a job
is started only from the queue, and is in one place at most (`Single`); and that holds because a
command hands over a job only when it was never given, so that by `Balanced` (the counting form
of `ComesBackOnce`) it is nowhere. While the list of a run is taken in, a job in it that was not
seen is nowhere else (`Fresh`), which is what the check for a second job of one identity is for.
The third needs `Floored`: what a server asked for is in the governor's floor or is over, through
releases, successes and the forgetting of origins, and the clock that `admit` has read is not
ahead. Sums are cardinalities: of the positions of a sequence that hold a job (`CountConcat`,
`CountRemove`), and of the pairs of a session and a connection (`ConnsAdd`).

### AdmissionProofs

`SoundReceipts`, `RememberedAnswers`, `NoneLeftWaiting`, `HandsOverOnce`: all four invariants of
the run. What a handler read before an await is still so when it commits, because of the handlers
of one source only one is past its binding (`SourcesApart`); the one-shot engine binds nothing
and is safe because it serves one request at a time (`Modes`). The proof attempt showed, and TLC
confirmed, that the earlier form of `QueuedAreHeld` failed once the first of two jobs of one
source was removed: the source stays bound, and the second job waits. Its last case is now
about the receipts, which outlive the jobs. `QueuedAreHeld` is exact about what it does not claim:
jobs in work when the engine starts, jobs whose link is not stored until they are asked for
again, and later jobs of one source are not restored, and a job that waits for a retry is not
handed over when it is asked for again. `AcceptedIsRemembered` is about sources; what becomes of a
link under the other permission is `LinksStayOff`, which fails.

### QueueManagerProofs

`SlotsAreHeld`, `WhatIsSavedOpens`, `WhatIsAnsweredIsSaved`, `WhatIsAcceptedIsKept` and
`NothingStartsOnItsOwn`: all five invariants of the run, for any requests, limits and numbers of
commands, faults and openings. The assumption is that of `Config::validate`: the limits of jobs,
workers, origins and attempts are at least one. `WhatIsSavedOpens` alone has a hypothesis,
`LinksFit`: no link that may be asked for outgrows the bound when it is normalised. The code does
not see to it, and without it the theorem is false (`QueueGrowth.cfg`). None of the five is inductive:

* what is saved opens because memory is in order whenever it may be saved (`Books`): the queue
  names each job once and none that is away at work or waits for its retry (`Line`), so that a due
  retry may be appended without looking; a job that may run again has an attempt left (`JobOK`), so
  that the save before a start stays within the limit; receipts tell the truth about their jobs
  (`Filed`); options, limits and links were checked when they came in, and the counters of bytes,
  in memory and in the snapshot, never pass what their request allows (`Counted`). And what was
  read back gives such books again, reordered (`LaunchedBooks`);
* an answer is durable because it is owed only at the top of the loop and for a change that is
  not saved (`Owed`), so the save comes before it; and where nothing is unsaved, in the `select`
  and before a start, memory and database agree (`Flags`, `Synced`), which is what makes the
  answer to a repeated request right although nothing is saved for it;
* a receipt is never lost on the way: memory has every receipt the database has (`Ahead`), also
  after a save whose outcome is unknown, and every job with a key has one (`Keyed`);
* the jobs at work are exactly those with a worker, one each (`Crew`), through stops that turn
  `Running` into `Pausing` and a start that is taken back after its save failed (`UnstartedGood`);
  each was asked for since the opening (`JobOK`).

### TransferProofs

`PublishesOnlyWhole`, `ReceiptsAreStable`, `FinishedStands` and `DirectoryKeepsPromise`, the
refinement of `Publication` by the older engine. `FinishedStands` distinguishes the builds: on Unix
the name survives a loss of power, elsewhere the file stands as long as there was none. The
invariant says which step of an attempt meets which state of the directory, that the receipt
describes synced bytes, how much is still to come, that the ranges of a window lie side by side,
and that file, receipt and what is still to be read are of one version at one URL wherever no
digest would tell.

### Only model-checked

* Liveness (`SessionsEnd`, `ShutdownReturns`) and everything about `ENABLED`: beyond the prover.

Every safety property of every passing run, and every refinement, is stated by a theorem.

## 5. Plan

Modelled and checked: the new engine from admission to publication, the older engine's queue and
attempts. Proved: the safety of all of them. What is left is what section 3 lists beside the runs: a
property for the oversized source and for the clock that is read several times, once the code
settles them.

### Not modelled

* IPC and protocol (`adapters/ipc`, `protocol`): framing, parsing and
  checks of the peer; no state that lasts beyond a request.
* Platform primitives: locks, links and directories of the operating system. What the models take
  from them: a link fails when the name exists, a lock has one holder, a synced
  directory survives.
* Configuration, telemetry, secrets: parsing, output, wrapping of keys.
* Buffer pool: tokio's semaphore and a free list that `Drop` refills.
* In the HTTP adapter the parsing of headers and redirects, in storage the checks of paths and
  names, in persistence the migrations, in the older engine the pacing of the rate limit.

## 6. Running

    tlc -workers 2 -config Session.cfg MCSession
    tlc -workers 2 -config Publish.cfg Publish
    tlapm SegmentMapProofs.tla
    tlapm SessionProofs.tla
    tlapm PublishProofs.tla

Definitions whose comment begins with "Mutant:" are plausible mistakes; `PROJECT.json`
says which definition each one replaces and which property then fails.
