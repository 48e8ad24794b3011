--------------------------- MODULE SessionProofs ----------------------------
(***************************************************************************)
(* What a coordinator session keeps true, for every number of connections, *)
(* every set of representations and every bound on sessions, crashes,      *)
(* faults, controls and commands.                                          *)
(*                                                                         *)
(* IInv is the inductive invariant: the record, the part files, the        *)
(* workers, the lane's queue and the coordinator's copy of the job, each   *)
(* as far as the others depend on it.  A session that failed only keeps    *)
(* what the record, the parts and the workers still owe each other; LiveOK *)
(* is for one that has not.                                                *)
(*                                                                         *)
(* The second half is about steps.  Every step executes one command that   *)
(* the domain accepts (Executes), or leaves the record's job alone and     *)
(* loses no written byte (Moves), or begins, ends or recovers a session.   *)
(***************************************************************************)
EXTENDS Session, FiniteSetTheorems, TLAPS

States == {"Queued", "Probing", "Transferring", "Stopping", "Paused", "RetryWait", "NeedsAction",
           "Failed", "Verifying", "Publishing", "Completed", "Cancelling", "Cancelled"}

\* A job in one of these never again needs its part.
Gone == {"Cancelling", "Cancelled", "Completed"}

(***************************************************************************)
(* One job: its plan, and the fields that decide.                          *)
(***************************************************************************)
Whole(p) == {{}, Bytes(p.total)}

PlanOK(p) ==
  /\ p \in ProgressOf(p.total) /\ p.total \in Nat \cup {-1}
  /\ p.total = -1 => p = NoMap
  /\ p.written \cap p.durable = {} /\ p.frozen \subseteq p.written
  /\ \A B \in p.leased : B # {} /\ B \cap (p.written \cup p.durable) = {}
  /\ \A B, C \in p.leased : B # C => B \cap C = {}
  /\ p.ckpt = NoCheckpoint => p.frozen = {}

\* Without a validator the file is one segment.
OneSegment(p) ==
  p.leased \subseteq {Bytes(p.total)} /\ {p.written, p.durable, p.frozen} \subseteq Whole(p)

\* Nothing is at work on the plan.
Clean(p) == p.leased = {} /\ p.written = {} /\ p.ckpt = NoCheckpoint

\* Only a job that transfers, stops or is cancelled has anything at work; only one that
\* stops has a cause to, or waits for its drain to begin another generation.
JobOK(j) ==
  /\ j \in [state : States, generation : Nat, reason : {j.reason},
            retry_at : {j.retry_at}, stop : {j.stop}, replace_on_drain : BOOLEAN,
            attempts : {j.attempts}, validator : Nat, segments : {j.segments}]
  /\ (j.stop.kind # "None") = (j.state = "Stopping")
  /\ j.stop.kind \in {"None"} \cup DOMAIN Rank
  /\ j.replace_on_drain => j.state = "Stopping"
  /\ PlanOK(j.segments)
  /\ j.state = "Transferring" => j.segments # NoMap
  /\ j.validator = NoValidator => OneSegment(j.segments)
  /\ j.state \notin SegmentStates \cup {"Cancelled"} => Clean(j.segments)

(***************************************************************************)
(* Types.                                                                  *)
(***************************************************************************)
Checkpointing == {"sync", "hash", "commit"}
Manned        == {"transfer"} \cup Checkpointing      \* workers may be at work
Moving        == Manned \cup {"finish", "drain"}      \* written bytes may wait for a checkpoint
Waits         == [sync |-> "Sync", hash |-> "Hash", vsync |-> "Sync", verify |-> "Verify",
                  discard |-> "Discard"]

Pcs    == {"idle", "start", "probe", "open", "publish", "drop", "cleanup", "close", "recover"}
          \cup Moving \cup DOMAIN Waits
Errors == {"None", "Commit", "Domain", "Invariant", "Repository"}
Writes == {"read", "sent", "tail", "Ok"}              \* phases of a worker that has a stream
Phases == {"free", "connect"} \cup Writes \cup Results

Afters  == {"close", "transfer", "drain"}
Replies == {"None", "Ok", "Storage", "Integrity"}

IsSession(s) ==
  s \in [pc : Pcs, live : BOOLEAN, after : Afters, stopping : BOOLEAN, storage_failed : BOOLEAN,
         unsynced : Nat, attempt : Nat, hashes : {s.hashes}, reply : Replies, error : Errors]
Tasks ==
  [bytes : SUBSET Int, at : Int, content : Nat, phase : Phases]
Messages ==
  [kind : {"Write"}, worker : Slots, byte : Int, content : Nat]
  \cup [kind : {"Sync", "Hash", "Verify", "Discard"}]
Lanes ==
  [generation : Nat, queue : Seq(Messages), failed : BOOLEAN]
Budgets ==
  [sessions : Int, faults : Int, crashes : Int, controls : Int, commands : Int, changes : Int]

IsPart(p) == p \in [cached : {p.cached}, stable : {p.stable}]

PartsOK == parts = [g \in DOMAIN parts |-> parts[g]] /\ \A g \in DOMAIN parts : IsPart(parts[g])

Shapes ==
  /\ IsSession(session)
  /\ workers \in [Slots -> Tasks]
  /\ lane \in Lanes
  /\ PartsOK
  /\ origin \in DOMAIN Size
  /\ control \in Seq({"Pause", "Cancel"})
  /\ budget \in Budgets

(***************************************************************************)
(* The record.                                                             *)
(***************************************************************************)
Extents == DOMAIN record.extents
Uniform(f, S, v) ==
  /\ S \subseteq DOMAIN f
  /\ \A b, c \in S : f[b] = f[c] /\ v \in {NoValidator, f[b]}

\* The recorded extents belong to the plan; without a validator they are the file or nothing.
RecordOK ==
  /\ record \in [job : {record.job}, extents : {record.extents}]
  /\ JobOK(record.job) /\ record.job = Strip(record.job)
  /\ Extents \subseteq Bytes(record.job.segments.total)
  /\ record.job.validator = NoValidator => Extents \in Whole(record.job.segments)
  /\ Uniform(record.extents, Extents, record.job.validator)

(***************************************************************************)
(* The workers and the lane.                                               *)
(***************************************************************************)
Open     == lane.generation \in DOMAIN parts
Cached   == parts[lane.generation].cached
OnDisk   == parts[lane.generation].stable

\* A worker's range is connected, and disjoint from what the record has of its part; what it
\* has written so far is in the part, with the content of its stream.
WorkerOK(w) ==
  LET t == workers[w] IN
  t.phase # "free" =>
    /\ Open
    /\ t.bytes # {} /\ \A a, c \in t.bytes : a .. c \subseteq t.bytes
    /\ t.phase \in {"connect", "read", "sent"} => t.at \in t.bytes
    /\ t.phase = "connect" => \A b \in t.bytes : t.at <= b
    /\ record.job.generation = lane.generation => t.bytes \cap Extents = {}
    /\ t.phase \in Writes => \A b \in t.bytes :
         b < t.at \/ t.phase \in {"tail", "Ok"} => b \in DOMAIN Cached /\ Cached[b] = t.content

\* And no two workers have a byte in common.
WorkersOK ==
  /\ \A w \in Slots : WorkerOK(w)
  /\ \A v, w \in Busy : v # w => workers[v].bytes \cap workers[w].bytes = {}

\* The write of a worker that waits for it, and the command the coordinator waits for.
IsWrite(m, ws) ==
  /\ m.kind = "Write" /\ m.worker \in Slots
  /\ ws[m.worker].phase = "sent"
  /\ m.byte = ws[m.worker].at /\ m.content = ws[m.worker].content

IsAsked(m, s) ==
  /\ m.kind # "Write"
  /\ s.pc \in DOMAIN Waits /\ m.kind = Waits[s.pc] /\ s.reply = "None"

\* Nothing else is in the lane, and nothing twice.
Waiting(q, ws, s) ==
  /\ \A i \in DOMAIN q : IsWrite(q[i], ws) \/ IsAsked(q[i], s)
  /\ \A i, k \in DOMAIN q :
       /\ IsWrite(q[i], ws) /\ IsWrite(q[k], ws) /\ q[i].worker = q[k].worker => i = k
       /\ IsAsked(q[i], s) /\ IsAsked(q[k], s) => i = k

QueueOK == Waiting(lane.queue, workers, session)

(***************************************************************************)
(* The coordinator.                                                        *)
(***************************************************************************)
\* The record has the coordinator's job, and the bytes that the coordinator takes for
\* durable; while a commit is on its way, perhaps also the ones it carries.
Match ==
  LET p == job.segments IN
  /\ record.job = Strip(job)
  /\ p.durable \subseteq Extents
  /\ Extents \subseteq p.durable \cup (IF session.pc = "commit" THEN p.frozen ELSE {})

\* The states a job may be in at each await.
StateAt(pc, s) ==
  /\ pc = "start" => s = "Queued"
  /\ pc = "probe" => s = "Probing"
  /\ pc = "open" => s \in {"Transferring", "Verifying"}
  /\ pc = "transfer" => s \in SegmentStates
  /\ pc = "finish" => s \in {"Stopping", "Cancelling"}
  /\ pc = "drain" => s = "Stopping"
  /\ pc \in {"vsync", "verify"} => s = "Verifying"
  /\ pc = "publish" => s = "Publishing"
  /\ pc \in {"discard", "drop", "cleanup"} => s = "Cancelling"
  /\ pc \in {"idle", "close"} => s \notin Unsettled

\* The leases are the workers', and their streams are bound to the validator.
LeasesOK ==
  /\ session.pc \notin Manned => Busy = {}
  /\ job.segments.leased = {workers[w].bytes : w \in Busy}
  /\ session.pc \in Manned => Open /\ lane.generation = job.generation
  /\ \A w \in Busy : workers[w].phase \in Writes =>
                       job.validator \in {NoValidator, workers[w].content}

\* Written bytes are in the part, and come from one representation.
WrittenOK ==
  session.pc \in Moving /\ job.segments.written # {} =>
    /\ Open /\ lane.generation = job.generation
    /\ Uniform(Cached, job.segments.written, job.validator)

Same(f, g, S) == \A b \in S : b \in DOMAIN f /\ b \in DOMAIN g /\ f[b] = g[b]

\* A checkpoint's bytes are synced before they are hashed, hashed before they are committed,
\* and those of the last checkpoint are all there is.
CheckpointOK ==
  LET p == job.segments IN
  /\ session.pc \notin Checkpointing => p.ckpt = NoCheckpoint
  /\ session.pc \in Checkpointing =>
       /\ p.ckpt # NoCheckpoint
       /\ \/ session.after = "transfer" /\ job.state = "Transferring"
          \/ /\ session.after = "drain" /\ job.state = "Stopping"
             /\ Busy = {} /\ p.frozen = p.written
  /\ session.pc \in {"hash", "commit"} \/ (session.pc = "sync" /\ session.reply = "Ok") =>
       Same(Cached, OnDisk, p.frozen)
  /\ session.pc = "commit" \/ (session.pc = "hash" /\ session.reply = "Ok") =>
       session.hashes = RestrictTo(Cached, p.frozen)
  /\ session.pc = "drain" => session.storage_failed \/ p.written = {}
  /\ session.pc \notin Moving /\ job.state \notin {"Cancelling", "Cancelled"} => Clean(p)

LiveOK ==
  /\ JobOK(job) /\ Match /\ StateAt(session.pc, job.state)
  /\ LeasesOK /\ WrittenOK /\ CheckpointOK
  /\ session.reply # "None" => session.pc \in DOMAIN Waits

IInv ==
  /\ Shapes /\ RecordOK /\ RecordedBytesAreStable /\ WorkersOK /\ QueueOK
  /\ session.pc = "idle" => Busy = {} /\ lane.queue = <<>>
  /\ session.error # "None" => session.pc \in {"close", "idle"}
  /\ session.error = "None" => LiveOK
-----------------------------------------------------------------------------
(***************************************************************************)
(* One job.                                                                *)
(***************************************************************************)

\* A job without a plan, and a plan of which nothing was fetched.
LEMMA Plans ==
  /\ PlanOK(NoMap) /\ Clean(NoMap) /\ OneSegment(NoMap) /\ NoMap.total = -1
  /\ NoMap.durable = {} /\ NoMap.frozen = {}
  /\ \A t \in Nat : /\ PlanOK(Fresh(t)) /\ Clean(Fresh(t)) /\ OneSegment(Fresh(t))
                    /\ Fresh(t) # NoMap /\ Fresh(t).total = t
                    /\ Fresh(t).durable = {} /\ Fresh(t).frozen = {}
<1>1. /\ NoMap.total = -1 /\ NoMap.leased = {} /\ NoMap.written = {} /\ NoMap.durable = {}
      /\ NoMap.frozen = {} /\ NoMap.ckpt = NoCheckpoint /\ NoMap \in ProgressOf(-1)
  BY DEF NoMap, Fresh, ProgressOf
<1>2. ASSUME NEW t \in Nat
      PROVE  /\ Fresh(t).total = t /\ Fresh(t).leased = {} /\ Fresh(t).written = {}
             /\ Fresh(t).durable = {} /\ Fresh(t).frozen = {} /\ Fresh(t).ckpt = NoCheckpoint
             /\ Fresh(t) \in ProgressOf(t)
  BY DEF Fresh, ProgressOf
<1>3. \A t \in Nat : t # -1
  OBVIOUS
<1> QED
  BY <1>1, <1>2, <1>3 DEF PlanOK, Clean, OneSegment, Whole

\* A job after a command.
After(j, s, g, r, t, p, d, a, v, m) ==
  [j EXCEPT !.state = s, !.generation = g, !.reason = r, !.retry_at = t, !.stop = p,
            !.replace_on_drain = d, !.attempts = a, !.validator = v, !.segments = m]

\* A stop target is there while the job stops, and only then is a replacement.
Stopped(s, p, d) ==
  /\ IF s = "Stopping" THEN p.kind \in DOMAIN Rank ELSE p.kind = "None"
  /\ d \in BOOLEAN /\ (d => s = "Stopping")

\* It is a job if its plan is one that its state may have.
LEMMA JobFrom ==
  ASSUME NEW j, JobOK(j), NEW k, NEW s \in States, NEW g \in Nat, NEW r, NEW t, NEW p, NEW d,
         NEW a, NEW v \in Nat, NEW m, k = After(j, s, g, r, t, p, d, a, v, m),
         Stopped(s, p, d), PlanOK(m), s = "Transferring" => m # NoMap,
         v = NoValidator => OneSegment(m),
         s \notin SegmentStates \cup {"Cancelled"} => Clean(m)
  PROVE  /\ JobOK(k) /\ k.state = s /\ k.generation = g /\ k.validator = v /\ k.segments = m
         /\ k.stop = p /\ k.replace_on_drain = d
<1>1. /\ k \in [state : States, generation : Nat, reason : {r}, retry_at : {t}, stop : {p},
                replace_on_drain : BOOLEAN, attempts : {a}, validator : Nat, segments : {m}]
      /\ k.state = s /\ k.generation = g /\ k.validator = v /\ k.segments = m
      /\ k.stop = p /\ k.replace_on_drain = d
  BY DEF JobOK, After, Stopped
<1>2. k \in [state : States, generation : Nat, reason : {k.reason},
            retry_at : {k.retry_at}, stop : {k.stop}, replace_on_drain : BOOLEAN,
            attempts : {k.attempts}, validator : Nat, segments : {k.segments}]
  BY <1>1
<1>3. p.kind \in {"None"} \cup DOMAIN Rank /\ (p.kind # "None") = (s = "Stopping")
  BY DEF Rank, Stopped
<1>4. d => s = "Stopping"
  BY DEF Stopped
<1> QED
  BY <1>1, <1>2, <1>3, <1>4 DEF JobOK

\* A job that keeps its generation and its plan.
Turned(j, k) == \E s \in States : \E r, t, p, d, a :
  /\ k = After(j, s, j.generation, r, t, p, d, a, j.validator, j.segments)
  /\ Stopped(s, p, d)
  /\ s = "Transferring" => j.segments # NoMap
  /\ s \notin SegmentStates \cup {"Cancelled"} => Clean(j.segments)

\* How a job stands to the one it was made from by command c.
Kin(j, c, k) ==
  /\ \/ /\ k.generation = j.generation /\ k.segments = j.segments
        /\ k.validator = j.validator
     \/ /\ k.generation = j.generation + 1 /\ k.segments = NoMap
        /\ k.validator = NoValidator /\ j.state \notin Gone
     \/ /\ k.generation = j.generation /\ j.segments = NoMap
        /\ c.name = "ProbeSucceeded"
        /\ k.segments = Fresh(c.total) /\ k.validator = c.validator
  /\ j.state \in Gone => k.state \in Gone

\* The fields of a job.
LEMMA JobFields ==
  ASSUME NEW j, JobOK(j)
  PROVE  /\ j.state \in States /\ j.generation \in Nat /\ j.validator \in Nat
         /\ Stopped(j.state, j.stop, j.replace_on_drain)
         /\ PlanOK(j.segments)
         /\ j.state = "Transferring" => j.segments # NoMap
         /\ j.state \notin SegmentStates \cup {"Cancelled"} => Clean(j.segments)
         /\ j.validator = NoValidator => OneSegment(j.segments)
         /\ NoStop.kind = "None" /\ \A kind : Simple(kind).kind = kind
BY DEF JobOK, NoStop, Simple, Target, Stopped, Rank

\* A job that was turned.
LEMMA TurnedOK ==
  ASSUME NEW j, JobOK(j), NEW k, Turned(j, k)
  PROVE  /\ JobOK(k) /\ k.generation = j.generation /\ k.segments = j.segments
         /\ k.validator = j.validator
<1>1. PICK s \in States : \E r, t, p, d, a :
        /\ k = After(j, s, j.generation, r, t, p, d, a, j.validator, j.segments)
        /\ Stopped(s, p, d)
        /\ s = "Transferring" => j.segments # NoMap
        /\ s \notin SegmentStates \cup {"Cancelled"} => Clean(j.segments)
  BY DEF Turned
<1>2. PICK r, t, p, d, a :
        /\ k = After(j, s, j.generation, r, t, p, d, a, j.validator, j.segments)
        /\ Stopped(s, p, d)
        /\ s = "Transferring" => j.segments # NoMap
        /\ s \notin SegmentStates \cup {"Cancelled"} => Clean(j.segments)
  BY <1>1
<1> QED
  BY <1>2, JobFrom, JobFields

\* Where a cause, and two causes, want a job to land.
LEMMA CauseKinds ==
  ASSUME NEW c
  PROVE  /\ c.name \in DOMAIN CauseKind => Cause(c).kind \in DOMAIN Rank
         /\ \A a, b : a.kind \in DOMAIN Rank /\ b.kind \in DOMAIN Rank =>
              Raise(a, b).kind \in DOMAIN Rank
         /\ \A kind \in {"Verifying", "Queued"} : Simple(kind).kind \in DOMAIN Rank
<1>1. c.name \in DOMAIN CauseKind => Cause(c).kind \in DOMAIN Rank
  BY DEF Cause, Target, CauseKind, Rank
<1>2. \A a, b : Raise(a, b) \in {a, b}
  BY DEF Raise
<1>3. \A kind \in {"Verifying", "Queued"} : Simple(kind).kind \in DOMAIN Rank
  BY DEF Simple, Target, Rank
<1> QED
  BY <1>1, <1>2, <1>3

\* Job::execute by its arms.
Arms(j, c, k) ==
  LET s == j.state
      n == c.name
  IN
  \/ s = "Queued" /\ n = "Start" /\ k = [j EXCEPT !.state = "Probing", !.attempts = Bump(@)]
  \/ s = "Probing" /\ n = "ProbeSucceeded" /\ k \in Probed(j, c)
  \/ s \in Running /\ n \in DOMAIN CauseKind /\ k = Begin(j, Cause(c))
  \/ s \in Running /\ n = "RepresentationChanged"
     /\ k = [Begin(j, Simple("Queued")) EXCEPT !.replace_on_drain = TRUE]
  \/ s = "Transferring" /\ n = "AllSegmentsDurable" /\ k = Begin(j, Simple("Verifying"))
  \/ s = "Stopping" /\ n = "Resume" /\ k = ResumeStopping(j)
  \/ s = "Stopping" /\ n = "RepresentationChanged" /\ k = Replacing(j)
  \/ s = "Stopping" /\ n \in DOMAIN CauseKind /\ k = [j EXCEPT !.stop = Raise(@, Cause(c))]
  \/ s = "Stopping" /\ n = "WorkersDrained" /\ k \in WorkersDrained(j)
  \/ s \in {"Queued", "Verifying"} /\ n = "Pause" /\ k = [j EXCEPT !.state = "Paused"]
  \/ s = "RetryWait" /\ n = "Pause"
     /\ k = [[j EXCEPT !.state = "Paused"] EXCEPT !.retry_at = NoTick]
  \/ s \in Resumable /\ n = "Resume" /\ k = Resumed(j)
  \/ s = "RetryWait" /\ n = "RetryDue"
     /\ k = [[j EXCEPT !.state = "Queued"] EXCEPT !.retry_at = NoTick]
  \/ s \in {"Verifying", "Publishing"} /\ n = "RequireAction"
     /\ k = [[j EXCEPT !.state = "NeedsAction"] EXCEPT !.reason = c.reason]
  \/ s = "Verifying" /\ n = "Fail"
     /\ k = [[j EXCEPT !.state = "Failed"] EXCEPT !.reason = c.reason]
  \/ s = "Verifying" /\ n = "VerificationPassed" /\ k = [j EXCEPT !.state = "Publishing"]
  \/ s = "Publishing" /\ n = "PublishCommitted" /\ k = [j EXCEPT !.state = "Completed"]
  \/ s \in Running \cup Resumable \cup {"Queued", "Stopping", "Verifying"} /\ n = "Cancel"
     /\ k = Cancelled(j)
  \/ s = "Cancelling" /\ n = "CleanupFinished" /\ k = [j EXCEPT !.state = "Cancelled"]
  \/ s \in {"NeedsAction", "Paused", "Failed"} /\ n = "ReplaceRepresentation" /\ k = Replaced(j)
  \/ k = j

\* What Execute holds comes from one of its arms.
LEMMA ExecuteArms ==
  ASSUME NEW j, NEW c, NEW k \in Execute(j, c)
  PROVE  Arms(j, c, k)
BY DEF Execute, Arms, Only

\* The arms that keep generation and plan, each as one turn of the job.
LEMMA ArmTurns ==
  ASSUME NEW j, JobOK(j), NEW c, NEW k, Arms(j, c, k),
         c.name # "ProbeSucceeded", c.name # "WorkersDrained", c.name # "ReplaceRepresentation"
  PROVE  Turned(j, k)
<1> DEFINE T(s, r, t, p, d, a) ==
             After(j, s, j.generation, r, t, p, d, a, j.validator, j.segments)
<1>1. ASSUME NEW s \in States, NEW r, NEW t, NEW p, NEW d, NEW a, k = T(s, r, t, p, d, a),
             Stopped(s, p, d), s # "Transferring",
             s \in SegmentStates \cup {"Cancelled"} \/ j.state \notin SegmentStates \cup {"Cancelled"}
      PROVE  Turned(j, k)
  <2>1. s \notin SegmentStates \cup {"Cancelled"} => Clean(j.segments)
    BY <1>1, JobFields
  <2> QED
    BY <1>1, <2>1 DEF Turned
<1>2. CASE k = j
  <2>1. k = T(j.state, j.reason, j.retry_at, j.stop, j.replace_on_drain, j.attempts)
    BY <1>2, Zenon DEF After, JobOK
  <2> QED
    BY <2>1, JobFields DEF Turned
<1> USE DEF States
<1>3. CASE j.state = "Queued" /\ k = [j EXCEPT !.state = "Probing", !.attempts = Bump(@)]
  <2>1. k = T("Probing", j.reason, j.retry_at, j.stop, j.replace_on_drain, Bump(j.attempts))
    BY <1>3, Zenon DEF After, JobOK
  <2> QED
    BY <1>1, <1>3, <2>1, JobFields DEF SegmentStates, Stopped
<1>4. CASE j.state \in Running /\ c.name \in DOMAIN CauseKind /\ k = Begin(j, Cause(c))
  <2>1. k = T("Stopping", j.reason, j.retry_at, Cause(c), j.replace_on_drain, j.attempts)
    BY <1>4, Zenon DEF After, JobOK, Begin
  <2> QED
    BY <1>1, <1>4, <2>1, JobFields, CauseKinds DEF SegmentStates, Stopped
<1>5. CASE /\ j.state \in Running
           /\ k = [Begin(j, Simple("Queued")) EXCEPT !.replace_on_drain = TRUE]
  <2>1. k = T("Stopping", j.reason, j.retry_at, Simple("Queued"), TRUE, j.attempts)
    BY <1>5, Zenon DEF After, JobOK, Begin
  <2>2. TRUE \in BOOLEAN
    OBVIOUS
  <2> QED
    BY <1>1, <1>5, <2>1, <2>2, JobFields, CauseKinds, ZenonT(60) DEF SegmentStates, Stopped
<1>6. CASE j.state = "Transferring" /\ k = Begin(j, Simple("Verifying"))
  <2>1. k = T("Stopping", j.reason, j.retry_at, Simple("Verifying"), j.replace_on_drain, j.attempts)
    BY <1>6, Zenon DEF After, JobOK, Begin
  <2> QED
    BY <1>1, <1>6, <2>1, JobFields, CauseKinds DEF SegmentStates, Stopped
<1>7. CASE j.state = "Stopping" /\ k = ResumeStopping(j) /\ k # j
  <2>1. PICK kind \in {"Verifying", "Queued"} :
          k = [j EXCEPT !.attempts = 0, !.stop = Simple(kind)]
    BY <1>7 DEF ResumeStopping
  <2>2. k = T(j.state, j.reason, j.retry_at, Simple(kind), j.replace_on_drain, 0)
    BY <2>1, Zenon DEF After, JobOK
  <2> QED
    BY <1>1, <1>7, <2>2, JobFields, CauseKinds DEF SegmentStates, Stopped
<1>8. CASE j.state = "Stopping" /\ k = Replacing(j)
  <2>1. k = T(j.state, j.reason, j.retry_at, Raise(j.stop, Simple("Queued")), TRUE, j.attempts)
    BY <1>8, Zenon DEF After, JobOK, Replacing
  <2>2. TRUE \in BOOLEAN
    OBVIOUS
  <2>3. j.stop.kind \in DOMAIN Rank /\ Simple("Queued").kind \in DOMAIN Rank
    BY <1>8, JobFields, CauseKinds DEF Stopped
  <2>4. Raise(j.stop, Simple("Queued")).kind \in DOMAIN Rank
    BY <2>3, CauseKinds
  <2> QED
    BY <1>1, <1>8, <2>1, <2>2, <2>4 DEF SegmentStates, Stopped
<1>9. CASE /\ j.state = "Stopping" /\ c.name \in DOMAIN CauseKind
           /\ k = [j EXCEPT !.stop = Raise(@, Cause(c))]
  <2>1. k = T(j.state, j.reason, j.retry_at, Raise(j.stop, Cause(c)), j.replace_on_drain, j.attempts)
    BY <1>9, Zenon DEF After, JobOK
  <2> QED
    BY <1>1, <1>9, <2>1, JobFields, CauseKinds DEF SegmentStates, Stopped
<1>10. CASE /\ j.state \in {"Queued", "Verifying", "Publishing", "RetryWait"}
            /\ \E s \in {"Paused", "Queued", "NeedsAction", "Failed", "Publishing", "Completed"} :
                 \/ k = [j EXCEPT !.state = s]
                 \/ k = [[j EXCEPT !.state = s] EXCEPT !.retry_at = NoTick]
                 \/ k = [[j EXCEPT !.state = s] EXCEPT !.reason = c.reason]
  <2>1. PICK s \in {"Paused", "Queued", "NeedsAction", "Failed", "Publishing", "Completed"} :
                 \/ k = [j EXCEPT !.state = s]
                 \/ k = [[j EXCEPT !.state = s] EXCEPT !.retry_at = NoTick]
                 \/ k = [[j EXCEPT !.state = s] EXCEPT !.reason = c.reason]
    BY <1>10
  <2>2. \E r, t : k = T(s, r, t, j.stop, j.replace_on_drain, j.attempts)
    <3>1. CASE k = [j EXCEPT !.state = s]
      <4>1. k = T(s, j.reason, j.retry_at, j.stop, j.replace_on_drain, j.attempts)
        BY <3>1, Zenon DEF After, JobOK
      <4> QED BY <4>1
    <3>2. CASE k = [[j EXCEPT !.state = s] EXCEPT !.retry_at = NoTick]
      <4>1. k = T(s, j.reason, NoTick, j.stop, j.replace_on_drain, j.attempts)
        BY <3>2, Zenon DEF After, JobOK
      <4> QED BY <4>1
    <3>3. CASE k = [[j EXCEPT !.state = s] EXCEPT !.reason = c.reason]
      <4>1. k = T(s, c.reason, j.retry_at, j.stop, j.replace_on_drain, j.attempts)
        BY <3>3, Zenon DEF After, JobOK
      <4> QED BY <4>1
    <3> QED BY <2>1, <3>1, <3>2, <3>3
  <2> QED
    BY <1>1, <1>10, <2>1, <2>2, JobFields DEF SegmentStates, Stopped
<1>11. CASE j.state \in Resumable /\ k = Resumed(j)
  <2>1. PICK s \in {"Verifying", "Queued"} : \E r, t :
          k = [j EXCEPT !.state = s, !.reason = r, !.retry_at = t, !.attempts = 0]
    BY <1>11, Zenon DEF Resumed
  <2>2. PICK r, t : k = [j EXCEPT !.state = s, !.reason = r, !.retry_at = t, !.attempts = 0]
    BY <2>1
  <2>3. k = T(s, r, t, j.stop, j.replace_on_drain, 0)
    BY <2>2, Zenon DEF After, JobOK
  <2> QED
    BY <1>1, <1>11, <2>3, JobFields DEF SegmentStates, Stopped, Resumable
<1>12. CASE k = Cancelled(j)
  <2>1. k = T("Cancelling", j.reason, NoTick, NoStop, FALSE, j.attempts)
    BY <1>12, Zenon DEF After, JobOK, Cancelled
  <2>2. FALSE \in BOOLEAN
    OBVIOUS
  <2> QED
    BY <1>1, <1>12, <2>1, <2>2, JobFields DEF SegmentStates, Stopped
<1>13. CASE j.state = "Cancelling" /\ k = [j EXCEPT !.state = "Cancelled"]
  <2>1. k = T("Cancelled", j.reason, j.retry_at, j.stop, j.replace_on_drain, j.attempts)
    BY <1>13, Zenon DEF After, JobOK
  <2> QED
    BY <1>1, <1>13, <2>1, JobFields DEF SegmentStates, Stopped
<1> QED
  BY <1>2, <1>3, <1>4, <1>5, <1>6, <1>7, <1>8, <1>9, <1>10, <1>11, <1>12, <1>13 DEF Arms

\* Drained, the job lands where its stop target says, in the next generation if it is to be
\* replaced.
LEMMA DrainTurns ==
  ASSUME NEW j, JobOK(j), j.state = "Stopping", NEW k \in WorkersDrained(j)
  PROVE  /\ JobOK(k)
         /\ k.state \in {"Verifying", "Queued", "Paused", "RetryWait", "NeedsAction", "Failed"}
         /\ IF j.replace_on_drain
              THEN /\ k.generation = j.generation + 1 /\ k.segments = NoMap
                   /\ k.validator = NoValidator
              ELSE /\ k.generation = j.generation /\ k.segments = j.segments
                   /\ k.validator = j.validator
<1> DEFINE i == IF j.replace_on_drain
                  THEN NextGeneration([j EXCEPT !.replace_on_drain = FALSE]) ELSE j
           L == {"Verifying", "Queued", "Paused", "RetryWait", "NeedsAction", "Failed"}
<1>1. Settled(j) /\ k = Land(i, j.stop)
  BY DEF WorkersDrained, Only
<1>2. j.stop.kind \in L
  BY JobFields DEF Rank, Stopped
<1>3. PICK s \in L :
          \/ k = [[i EXCEPT !.stop = NoStop] EXCEPT !.state = s]
          \/ k = [[i EXCEPT !.stop = NoStop] EXCEPT !.state = s, !.retry_at = j.stop.at_tick]
          \/ k = [[i EXCEPT !.stop = NoStop] EXCEPT !.state = s, !.reason = j.stop.reason]
  <2> HIDE DEF i
  <2> QED
    BY <1>1, <1>2 DEF Land
<1>4. PICK g, v, m : /\ i = After(j, j.state, g, j.reason, j.retry_at, j.stop, FALSE, j.attempts, v, m)
                     /\ IF j.replace_on_drain
                          THEN g = j.generation + 1 /\ m = NoMap /\ v = NoValidator
                          ELSE g = j.generation /\ m = j.segments /\ v = j.validator
  <2>1. CASE j.replace_on_drain
    <3>1. i = After(j, j.state, j.generation + 1, j.reason, j.retry_at, j.stop, FALSE, j.attempts,
                    NoValidator, NoMap)
      BY <2>1, Zenon DEF After, JobOK, NextGeneration
    <3> QED
      BY <2>1, <3>1
  <2>2. CASE ~j.replace_on_drain
    <3>1. j.replace_on_drain = FALSE
      BY <2>2, JobFields DEF Stopped
    <3>2. i = After(j, j.state, j.generation, j.reason, j.retry_at, j.stop, FALSE, j.attempts,
                    j.validator, j.segments)
      BY <3>1, Zenon DEF After, JobOK
    <3> QED
      BY <2>2, <3>2
  <2> QED
    BY <2>1, <2>2
<1> HIDE DEF i
<1>5. PICK r, t : k = After(j, s, g, r, t, NoStop, FALSE, j.attempts, v, m)
  <2>1. CASE k = [[i EXCEPT !.stop = NoStop] EXCEPT !.state = s]
    <3>1. k = After(j, s, g, j.reason, j.retry_at, NoStop, FALSE, j.attempts, v, m)
      BY <1>4, <2>1, Zenon DEF After, JobOK
    <3> QED BY <3>1
  <2>2. CASE k = [[i EXCEPT !.stop = NoStop] EXCEPT !.state = s, !.retry_at = j.stop.at_tick]
    <3>1. k = After(j, s, g, j.reason, j.stop.at_tick, NoStop, FALSE, j.attempts, v, m)
      BY <1>4, <2>2, Zenon DEF After, JobOK
    <3> QED BY <3>1
  <2>3. CASE k = [[i EXCEPT !.stop = NoStop] EXCEPT !.state = s, !.reason = j.stop.reason]
    <3>1. k = After(j, s, g, j.stop.reason, j.retry_at, NoStop, FALSE, j.attempts, v, m)
      BY <1>4, <2>3, Zenon DEF After, JobOK
    <3> QED BY <3>1
  <2> QED
    BY <1>3, <2>1, <2>2, <2>3
<1>6. g \in Nat /\ v \in Nat /\ PlanOK(m) /\ Clean(m) /\ (v = NoValidator => OneSegment(m))
  <2>1. CASE j.replace_on_drain
    BY <1>4, <2>1, Plans, JobFields DEF NoValidator
  <2>2. CASE ~j.replace_on_drain
    BY <1>1, <1>4, <2>2, JobFields
       DEF Settled, Quiescent, HasActiveLeases, HasPendingCheckpoint, HasUnsynced, Clean
  <2> QED
    BY <2>1, <2>2
<1>7. Stopped(s, NoStop, FALSE) /\ s \in States /\ s # "Transferring"
  BY <1>3, JobFields DEF Stopped, States
<1>8. JobOK(k) /\ k.state = s /\ k.generation = g /\ k.validator = v /\ k.segments = m
  <2>1. PICK f \in BOOLEAN : f = FALSE
    OBVIOUS
  <2>2. k = After(j, s, g, r, t, NoStop, f, j.attempts, v, m) /\ Stopped(s, NoStop, f)
    BY <1>5, <1>7, <2>1
  <2> QED
    BY <1>6, <1>7, <2>2, JobFrom
<1> QED
  BY <1>3, <1>4, <1>8

\* Every accepted command leaves a job, of the same plan, of the next generation, or with the
\* plan of its probe.
LEMMA JobStep ==
  ASSUME NEW j, JobOK(j), NEW c, c.total \in Nat, c.validator \in Nat, NEW k \in Execute(j, c)
  PROVE  JobOK(k) /\ Kin(j, c, k)
<1>1. Arms(j, c, k)
  BY ExecuteArms
<1>2. j.state \in Gone => k.state \in Gone
  BY <1>1, JobFields DEF Arms, Gone, Running, Resumable, JobOK
<1>3. CASE /\ c.name # "ProbeSucceeded" /\ c.name # "WorkersDrained"
           /\ c.name # "ReplaceRepresentation"
  BY <1>1, <1>2, <1>3, ArmTurns, TurnedOK DEF Kin
<1>4. CASE c.name = "ProbeSucceeded" /\ k # j
  <2>1. j.state = "Probing" /\ k \in Probed(j, c)
    BY <1>1, <1>4 DEF Arms, CauseKind
  <2>2. CASE j.segments = NoMap
    <3>1. k = [j EXCEPT !.state = "Transferring", !.validator = c.validator,
                        !.segments = Fresh(c.total)]
      BY <2>1, <2>2 DEF Probed, Only
    <3>2. k = After(j, "Transferring", j.generation, j.reason, j.retry_at, j.stop,
                    j.replace_on_drain, j.attempts, c.validator, Fresh(c.total))
      BY <3>1, Zenon DEF After, JobOK
    <3>3. Stopped("Transferring", j.stop, j.replace_on_drain) /\ "Transferring" \in States
      BY <2>1, JobFields DEF Stopped, States
    <3>4. /\ JobOK(k) /\ k.generation = j.generation /\ k.validator = c.validator
          /\ k.segments = Fresh(c.total)
      <4>1. PICK s \in States : s = "Transferring"
        BY <3>3
      <4>2. /\ k = After(j, s, j.generation, j.reason, j.retry_at, j.stop,
                         j.replace_on_drain, j.attempts, c.validator, Fresh(c.total))
            /\ Stopped(s, j.stop, j.replace_on_drain) /\ s \in SegmentStates
        BY <3>2, <3>3, <4>1 DEF SegmentStates
      <4>3. /\ PlanOK(Fresh(c.total)) /\ OneSegment(Fresh(c.total)) /\ Fresh(c.total) # NoMap
            /\ j.generation \in Nat
        BY Plans, JobFields
      <4> HIDE DEF States
      <4> QED
        BY <4>2, <4>3, JobFrom
    <3> QED
      BY <1>2, <1>4, <2>2, <3>4 DEF Kin
  <2>3. CASE j.segments # NoMap
    <3>1. k = [j EXCEPT !.state = "Transferring"]
      BY <2>1, <2>3 DEF Probed, Only
    <3>2. k = After(j, "Transferring", j.generation, j.reason, j.retry_at, j.stop,
                    j.replace_on_drain, j.attempts, j.validator, j.segments)
      BY <3>1, Zenon DEF After, JobOK
    <3>3. Stopped("Transferring", j.stop, j.replace_on_drain) /\ "Transferring" \in States
      BY <2>1, JobFields DEF Stopped, States
    <3>4. /\ JobOK(k) /\ k.generation = j.generation /\ k.validator = j.validator
          /\ k.segments = j.segments
      <4>1. PICK s \in States : s = "Transferring"
        BY <3>3
      <4>2. /\ k = After(j, s, j.generation, j.reason, j.retry_at, j.stop,
                         j.replace_on_drain, j.attempts, j.validator, j.segments)
            /\ Stopped(s, j.stop, j.replace_on_drain) /\ s \in SegmentStates
        BY <3>2, <3>3, <4>1 DEF SegmentStates
      <4>3. /\ PlanOK(j.segments) /\ (j.validator = NoValidator => OneSegment(j.segments))
            /\ j.generation \in Nat /\ j.validator \in Nat
        BY JobFields
      <4> HIDE DEF States
      <4> QED
        BY <2>3, <4>2, <4>3, JobFrom
    <3> QED
      BY <1>2, <3>4 DEF Kin
  <2> QED
    BY <2>2, <2>3
<1>5. CASE c.name = "WorkersDrained" /\ k # j
  <2>1. j.state = "Stopping" /\ k \in WorkersDrained(j)
    BY <1>1, <1>5 DEF Arms, CauseKind
  <2>2. j.state \notin Gone
    BY <2>1 DEF Gone
  <2> QED
    BY <2>1, <2>2, DrainTurns DEF Kin
<1>6. CASE c.name = "ReplaceRepresentation" /\ k # j
  <2>1. j.state \in {"NeedsAction", "Paused", "Failed"} /\ k = Replaced(j)
    BY <1>1, <1>6 DEF Arms, CauseKind
  <2>2. k = After(j, "Queued", j.generation + 1, NoReason, NoTick, j.stop, j.replace_on_drain, 0,
                  NoValidator, NoMap)
    BY <2>1, Zenon DEF After, JobOK, Replaced, NextGeneration
  <2>3. Stopped("Queued", j.stop, j.replace_on_drain) /\ "Queued" \in States
    BY <2>1, JobFields DEF Stopped, States
  <2>4. /\ JobOK(k) /\ k.generation = j.generation + 1 /\ k.validator = NoValidator
        /\ k.segments = NoMap
    <3>1. j.generation + 1 \in Nat /\ NoValidator \in Nat
      BY JobFields DEF NoValidator
    <3> QED
      BY <2>2, <2>3, <3>1, JobFrom, JobFields, Plans DEF SegmentStates
  <2> QED
    BY <2>1, <2>4 DEF Kin, Gone
<1>7. CASE k = j
  BY <1>2, <1>7 DEF Kin
<1> QED
  BY <1>3, <1>4, <1>5, <1>6, <1>7

\* Most commands leave generation and plan alone.
LEMMA Turns ==
  ASSUME NEW j, JobOK(j), NEW c, NEW k \in Execute(j, c),
         c.name \notin {"ProbeSucceeded", "WorkersDrained", "ReplaceRepresentation"}
  PROVE  JobOK(k) /\ k.generation = j.generation /\ k.segments = j.segments /\ k.validator = j.validator
BY ExecuteArms, ArmTurns, TurnedOK

\* Where the commands of a session take a job.
LEMMA Takes ==
  ASSUME NEW j, JobOK(j), NEW c, NEW k \in Execute(j, c)
  PROVE  /\ c.name = "Start" => k.state = "Probing"
         /\ c.name = "ProbeSucceeded" => k.state = "Transferring" /\ j.state = "Probing"
         /\ c.name \in DOMAIN CauseKind \cup {"RepresentationChanged"} /\ j.state \in Running \cup {"Stopping"}
              => k.state = "Stopping" /\ k.segments = j.segments /\ k.generation = j.generation
                 /\ k.validator = j.validator
         /\ c.name = "AllSegmentsDurable" => k.state = "Stopping" /\ k.segments = j.segments
         /\ c.name = "Cancel" => k.state = "Cancelling" /\ k.segments = j.segments
                                 /\ k.generation = j.generation /\ k.validator = j.validator
         /\ c.name = "WorkersDrained" => j.state = "Stopping" /\ k \in WorkersDrained(j)
         /\ c.name = "RequireAction" /\ j.state \in {"Verifying", "Publishing"} => k.state = "NeedsAction"
         /\ c.name = "Pause" /\ j.state = "Verifying" => k.state = "Paused"
         /\ c.name = "VerificationPassed" => k.state = "Publishing"
         /\ c.name = "PublishCommitted" => k.state = "Completed"
         /\ c.name = "CleanupFinished" => k.state = "Cancelled"
BY DEF Execute, Only, CauseKind, Running, Resumable, Probed, Begin, Replacing, Cancelled, JobOK

-----------------------------------------------------------------------------
(***************************************************************************)
(* The record.                                                             *)
(***************************************************************************)

\* What the record keeps of a job is a job of the same plan, of which nothing was fetched.
LEMMA StripOK ==
  ASSUME NEW j, JobOK(j)
  PROVE  /\ JobOK(Strip(j)) /\ Strip(Strip(j)) = Strip(j)
         /\ Strip(j).state = j.state /\ Strip(j).generation = j.generation
         /\ Strip(j).validator = j.validator
         /\ Strip(j).segments.total = j.segments.total
         /\ (Strip(j).segments = NoMap) = (j.segments = NoMap)
<1> DEFINE m == IF j.segments = NoMap THEN NoMap ELSE Fresh(j.segments.total)
<1>1. Strip(j) = After(j, j.state, j.generation, j.reason, j.retry_at, j.stop, j.replace_on_drain,
                       j.attempts, j.validator, m)
  BY Zenon DEF Strip, After, JobOK
<1>2. /\ PlanOK(m) /\ Clean(m) /\ OneSegment(m) /\ (m = NoMap) = (j.segments = NoMap)
      /\ m.total = j.segments.total
  <2>1. CASE j.segments = NoMap
    BY <2>1, Plans
  <2>2. CASE j.segments # NoMap
    <3>1. j.segments.total \in Nat
      BY <2>2, JobFields DEF PlanOK
    <3> QED
      BY <2>2, <3>1, Plans
  <2> QED
    BY <2>1, <2>2
<1> HIDE DEF m
<1>3. /\ JobOK(Strip(j)) /\ Strip(j).state = j.state /\ Strip(j).generation = j.generation
      /\ Strip(j).validator = j.validator /\ Strip(j).segments = m
  <2>1. PICK k : k = Strip(j)
    OBVIOUS
  <2>2. /\ j.state \in States /\ j.generation \in Nat /\ j.validator \in Nat
        /\ Stopped(j.state, j.stop, j.replace_on_drain)
        /\ j.state = "Transferring" => j.segments # NoMap
    BY JobFields
  <2> QED
    BY <1>1, <1>2, <2>1, <2>2, JobFrom
<1>4. Strip(Strip(j)) = Strip(j)
  <2>1. Strip(j) = [j EXCEPT !.segments = m]
    BY DEF Strip, m
  <2>2. (IF m = NoMap THEN NoMap ELSE Fresh(m.total)) = m
    BY <1>2 DEF m
  <2>3. Strip(Strip(j)) = [[j EXCEPT !.segments = m] EXCEPT !.segments = m]
    BY <1>3, <2>1, <2>2 DEF Strip
  <2> QED
    BY <2>1, <2>3, Zenon
<1> QED
  BY <1>2, <1>3, <1>4

\* The record of what a command made of the job that the record is of.
LEMMA RecordStep ==
  ASSUME RecordOK, RecordedBytesAreStable, NEW j, JobOK(j), record.job = Strip(j),
         NEW c, c.total \in Nat, c.validator \in Nat, NEW k \in Execute(j, c),
         record' = Recorded(k)
  PROVE  /\ RecordOK' /\ (parts' = parts => RecordedBytesAreStable')
         /\ record'.job = Strip(k) /\ JobOK(k) /\ Kin(j, c, k)
         /\ IF k.generation = j.generation THEN record'.extents = record.extents
                                           ELSE record'.extents = None
<1>1. JobOK(k) /\ Kin(j, c, k)
  BY JobStep
<1>2. /\ record.job.generation = j.generation /\ record.job.state = j.state
      /\ record.job.validator = j.validator /\ record.job.segments.total = j.segments.total
  BY StripOK
<1>3. /\ record'.job = Strip(k)
      /\ record' \in [job : {record'.job}, extents : {record'.extents}]
      /\ IF k.generation = j.generation THEN record'.extents = record.extents
                                        ELSE record'.extents = None
  BY <1>2 DEF Recorded
<1>4. /\ JobOK(record'.job) /\ record'.job = Strip(record'.job)
      /\ record'.job.generation = k.generation /\ record'.job.state = k.state
      /\ record'.job.validator = k.validator
      /\ record'.job.segments.total = k.segments.total
  BY <1>1, <1>3, StripOK
<1>5. DOMAIN None = {}
  BY DEF None
<1>6. NoMap.total = -1 /\ Bytes(-1) = {}
  BY Plans DEF Bytes
<1>7. /\ Extents' \subseteq Bytes(k.segments.total)
      /\ k.validator = NoValidator => Extents' \in {{}, Bytes(k.segments.total)}
      /\ Uniform(record'.extents, Extents', k.validator)
  <2>1. CASE k.generation = j.generation /\ k.segments = j.segments /\ k.validator = j.validator
    BY <1>2, <1>3, <2>1 DEF RecordOK, Whole, Extents
  <2>2. CASE k.generation # j.generation
    BY <1>3, <1>5, <2>2 DEF Extents, Uniform
  <2>3. CASE k.generation = j.generation /\ j.segments = NoMap
    <3>1. Extents = {}
      BY <1>2, <1>6, <2>3 DEF RecordOK
    <3> QED
      BY <1>3, <2>3, <3>1 DEF Extents, Uniform
  <2> QED
    BY <1>1, <2>1, <2>2, <2>3, JobFields DEF Kin
<1>8. RecordOK'
  BY <1>3, <1>4, <1>7 DEF RecordOK, Whole
<1>9. parts' = parts => RecordedBytesAreStable'
  <2> SUFFICES ASSUME parts' = parts, k.state \notin Gone
               PROVE  RecordedBytesAreStable'
    BY <1>4 DEF RecordedBytesAreStable, Gone
  <2>1. record.job.state \notin Gone
    BY <1>1, <1>2 DEF Kin
  <2>2. CASE k.generation = j.generation
    BY <1>2, <1>3, <1>4, <2>1, <2>2 DEF RecordedBytesAreStable, Gone
  <2>3. CASE k.generation # j.generation
    BY <1>3, <1>5, <2>3 DEF RecordedBytesAreStable
  <2> QED
    BY <2>2, <2>3
<1> QED
  BY <1>1, <1>3, <1>8, <1>9

\* A job that does not change leaves the record as it is.
LEMMA SameRecord ==
  ASSUME RecordOK, NEW j, record.job = Strip(j), JobOK(j)
  PROVE  Recorded(j) = record
<1>1. j.generation = record.job.generation
  BY StripOK
<1> QED
  BY <1>1, Zenon DEF Recorded, RecordOK

-----------------------------------------------------------------------------
(***************************************************************************)
(* The coordinator's locals, and what a step of it does.                   *)
(***************************************************************************)

\* The locals after a step.
Moved(p, a, st, sf, u, n, h, r, e) ==
  [session EXCEPT !.pc = p, !.after = a, !.stopping = st, !.storage_failed = sf, !.unsynced = u,
                  !.attempt = n, !.hashes = h, !.reply = r, !.error = e]

\* Locals put together from their parts.
LEMMA MovedOK ==
  ASSUME IsSession(session), NEW p \in Pcs, NEW a \in Afters, NEW st \in BOOLEAN, NEW sf \in BOOLEAN,
         NEW u \in Nat, NEW n \in Nat, NEW h, NEW r \in Replies, NEW e \in Errors,
         NEW s, s = Moved(p, a, st, sf, u, n, h, r, e)
  PROVE  /\ IsSession(s) /\ s.pc = p /\ s.after = a /\ s.stopping = st /\ s.storage_failed = sf
         /\ s.unsynced = u /\ s.hashes = h /\ s.reply = r /\ s.error = e
<1>1. /\ s \in [pc : Pcs, live : BOOLEAN, after : Afters, stopping : BOOLEAN,
                storage_failed : BOOLEAN, unsynced : Nat, attempt : Nat, hashes : {h},
                reply : Replies, error : Errors]
      /\ s.pc = p /\ s.after = a /\ s.stopping = st /\ s.storage_failed = sf
      /\ s.unsynced = u /\ s.hashes = h /\ s.reply = r /\ s.error = e
  BY DEF IsSession, Moved
<1> QED
  BY <1>1 DEF IsSession

\* The types of the coordinator's locals.
LEMMA SessionFields ==
  ASSUME IsSession(session)
  PROVE  /\ session.pc \in Pcs /\ session.after \in Afters /\ session.stopping \in BOOLEAN
         /\ session.storage_failed \in BOOLEAN /\ session.unsynced \in Nat
         /\ session.attempt \in Nat /\ session.reply \in Replies /\ session.error \in Errors
BY DEF IsSession

\* The session goes on at another await, or ends with an error.
LEMMA Goes ==
  ASSUME IsSession(session), NEW p \in Pcs
  PROVE  /\ IsSession(At(p)) /\ At(p).pc = p /\ At(p).after = session.after
         /\ At(p).stopping = session.stopping /\ At(p).storage_failed = session.storage_failed
         /\ At(p).reply = session.reply /\ At(p).error = session.error
         /\ At(p).hashes = session.hashes
<1>1. At(p) = Moved(p, session.after, session.stopping, session.storage_failed, session.unsynced,
                    session.attempt, session.hashes, session.reply, session.error)
  BY Zenon DEF At, Moved, IsSession
<1> QED
  BY <1>1, SessionFields, MovedOK

\* The locals of a session that is given up with error e.
LEMMA Fails ==
  ASSUME IsSession(session), NEW e \in Errors
  PROVE  IsSession(Failed(e)) /\ Failed(e).pc = "close" /\ Failed(e).error = e
<1>1. PICK p \in Pcs : p = "close"
  BY DEF Pcs
<1>2. Failed(e) = Moved(p, session.after, session.stopping, session.storage_failed,
                        session.unsynced, session.attempt, session.hashes, session.reply, e)
  BY <1>1, Zenon DEF Failed, Moved, IsSession
<1> QED
  BY <1>1, <1>2, SessionFields, MovedOK

\* The environment's budget.
LEMMA Spends ==
  ASSUME budget \in Budgets, NEW what \in {"sessions", "faults", "crashes", "controls", "commands",
                                           "changes"},
         Spend(what)
  PROVE  budget' \in Budgets
BY DEF Budgets, Spend

\* The commands of a session carry numbers.
LEMMA CommandFields ==
  /\ \A name : Command(name).name = name /\ {Command(name).total, Command(name).validator} \subseteq Nat
  /\ \A name, reason : /\ Because(name, reason).name = name
                       /\ {Because(name, reason).total, Because(name, reason).validator} \subseteq Nat
BY DEF Command, Because, NoValidator

\* Extents are kept as they are, or belong to a generation that is over.
Narrowed ==
  \/ record'.extents = None
  \/ record'.job.generation = record.job.generation /\ record'.extents = record.extents

\* The session is given up.
Halted == IsSession(session') /\ session'.pc = "close" /\ session'.error # "None"

\* decide, commit, apply: the session goes on with the new job and its record, or it ends with an
\* error and a record that has the new job or the old one.
LEMMA Steps ==
  ASSUME Shapes, RecordOK, RecordedBytesAreStable, NEW j, JobOK(j), record.job = Strip(j),
         NEW c, {c.total, c.validator} \subseteq Nat, NEW next, Step(j, c, next)
  PROVE  /\ RecordOK' /\ (parts' = parts => RecordedBytesAreStable') /\ Narrowed
         /\ budget' \in Budgets
         /\ \/ \E k \in Execute(j, c) :
                 /\ job' = k /\ record' = Recorded(k) /\ session' = next /\ budget' = budget
                 /\ JobOK(k) /\ Kin(j, c, k) /\ record'.job = Strip(k)
                 /\ IF k.generation = j.generation THEN record'.extents = record.extents
                                                   ELSE record'.extents = None
            \/ job' = j /\ Halted
<1>1. budget' \in Budgets
  BY Spends DEF Step, Shapes
<1>2. ASSUME record' = record
      PROVE  RecordOK' /\ (parts' = parts => RecordedBytesAreStable') /\ Narrowed
  BY <1>2 DEF RecordOK, RecordedBytesAreStable, Narrowed, Extents
<1>3. ASSUME NEW k \in Execute(j, c), record' = Recorded(k)
      PROVE  RecordOK' /\ (parts' = parts => RecordedBytesAreStable') /\ Narrowed
  <2>1. /\ RecordOK' /\ (parts' = parts => RecordedBytesAreStable') /\ record'.job = Strip(k) /\ JobOK(k)
        /\ IF k.generation = j.generation THEN record'.extents = record.extents
                                          ELSE record'.extents = None
    BY <1>3, RecordStep
  <2> QED
    BY <2>1, StripOK DEF Narrowed
<1>4. CASE \E k \in Execute(j, c) :
             /\ job' = k
             /\ record' = IF k = j THEN record ELSE Recorded(k)
             /\ session' = next
             /\ UNCHANGED budget
  <2>1. PICK k \in Execute(j, c) :
             /\ job' = k
             /\ record' = IF k = j THEN record ELSE Recorded(k)
             /\ session' = next
             /\ UNCHANGED budget
    BY <1>4
  <2>2. record' = Recorded(k)
    BY <2>1, SameRecord
  <2>3. /\ JobOK(k) /\ Kin(j, c, k) /\ record'.job = Strip(k)
        /\ IF k.generation = j.generation THEN record'.extents = record.extents
                                          ELSE record'.extents = None
    BY <2>2, RecordStep
  <2> QED
    BY <1>1, <1>3, <2>1, <2>2, <2>3
<1>5. CASE \E k \in Execute(j, c) \ {j} :
             /\ job' = j
             /\ record' \in {record, Recorded(k)}
             /\ session' = Failed("Commit")
  <2>1. Halted
    BY <1>5, Fails DEF Errors, Halted, Shapes
  <2> QED
    BY <1>1, <1>2, <1>3, <1>5, <2>1
<1>6. CASE job' = j /\ session' = Failed("Domain") /\ record' = record
  <2>1. Halted
    BY <1>6, Fails DEF Errors, Halted, Shapes
  <2> QED
    BY <1>1, <1>2, <1>6, <2>1
<1> QED
  BY <1>4, <1>5, <1>6 DEF Step

-----------------------------------------------------------------------------
(***************************************************************************)
(* What a step leaves alone.                                               *)
(***************************************************************************)

\* The coordinator has no command in the lane.
Quiet == session.pc \notin DOMAIN Waits \/ session.reply # "None"

\* No worker changes, save that some are joined which have nothing in the lane.
Freed ==
  /\ workers' \in [Slots -> Tasks]
  /\ \A w \in Slots : \/ workers'[w] = workers[w]
                      \/ workers'[w] = NoTask /\ workers[w].phase # "sent"

\* Part files nobody touched.
LEMMA SameParts ==
  ASSUME Shapes, parts' = parts
  PROVE  PartsOK'
BY DEF Shapes, PartsOK, IsPart

\* Workers nobody touched.
LEMMA FreedSame ==
  ASSUME Shapes, workers' = workers
  PROVE  Freed
BY DEF Freed, Shapes

\* While the coordinator waits for nothing, only writes are in the lane.
LEMMA QuietQueue ==
  ASSUME QueueOK, Quiet
  PROVE  \A i \in DOMAIN lane.queue : IsWrite(lane.queue[i], workers)
BY DEF QueueOK, Waiting, IsAsked, Quiet

\* Joining workers leaves the others, and the bytes they have written, as they were.
LEMMA FreedWorkers ==
  ASSUME Shapes, WorkersOK, Freed, lane'.generation = lane.generation, parts' = parts, Narrowed
  PROVE  WorkersOK' /\ Busy' \subseteq Busy
<1>1. \A w \in Busy' : w \in Busy /\ workers'[w] = workers[w]
  BY DEF Busy, Freed, NoTask
<1>2. Cached' = Cached /\ Open' = Open
  BY DEF Cached, Open
<1>3. \A w \in Slots : WorkerOK(w)'
  <2> SUFFICES ASSUME NEW w \in Busy
               PROVE  workers'[w] = workers[w] => WorkerOK(w)'
    BY <1>1 DEF WorkerOK, Busy
  <2>1. DOMAIN None = {}
    BY DEF None
  <2>2. \A b \in Extents' : b \in Extents /\ record'.job.generation = record.job.generation
    BY <2>1 DEF Narrowed, Extents
  <2>3. WorkerOK(w) /\ w \in Slots
    BY DEF WorkersOK, Busy
  <2> QED
    BY <1>2, <2>2, <2>3 DEF WorkerOK
<1> QED
  BY <1>1, <1>3 DEF WorkersOK

\* The lane keeps the writes, and may be given what the coordinator now waits for.
LEMMA FreedQueue ==
  ASSUME Shapes, QueueOK, Quiet, Freed, lane'.queue = lane.queue
  PROVE  QueueOK'
<1>1. \A m : IsWrite(m, workers) => IsWrite(m, workers') /\ ~IsAsked(m, session')
  BY DEF IsWrite, IsAsked, Freed
<1> QED
  BY <1>1, QuietQueue DEF QueueOK, Waiting

\* One message more at the end of a queue.
LEMMA Appended ==
  ASSUME NEW S, NEW q \in Seq(S), NEW m \in S
  PROVE  /\ Append(q, m) \in Seq(S) /\ Len(q) \in Nat
         /\ \A i \in DOMAIN Append(q, m) :
              \/ i \in DOMAIN q /\ Append(q, m)[i] = q[i]
              \/ i = Len(q) + 1 /\ Append(q, m)[i] = m
OBVIOUS

\* The coordinator puts the command it will wait for behind the writes.
LEMMA AskedQueue ==
  ASSUME Shapes, QueueOK, Quiet, Freed, NEW kind \in {"Sync", "Hash", "Verify", "Discard"},
         Ask(kind), session'.pc \in DOMAIN Waits, kind = Waits[session'.pc],
         session'.reply = "None"
  PROVE  QueueOK' /\ lane' \in Lanes /\ lane'.generation = lane.generation
<1>1. lane \in Lanes /\ [kind |-> kind] \in Messages
  BY DEF Shapes, Messages
<1>2. PICK m \in Messages : m = [kind |-> kind]
  BY <1>1
<1>3. PICK q \in Seq(Messages) : q = lane.queue
  BY <1>1 DEF Lanes
<1>4. PICK r \in Seq(Messages) : r = Append(q, m)
  BY Appended
<1>5. lane' = [lane EXCEPT !.queue = r]
  BY <1>2, <1>3, <1>4 DEF Ask
<1>6. lane' \in Lanes /\ lane'.generation = lane.generation /\ lane'.queue = r
  BY <1>1, <1>5 DEF Lanes
<1>7. \A i \in DOMAIN r :
        \/ i \in DOMAIN q /\ r[i] = q[i]
        \/ i = Len(q) + 1 /\ r[i] = m
  BY <1>4, Appended
<1>8. \A n : IsWrite(n, workers) => IsWrite(n, workers') /\ ~IsAsked(n, session')
  BY DEF IsWrite, IsAsked, Freed
<1>9. IsAsked(m, session') /\ ~IsWrite(m, workers')
  BY <1>2 DEF IsAsked, IsWrite
<1>10. \A i \in DOMAIN q : IsWrite(q[i], workers)
  BY <1>3, QuietQueue
<1>11. Waiting(r, workers', session')
  <2>1. \A i \in DOMAIN r : IsWrite(r[i], workers') \/ IsAsked(r[i], session')
    BY <1>7, <1>8, <1>9, <1>10
  <2>2. ASSUME NEW i \in DOMAIN r, NEW k \in DOMAIN r,
               IsWrite(r[i], workers'), IsWrite(r[k], workers'), r[i].worker = r[k].worker
        PROVE  i = k
    <3>1. i \in DOMAIN q /\ k \in DOMAIN q /\ r[i] = q[i] /\ r[k] = q[k]
      BY <1>7, <1>9, <2>2
    <3> QED
      BY <1>3, <1>10, <2>2, <3>1 DEF QueueOK, Waiting
  <2>3. ASSUME NEW i \in DOMAIN r, NEW k \in DOMAIN r,
               IsAsked(r[i], session'), IsAsked(r[k], session')
        PROVE  i = k
    BY <1>7, <1>8, <1>10, <2>3
  <2> QED
    BY <2>1, <2>2, <2>3 DEF Waiting
<1> QED
  BY <1>6, <1>11 DEF QueueOK

\* A session that is given up leaves everything else sound.
LEMMA Halts ==
  ASSUME IInv, Quiet, Halted, RecordOK',
         RecordedBytesAreStable', Narrowed, parts' = parts, origin' = origin, lane' = lane,
         control' \in Seq({"Pause", "Cancel"}), budget' \in Budgets, Freed
  PROVE  IInv'
<1>1. IsSession(session') /\ session'.pc = "close" /\ session'.error # "None"
  BY DEF Halted
<1>2. WorkersOK' /\ QueueOK'
  BY FreedWorkers, FreedQueue DEF IInv
<1>3. Shapes'
  BY <1>1, SameParts DEF IInv, Shapes, Freed
<1> QED
  BY <1>1, <1>2, <1>3 DEF IInv

-----------------------------------------------------------------------------
(***************************************************************************)
(* The coordinator without workers.                                        *)
(***************************************************************************)

\* The parts of the invariant that are not plain in a state without workers.
CalmOK ==
  /\ JobOK(job) /\ record.job = Strip(job) /\ job.segments.durable = Extents
  /\ StateAt(session.pc, job.state)
  /\ job.segments.leased = {} /\ job.segments.ckpt = NoCheckpoint
  /\ session.pc \notin Moving /\ job.state \notin {"Cancelling", "Cancelled"} => Clean(job.segments)
  /\ WrittenOK
  /\ session.pc = "drain" => session.storage_failed \/ job.segments.written = {}
  /\ session.reply # "None" => session.pc \in DOMAIN Waits

\* Without workers the invariant says this of the job.
LEMMA Calms ==
  ASSUME IInv, session.error = "None", session.pc \notin Manned
  PROVE  Busy = {} /\ CalmOK
BY DEF IInv, LiveOK, LeasesOK, CheckpointOK, Match, CalmOK, Manned, Checkpointing

\* And this is all there is to show of a state without workers.
LEMMA Calm ==
  ASSUME Shapes', RecordOK', RecordedBytesAreStable', QueueOK', Busy' = {}, CalmOK',
         session'.error = "None", session'.pc \notin Manned, session'.pc = "idle" => lane'.queue = <<>>
  PROVE  IInv'
<1>1. \A w \in Slots : workers'[w].phase = "free"
  BY DEF Busy
<1>2. WorkersOK'
  BY <1>1 DEF WorkersOK, WorkerOK
<1>3. {workers'[w].bytes : w \in Busy'} = {}
  OBVIOUS
<1>4. LeasesOK'
  BY <1>3 DEF LeasesOK, CalmOK
<1>5. Match' /\ CheckpointOK'
  BY DEF Match, CheckpointOK, CalmOK, Manned, Checkpointing
<1> QED
  BY <1>2, <1>4, <1>5 DEF IInv, LiveOK, CalmOK

\* A command given without workers: every job it may make fits the await the session goes to.
LEMMA CalmStep ==
  ASSUME IInv, session.error = "None", Busy = {}, Quiet, workers' = workers, origin' = origin,
         control' \in Seq({"Pause", "Cancel"}), NEW j,
         parts' = parts \/ (PartsOK' /\ job'.state = "Completed" /\ j.state # "Completed"),
         JobOK(j), record.job = Strip(j), j.segments.durable = Extents,
         j.segments.leased = {}, j.segments.ckpt = NoCheckpoint,
         NEW c, {c.total, c.validator} \subseteq Nat,
         NEW next, IsSession(next), next.error = "None", next.pc \notin Manned \cup {"idle", "drain"},
         next.reply = "None", Step(j, c, next),
         IF session'.pc = "vsync" THEN Ask("Sync") ELSE UNCHANGED lane,
         \A k \in Execute(j, c) :
           /\ StateAt(next.pc, k.state)
           /\ next.pc \notin Moving /\ k.state \notin {"Cancelling", "Cancelled"} => Clean(k.segments)
           /\ next.pc = "finish" => \/ k.segments.written = {}
                                    \/ /\ session.pc = "finish" /\ WrittenOK
                                       /\ k.segments = job.segments /\ k.generation = job.generation
                                       /\ k.validator = job.validator
  PROVE  IInv'
<1>0. Freed
  BY FreedSame DEF IInv
<1>1. /\ RecordOK' /\ (parts' = parts => RecordedBytesAreStable') /\ Narrowed
      /\ budget' \in Budgets
      /\ \/ \E k \in Execute(j, c) :
              /\ job' = k /\ record' = Recorded(k) /\ session' = next /\ budget' = budget
              /\ JobOK(k) /\ Kin(j, c, k) /\ record'.job = Strip(k)
              /\ IF k.generation = j.generation THEN record'.extents = record.extents
                                                ELSE record'.extents = None
         \/ job' = j /\ Halted
  BY Steps DEF IInv
<1>2. CASE job' = j /\ Halted
  <2>1. lane' = lane /\ parts' = parts
    BY <1>2 DEF Halted
  <2> QED
    BY <1>0, <1>1, <1>2, <2>1, Halts
<1>3. ASSUME NEW k \in Execute(j, c), job' = k, session' = next, JobOK(k), Kin(j, c, k),
             record'.job = Strip(k),
             IF k.generation = j.generation THEN record'.extents = record.extents
                                            ELSE record'.extents = None
      PROVE  IInv'
  <2>1. /\ k.segments.leased = {} /\ k.segments.ckpt = NoCheckpoint
        /\ k.segments.durable = Extents'
    <3>1. DOMAIN None = {} /\ j.generation \in Nat
      BY JobFields DEF None
    <3>2. CASE k.segments = j.segments /\ k.generation = j.generation
      BY <1>3, <3>2 DEF Extents
    <3>3. CASE k.segments = NoMap /\ k.generation = j.generation + 1
      BY <1>3, <3>1, <3>3, Plans DEF Extents, Clean
    <3>4. CASE /\ k.generation = j.generation /\ j.segments = NoMap
               /\ k.segments = Fresh(c.total)
      <4>1. c.total \in Nat
        OBVIOUS
      <4>2. /\ Fresh(c.total).leased = {} /\ Fresh(c.total).ckpt = NoCheckpoint
            /\ Fresh(c.total).durable = {} /\ NoMap.durable = {}
        BY <4>1, Plans DEF Clean
      <4> QED
        BY <1>3, <3>4, <4>2 DEF Extents
    <3> QED
      BY <1>3, <3>2, <3>3, <3>4 DEF Kin
  <2>2. QueueOK' /\ lane' \in Lanes /\ lane'.generation = lane.generation
    <3>1. CASE next.pc = "vsync"
      <4>1. session'.pc \in DOMAIN Waits /\ "Sync" = Waits[session'.pc]
        BY <1>3, <3>1 DEF Waits
      <4> QED
        BY <1>0, <1>3, <3>1, <4>1, AskedQueue DEF IInv
    <3>2. CASE next.pc # "vsync"
      BY <1>0, <1>3, <3>2, FreedQueue DEF IInv, Shapes
    <3> QED
      BY <3>1, <3>2
  <2>3. Shapes' /\ RecordedBytesAreStable'
    <3>1. PartsOK'
      BY SameParts DEF IInv
    <3>2. record'.job.state = job'.state
      BY <1>3, StripOK
    <3> QED
      BY <1>0, <1>1, <1>3, <2>2, <3>1, <3>2 DEF IInv, Shapes, Freed, RecordedBytesAreStable
  <2>4. WrittenOK'
    <3>1. next.pc = "finish" => parts' = parts
      BY <1>3 DEF StateAt
    <3> QED
      BY <1>3, <2>2, <3>1 DEF WrittenOK, Moving, Open, Cached
  <2>5. CalmOK'
    BY <1>3, <2>1, <2>4 DEF CalmOK
  <2>6. Busy' = {}
    BY DEF Busy
  <2> QED
    BY <1>1, <1>3, <2>2, <2>3, <2>5, <2>6, Calm
<1> QED
  BY <1>1, <1>2, <1>3

\* Locals with one field set.
Kept4(s, n) == n.after = s.after /\ n.hashes = s.hashes /\ n.error = s.error /\ n.unsynced = s.unsynced

\* What setting one of the locals leaves alone.
LEMMA Sets ==
  ASSUME NEW s, IsSession(s)
  PROVE  /\ LET n == [s EXCEPT !.stopping = TRUE] IN
            IsSession(n) /\ Kept4(s, n) /\ n.pc = s.pc /\ n.storage_failed = s.storage_failed
            /\ n.reply = s.reply
         /\ LET n == [s EXCEPT !.storage_failed = TRUE] IN
            IsSession(n) /\ Kept4(s, n) /\ n.pc = s.pc /\ n.storage_failed = TRUE /\ n.reply = s.reply
         /\ LET n == [s EXCEPT !.reply = "None"] IN
            IsSession(n) /\ Kept4(s, n) /\ n.pc = s.pc /\ n.storage_failed = s.storage_failed
            /\ n.reply = "None"
         /\ \A p \in Pcs : LET n == [s EXCEPT !.pc = p] IN
            IsSession(n) /\ Kept4(s, n) /\ n.pc = p /\ n.storage_failed = s.storage_failed
            /\ n.reply = s.reply
<1>1. PICK t \in BOOLEAN : t = TRUE
  OBVIOUS
<1>2. PICK r \in Replies : r = "None"
  BY DEF Replies
<1> DEFINE T == [pc : Pcs, live : BOOLEAN, after : Afters, stopping : BOOLEAN,
                 storage_failed : BOOLEAN, unsynced : Nat, attempt : Nat, hashes : {s.hashes},
                 reply : Replies, error : Errors]
<1>3. s \in T
  BY DEF IsSession
<1>4. ASSUME NEW n \in T, n.hashes = s.hashes
      PROVE  IsSession(n)
  BY <1>4 DEF IsSession
<1>5. LET n == [s EXCEPT !.stopping = t] IN
         n \in T /\ Kept4(s, n) /\ n.pc = s.pc /\ n.storage_failed = s.storage_failed
         /\ n.reply = s.reply
  BY <1>3 DEF Kept4
<1>6. LET n == [s EXCEPT !.storage_failed = t] IN
         n \in T /\ Kept4(s, n) /\ n.pc = s.pc /\ n.storage_failed = t /\ n.reply = s.reply
  BY <1>3 DEF Kept4
<1>7. LET n == [s EXCEPT !.reply = r] IN
         n \in T /\ Kept4(s, n) /\ n.pc = s.pc /\ n.storage_failed = s.storage_failed
         /\ n.reply = r
  BY <1>3 DEF Kept4
<1>8. ASSUME NEW p \in Pcs
      PROVE  LET n == [s EXCEPT !.pc = p] IN
         n \in T /\ Kept4(s, n) /\ n.pc = p /\ n.storage_failed = s.storage_failed
         /\ n.reply = s.reply
  BY <1>3 DEF Kept4
<1> HIDE DEF T
<1> QED
  BY <1>1, <1>2, <1>4, <1>5, <1>6, <1>7, <1>8 DEF Kept4

\* What the session asks of the domain when the transport or the storage fails.
Stopping == DOMAIN CauseKind \cup {"RepresentationChanged"}

\* Every transport error is turned into a command that stops the job.
LEMMA TransportStops ==
  ASSUME NEW failure \in {"Changed", "UserAction", "Fatal", "Transient"}
  PROVE  LET c == TransportCommand(failure) IN
         c.name \in Stopping /\ {c.total, c.validator} \subseteq Nat
BY DEF TransportCommand, Command, Because, Stopping, CauseKind, NoValidator

\* The locals while the coordinator works and nothing has failed.
LEMMA Working1 ==
  ASSUME IInv, NEW p \in Pcs \ {"close", "idle"}, Coordinating(p)
  PROVE  session.pc = p /\ session.error = "None" /\ origin' = origin
         /\ LiveOK /\ Shapes /\ (p \notin Manned => Busy = {} /\ CalmOK)
         /\ (p \notin DOMAIN Waits => Quiet /\ session.reply = "None")
<1>1. session.pc = p /\ session.error = "None" /\ origin' = origin
  BY DEF Coordinating, IInv
<1> QED
  BY <1>1, Calms DEF IInv, Quiet, LiveOK

\* A job of which nothing is at work is stopped.
LEMMA StopsClean ==
  ASSUME IInv, session.error = "None", session.pc \in {"probe", "open"}, job.state \in Running,
         workers' = workers, parts' = parts, lane' = lane, origin' = origin,
         control' \in Seq({"Pause", "Cancel"}),
         NEW c, {c.total, c.validator} \subseteq Nat, c.name \in Stopping \cup {"Cancel"},
         NEW next, IsSession(next), next.error = "None", next.reply = "None", next.pc = "finish",
         Step(job, c, next)
  PROVE  IInv'
<1>1. Busy = {} /\ CalmOK /\ Quiet
  BY Calms DEF Manned, Checkpointing, Quiet, Waits
<1>2. Clean(job.segments)
  BY <1>1 DEF CalmOK, Moving, Manned, Checkpointing, Running
<1>3. \A k \in Execute(job, c) : k.state \in {"Stopping", "Cancelling"} /\ k.segments = job.segments
  <2> SUFFICES ASSUME NEW k \in Execute(job, c)
               PROVE  k.state \in {"Stopping", "Cancelling"} /\ k.segments = job.segments
    OBVIOUS
  <2>1. JobOK(job) BY <1>1 DEF CalmOK
  <2> QED
    BY <2>1, Takes DEF Stopping
<1>4. next.pc \notin Manned \cup {"idle", "drain"} /\ next.pc \in Moving /\ next.pc # "vsync"
  BY DEF Manned, Checkpointing, Moving
<1>5. session'.pc # "vsync"
  <2>1. IsSession(session) BY DEF IInv, Shapes
  <2> QED
    BY <1>4, <2>1, Fails DEF Step, Errors
<1>6. \A k \in Execute(job, c) : StateAt(next.pc, k.state) /\ k.segments.written = {}
  BY <1>2, <1>3 DEF StateAt, Clean
<1> QED
  BY <1>1, <1>4, <1>5, <1>6, CalmStep DEF CalmOK

\* Controls are taken off their channel.
LEMMA Controls ==
  ASSUME Shapes, control # <<>>
  PROVE  Tail(control) \in Seq({"Pause", "Cancel"}) /\ Head(control) \in {"Pause", "Cancel"}
BY DEF Shapes

\* The session goes on with a job of which nothing is at work.
LEMMA CalmGo ==
  ASSUME IInv, session.error = "None", session.pc \notin Manned, Quiet,
         workers' = workers, lane' = lane, origin' = origin, control' = control,
         parts' = parts \/ (PartsOK' /\ job'.state = "Completed" /\ job.state # "Completed"),
         NEW c, {c.total, c.validator} \subseteq Nat,
         NEW next, IsSession(next), next.error = "None", next.reply = "None",
         next.pc \notin Moving \cup {"idle", "vsync"}, Step(job, c, next),
         \A k \in Execute(job, c) :
           /\ StateAt(next.pc, k.state)
           /\ k.state \notin {"Cancelling", "Cancelled"} => Clean(k.segments)
  PROVE  IInv'
<1>1. Busy = {} /\ CalmOK
  BY Calms
<1>2. next.pc \notin Manned \cup {"idle", "drain"} /\ next.pc # "finish"
  BY DEF Manned, Checkpointing, Moving
<1>3. session'.pc # "vsync"
  <2>1. IsSession(session) BY DEF IInv, Shapes
  <2> QED
    BY <2>1, Fails DEF Step, Errors
<1>4. control' \in Seq({"Pause", "Cancel"})
  BY DEF IInv, Shapes
<1> QED
  BY <1>1, <1>2, <1>3, <1>4, CalmStep DEF CalmOK

\* Start: the queued job begins to probe.
LEMMA StartOK ==
  ASSUME IInv, Start
  PROVE  IInv'
<1>1. /\ session.pc = "start" /\ session.error = "None" /\ origin' = origin
      /\ Busy = {} /\ CalmOK /\ Quiet /\ Shapes /\ session.reply = "None"
  BY Working1 DEF Start, Pcs, Manned, Checkpointing, Waits
<1>2. PICK p \in Pcs : p = "probe"
  BY DEF Pcs
<1>3. IsSession(At(p)) /\ At(p).pc = p /\ At(p).error = "None" /\ At(p).reply = "None"
  BY <1>1, Goes DEF Shapes
<1>4. Clean(job.segments)
  BY <1>1 DEF CalmOK, Moving, Manned, Checkpointing, StateAt
<1>5. PICK c : c = Command("Start")
  OBVIOUS
<1>6. c.name = "Start" /\ {c.total, c.validator} \subseteq Nat
  BY <1>5, CommandFields
<1>7. \A k \in Execute(job, c) : k.state = "Probing" /\ k.segments = job.segments
  BY <1>1, <1>6, Takes, Turns DEF CalmOK
<1>8. Step(job, c, At(p)) /\ UNCHANGED <<parts, workers, lane, control>>
  BY <1>2, <1>5 DEF Start
<1>9. /\ p \notin Moving \cup {"idle", "vsync"} /\ session.pc \notin Manned
      /\ \A k \in Execute(job, c) : StateAt(p, k.state) /\ Clean(k.segments)
  BY <1>1, <1>2, <1>4, <1>7 DEF Manned, Checkpointing, Moving, StateAt
<1> QED
  BY <1>1, <1>3, <1>6, <1>8, <1>9, CalmGo

\* A control that arrives during the probe.
LEMMA ProbeControlOK ==
  ASSUME IInv, ProbeControl
  PROVE  IInv'
<1>1. /\ session.pc = "probe" /\ session.error = "None" /\ origin' = origin
      /\ Busy = {} /\ CalmOK /\ Quiet /\ Shapes /\ session.reply = "None"
  BY Working1 DEF ProbeControl, Pcs, Manned, Checkpointing, Waits
<1>2. PICK p \in Pcs : p = "finish"
  BY DEF Pcs, Moving
<1>3. IsSession(At(p)) /\ At(p).pc = p /\ At(p).error = "None" /\ At(p).reply = "None"
  BY <1>1, Goes DEF Shapes
<1>4. PICK next : next = [At(p) EXCEPT !.stopping = TRUE]
  OBVIOUS
<1>5. IsSession(next) /\ next.pc = "finish" /\ next.error = "None" /\ next.reply = "None"
  BY <1>2, <1>3, <1>4, Sets DEF Kept4
<1>6. job.state \in Running
  BY <1>1 DEF CalmOK, StateAt, Running
<1>7. PICK name \in {"Pause", "Cancel"} : Step(job, Command(name), next)
  BY <1>2, <1>4, <1>6 DEF ProbeControl, OnControl, StopWith
<1>8. PICK c : c = Command(name)
  OBVIOUS
<1>9. c.name \in Stopping \cup {"Cancel"} /\ {c.total, c.validator} \subseteq Nat
  BY <1>8, CommandFields DEF Stopping, CauseKind
<1>10. control' \in Seq({"Pause", "Cancel"}) /\ UNCHANGED <<parts, workers, lane>>
  BY <1>1, Controls DEF ProbeControl, OnControl
<1> QED
  BY <1>1, <1>5, <1>6, <1>7, <1>8, <1>9, <1>10, StopsClean

\* The probe answered: the plan is made, kept, or given up for another representation.
LEMMA ProbeAnsweredOK ==
  ASSUME IInv, ProbeAnswered
  PROVE  IInv'
<1>1. /\ session.pc = "probe" /\ session.error = "None" /\ origin' = origin
      /\ Busy = {} /\ CalmOK /\ Quiet /\ Shapes /\ session.reply = "None"
  BY Working1 DEF ProbeAnswered, Pcs, Manned, Checkpointing, Waits
<1>2. job.state = "Probing" /\ job.state \in Running /\ Clean(job.segments)
  BY <1>1 DEF CalmOK, StateAt, Running, Moving, Manned, Checkpointing
<1>3. PICK total, validator : total = Size[origin] /\ validator = Validator(origin)
  OBVIOUS
<1>4. total \in Nat /\ validator \in Nat
  BY <1>1, <1>3, SessionAssumption DEF Shapes, Validator, NoValidator
<1>5. UNCHANGED <<parts, workers, lane, control>> /\ control' \in Seq({"Pause", "Cancel"})
  BY <1>1 DEF ProbeAnswered, Shapes
<1>6. \/ Step(job, Command("RepresentationChanged"), At("finish"))
      \/ Step(job, [Command("ProbeSucceeded") EXCEPT !.total = total, !.validator = validator],
              At("open"))
  BY <1>3 DEF ProbeAnswered
<1>7. CASE Step(job, Command("RepresentationChanged"), At("finish"))
  <2>1. PICK c : c = Command("RepresentationChanged")
    OBVIOUS
  <2>2. c.name \in Stopping /\ {c.total, c.validator} \subseteq Nat
    BY <2>1, CommandFields DEF Stopping
  <2>3. PICK p \in Pcs : p = "finish"
    BY DEF Pcs, Moving
  <2>4. IsSession(At(p)) /\ At(p).pc = p /\ At(p).error = "None" /\ At(p).reply = "None"
    BY <1>1, Goes DEF Shapes
  <2> QED
    BY <1>1, <1>2, <1>5, <1>7, <2>1, <2>2, <2>3, <2>4, StopsClean
<1>8. CASE Step(job, [Command("ProbeSucceeded") EXCEPT !.total = total, !.validator = validator],
                At("open"))
  <2>1. PICK c : c = [Command("ProbeSucceeded") EXCEPT !.total = total, !.validator = validator]
    OBVIOUS
  <2>2. c.name = "ProbeSucceeded" /\ {c.total, c.validator} \subseteq Nat
    BY <1>4, <2>1 DEF Command
  <2>3. PICK p \in Pcs : p = "open"
    BY DEF Pcs
  <2>4. IsSession(At(p)) /\ At(p).pc = p /\ At(p).error = "None" /\ At(p).reply = "None"
    BY <1>1, Goes DEF Shapes
  <2>5. \A k \in Execute(job, c) : k.state = "Transferring" /\ Clean(k.segments)
    <3> SUFFICES ASSUME NEW k \in Execute(job, c)
                 PROVE  k.state = "Transferring" /\ Clean(k.segments)
      OBVIOUS
    <3>1. JobOK(job) BY <1>1 DEF CalmOK
    <3>2. Kin(job, c, k) /\ k.state = "Transferring"
      BY <2>2, <3>1, JobStep, Takes
    <3> QED
      BY <1>2, <2>2, <3>2, Plans DEF Kin
  <2>6. /\ p \notin Moving \cup {"idle", "vsync"} /\ session.pc \notin Manned
        /\ \A k \in Execute(job, c) : StateAt(p, k.state)
    BY <1>1, <2>3, <2>5 DEF Manned, Checkpointing, Moving, StateAt
  <2> QED
    BY <1>1, <1>5, <1>8, <2>1, <2>2, <2>3, <2>4, <2>5, <2>6, CalmGo
<1> QED
  BY <1>6, <1>7, <1>8

\* The probe failed.
LEMMA ProbeFailedOK ==
  ASSUME IInv, ProbeFailed
  PROVE  IInv'
<1>1. /\ session.pc = "probe" /\ session.error = "None" /\ origin' = origin
      /\ Busy = {} /\ CalmOK /\ Quiet /\ Shapes /\ session.reply = "None"
  BY Working1 DEF ProbeFailed, Pcs, Manned, Checkpointing, Waits
<1>2. PICK p \in Pcs : p = "finish"
  BY DEF Pcs, Moving
<1>3. IsSession(At(p)) /\ At(p).pc = p /\ At(p).error = "None" /\ At(p).reply = "None"
  BY <1>1, Goes DEF Shapes
<1>4. PICK next : next = [At(p) EXCEPT !.stopping = TRUE]
  OBVIOUS
<1>5. IsSession(next) /\ next.pc = "finish" /\ next.error = "None" /\ next.reply = "None"
  BY <1>2, <1>3, <1>4, Sets DEF Kept4
<1>6. job.state \in Running
  BY <1>1 DEF CalmOK, StateAt, Running
<1>7. PICK failure \in Failures \ {"Panicked"} : Step(job, TransportCommand(failure), next)
  BY <1>2, <1>4, <1>6 DEF ProbeFailed, StopWith
<1>8. PICK c : c = TransportCommand(failure)
  OBVIOUS
<1>9. c.name \in Stopping \cup {"Cancel"} /\ {c.total, c.validator} \subseteq Nat
  BY <1>8, TransportStops, SessionAssumption
<1>10. control' \in Seq({"Pause", "Cancel"}) /\ UNCHANGED <<parts, workers, lane>>
  BY <1>1 DEF ProbeFailed, Shapes
<1> QED
  BY <1>1, <1>5, <1>6, <1>7, <1>8, <1>9, <1>10, StopsClean

\* The repository could not be read.
LEMMA UnreadOK ==
  ASSUME IInv, Quiet, NEW next, IsSession(next), Unread(next), workers' = workers, parts' = parts,
         lane' = lane, origin' = origin, control' = control
  PROVE  IInv'
<1>1. PICK p \in Pcs, e \in Errors : p = "close" /\ e = "Repository"
  BY DEF Pcs, Errors
<1>2. PICK n : n = [next EXCEPT !.pc = p]
  OBVIOUS
<1>3. IsSession(n) /\ n.pc = p
  BY <1>2, Sets
<1>4. session' = [n EXCEPT !.error = e]
  BY <1>1, <1>2 DEF Unread
<1>5. session' \in [pc : Pcs, live : BOOLEAN, after : Afters, stopping : BOOLEAN,
                    storage_failed : BOOLEAN, unsynced : Nat, attempt : Nat, hashes : {n.hashes},
                    reply : Replies, error : Errors]
      /\ session'.hashes = n.hashes /\ session'.pc = p /\ session'.error = e
  BY <1>3, <1>4 DEF IsSession
<1>6. Halted
  BY <1>1, <1>5 DEF Halted, IsSession
<1>7. record' = record /\ budget' \in Budgets /\ control' \in Seq({"Pause", "Cancel"})
  BY Spends DEF Unread, IInv, Shapes
<1>8. RecordOK' /\ RecordedBytesAreStable' /\ Narrowed
  BY <1>7 DEF IInv, RecordOK, Extents, RecordedBytesAreStable, Narrowed
<1> QED
  BY <1>6, <1>7, <1>8, Halts, FreedSame DEF IInv

\* The part could not be opened, or is not what the record says.
LEMMA OpenFailedOK ==
  ASSUME IInv, OpenFailed
  PROVE  IInv'
<1>1. /\ session.pc = "open" /\ session.error = "None" /\ origin' = origin
      /\ Busy = {} /\ CalmOK /\ Quiet /\ Shapes /\ session.reply = "None"
  BY Working1 DEF OpenFailed, Pcs, Manned, Checkpointing, Waits
<1>2. /\ job.state \in {"Transferring", "Verifying"} /\ Clean(job.segments)
  BY <1>1 DEF CalmOK, StateAt, Moving, Manned, Checkpointing
<1>3. UNCHANGED <<parts, workers, lane, control>> /\ control' \in Seq({"Pause", "Cancel"})
  BY <1>1 DEF OpenFailed, Shapes
<1>4. PICK p \in Pcs, q \in Pcs : p = "finish" /\ q = "close"
  BY DEF Pcs, Moving
<1>5. PICK next : next = [At(p) EXCEPT !.storage_failed = TRUE]
  OBVIOUS
<1>6. IsSession(next) /\ next.pc = p /\ next.error = "None" /\ next.reply = "None"
  <2>1. IsSession(At(p)) /\ At(p).pc = p /\ At(p).error = "None" /\ At(p).reply = "None"
    BY <1>1, Goes DEF Shapes
  <2> QED
    BY <1>5, <2>1, Sets DEF Kept4
<1>7. PICK reason : \/ Unread(At("close"))
                    \/ IF job.state = "Verifying"
                         THEN Step(job, Because("RequireAction", reason), [next EXCEPT !.pc = q])
                         ELSE StopWith(job, Because("RequireAction", reason), next)
  BY <1>4, <1>5 DEF OpenFailed
<1>8. PICK c : c = Because("RequireAction", reason)
  OBVIOUS
<1>9. c.name = "RequireAction" /\ c.name \in Stopping /\ {c.total, c.validator} \subseteq Nat
  BY <1>8, CommandFields DEF Stopping, CauseKind
<1>10. CASE Unread(At("close"))
  BY <1>1, <1>3, <1>4, <1>10, Goes, UnreadOK DEF Shapes
<1>11. CASE job.state = "Verifying" /\ Step(job, c, [next EXCEPT !.pc = q])
  <2>1. PICK n : n = [next EXCEPT !.pc = q]
    OBVIOUS
  <2>2. IsSession(n) /\ n.pc = q /\ n.error = "None" /\ n.reply = "None"
    BY <1>6, <2>1, Sets DEF Kept4
  <2>3. \A k \in Execute(job, c) : k.state = "NeedsAction" /\ Clean(k.segments)
    BY <1>1, <1>2, <1>9, <1>11, Takes, Turns DEF CalmOK
  <2>4. /\ q \notin Moving \cup {"idle", "vsync"} /\ session.pc \notin Manned
        /\ \A k \in Execute(job, c) : StateAt(q, k.state)
    BY <1>1, <1>4, <2>3 DEF Manned, Checkpointing, Moving, StateAt, Unsettled, Running
  <2> QED
    BY <1>1, <1>3, <1>9, <1>11, <2>1, <2>2, <2>3, <2>4, CalmGo
<1>12. CASE job.state # "Verifying" /\ StopWith(job, c, next)
  <2>1. PICK n : n = [next EXCEPT !.stopping = TRUE]
    OBVIOUS
  <2>2. IsSession(n) /\ n.pc = "finish" /\ n.error = "None" /\ n.reply = "None"
    BY <1>4, <1>6, <2>1, Sets DEF Kept4
  <2>3. job.state \in Running /\ Step(job, c, n)
    BY <1>2, <1>12, <2>1 DEF StopWith, Running
  <2> QED
    BY <1>1, <1>3, <1>9, <2>2, <2>3, StopsClean
<1> QED
  BY <1>7, <1>8, <1>10, <1>11, <1>12

\* The session goes on with the same job.
LEMMA CalmMove ==
  ASSUME IInv, session.error = "None", session.pc \notin Manned, Quiet, workers' = workers,
         UNCHANGED <<job, record, origin>>, control' \in Seq({"Pause", "Cancel"}),
         budget' \in Budgets, PartsOK', RecordedBytesAreStable',
         IsSession(session'), session'.error = "None", session'.reply = "None",
         session'.pc \notin Manned \cup {"idle", "drain"},
         \/ lane' = lane
         \/ \E kind \in {"Sync", "Hash", "Verify", "Discard"} :
              Ask(kind) /\ session'.pc \in DOMAIN Waits /\ kind = Waits[session'.pc],
         StateAt(session'.pc, job.state),
         job.state \notin {"Cancelling", "Cancelled"} => Clean(job.segments),
         session'.pc = "finish" => session.pc = "finish" /\ parts' = parts
  PROVE  IInv'
<1>1. Busy = {} /\ CalmOK /\ Shapes /\ Freed
  BY Calms, FreedSame DEF IInv
<1>2. QueueOK' /\ lane' \in Lanes /\ lane'.generation = lane.generation
  BY <1>1, FreedQueue, AskedQueue DEF IInv, Shapes
<1>3. RecordOK'
  BY DEF IInv, RecordOK, Extents
<1>4. Shapes' /\ Busy' = {}
  BY <1>1, <1>2 DEF Shapes, Freed, Busy
<1>5. WrittenOK'
  BY <1>1, <1>2 DEF CalmOK, WrittenOK, Moving, Open, Cached
<1>6. CalmOK'
  BY <1>1, <1>5 DEF CalmOK, Extents
<1> QED
  BY <1>2, <1>3, <1>4, <1>6, Calm

\* The record's bytes stay where they are.
LEMMA SameRecorded ==
  ASSUME RecordedBytesAreStable, parts' = parts, record' = record
  PROVE  RecordedBytesAreStable'
BY DEF RecordedBytesAreStable

\* The locals once an answer of the lane was taken.
LEMMA TakenFields ==
  ASSUME IsSession(session), NEW p \in Pcs
  PROVE  /\ IsSession(Taken(p)) /\ Taken(p).pc = p /\ Taken(p).reply = "None"
         /\ Taken(p).error = session.error /\ Taken(p).after = session.after
         /\ Taken(p).hashes = session.hashes /\ Taken(p).storage_failed = session.storage_failed
<1>1. PICK s : s = At(p)
  OBVIOUS
<1>2. /\ IsSession(s) /\ s.pc = p /\ s.error = session.error /\ s.after = session.after
      /\ s.hashes = session.hashes /\ s.storage_failed = session.storage_failed
  BY <1>1, Goes
<1>3. PICK n : n = [s EXCEPT !.reply = "None"]
  OBVIOUS
<1>4. /\ IsSession(n) /\ Kept4(s, n) /\ n.pc = s.pc /\ n.storage_failed = s.storage_failed
      /\ n.reply = "None"
  BY <1>2, <1>3, Sets
<1>5. Taken(p) = n
  BY <1>1, <1>3 DEF Taken
<1> QED
  BY <1>2, <1>4, <1>5 DEF Kept4

\* finish, for a job that has nothing to drain.
LEMMA FinishOtherOK ==
  ASSUME IInv, FinishOther
  PROVE  IInv'
<1>1. /\ session.pc = "finish" /\ session.error = "None" /\ origin' = origin
      /\ Busy = {} /\ CalmOK /\ Quiet /\ Shapes /\ session.reply = "None"
  BY Working1 DEF FinishOther, Finishing, Pcs, Moving, Manned, Checkpointing, Waits
<1>2. job.state = "Cancelling"
  BY <1>1 DEF CalmOK, StateAt, FinishOther
<1>3. UNCHANGED <<job, record, workers, control, budget, parts>>
  BY DEF FinishOther, Finishing
<1>4. PICK p \in Pcs : /\ p \in {"discard", "drop"} /\ session' = At(p)
                       /\ IF p = "discard" THEN Ask("Discard") ELSE lane' = lane
  BY <1>2 DEF FinishOther, Pcs, Waits
<1>5. IsSession(session') /\ session'.pc = p /\ session'.error = "None" /\ session'.reply = "None"
  BY <1>1, <1>4, Goes DEF Shapes
<1>6. /\ p \notin Manned \cup {"idle", "drain", "finish"} /\ session.pc \notin Manned
      /\ StateAt(p, job.state) /\ (p = "discard" => p \in DOMAIN Waits /\ Waits[p] = "Discard")
  BY <1>1, <1>2, <1>4 DEF Manned, Checkpointing, StateAt, Waits
<1>7. PartsOK' /\ RecordedBytesAreStable' /\ control' \in Seq({"Pause", "Cancel"}) /\ budget' \in Budgets
  BY <1>1, <1>3, SameParts, SameRecorded DEF IInv, Shapes
<1> QED
  BY <1>1, <1>2, <1>3, <1>4, <1>5, <1>6, <1>7, CalmMove

\* drop_part, for a cancelled job whose lane was never open.
LEMMA DropPartOK ==
  ASSUME IInv, DropPart
  PROVE  IInv'
<1>1. /\ session.pc = "drop" /\ session.error = "None" /\ origin' = origin
      /\ Busy = {} /\ CalmOK /\ Quiet /\ Shapes /\ session.reply = "None"
  BY Working1 DEF DropPart, Pcs, Manned, Checkpointing, Waits
<1>2. job.state = "Cancelling"
  BY <1>1 DEF CalmOK, StateAt
<1>3. UNCHANGED <<job, record, workers, lane, control, budget>>
  BY DEF DropPart
<1>4. PICK p \in Pcs : p = "cleanup" /\ session' = At(p)
  BY DEF DropPart, Pcs
<1>5. IsSession(session') /\ session'.pc = p /\ session'.error = "None" /\ session'.reply = "None"
  BY <1>1, <1>4, Goes DEF Shapes
<1>6. /\ p \notin Manned \cup {"idle", "drain", "finish"} /\ session.pc \notin Manned
      /\ StateAt(p, job.state)
  BY <1>1, <1>2, <1>4 DEF Manned, Checkpointing, StateAt
<1>7. PartsOK'
  BY <1>1 DEF DropPart, RestrictTo, Shapes, PartsOK, IsPart
<1>8. RecordedBytesAreStable'
  <2>1. record'.job.state = "Cancelling"
    BY <1>1, <1>2, <1>3, StripOK DEF CalmOK
  <2> QED
    BY <2>1 DEF RecordedBytesAreStable
<1>9. control' \in Seq({"Pause", "Cancel"}) /\ budget' \in Budgets
  BY <1>1, <1>3 DEF Shapes
<1> QED
  BY <1>1, <1>2, <1>3, <1>5, <1>6, <1>7, <1>8, <1>9, CalmMove

\* The lane has discarded the part of a cancelled job.
LEMMA DiscardAnsweredOK ==
  ASSUME IInv, DiscardAnswered
  PROVE  IInv'
<1>1. /\ session.pc = "discard" /\ session.error = "None" /\ origin' = origin
      /\ Busy = {} /\ CalmOK /\ Quiet /\ Shapes
  BY Working1 DEF DiscardAnswered, Answered, Pcs, Manned, Checkpointing, Waits, Quiet
<1>2. job.state = "Cancelling"
  BY <1>1 DEF CalmOK, StateAt
<1>3. UNCHANGED <<job, record, parts, workers, lane, control, budget>>
  BY DEF DiscardAnswered
<1>4. PICK p \in Pcs : p = "cleanup" /\ session' = Taken(p)
  BY DEF DiscardAnswered, Pcs
<1>5. IsSession(session') /\ session'.pc = p /\ session'.error = "None" /\ session'.reply = "None"
  BY <1>1, <1>4, TakenFields DEF Shapes
<1>6. /\ p \notin Manned \cup {"idle", "drain", "finish"} /\ session.pc \notin Manned
      /\ StateAt(p, job.state)
  BY <1>1, <1>2, <1>4 DEF Manned, Checkpointing, StateAt
<1>7. PartsOK' /\ RecordedBytesAreStable' /\ control' \in Seq({"Pause", "Cancel"}) /\ budget' \in Budgets
  BY <1>1, <1>3, SameParts, SameRecorded DEF IInv, Shapes
<1> QED
  BY <1>1, <1>2, <1>3, <1>5, <1>6, <1>7, CalmMove

\* CleanupFinished: the job is cancelled.
LEMMA CleanupOK ==
  ASSUME IInv, Cleanup
  PROVE  IInv'
<1>1. /\ session.pc = "cleanup" /\ session.error = "None" /\ origin' = origin
      /\ Busy = {} /\ CalmOK /\ Quiet /\ Shapes /\ session.reply = "None"
  BY Working1 DEF Cleanup, Pcs, Manned, Checkpointing, Waits
<1>2. PICK p \in Pcs : p = "close"
  BY DEF Pcs
<1>3. IsSession(At(p)) /\ At(p).pc = p /\ At(p).error = "None" /\ At(p).reply = "None"
  BY <1>1, Goes DEF Shapes
<1>4. PICK c : c = Command("CleanupFinished")
  OBVIOUS
<1>5. c.name = "CleanupFinished" /\ {c.total, c.validator} \subseteq Nat
  BY <1>4, CommandFields
<1>6. \A k \in Execute(job, c) : k.state = "Cancelled"
  BY <1>1, <1>5, Takes DEF CalmOK
<1>7. Step(job, c, At(p)) /\ UNCHANGED <<parts, workers, lane, control>>
  BY <1>2, <1>4 DEF Cleanup
<1>8. /\ p \notin Moving \cup {"idle", "vsync"} /\ session.pc \notin Manned
      /\ \A k \in Execute(job, c) : StateAt(p, k.state)
  BY <1>1, <1>2, <1>6 DEF Manned, Checkpointing, Moving, StateAt, Unsettled, Running
<1> QED
  BY <1>1, <1>3, <1>5, <1>6, <1>7, <1>8, CalmGo

\* A job at its end needs a decision, or is passed on: nothing is at work in either case.
LEMMA CalmVerdict ==
  ASSUME IInv, session.error = "None", session.pc \in {"vsync", "verify", "publish"}, Quiet,
         workers' = workers, parts' = parts, lane' = lane, origin' = origin, control' = control,
         NEW c, {c.total, c.validator} \subseteq Nat,
         NEW next, IsSession(next), next.error = "None", next.reply = "None",
         \/ c.name = "RequireAction" /\ next.pc = "close"
         \/ c.name = "VerificationPassed" /\ next.pc = "publish",
         Step(job, c, next)
  PROVE  IInv'
<1>1. CalmOK /\ session.pc \notin Manned
  BY Calms DEF Manned, Checkpointing
<1>2. job.state \in {"Verifying", "Publishing"} /\ Clean(job.segments)
  BY <1>1 DEF CalmOK, StateAt, Moving, Manned, Checkpointing
<1>3. next.pc \notin Moving \cup {"idle", "vsync"}
  BY DEF Moving, Manned, Checkpointing
<1>4. \A k \in Execute(job, c) : StateAt(next.pc, k.state) /\ Clean(k.segments)
  <2> SUFFICES ASSUME NEW k \in Execute(job, c)
               PROVE  StateAt(next.pc, k.state) /\ Clean(k.segments)
    OBVIOUS
  <2>1. JobOK(job) BY <1>1 DEF CalmOK
  <2>2. k.segments = job.segments
    BY <2>1, Turns
  <2>3. c.name = "RequireAction" => k.state = "NeedsAction"
    BY <1>2, <2>1, Takes
  <2>4. c.name = "VerificationPassed" => k.state = "Publishing"
    BY <2>1, Takes
  <2> QED
    BY <1>2, <2>2, <2>3, <2>4 DEF StateAt, Unsettled, Running
<1> QED
  BY <1>1, <1>3, <1>4, CalmGo

\* verify, after its sync.
LEMMA VerifySyncedOK ==
  ASSUME IInv, VerifySynced
  PROVE  IInv'
<1>1. /\ session.pc = "vsync" /\ session.error = "None" /\ origin' = origin
      /\ Busy = {} /\ CalmOK /\ Quiet /\ Shapes
  BY Working1 DEF VerifySynced, Answered, Pcs, Manned, Checkpointing, Waits, Quiet
<1>2. job.state = "Verifying" /\ Clean(job.segments)
  BY <1>1 DEF CalmOK, StateAt, Moving, Manned, Checkpointing
<1>3. UNCHANGED <<parts, workers, control>>
  BY DEF VerifySynced
<1>4. PICK p \in Pcs, q \in Pcs : p = "close" /\ q = "verify"
  BY DEF Pcs, Waits
<1>5. \A x \in {p, q} : /\ IsSession(Taken(x)) /\ Taken(x).pc = x
                        /\ Taken(x).error = "None" /\ Taken(x).reply = "None"
  BY <1>1, TakenFields DEF Shapes
<1>6. CASE Ask("Verify") /\ session' = Taken(q) /\ UNCHANGED <<job, record, budget>>
  <2>1. IsSession(session') /\ session'.pc = q /\ session'.error = "None" /\ session'.reply = "None"
    BY <1>5, <1>6
  <2>2. /\ q \notin Manned \cup {"idle", "drain", "finish"} /\ session.pc \notin Manned
        /\ StateAt(q, job.state) /\ q \in DOMAIN Waits /\ Waits[q] = "Verify"
    BY <1>1, <1>2, <1>4 DEF Manned, Checkpointing, StateAt, Waits
  <2>3. PartsOK' /\ RecordedBytesAreStable' /\ control' \in Seq({"Pause", "Cancel"}) /\ budget' \in Budgets
    BY <1>1, <1>3, <1>6, SameParts, SameRecorded DEF IInv, Shapes
  <2> QED
    BY <1>1, <1>2, <1>3, <1>6, <2>1, <2>2, <2>3, CalmMove
<1>7. CASE Unread(Taken(p)) /\ UNCHANGED lane
  BY <1>1, <1>3, <1>5, <1>7, UnreadOK
<1>8. CASE Step(job, Because("RequireAction", "Storage"), Taken(p)) /\ UNCHANGED lane
  <2>1. PICK c : c = Because("RequireAction", "Storage")
    OBVIOUS
  <2>2. c.name = "RequireAction" /\ {c.total, c.validator} \subseteq Nat
    BY <2>1, CommandFields
  <2> QED
    BY <1>1, <1>3, <1>4, <1>5, <1>8, <2>1, <2>2, CalmVerdict
<1> QED
  BY <1>4, <1>6, <1>7, <1>8 DEF VerifySynced

\* verify, after the digest was compared.
LEMMA VerifyAnsweredOK ==
  ASSUME IInv, VerifyAnswered
  PROVE  IInv'
<1>1. /\ session.pc = "verify" /\ session.error = "None" /\ origin' = origin
      /\ Busy = {} /\ CalmOK /\ Quiet /\ Shapes
  BY Working1 DEF VerifyAnswered, Answered, Pcs, Manned, Checkpointing, Waits, Quiet
<1>2. UNCHANGED <<parts, workers, lane, control>>
  BY DEF VerifyAnswered
<1>3. PICK p \in Pcs, q \in Pcs : p = "close" /\ q = "publish"
  BY DEF Pcs
<1>4. \A x \in {p, q} : /\ IsSession(Taken(x)) /\ Taken(x).pc = x
                        /\ Taken(x).error = "None" /\ Taken(x).reply = "None"
  BY <1>1, TakenFields DEF Shapes
<1>5. CASE Unread(Taken(p))
  BY <1>1, <1>2, <1>4, <1>5, UnreadOK
<1>6. CASE Step(job, Command("VerificationPassed"), Taken(q))
  <2>1. PICK c : c = Command("VerificationPassed")
    OBVIOUS
  <2>2. c.name = "VerificationPassed" /\ {c.total, c.validator} \subseteq Nat
    BY <2>1, CommandFields
  <2> QED
    BY <1>1, <1>2, <1>3, <1>4, <1>6, <2>1, <2>2, CalmVerdict
<1>7. CASE Step(job, Because("RequireAction", session.reply), Taken(p))
  <2>1. PICK c : c = Because("RequireAction", session.reply)
    OBVIOUS
  <2>2. c.name = "RequireAction" /\ {c.total, c.validator} \subseteq Nat
    BY <2>1, CommandFields
  <2> QED
    BY <1>1, <1>2, <1>3, <1>4, <1>7, <2>1, <2>2, CalmVerdict
<1> QED
  BY <1>3, <1>5, <1>6, <1>7 DEF VerifyAnswered

\* publish ended in one of its ways.
LEMMA PublishEndedOK ==
  ASSUME IInv, PublishEnded
  PROVE  IInv'
<1>1. /\ session.pc = "publish" /\ session.error = "None" /\ origin' = origin
      /\ Busy = {} /\ CalmOK /\ Quiet /\ Shapes /\ session.reply = "None"
  BY Working1 DEF PublishEnded, Pcs, Manned, Checkpointing, Waits
<1>2. job.state = "Publishing" /\ Clean(job.segments)
  BY <1>1 DEF CalmOK, StateAt, Moving, Manned, Checkpointing
<1>3. UNCHANGED <<workers, lane, control>>
  BY DEF PublishEnded
<1>4. PICK p \in Pcs : p = "close"
  BY DEF Pcs
<1>5. IsSession(At(p)) /\ At(p).pc = p /\ At(p).error = "None" /\ At(p).reply = "None"
  BY <1>1, Goes DEF Shapes
<1>6. CASE Unread(At(p)) /\ UNCHANGED parts
  BY <1>1, <1>3, <1>5, <1>6, UnreadOK
<1>7. ASSUME NEW reason, Step(job, Because("RequireAction", reason), At(p)), UNCHANGED parts
      PROVE  IInv'
  <2>1. PICK c : c = Because("RequireAction", reason)
    OBVIOUS
  <2>2. c.name = "RequireAction" /\ {c.total, c.validator} \subseteq Nat
    BY <2>1, CommandFields
  <2> QED
    BY <1>1, <1>3, <1>4, <1>5, <1>7, <2>1, <2>2, CalmVerdict
<1>8. CASE /\ Step(job, Command("PublishCommitted"), At(p))
           /\ parts' \in {parts} \cup
                Only(job'.state = "Completed", RestrictTo(parts, DOMAIN parts \ {job.generation}))
  <2>1. PICK c : c = Command("PublishCommitted")
    OBVIOUS
  <2>2. c.name = "PublishCommitted" /\ {c.total, c.validator} \subseteq Nat
    BY <2>1, CommandFields
  <2>3. \A k \in Execute(job, c) : k.state = "Completed" /\ Clean(k.segments)
    BY <1>1, <1>2, <2>2, Takes, Turns DEF CalmOK
  <2>4. /\ p \notin Moving \cup {"idle", "vsync"} /\ session.pc \notin Manned
        /\ \A k \in Execute(job, c) : StateAt(p, k.state)
    BY <1>1, <1>4, <2>3 DEF Manned, Checkpointing, Moving, StateAt, Unsettled, Running
  <2>5. parts' = parts \/ (PartsOK' /\ job'.state = "Completed" /\ job.state # "Completed")
    BY <1>1, <1>2, <1>8 DEF Only, RestrictTo, Shapes, PartsOK, IsPart
  <2> QED
    BY <1>1, <1>3, <1>5, <1>8, <2>1, <2>2, <2>3, <2>4, <2>5, CalmGo
<1> QED
  BY <1>4, <1>6, <1>7, <1>8 DEF PublishEnded

-----------------------------------------------------------------------------
(***************************************************************************)
(* The ends of a session, and the environment.                             *)
(***************************************************************************)

\* Channel, source and budget are not part of what the invariant relates.
LEMMA Frame ==
  ASSUME IInv, UNCHANGED <<job, record, parts, workers, lane>>, IsSession(session'),
         session'.pc = session.pc, session'.after = session.after,
         session'.storage_failed = session.storage_failed, session'.hashes = session.hashes,
         session'.reply = session.reply, session'.error = session.error,
         origin' \in DOMAIN Size, control' \in Seq({"Pause", "Cancel"}), budget' \in Budgets
  PROVE  IInv'
<1>1. Shapes'
  BY SameParts DEF IInv, Shapes
<1>2. RecordOK' /\ RecordedBytesAreStable'
  BY DEF IInv, RecordOK, Extents, RecordedBytesAreStable
<1>3. Busy' = Busy /\ Open' = Open /\ Cached' = Cached /\ OnDisk' = OnDisk /\ Extents' = Extents
  BY DEF Busy, Open, Cached, OnDisk, Extents
<1>4. WorkersOK'
  BY <1>3 DEF IInv, WorkersOK, WorkerOK
<1>5. QueueOK'
  BY DEF IInv, QueueOK, Waiting, IsAsked
<1>6. session.error = "None" => LiveOK'
  <2> SUFFICES ASSUME LiveOK PROVE LiveOK'
    BY DEF IInv
  <2>1. JobOK(job') /\ Match' /\ StateAt(session'.pc, job'.state)
    BY <1>3 DEF LiveOK, Match
  <2>2. LeasesOK' /\ WrittenOK'
    BY <1>3 DEF LiveOK, LeasesOK, WrittenOK
  <2>3. CheckpointOK'
    BY <1>3 DEF LiveOK, CheckpointOK
  <2> QED
    BY <2>1, <2>2, <2>3 DEF LiveOK
<1> QED
  BY <1>1, <1>2, <1>3, <1>4, <1>5, <1>6 DEF IInv

\* A control is sent.
LEMMA SendOK ==
  ASSUME IInv, NEW message \in {"Pause", "Cancel"}, Send(message)
  PROVE  IInv'
<1>1. Shapes
  BY DEF IInv
<1>2. control' \in Seq({"Pause", "Cancel"}) /\ budget' \in Budgets
  BY <1>1, Spends DEF Send, Shapes
<1> QED
  BY <1>1, <1>2, Frame DEF Send, Shapes

\* The source serves another representation.
LEMMA SourceChangesOK ==
  ASSUME IInv, SourceChanges
  PROVE  IInv'
BY Spends, Frame DEF SourceChanges, Shapes, IInv

\* close cancels the workers.
LEMMA CloseStopWorkersOK ==
  ASSUME IInv, CloseStopWorkers
  PROVE  IInv'
<1>1. IsSession(session) /\ Shapes
  BY DEF IInv, Shapes
<1>2. session' = [session EXCEPT !.stopping = TRUE]
  BY DEF CloseStopWorkers
<1>3. /\ IsSession(session') /\ Kept4(session, session') /\ session'.pc = session.pc
      /\ session'.storage_failed = session.storage_failed /\ session'.reply = session.reply
  BY <1>1, <1>2, Sets
<1> QED
  BY <1>1, <1>3, Frame DEF CloseStopWorkers, Coordinating, Shapes, Kept4

\* A session that is not there, or begins.
NewSession(p, l, e) ==
  [pc |-> p, live |-> l, after |-> "close", stopping |-> FALSE, storage_failed |-> FALSE,
   unsynced |-> 0, attempt |-> 0, hashes |-> None, reply |-> "None", error |-> e]

\* The locals of a session that begins, ends or was lost in a crash.
LEMMA NewSessions ==
  ASSUME NEW p \in Pcs, NEW l \in BOOLEAN, NEW e \in Errors
  PROVE  LET s == NewSession(p, l, e) IN
         IsSession(s) /\ s.pc = p /\ s.reply = "None" /\ s.error = e
<1>1. PICK h : h = None
  OBVIOUS
<1> DEFINE T == [pc : Pcs, live : BOOLEAN, after : Afters, stopping : BOOLEAN,
                 storage_failed : BOOLEAN, unsynced : Nat, attempt : Nat, hashes : {h},
                 reply : Replies, error : Errors]
           n == [pc |-> p, live |-> l, after |-> "close", stopping |-> FALSE,
                 storage_failed |-> FALSE, unsynced |-> 0, attempt |-> 0, hashes |-> h,
                 reply |-> "None", error |-> e]
<1>2. n \in T
  BY DEF Afters, Replies
<1>3. n.pc = p /\ n.reply = "None" /\ n.error = e /\ n.hashes = h
  OBVIOUS
<1>4. n = NewSession(p, l, e)
  BY <1>1 DEF NewSession
<1> HIDE DEF n
<1> QED
  BY <1>2, <1>3, <1>4 DEF IsSession

\* Nobody at work and nothing asked.
LEMMA NobodyThere ==
  ASSUME workers' = [w \in Slots |-> NoTask], lane' = NoLane
  PROVE  /\ workers' \in [Slots -> Tasks] /\ Busy' = {} /\ lane' \in Lanes /\ QueueOK' /\ WorkersOK'
         /\ lane'.queue = <<>>
<1>1. PICK ph \in Phases : ph = "free"
  BY DEF Phases
<1>2. NoTask \in Tasks /\ NoTask.phase = "free"
  <2>1. [bytes |-> {}, at |-> 0, content |-> 0, phase |-> ph] \in Tasks
    BY DEF Tasks
  <2> QED
    BY <1>1, <2>1 DEF NoTask
<1>3. workers' \in [Slots -> Tasks] /\ Busy' = {}
  BY <1>2 DEF Busy
<1>4. lane' \in Lanes /\ lane'.queue = <<>>
  BY DEF NoLane, Lanes
<1>5. QueueOK'
  BY <1>4 DEF QueueOK, Waiting
<1>6. WorkersOK'
  BY <1>3 DEF WorkersOK, WorkerOK, Busy
<1> QED
  BY <1>3, <1>4, <1>5, <1>6

\* close: the workers are joined and the lane is empty.
LEMMA CloseOK ==
  ASSUME IInv, Close
  PROVE  IInv'
<1>1. /\ session.pc = "close" /\ origin' = origin /\ Shapes /\ session.error \in Errors
      /\ UNCHANGED <<job, record, parts, control, budget>>
  BY DEF Close, Coordinating, IInv, Shapes, IsSession
<1>2. PICK p \in Pcs, l \in BOOLEAN : p = "idle" /\ l = FALSE
  BY DEF Pcs
<1>3. PICK e \in Errors : e = session.error
  BY <1>1
<1>4. /\ IsSession(session') /\ session'.pc = "idle" /\ session'.reply = "None"
      /\ session'.error = session.error
  <2>1. session' = NewSession(p, l, e)
    BY <1>2, <1>3 DEF Close, NoSession, NewSession
  <2> QED
    BY <1>2, <1>3, <2>1, NewSessions
<1>5. /\ workers' \in [Slots -> Tasks] /\ Busy' = {} /\ lane' \in Lanes /\ QueueOK' /\ WorkersOK'
      /\ lane'.queue = <<>>
  BY NobodyThere DEF Close
<1>6. Shapes' /\ RecordOK' /\ RecordedBytesAreStable'
  <2>1. RecordOK' /\ RecordedBytesAreStable'
    BY <1>1 DEF IInv, RecordOK, Extents, RecordedBytesAreStable
  <2> QED
    BY <1>1, <1>4, <1>5, <2>1, SameParts DEF Shapes
<1>7. CASE session.error # "None"
  BY <1>4, <1>5, <1>6, <1>7 DEF IInv
<1>8. CASE session.error = "None"
  <2>1. CalmOK
    BY <1>1, <1>8, Calms DEF Manned, Checkpointing
  <2>2. session.pc \notin Moving /\ session'.pc \notin Moving
    BY <1>1, <1>4 DEF Moving, Manned, Checkpointing
  <2>3. CalmOK'
    BY <1>1, <1>4, <2>1, <2>2 DEF CalmOK, WrittenOK, Extents, StateAt, Moving
  <2> QED
    BY <1>4, <1>5, <1>6, <1>8, <2>2, <2>3, Calm DEF Moving
<1> QED
  BY <1>7, <1>8

\* A session begins.
LEMMA DriveOK ==
  ASSUME IInv, Drive
  PROVE  IInv'
<1>1. session.pc = "idle" /\ session.error = "None" /\ Shapes /\ session.pc \notin Manned
  BY DEF Drive, IInv, Manned, Checkpointing
<1>2. Busy = {} /\ CalmOK /\ Quiet
  BY <1>1, Calms DEF Quiet, Waits
<1>3. PICK p \in Pcs, l \in BOOLEAN, e \in Errors : p = FirstStop[job.state] /\ l = TRUE /\ e = "None"
  <2>1. FirstStop[job.state] \in {"start", "open", "publish"}
    BY DEF Drive, FirstStop
  <2>2. FirstStop[job.state] \in Pcs /\ "None" \in Errors /\ TRUE \in BOOLEAN
    BY <2>1 DEF Pcs, Errors
  <2> QED
    BY <2>2
<1>4. session' = NewSession(p, l, e)
  BY <1>3 DEF Drive, NoSession, NewSession
<1>5. IsSession(session') /\ session'.pc = p /\ session'.reply = "None" /\ session'.error = "None"
  BY <1>3, <1>4, NewSessions, ZenonT(60)
<1>6. /\ p \notin Manned \cup {"idle", "drain", "finish"} /\ StateAt(p, job.state)
      /\ job.state \notin {"Cancelling", "Cancelled"}
  BY <1>3 DEF Drive, FirstStop, Manned, Checkpointing, StateAt
<1>7. Clean(job.segments)
  BY <1>1, <1>2, <1>6 DEF CalmOK, Moving, Manned, Checkpointing
<1>8. /\ UNCHANGED <<job, record, parts, origin, workers, lane>>
      /\ control' \in Seq({"Pause", "Cancel"}) /\ budget' \in Budgets
  BY <1>1, Spends DEF Drive, Shapes
<1>9. PartsOK' /\ RecordedBytesAreStable'
  BY <1>1, <1>8, SameParts, SameRecorded DEF IInv
<1> QED
  BY <1>1, <1>2, <1>5, <1>6, <1>7, <1>8, <1>9, CalmMove

\* A command is given to a job at rest.
LEMMA AtRestOK ==
  ASSUME IInv, NEW c \in RestCommands, AtRest(c)
  PROVE  IInv'
<1>1. session.pc = "idle" /\ session.error = "None" /\ Shapes /\ session.pc \notin Manned \cup Moving
      /\ origin' = origin
  BY DEF AtRest, Coordinating, IInv, Manned, Moving, Checkpointing
<1>2. Busy = {} /\ CalmOK /\ Quiet
  BY <1>1, Calms DEF Quiet, Waits
<1>3. PICK k \in Execute(job, c) \ {job} : job' = k /\ record' = Recorded(k) /\ session' = Settle(k)
  BY DEF AtRest
<1>4. c.total \in Nat /\ c.validator \in Nat /\ c.name \notin {"ProbeSucceeded", "WorkersDrained"}
  BY DEF RestCommands, Command, NoValidator
<1>5. UNCHANGED <<parts, workers, lane, control>> /\ budget' \in Budgets
  BY <1>1, Spends DEF AtRest, Shapes
<1>6. /\ RecordOK' /\ RecordedBytesAreStable' /\ record'.job = Strip(k) /\ JobOK(k)
      /\ Kin(job, c, k)
      /\ IF k.generation = job.generation THEN record'.extents = record.extents
                                          ELSE record'.extents = None
  BY <1>2, <1>3, <1>4, <1>5, RecordStep DEF IInv, CalmOK
<1>7. /\ k.segments.leased = {} /\ k.segments.ckpt = NoCheckpoint
      /\ k.segments.durable = Extents'
      /\ job.state # "Cancelled" => Clean(k.segments)
  <2>1. DOMAIN None = {} /\ job.generation \in Nat
    BY <1>2, JobFields DEF None, CalmOK
  <2>2. job.state # "Cancelled" => Clean(job.segments)
    BY <1>1, <1>2 DEF CalmOK, StateAt, Unsettled, Running
  <2>3. CASE k.segments = job.segments /\ k.generation = job.generation
    BY <1>2, <1>6, <2>2, <2>3 DEF Extents, CalmOK
  <2>4. CASE k.segments = NoMap /\ k.generation = job.generation + 1
    BY <1>6, <2>1, <2>4, Plans DEF Extents, Clean
  <2> QED
    BY <1>4, <1>6, <2>3, <2>4 DEF Kin
<1>8. job.state # "Cancelled"
  <2>1. Arms(job, c, k)
    BY <1>3, ExecuteArms
  <2> QED
    BY <1>3, <2>1 DEF Arms, Running, Resumable
<1>9. PICK p \in Pcs : p = IF k.state \in Unsettled THEN "recover" ELSE "idle"
  BY DEF Pcs
<1>10. session' = At(p)
  BY <1>3, <1>9 DEF Settle, At
<1>11. /\ IsSession(session') /\ session'.pc = p /\ session'.error = "None"
       /\ session'.reply = session.reply
  BY <1>1, <1>10, Goes DEF Shapes
<1>12. session.reply = "None" /\ lane.queue = <<>>
  BY <1>1, <1>2 DEF CalmOK, Waits, IInv
<1>13. Freed /\ QueueOK' /\ Busy' = {}
  BY <1>1, <1>2, <1>5, FreedSame, FreedQueue DEF IInv, Busy
<1>14. Shapes'
  BY <1>1, <1>5, <1>11, SameParts DEF Shapes
<1>15. p \notin Moving /\ StateAt(p, k.state) /\ p \notin Manned
  BY <1>9 DEF Moving, Manned, Checkpointing, StateAt, Unsettled, Running
<1>16. CalmOK'
  BY <1>3, <1>6, <1>7, <1>8, <1>11, <1>12, <1>15 DEF CalmOK, WrittenOK, Moving
<1> QED
  BY <1>5, <1>6, <1>11, <1>12, <1>13, <1>14, <1>15, <1>16, Calm

\* A reloaded job is the record's, with the recorded bytes and nothing at work.
LEMMA ReloadedOK ==
  ASSUME RecordOK
  PROVE  /\ JobOK(Reloaded) /\ record.job = Strip(Reloaded)
         /\ Reloaded.segments.durable = Extents /\ Clean(Reloaded.segments)
         /\ Reloaded.state = record.job.state
<1> DEFINE j == record.job
           m == IF j.segments = NoMap THEN NoMap ELSE Restored(j.segments.total, Extents)
<1>1. JobOK(j) /\ j = Strip(j)
  BY DEF RecordOK
<1>2. Reloaded = After(j, j.state, j.generation, j.reason, j.retry_at, j.stop, j.replace_on_drain,
                       j.attempts, j.validator, m)
  BY <1>1, Zenon DEF Reloaded, After, JobOK, Extents
<1>3. /\ PlanOK(m) /\ Clean(m) /\ (m = NoMap) = (j.segments = NoMap)
      /\ m.total = j.segments.total /\ m.durable = Extents
      /\ j.validator = NoValidator => OneSegment(m)
  <2>1. CASE j.segments = NoMap
    <3>1. Extents = {}
      BY <2>1, Plans DEF RecordOK, Bytes
    <3> QED
      BY <2>1, <3>1, Plans
  <2>2. CASE j.segments # NoMap
    <3>1. PICK t \in Nat : t = j.segments.total
      BY <1>1, <2>2, JobFields DEF PlanOK
    <3>2. PICK E \in SUBSET Bytes(t) : E = Extents
      BY <3>1 DEF RecordOK
    <3>3. m = [total |-> t, leased |-> {}, written |-> {}, durable |-> E, frozen |-> {},
               ckpt |-> NoCheckpoint]
      BY <2>2, <3>1, <3>2 DEF Restored, Fresh
    <3>4. /\ m.total = t /\ m.leased = {} /\ m.written = {} /\ m.durable = E /\ m.frozen = {}
          /\ m.ckpt = NoCheckpoint /\ m \in ProgressOf(t)
      BY <3>3 DEF ProgressOf
    <3>5. m # NoMap /\ t # -1
      BY <3>4, Plans
    <3>6. PlanOK(m) /\ Clean(m)
      BY <3>4, <3>5 DEF PlanOK, Clean
    <3>7. j.validator = NoValidator => OneSegment(m)
      <4>1. j.validator = NoValidator => E \in {{}, Bytes(t)}
        BY <3>1, <3>2 DEF RecordOK, Whole
      <4> QED
        BY <3>4, <4>1 DEF OneSegment, Whole
    <3> QED
      BY <2>2, <3>1, <3>2, <3>4, <3>5, <3>6, <3>7
  <2> QED
    BY <2>1, <2>2
<1> HIDE DEF m
<1>4. JobOK(Reloaded) /\ Reloaded.state = j.state /\ Reloaded.segments = m
  <2>1. PICK k : k = Reloaded
    OBVIOUS
  <2>2. /\ j.state \in States /\ j.generation \in Nat /\ j.validator \in Nat
        /\ Stopped(j.state, j.stop, j.replace_on_drain)
        /\ j.state = "Transferring" => j.segments # NoMap
    BY <1>1, JobFields
  <2> QED
    BY <1>1, <1>2, <1>3, <2>1, <2>2, JobFrom
<1>5. Strip(Reloaded) = j
  <2>1. PICK n : n = IF m = NoMap THEN NoMap ELSE Fresh(m.total)
    OBVIOUS
  <2>2. Strip(Reloaded) = [Reloaded EXCEPT !.segments = n]
    BY <1>4, <2>1 DEF Strip
  <2>3. Reloaded = [j EXCEPT !.segments = m]
    BY DEF Reloaded, m, Extents
  <2>4. Strip(Reloaded) = [j EXCEPT !.segments = n]
    BY <2>2, <2>3, Zenon
  <2>5. Strip(j) = [j EXCEPT !.segments = n]
    BY <1>3, <2>1 DEF Strip
  <2> QED
    BY <1>1, <2>4, <2>5
<1> QED
  BY <1>3, <1>4, <1>5

\* What a crash leaves of a part has every byte that was both synced and not overwritten since.
LEMMA SurvivorsKeep ==
  ASSUME NEW part, NEW s \in Survivors(part), NEW b \in DOMAIN part.stable,
         b \in DOMAIN part.cached, part.cached[b] = part.stable[b]
  PROVE  b \in DOMAIN s /\ s[b] = part.stable[b]
<1>1. PICK S \in SUBSET DOMAIN part.cached : s = Override(part.stable, RestrictTo(part.cached, S))
  BY DEF Survivors
<1> QED
  BY <1>1 DEF Override, RestrictTo

\* A crash: the job is what the record says, the parts what reached the disk.
LEMMA CrashOK ==
  ASSUME IInv, Crash
  PROVE  IInv'
<1>1. RecordOK /\ RecordedBytesAreStable /\ Shapes
  BY DEF IInv
<1>2. /\ JobOK(Reloaded) /\ record.job = Strip(Reloaded)
      /\ Reloaded.segments.durable = Extents /\ Clean(Reloaded.segments)
      /\ Reloaded.state = record.job.state
  BY <1>1, ReloadedOK
<1>3. job' = Reloaded /\ UNCHANGED <<record, origin>> /\ budget' \in Budgets
      /\ control' \in Seq({"Pause", "Cancel"})
  BY <1>1, Spends DEF Crash, Shapes
<1>4. /\ workers' \in [Slots -> Tasks] /\ Busy' = {} /\ lane' \in Lanes /\ QueueOK' /\ WorkersOK'
      /\ lane'.queue = <<>>
  BY NobodyThere DEF Crash
<1>5. PICK p \in Pcs : p = IF Reloaded.state \in Unsettled THEN "recover" ELSE "idle"
  BY DEF Pcs
<1>6. PICK e \in Errors, l \in BOOLEAN : e = "None" /\ l = FALSE
  BY DEF Errors
<1>7. session' = NewSession(p, l, e)
  BY <1>5, <1>6 DEF Crash, NoSession, NewSession
<1>8. IsSession(session') /\ session'.pc = p /\ session'.reply = "None" /\ session'.error = "None"
  BY <1>6, <1>7, NewSessions
<1>9. /\ parts' = [g \in DOMAIN parts |-> parts'[g]] /\ DOMAIN parts' = DOMAIN parts
      /\ \A g \in DOMAIN parts : \E s \in Survivors(parts[g]) : parts'[g] = [cached |-> s, stable |-> s]
  <2>1. PICK R : /\ R = UNION {{[cached |-> s, stable |-> s] : s \in Survivors(parts[g])} :
                                 g \in DOMAIN parts}
                 /\ parts' \in [DOMAIN parts -> R]
                 /\ \A g \in DOMAIN parts : parts'[g].stable \in Survivors(parts[g])
    BY DEF Crash
  <2>2. \A r \in R : \E s : r = [cached |-> s, stable |-> s]
    BY <2>1
  <2>3. ASSUME NEW g \in DOMAIN parts
        PROVE  \E s \in Survivors(parts[g]) : parts'[g] = [cached |-> s, stable |-> s]
    <3>1. PICK s : parts'[g] = [cached |-> s, stable |-> s]
      BY <2>1, <2>2
    <3> QED
      BY <2>1, <3>1
  <2> QED
    BY <2>1, <2>3
<1>10. PartsOK'
  BY <1>9 DEF PartsOK, IsPart
<1>11. RecordedBytesAreStable'
  <2> SUFFICES ASSUME record.job.state \notin {"Cancelling", "Cancelled", "Completed"},
                      NEW b \in DOMAIN record.extents
               PROVE  LET g == record.job.generation IN
                      /\ g \in DOMAIN parts'
                      /\ b \in DOMAIN parts'[g].stable /\ parts'[g].stable[b] = record.extents[b]
                      /\ b \in DOMAIN parts'[g].cached /\ parts'[g].cached[b] = record.extents[b]
    BY <1>3 DEF RecordedBytesAreStable
  <2>1. PICK g : g = record.job.generation
    OBVIOUS
  <2>2. /\ g \in DOMAIN parts
        /\ b \in DOMAIN parts[g].stable /\ parts[g].stable[b] = record.extents[b]
        /\ b \in DOMAIN parts[g].cached /\ parts[g].cached[b] = record.extents[b]
    BY <1>1, <2>1 DEF RecordedBytesAreStable
  <2>3. PICK s \in Survivors(parts[g]) : parts'[g] = [cached |-> s, stable |-> s]
    BY <1>9, <2>2
  <2>4. b \in DOMAIN s /\ s[b] = record.extents[b]
    BY <2>2, SurvivorsKeep
  <2> QED
    BY <1>9, <2>1, <2>2, <2>3, <2>4
<1>12. RecordOK' /\ Extents' = Extents
  BY <1>1, <1>3 DEF RecordOK, Extents
<1>13. Shapes'
  BY <1>1, <1>3, <1>4, <1>8, <1>10 DEF Shapes
<1>14. p \notin Moving /\ p \notin Manned /\ StateAt(p, Reloaded.state)
  BY <1>5 DEF Moving, Manned, Checkpointing, StateAt, Unsettled, Running
<1>15. CalmOK'
  BY <1>2, <1>3, <1>8, <1>12, <1>14 DEF CalmOK, WrittenOK, Clean, Moving
<1> QED
  BY <1>4, <1>8, <1>11, <1>12, <1>13, <1>14, <1>15, Calm

\* recover: the restored job is settled.
LEMMA RecoverOK ==
  ASSUME IInv, Recover
  PROVE  IInv'
<1>1. /\ session.pc = "recover" /\ session.error = "None" /\ origin' = origin
      /\ Busy = {} /\ CalmOK /\ Quiet /\ Shapes /\ session.reply = "None"
      /\ session.pc \notin Manned \cup Moving
  BY Working1 DEF Recover, Pcs, Manned, Moving, Checkpointing, Waits
<1>2. job.state \notin {"Cancelling", "Cancelled"} => Clean(job.segments)
  BY <1>1 DEF CalmOK
<1>3. UNCHANGED <<parts, workers, lane, control>> /\ JobOK(job)
  BY <1>1 DEF Recover, CalmOK
<1>4. \A p \in Pcs : IsSession(At(p)) /\ At(p).pc = p /\ At(p).error = "None" /\ At(p).reply = "None"
  BY <1>1, Goes DEF Shapes
<1>5. {"recover", "close", "drop"} \subseteq Pcs \ (Moving \cup Manned \cup {"idle", "vsync", "drain", "finish"})
  BY DEF Pcs, Moving, Manned, Checkpointing
<1>6. ASSUME NEW p \in {"close", "drop"}, session' = At(p), UNCHANGED <<job, record, budget>>,
             StateAt(p, job.state)
      PROVE  IInv'
  <2>1. IsSession(session') /\ session'.pc = p /\ session'.error = "None" /\ session'.reply = "None"
    BY <1>4, <1>5, <1>6
  <2>2. PartsOK' /\ RecordedBytesAreStable' /\ control' \in Seq({"Pause", "Cancel"}) /\ budget' \in Budgets
    BY <1>1, <1>3, <1>6, SameParts, SameRecorded DEF IInv, Shapes
  <2>3. session'.pc \notin Manned \cup {"idle", "drain", "finish"}
    BY <1>5, <2>1
  <2> QED
    BY <1>1, <1>2, <1>3, <1>6, <2>1, <2>2, <2>3, CalmMove
<1>7. ASSUME NEW name \in {"Pause", "WorkersDrained"}, NEW p \in {"recover", "close"},
             Step(job, Command(name), At(p)),
             \A k \in Execute(job, Command(name)) : StateAt(p, k.state) /\ Clean(k.segments)
      PROVE  IInv'
  <2>1. PICK c : c = Command(name)
    OBVIOUS
  <2>2. {c.total, c.validator} \subseteq Nat
    BY <2>1, CommandFields
  <2>3. p \in Pcs /\ p \notin Moving \cup {"idle", "vsync"}
    BY <1>5
  <2> QED
    BY <1>1, <1>3, <1>4, <1>7, <2>1, <2>2, <2>3, CalmGo
<1>8. PICK c, d : /\ c = Command("Pause") /\ c.name = "Pause"
                  /\ d = Command("WorkersDrained") /\ d.name = "WorkersDrained"
  BY CommandFields
<1>9. CASE job.state \in Running /\ Step(job, Command("Pause"), At("recover"))
  <2>1. \A k \in Execute(job, c) : k.state = "Stopping" /\ k.segments = job.segments
    BY <1>3, <1>8, <1>9, Takes DEF CauseKind
  <2>2. Clean(job.segments)
    BY <1>2, <1>9 DEF Running
  <2>3. \A k \in Execute(job, c) : StateAt("recover", k.state) /\ Clean(k.segments)
    BY <2>1, <2>2 DEF StateAt
  <2> QED
    BY <1>7, <1>8, <1>9, <2>3
<1>10. CASE job.state = "Verifying" /\ Step(job, Command("Pause"), At("close"))
  <2>1. \A k \in Execute(job, c) : k.state = "Paused" /\ k.segments = job.segments
    BY <1>3, <1>8, <1>10, Takes, Turns
  <2>2. \A k \in Execute(job, c) : StateAt("close", k.state) /\ Clean(k.segments)
    BY <1>2, <1>10, <2>1 DEF StateAt, Unsettled, Running
  <2> QED
    BY <1>7, <1>8, <1>10, <2>2
<1>11. CASE job.state = "Stopping" /\ Step(job, Command("WorkersDrained"), At("close"))
  <2>1. \A k \in Execute(job, d) : StateAt("close", k.state) /\ Clean(k.segments)
    <3> SUFFICES ASSUME NEW k \in Execute(job, d)
                 PROVE  StateAt("close", k.state) /\ Clean(k.segments)
      OBVIOUS
    <3>1. /\ JobOK(k)
          /\ k.state \in {"Verifying", "Queued", "Paused", "RetryWait", "NeedsAction", "Failed"}
      BY <1>3, <1>8, <1>11, Takes, DrainTurns
    <3> QED
      BY <3>1, JobFields DEF StateAt, Unsettled, Running, SegmentStates
  <2> QED
    BY <1>7, <1>8, <1>11, <2>1
<1>12. CASE job.state = "Cancelling" /\ session' = At("drop") /\ UNCHANGED <<job, record, budget>>
  BY <1>6, <1>12 DEF StateAt
<1>13. CASE /\ job.state \notin Running \cup {"Verifying", "Stopping", "Cancelling"}
            /\ session' = At("close") /\ UNCHANGED <<job, record, budget>>
  BY <1>6, <1>13 DEF StateAt, Unsettled
<1> QED
  BY <1>9, <1>10, <1>11, <1>12, <1>13 DEF Recover, Running

-----------------------------------------------------------------------------
(***************************************************************************)
(* finish.                                                                 *)
(***************************************************************************)

\* A job with another plan for the same file.
LEMMA WithPlan ==
  ASSUME NEW j, JobOK(j), j.state \in SegmentStates, NEW m, PlanOK(m),
         m.total = j.segments.total, j.validator = NoValidator => OneSegment(m),
         NEW k, k = [j EXCEPT !.segments = m]
  PROVE  /\ JobOK(k) /\ k.segments = m /\ k.state = j.state /\ k.generation = j.generation
         /\ k.validator = j.validator /\ k.replace_on_drain = j.replace_on_drain
         /\ k.attempts = j.attempts /\ Strip(k) = Strip(j)
<1>1. (m = NoMap) = (j.segments = NoMap)
  BY Plans, JobFields DEF PlanOK
<1>2. k = After(j, j.state, j.generation, j.reason, j.retry_at, j.stop, j.replace_on_drain,
                j.attempts, j.validator, m)
  BY Zenon DEF After, JobOK
<1>3. /\ j.state \in States /\ j.generation \in Nat /\ j.validator \in Nat
      /\ Stopped(j.state, j.stop, j.replace_on_drain)
      /\ j.state = "Transferring" => j.segments # NoMap
  BY JobFields
<1>4. /\ JobOK(k) /\ k.segments = m /\ k.state = j.state /\ k.generation = j.generation
      /\ k.validator = j.validator /\ k.replace_on_drain = j.replace_on_drain
  BY <1>1, <1>2, <1>3, JobFrom
<1>5. k.attempts = j.attempts
  BY DEF JobOK
<1>6. Strip(k) = Strip(j)
  <2>1. PICK n : n = IF m = NoMap THEN NoMap ELSE Fresh(m.total)
    OBVIOUS
  <2>2. Strip(k) = [k EXCEPT !.segments = n]
    BY <1>4, <2>1 DEF Strip
  <2>3. Strip(k) = [j EXCEPT !.segments = n]
    BY <2>2, Zenon
  <2>4. Strip(j) = [j EXCEPT !.segments = n]
    BY <1>1, <2>1 DEF Strip
  <2> QED
    BY <2>3, <2>4
<1> QED
  BY <1>4, <1>5, <1>6

\* What each operation makes of a plan.
LEMMA PlanFields ==
  ASSUME NEW p, PlanOK(p)
  PROVE  /\ p \in ProgressOf(p.total) /\ p.total \in Nat \cup {-1}
         /\ p.leased \subseteq SUBSET Bytes(p.total)
         /\ p.written \subseteq Bytes(p.total) /\ p.durable \subseteq Bytes(p.total)
         /\ p.frozen \subseteq p.written
         /\ p.total = -1 => /\ p.leased = {} /\ p.written = {} /\ p.durable = {} /\ p.frozen = {}
                            /\ p.ckpt = NoCheckpoint
BY Plans DEF PlanOK, ProgressOf, Clean

\* The pieces of a plan that is not the one of a job without one.
LEMMA PlanFrom ==
  ASSUME NEW t \in Nat, NEW m, m \in ProgressOf(t), m.written \cap m.durable = {},
         m.frozen \subseteq m.written,
         \A B \in m.leased : B # {} /\ B \cap (m.written \cup m.durable) = {},
         \A B, C \in m.leased : B # C => B \cap C = {},
         m.ckpt = NoCheckpoint => m.frozen = {}
  PROVE  PlanOK(m)
<1>1. m.total = t
  BY DEF ProgressOf
<1> QED
  BY <1>1 DEF PlanOK

\* discard_unsynced: what was written is pending again.
LEMMA DiscardUnsyncedOK ==
  ASSUME NEW p, PlanOK(p), p.written # {}, p.ckpt = NoCheckpoint, NEW m, m = DiscardUnsynced(p)
  PROVE  /\ PlanOK(m) /\ m.total = p.total /\ m.written = {} /\ m.durable = p.durable
         /\ m.leased = p.leased /\ m.frozen = {} /\ m.ckpt = NoCheckpoint
         /\ OneSegment(p) => OneSegment(m)
<1>1. PICK t \in Nat : t = p.total
  BY PlanFields
<1>2. p \in ProgressOf(t)
  BY <1>1, PlanFields
<1>3. PICK W \in SUBSET Bytes(t) : W = {}
  OBVIOUS
<1>4. /\ m \in ProgressOf(t) /\ m.total = t /\ m.written = W /\ m.durable = p.durable
      /\ m.leased = p.leased /\ m.frozen = p.frozen /\ m.ckpt = p.ckpt
  BY <1>2, <1>3 DEF DiscardUnsynced, ProgressOf
<1>5. p.frozen = {}
  BY DEF PlanOK
<1>6. PlanOK(m)
  BY <1>3, <1>4, <1>5, PlanFrom DEF PlanOK
<1> QED
  BY <1>1, <1>3, <1>4, <1>5, <1>6 DEF OneSegment, Whole

\* A control that arrives during finish.
LEMMA FinishControlOK ==
  ASSUME IInv, FinishControl
  PROVE  IInv'
<1>1. /\ session.pc = "finish" /\ session.error = "None" /\ origin' = origin
      /\ Busy = {} /\ CalmOK /\ Quiet /\ Shapes /\ session.reply = "None"
  BY Working1 DEF FinishControl, Finishing, Pcs, Moving, Manned, Checkpointing, Waits
<1>2. UNCHANGED <<parts, workers, lane>> /\ control' \in Seq({"Pause", "Cancel"})
  BY <1>1, Controls DEF FinishControl, Finishing
<1>3. CASE UNCHANGED <<job, record, session, budget>>
  BY <1>1, <1>2, <1>3, Frame DEF Shapes
<1>4. CASE Step(job, Command("Cancel"), session)
  <2>1. PICK c : c = Command("Cancel")
    OBVIOUS
  <2>2. c.name = "Cancel" /\ {c.total, c.validator} \subseteq Nat
    BY <2>1, CommandFields
  <2>3. \A k \in Execute(job, c) :
          /\ k.state = "Cancelling" /\ k.segments = job.segments /\ k.generation = job.generation
          /\ k.validator = job.validator
    BY <1>1, <2>2, Takes DEF CalmOK
  <2>4. /\ session.pc \notin Manned \cup {"idle", "drain"} /\ IsSession(session)
        /\ session'.pc # "vsync"
        /\ \A k \in Execute(job, c) : StateAt(session.pc, k.state)
    BY <1>1, <1>4, <2>3, Fails DEF Manned, Checkpointing, StateAt, Shapes, Step, Errors
  <2> QED
    BY <1>1, <1>2, <1>4, <2>1, <2>2, <2>3, <2>4, CalmStep DEF CalmOK
<1> QED
  BY <1>3, <1>4 DEF FinishControl

\* WorkersDrained: verification if the lane is open, the end otherwise.
LEMMA DrainOK ==
  ASSUME IInv, session.error = "None", session.pc \in {"finish", "drain"}, NEW j,
         JobOK(j), record.job = Strip(j), j.state = "Stopping", j.segments.durable = Extents,
         j.segments.leased = {}, j.segments.ckpt = NoCheckpoint, Drain(j),
         UNCHANGED <<parts, workers, control, origin>>
  PROVE  IInv'
<1>1. Busy = {} /\ CalmOK /\ Quiet /\ Shapes /\ session.reply = "None"
  BY Calms DEF Manned, Checkpointing, Quiet, Waits, IInv, CalmOK
<1>2. PICK p \in Pcs :
        p = IF \E k \in WorkersDrained(j) : k.state = "Verifying" THEN Verified ELSE "close"
  BY DEF Pcs, Verified, Waits
<1>3. p \in {"vsync", "close"} /\ Landed(j) = At(p)
  BY <1>2 DEF Verified, Landed
<1>4. PICK next : next = At(p)
  OBVIOUS
<1>5. IsSession(next) /\ next.pc = p /\ next.error = "None" /\ next.reply = "None"
  BY <1>1, <1>4, Goes DEF Shapes
<1>6. PICK c : c = Command("WorkersDrained")
  OBVIOUS
<1>7. c.name = "WorkersDrained" /\ {c.total, c.validator} \subseteq Nat
  BY <1>6, CommandFields
<1>8. Step(j, c, next) /\ IF session'.pc = "vsync" THEN Ask("Sync") ELSE UNCHANGED lane
  BY <1>3, <1>4, <1>6 DEF Drain
<1>9. \A k \in Execute(j, c) : StateAt(p, k.state) /\ Clean(k.segments)
  <2> SUFFICES ASSUME NEW k \in Execute(j, c)
               PROVE  StateAt(p, k.state) /\ Clean(k.segments)
    OBVIOUS
  <2>1. k \in WorkersDrained(j)
    BY <1>7, Takes
  <2>2. /\ JobOK(k)
        /\ k.state \in {"Verifying", "Queued", "Paused", "RetryWait", "NeedsAction", "Failed"}
    BY <2>1, DrainTurns
  <2>3. \A i \in WorkersDrained(j) : i = k
    BY <2>1 DEF WorkersDrained, Only
  <2>4. p = "vsync" => k.state = "Verifying"
    BY <1>2, <2>3
  <2> QED
    BY <1>3, <2>2, <2>4, JobFields DEF StateAt, Unsettled, Running, SegmentStates
<1>10. /\ p \notin Manned \cup {"idle", "drain"} /\ p # "finish"
       /\ control' \in Seq({"Pause", "Cancel"})
  BY <1>1, <1>3 DEF Manned, Checkpointing, Shapes
<1> QED
  BY <1>1, <1>5, <1>7, <1>8, <1>9, <1>10, CalmStep

\* What is left of a job whose last bytes could not be saved.
LEMMA SavedOK ==
  ASSUME CalmOK, job.state = "Stopping"
  PROVE  /\ JobOK(Saved) /\ record.job = Strip(Saved) /\ Saved.state = "Stopping"
         /\ Saved.segments.durable = Extents /\ Saved.segments.leased = {}
         /\ Saved.segments.ckpt = NoCheckpoint
<1>1. CASE ~Unsaved
  BY <1>1 DEF Saved, CalmOK
<1>2. CASE Unsaved
  <2>1. PICK m : m = DiscardUnsynced(job.segments)
    OBVIOUS
  <2>2. /\ JobOK(job) /\ PlanOK(job.segments) /\ job.segments.written # {}
        /\ job.segments.ckpt = NoCheckpoint /\ job.state \in SegmentStates
        /\ job.validator = NoValidator => OneSegment(job.segments)
    BY <1>2, JobFields DEF CalmOK, Unsaved, HasUnsynced, SegmentStates
  <2>3. /\ PlanOK(m) /\ m.total = job.segments.total /\ m.durable = job.segments.durable
        /\ m.leased = job.segments.leased /\ m.ckpt = NoCheckpoint
        /\ job.validator = NoValidator => OneSegment(m)
    BY <2>1, <2>2, DiscardUnsyncedOK
  <2>4. Saved = [job EXCEPT !.segments = m]
    BY <1>2, <2>1 DEF Saved
  <2>5. PICK k : k = Saved
    OBVIOUS
  <2>6. JobOK(k) /\ k.segments = m /\ k.state = job.state /\ Strip(k) = Strip(job)
    BY <2>2, <2>3, <2>4, <2>5, WithPlan
  <2> QED
    BY <2>3, <2>5, <2>6 DEF CalmOK
<1> QED
  BY <1>1, <1>2

\* The drain that follows the last checkpoint.
LEMMA DrainAfterCheckpointOK ==
  ASSUME IInv, DrainAfterCheckpoint
  PROVE  IInv'
<1>1. /\ session.pc = "drain" /\ session.error = "None" /\ origin' = origin
      /\ Busy = {} /\ CalmOK /\ Quiet /\ Shapes /\ session.reply = "None"
  BY Working1 DEF DrainAfterCheckpoint, Pcs, Moving, Manned, Checkpointing, Waits
<1>2. job.state = "Stopping"
  BY <1>1 DEF CalmOK, StateAt
<1>3. PICK j \in {Saved, job} : Drain(j)
  BY DEF DrainAfterCheckpoint
<1>4. /\ JobOK(j) /\ record.job = Strip(j) /\ j.state = "Stopping" /\ j.segments.durable = Extents
      /\ j.segments.leased = {} /\ j.segments.ckpt = NoCheckpoint
  BY <1>1, <1>2, SavedOK DEF CalmOK
<1> QED
  BY <1>1, <1>3, <1>4, DrainOK DEF DrainAfterCheckpoint

-----------------------------------------------------------------------------
(***************************************************************************)
(* What the other operations make of a plan.                               *)
(***************************************************************************)

\* lease: bytes nobody has are leased to one worker.
LEMMA LeaseOK ==
  ASSUME NEW p, PlanOK(p), NEW B, CanLease(p, B), NEW m, m = LeaseBytes(p, B)
  PROVE  /\ PlanOK(m) /\ m.total = p.total /\ m.written = p.written /\ m.durable = p.durable
         /\ m.leased = p.leased \cup {B} /\ m.frozen = p.frozen /\ m.ckpt = p.ckpt
         /\ B \cap (p.written \cup p.durable) = {} /\ B \subseteq Bytes(p.total)
         /\ \A C \in p.leased : B \cap C = {}
         /\ OneSegment(p) /\ B = Bytes(p.total) => OneSegment(m)
<1>1. /\ B # {} /\ B \subseteq Bytes(p.total) /\ B \cap (p.written \cup p.durable) = {}
      /\ \A C \in p.leased : B \cap C = {}
  <2>1. B # {} /\ \A b \in B : /\ b \in Bytes(p.total) /\ b \notin p.written /\ b \notin p.durable
                               /\ b \notin UNION p.leased
    BY DEF CanLease, PendingBytes
  <2>2. \A C \in p.leased : \A b \in C : b \in UNION p.leased
    OBVIOUS
  <2> QED
    BY <2>1, <2>2
<1>2. PICK t \in Nat : t = p.total
  BY <1>1, PlanFields DEF Bytes
<1>3. p \in ProgressOf(t) /\ B \in SUBSET Bytes(t)
  BY <1>1, <1>2, PlanFields
<1>4. /\ m \in ProgressOf(t) /\ m.total = t /\ m.written = p.written /\ m.durable = p.durable
      /\ m.leased = p.leased \cup {B} /\ m.frozen = p.frozen /\ m.ckpt = p.ckpt
  BY <1>3 DEF LeaseBytes, ProgressOf
<1>5. PlanOK(m)
  <2>1. \A C \in m.leased : C # {} /\ C \cap (m.written \cup m.durable) = {}
    BY <1>1, <1>4 DEF PlanOK
  <2>2. \A C, D \in m.leased : C # D => C \cap D = {}
    BY <1>1, <1>4 DEF PlanOK
  <2> QED
    BY <1>4, <2>1, <2>2, PlanFrom DEF PlanOK
<1> QED
  BY <1>1, <1>2, <1>4, <1>5 DEF OneSegment, Whole

\* release: the bytes are pending again.
LEMMA ReleaseOK ==
  ASSUME NEW p, PlanOK(p), NEW B \in p.leased, NEW m, m = ReleaseBytes(p, B)
  PROVE  /\ PlanOK(m) /\ m.total = p.total /\ m.written = p.written /\ m.durable = p.durable
         /\ m.leased = p.leased \ {B} /\ m.frozen = p.frozen /\ m.ckpt = p.ckpt
         /\ OneSegment(p) => OneSegment(m)
<1>1. PICK t \in Nat : t = p.total
  BY PlanFields
<1>2. p \in ProgressOf(t)
  BY <1>1, PlanFields
<1>3. /\ m \in ProgressOf(t) /\ m.total = t /\ m.written = p.written /\ m.durable = p.durable
      /\ m.leased = p.leased \ {B} /\ m.frozen = p.frozen /\ m.ckpt = p.ckpt
  BY <1>2 DEF ReleaseBytes, ProgressOf
<1>4. PlanOK(m)
  BY <1>3, PlanFrom DEF PlanOK
<1> QED
  BY <1>1, <1>3, <1>4 DEF OneSegment, Whole

\* mark_written: a leased range is written.
LEMMA MarkOK ==
  ASSUME NEW p, PlanOK(p), NEW B \in p.leased, NEW m, m = MarkWritten(p, B)
  PROVE  /\ PlanOK(m) /\ m.total = p.total /\ m.written = p.written \cup B /\ m.durable = p.durable
         /\ m.leased = p.leased \ {B} /\ m.frozen = p.frozen /\ m.ckpt = p.ckpt
         /\ B # {} /\ B \cap p.written = {}
         /\ OneSegment(p) => OneSegment(m) /\ p.written = {}
<1>1. PICK t \in Nat : t = p.total
  BY PlanFields
<1>2. p \in ProgressOf(t) /\ B \in SUBSET Bytes(t)
  BY <1>1, PlanFields
<1>3. /\ m \in ProgressOf(t) /\ m.total = t /\ m.written = p.written \cup B /\ m.durable = p.durable
      /\ m.leased = p.leased \ {B} /\ m.frozen = p.frozen /\ m.ckpt = p.ckpt
  BY <1>2 DEF MarkWritten, ProgressOf
<1>4. B # {} /\ B \cap p.written = {} /\ B \cap p.durable = {}
  BY DEF PlanOK
<1>5. PlanOK(m)
  <2>1. \A C \in m.leased : C # {} /\ C \cap (m.written \cup m.durable) = {}
    BY <1>3 DEF PlanOK
  <2>2. /\ m.written \cap m.durable = {} /\ m.frozen \subseteq m.written
        /\ \A C, D \in m.leased : C # D => C \cap D = {}
        /\ m.ckpt = NoCheckpoint => m.frozen = {}
    BY <1>3, <1>4 DEF PlanOK
  <2> QED
    BY <1>3, <2>1, <2>2, PlanFrom
<1>6. ASSUME OneSegment(p)
      PROVE  OneSegment(m) /\ p.written = {}
  <2>1. B = Bytes(t) /\ p.written \in {{}, Bytes(t)}
    BY <1>1, <1>6 DEF OneSegment, Whole
  <2>2. p.written = {}
    BY <1>4, <2>1
  <2> QED
    BY <1>1, <1>3, <1>6, <2>1, <2>2 DEF OneSegment, Whole
<1> QED
  BY <1>1, <1>3, <1>4, <1>5, <1>6

\* prepare_sync: what was written is frozen.
LEMMA PrepareOK ==
  ASSUME NEW p, PlanOK(p), p # NoMap, NEW m, m = PrepareSync(p)
  PROVE  /\ PlanOK(m) /\ m.total = p.total /\ m.written = p.written /\ m.durable = p.durable
         /\ m.leased = p.leased /\ m.frozen = p.written /\ m.ckpt # NoCheckpoint
         /\ OneSegment(p) => OneSegment(m)
<1>1. PICK t \in Nat : t = p.total
  BY DEF PlanOK
<1>2. p \in ProgressOf(t)
  BY <1>1, PlanFields
<1>3. /\ m \in ProgressOf(t) /\ m.total = t /\ m.written = p.written /\ m.durable = p.durable
      /\ m.leased = p.leased /\ m.frozen = p.written /\ m.ckpt = Prepared
  BY <1>2 DEF PrepareSync, ProgressOf
<1>4. m.ckpt # NoCheckpoint
  BY <1>3 DEF Prepared, NoCheckpoint
<1>5. PlanOK(m)
  BY <1>3, <1>4, PlanFrom DEF PlanOK
<1> QED
  BY <1>1, <1>3, <1>4, <1>5 DEF OneSegment, Whole

\* acknowledge_sync: the frozen bytes stay what they were.
LEMMA SyncedOK ==
  ASSUME NEW p, PlanOK(p), p.ckpt # NoCheckpoint, NEW m, m = AcknowledgeSync(p)
  PROVE  /\ PlanOK(m) /\ m.total = p.total /\ m.written = p.written /\ m.durable = p.durable
         /\ m.leased = p.leased /\ m.frozen = p.frozen /\ m.ckpt # NoCheckpoint
         /\ OneSegment(p) => OneSegment(m)
<1>1. PICK t \in Nat : t = p.total
  BY PlanFields
<1>2. p \in ProgressOf(t)
  BY <1>1, PlanFields
<1>3. /\ m \in ProgressOf(t) /\ m.total = t /\ m.written = p.written /\ m.durable = p.durable
      /\ m.leased = p.leased /\ m.frozen = p.frozen /\ m.ckpt = Synced
  BY <1>2 DEF AcknowledgeSync, ProgressOf
<1>4. m.ckpt # NoCheckpoint
  BY <1>3 DEF Synced, NoCheckpoint
<1>5. PlanOK(m)
  BY <1>3, <1>4, PlanFrom DEF PlanOK
<1> QED
  BY <1>1, <1>3, <1>4, <1>5 DEF OneSegment, Whole

\* discard_checkpoint: the frozen bytes are written bytes again.
LEMMA AbandonOK ==
  ASSUME NEW p, PlanOK(p), p.ckpt # NoCheckpoint, NEW m, m = DiscardCheckpoint(p)
  PROVE  /\ PlanOK(m) /\ m.total = p.total /\ m.written = p.written /\ m.durable = p.durable
         /\ m.leased = p.leased /\ m.frozen = {} /\ m.ckpt = NoCheckpoint
         /\ OneSegment(p) => OneSegment(m)
<1>1. PICK t \in Nat : t = p.total
  BY PlanFields
<1>2. p \in ProgressOf(t)
  BY <1>1, PlanFields
<1>3. PICK W \in SUBSET Bytes(t) : W = {}
  OBVIOUS
<1>4. /\ m \in ProgressOf(t) /\ m.total = t /\ m.written = p.written /\ m.durable = p.durable
      /\ m.leased = p.leased /\ m.frozen = W /\ m.ckpt = NoCheckpoint
  BY <1>2, <1>3 DEF DiscardCheckpoint, ProgressOf
<1>5. PlanOK(m)
  BY <1>3, <1>4, PlanFrom DEF PlanOK
<1> QED
  BY <1>1, <1>3, <1>4, <1>5 DEF OneSegment, Whole

\* acknowledge_commit: the frozen bytes are durable.
LEMMA CommittedOK ==
  ASSUME NEW p, PlanOK(p), p.ckpt # NoCheckpoint, NEW m, m = AcknowledgeCommit(p)
  PROVE  /\ PlanOK(m) /\ m.total = p.total /\ m.written = p.written \ p.frozen
         /\ m.durable = p.durable \cup p.frozen
         /\ m.leased = p.leased /\ m.frozen = {} /\ m.ckpt = NoCheckpoint
         /\ OneSegment(p) => OneSegment(m)
<1>1. PICK t \in Nat : t = p.total
  BY PlanFields
<1>2. p \in ProgressOf(t)
  BY <1>1, PlanFields
<1>3. PICK W \in SUBSET Bytes(t) : W = {}
  OBVIOUS
<1>4. /\ m \in ProgressOf(t) /\ m.total = t /\ m.written = p.written \ p.frozen
      /\ m.durable = p.durable \cup p.frozen
      /\ m.leased = p.leased /\ m.frozen = W /\ m.ckpt = NoCheckpoint
  BY <1>2, <1>3 DEF AcknowledgeCommit, ProgressOf
<1>5. PlanOK(m)
  <2>1. \A C \in m.leased : C # {} /\ C \cap (m.written \cup m.durable) = {}
    BY <1>4 DEF PlanOK
  <2>2. /\ m.written \cap m.durable = {} /\ m.frozen \subseteq m.written
        /\ \A C, D \in m.leased : C # D => C \cap D = {}
    BY <1>3, <1>4 DEF PlanOK
  <2> QED
    BY <1>3, <1>4, <2>1, <2>2, PlanFrom
<1>6. ASSUME OneSegment(p)
      PROVE  OneSegment(m)
  <2>1. {p.written, p.durable, p.frozen} \subseteq {{}, Bytes(t)} /\ p.leased \subseteq {Bytes(t)}
    BY <1>1, <1>6 DEF OneSegment, Whole
  <2>2. p.written \ p.frozen \in {{}, Bytes(t)} /\ p.durable \cup p.frozen \in {{}, Bytes(t)}
    BY <2>1
  <2> QED
    BY <1>3, <1>4, <2>1, <2>2 DEF OneSegment, Whole
<1> QED
  BY <1>1, <1>3, <1>4, <1>5, <1>6

-----------------------------------------------------------------------------
(***************************************************************************)
(* The coordinator with workers.                                           *)
(***************************************************************************)

\* Everything at once, for a session that goes on.
LEMMA Lives ==
  ASSUME Shapes', RecordOK', RecordedBytesAreStable', WorkersOK', QueueOK', LiveOK',
         session'.error = "None", session'.pc # "idle"
  PROVE  IInv'
BY DEF IInv

\* The locals once a checkpoint was begun.
LEMMA Syncing ==
  ASSUME IsSession(session), NEW a \in Afters, NEW s, s = [At("sync") EXCEPT !.after = a]
  PROVE  /\ IsSession(s) /\ s.pc = "sync" /\ s.after = a /\ s.reply = session.reply
         /\ s.error = session.error /\ s.storage_failed = session.storage_failed
<1>1. PICK p \in Pcs : p = "sync"
  BY DEF Pcs, Waits
<1>2. PICK x : x = At(p)
  OBVIOUS
<1>3. /\ IsSession(x) /\ x.pc = p /\ x.reply = session.reply
      /\ x.error = session.error /\ x.storage_failed = session.storage_failed
  BY <1>2, Goes
<1>4. /\ s \in [pc : Pcs, live : BOOLEAN, after : Afters, stopping : BOOLEAN,
                storage_failed : BOOLEAN, unsynced : Nat, attempt : Nat, hashes : {x.hashes},
                reply : Replies, error : Errors]
      /\ s.pc = p /\ s.after = a /\ s.reply = x.reply /\ s.error = x.error
      /\ s.storage_failed = x.storage_failed /\ s.hashes = x.hashes
  BY <1>1, <1>2, <1>3 DEF IsSession
<1> QED
  BY <1>1, <1>3, <1>4 DEF IsSession

\* A checkpoint begins: what was written so far is frozen, and the lane asked to sync.
LEMMA CheckpointBegins ==
  ASSUME IInv, session.error = "None", NEW a \in Afters,
         \/ a = "transfer" /\ session.pc = "transfer" /\ job.state = "Transferring"
         \/ /\ a = "drain" /\ session.pc = "finish" /\ job.state = "Stopping"
            /\ job.segments.written # {},
         job' = [job EXCEPT !.segments = PrepareSync(@)], Ask("Sync"),
         session' = [At("sync") EXCEPT !.after = a],
         UNCHANGED <<record, parts, workers, control, budget, origin>>
  PROVE  IInv'
<1>1. LiveOK /\ Shapes /\ Quiet /\ session.reply = "None" /\ Freed
  BY FreedSame DEF IInv, LiveOK, Quiet, Waits
<1>2. /\ IsSession(session') /\ session'.pc = "sync" /\ session'.after = a
      /\ session'.reply = "None" /\ session'.error = "None"
  BY <1>1, Syncing DEF Shapes
<1>3. PICK p, m : p = job.segments /\ m = PrepareSync(p)
  OBVIOUS
<1>4. /\ JobOK(job) /\ PlanOK(p) /\ p # NoMap /\ job.state \in SegmentStates
      /\ job.validator = NoValidator => OneSegment(p)
  <2>1. JobOK(job)
    BY <1>1 DEF LiveOK
  <2>2. p.written # {} => p # NoMap
    BY Plans DEF Clean
  <2> QED
    BY <1>3, <2>1, <2>2, JobFields DEF SegmentStates
<1>5. /\ PlanOK(m) /\ m.total = p.total /\ m.written = p.written /\ m.durable = p.durable
      /\ m.leased = p.leased /\ m.frozen = p.written /\ m.ckpt # NoCheckpoint
      /\ OneSegment(p) => OneSegment(m)
  BY <1>3, <1>4, PrepareOK
<1>6. PICK k : k = [job EXCEPT !.segments = m]
  OBVIOUS
<1>7. /\ JobOK(k) /\ k.segments = m /\ k.state = job.state /\ k.generation = job.generation
      /\ k.validator = job.validator /\ Strip(k) = Strip(job) /\ job' = k
  BY <1>3, <1>4, <1>5, <1>6, WithPlan
<1>8. QueueOK' /\ lane' \in Lanes /\ lane'.generation = lane.generation
  <2>1. session'.pc \in DOMAIN Waits /\ "Sync" = Waits[session'.pc]
    BY <1>2 DEF Waits
  <2> QED
    BY <1>1, <1>2, <2>1, AskedQueue DEF IInv
<1>9. WorkersOK' /\ Busy' = Busy /\ Open' = Open /\ Cached' = Cached /\ Extents' = Extents
  BY <1>1, <1>8, FreedWorkers DEF Busy, Open, Cached, IInv, Narrowed, Extents
<1>10. RecordOK' /\ RecordedBytesAreStable' /\ Shapes'
  <2>1. RecordOK'
    BY DEF IInv, RecordOK, Extents
  <2> QED
    BY <1>1, <1>2, <1>8, <2>1, SameParts, SameRecorded DEF IInv, Shapes
<1>11. Match' /\ LeasesOK' /\ WrittenOK'
  <2>1. Match'
    BY <1>1, <1>2, <1>3, <1>5, <1>7, <1>9 DEF LiveOK, Match
  <2>2. session.pc \in Moving /\ (session.pc = "finish" \/ session.pc \in Manned)
    BY DEF Moving, Manned
  <2>3. Open /\ lane.generation = job.generation
    BY <1>1, <2>2 DEF LiveOK, LeasesOK, WrittenOK
  <2>4. LeasesOK'
    BY <1>1, <1>2, <1>3, <1>5, <1>7, <1>8, <1>9, <2>3 DEF LiveOK, LeasesOK, Manned, Checkpointing
  <2>5. WrittenOK'
    BY <1>1, <1>3, <1>5, <1>7, <1>8, <1>9, <2>2, <2>3 DEF LiveOK, WrittenOK
  <2> QED
    BY <2>1, <2>4, <2>5
<1>12. CheckpointOK'
  <2>1. session.pc = "finish" => Busy = {}
    BY <1>1 DEF LiveOK, LeasesOK, Manned, Checkpointing
  <2> QED
    BY <1>2, <1>5, <1>7, <1>9, <2>1, ZenonT(60) DEF CheckpointOK, Checkpointing, Moving, Manned
<1>13. StateAt(session'.pc, job'.state)
  BY <1>2 DEF StateAt
<1>14. LiveOK'
  BY <1>2, <1>7, <1>11, <1>12, <1>13 DEF LiveOK
<1> QED
  BY <1>2, <1>8, <1>9, <1>10, <1>14, Lives

\* finish: the last checkpoint, or the drain.
LEMMA FinishStoppingOK ==
  ASSUME IInv, FinishStopping
  PROVE  IInv'
<1>1. /\ session.pc = "finish" /\ session.error = "None" /\ origin' = origin
      /\ Busy = {} /\ CalmOK /\ Quiet /\ Shapes /\ session.reply = "None"
  BY Working1 DEF FinishStopping, Finishing, Pcs, Moving, Manned, Checkpointing, Waits
<1>2. job.state = "Stopping" /\ UNCHANGED <<workers, control, parts>>
  BY DEF FinishStopping, Finishing
<1>3. CASE FinalCheckpoint
  <2>1. PICK a \in Afters : a = "drain"
    BY DEF Afters
  <2>2. job.segments.written # {}
    BY <1>3 DEF FinalCheckpoint, Unsaved, HasUnsynced
  <2> QED
    BY <1>1, <1>2, <1>3, <2>1, <2>2, CheckpointBegins DEF FinishStopping
<1>4. CASE ~FinalCheckpoint
  <2>1. /\ JobOK(Saved) /\ record.job = Strip(Saved) /\ Saved.state = "Stopping"
        /\ Saved.segments.durable = Extents /\ Saved.segments.leased = {}
        /\ Saved.segments.ckpt = NoCheckpoint
    BY <1>1, <1>2, SavedOK
  <2> QED
    BY <1>1, <1>2, <1>4, <2>1, DrainOK DEF FinishStopping
<1> QED
  BY <1>3, <1>4

\* A checkpoint during the transfer.
LEMMA TransferCheckpointOK ==
  ASSUME IInv, TransferCheckpoint
  PROVE  IInv'
<1>1. session.pc = "transfer" /\ session.error = "None" /\ origin' = origin
  BY DEF TransferCheckpoint, Coordinating, IInv
<1>2. PICK a \in Afters : a = "transfer"
  BY DEF Afters
<1> QED
  BY <1>1, <1>2, CheckpointBegins DEF TransferCheckpoint, CheckpointDue

\* The session goes on without a checkpoint: the lane is left alone, some workers are joined.
LEMMA MannedGo ==
  ASSUME IInv, session.error = "None", session.pc \in Manned, Quiet, Freed, WorkersOK',
         UNCHANGED <<parts, lane, origin>>, control' \in Seq({"Pause", "Cancel"}),
         budget' \in Budgets, RecordOK', RecordedBytesAreStable',
         NEW k, job' = k, JobOK(k), record'.job = Strip(k), k.generation = job.generation,
         k.validator = job.validator, k.segments.durable = Extents',
         k.segments.leased = {workers'[v].bytes : v \in Busy'}, k.segments.ckpt = NoCheckpoint,
         k.segments.written # {} => Uniform(Cached, k.segments.written, k.validator),
         IsSession(session'), session'.error = "None", session'.reply = "None",
         session'.pc \in {"transfer", "finish", "drain"}, StateAt(session'.pc, k.state),
         session'.pc # "transfer" => Busy' = {},
         session'.pc = "drain" => session'.storage_failed \/ k.segments.written = {}
  PROVE  IInv'
<1>1. LiveOK /\ Shapes
  BY DEF IInv
<1>2. QueueOK' /\ Shapes'
  BY <1>1, FreedQueue, SameParts DEF IInv, Shapes, Freed
<1>3. Open' = Open /\ Cached' = Cached /\ Open /\ lane.generation = job.generation
  BY <1>1 DEF Open, Cached, LiveOK, LeasesOK
<1>4. LeasesOK'
  <2>1. \A w \in Busy' : w \in Busy /\ workers'[w] = workers[w]
    BY DEF Busy, Freed, NoTask
  <2>2. \A w \in Busy' : workers'[w].phase \in Writes =>
                          job'.validator \in {NoValidator, workers'[w].content}
    BY <1>1, <2>1 DEF LiveOK, LeasesOK
  <2>3. session'.pc \in Manned \/ Busy' = {}
    BY DEF Manned
  <2> QED
    BY <1>3, <2>2, <2>3 DEF LeasesOK
<1>5. WrittenOK'
  BY <1>3 DEF WrittenOK
<1>6. session'.pc \notin Checkpointing /\ session'.pc \in Moving /\ session'.pc \notin DOMAIN Waits
  BY DEF Checkpointing, Moving, Manned, Waits
<1>7. Match' /\ CheckpointOK'
  BY <1>6 DEF Match, CheckpointOK, Checkpointing
<1>8. LiveOK'
  BY <1>4, <1>5, <1>7 DEF LiveOK
<1> QED
  BY <1>2, <1>8, Lives

\* A job whose lease was settled, or whose checkpoint was abandoned, stands by its record.
Settling(j) ==
  /\ JobOK(j) /\ record.job = Strip(j) /\ j.state \in SegmentStates
  /\ j.generation = job.generation /\ j.validator = job.validator
  /\ j.segments.durable = Extents /\ j.segments.ckpt = NoCheckpoint
  /\ j.segments.written # {} => Uniform(Cached, j.segments.written, j.validator)

\* It is left as it is, or given a command that stops it.
LEMMA MannedStep ==
  ASSUME IInv, session.error = "None", session.pc \in Manned, Quiet, Freed,
         UNCHANGED <<parts, lane, origin>>, control' \in Seq({"Pause", "Cancel"}),
         NEW j, Settling(j), j.segments.leased = {workers'[v].bytes : v \in Busy'},
         NEW next, IsSession(next), next.error = "None", next.reply = "None",
         next.pc \in {"transfer", "finish", "drain"}, next.pc # "transfer" => Busy' = {},
         next.pc = "drain" => next.storage_failed \/ j.segments.written = {},
         \/ /\ UNCHANGED <<record, budget>> /\ job' = j /\ session' = next
            /\ StateAt(next.pc, j.state)
         \/ \E c : /\ {c.total, c.validator} \subseteq Nat /\ Step(j, c, next)
                   /\ c.name \in Stopping \cup {"Cancel", "AllSegmentsDurable"}
                   /\ \A k \in Execute(j, c) : StateAt(next.pc, k.state)
  PROVE  IInv'
<1>1. JobOK(j) /\ record.job = Strip(j) /\ Shapes
  BY DEF Settling, IInv
<1>2. CASE UNCHANGED <<record, budget>> /\ job' = j /\ session' = next /\ StateAt(next.pc, j.state)
  <2>1. RecordOK' /\ RecordedBytesAreStable' /\ Narrowed /\ Extents' = Extents
    BY <1>2, SameRecorded DEF IInv, RecordOK, Extents, Narrowed
  <2>2. WorkersOK'
    BY <1>1, <2>1, FreedWorkers DEF IInv
  <2>3. budget' \in Budgets
    BY <1>1, <1>2 DEF Shapes
  <2> QED
    BY <1>2, <2>1, <2>2, <2>3, MannedGo DEF Settling
<1>3. CASE \E c : /\ {c.total, c.validator} \subseteq Nat /\ Step(j, c, next)
                  /\ c.name \in Stopping \cup {"Cancel", "AllSegmentsDurable"}
                  /\ \A k \in Execute(j, c) : StateAt(next.pc, k.state)
  <2>1. PICK c : /\ {c.total, c.validator} \subseteq Nat /\ Step(j, c, next)
                 /\ c.name \in Stopping \cup {"Cancel", "AllSegmentsDurable"}
                 /\ \A k \in Execute(j, c) : StateAt(next.pc, k.state)
    BY <1>3
  <2>2. /\ RecordOK' /\ RecordedBytesAreStable' /\ Narrowed /\ budget' \in Budgets
        /\ \/ \E k \in Execute(j, c) :
                /\ job' = k /\ session' = next
                /\ JobOK(k) /\ record'.job = Strip(k)
                /\ IF k.generation = j.generation THEN record'.extents = record.extents
                                                  ELSE record'.extents = None
           \/ Halted
    BY <1>1, <2>1, Steps DEF IInv
  <2>3. CASE Halted
    BY <2>2, <2>3, Halts
  <2>4. ASSUME NEW k \in Execute(j, c), job' = k, session' = next,
               JobOK(k), record'.job = Strip(k),
               IF k.generation = j.generation THEN record'.extents = record.extents
                                              ELSE record'.extents = None
        PROVE  IInv'
    <3>1. /\ k.generation = j.generation /\ k.segments = j.segments /\ k.validator = j.validator
      <4>1. c.name \notin {"ProbeSucceeded", "WorkersDrained", "ReplaceRepresentation"}
        BY <2>1 DEF Stopping, CauseKind
      <4> QED
        BY <1>1, <4>1, Turns
    <3>2. Extents' = Extents
      BY <2>4, <3>1 DEF Extents
    <3>3. WorkersOK'
      BY <1>1, <2>2, FreedWorkers DEF IInv
    <3>4. StateAt(next.pc, k.state)
      BY <2>1
    <3> QED
      BY <2>2, <2>4, <3>1, <3>2, <3>3, <3>4, MannedGo DEF Settling
  <2> QED
    BY <2>2, <2>3, <2>4
<1> QED
  BY <1>2, <1>3

\* stop_with, for a job that has workers or had them.
LEMMA MannedStop ==
  ASSUME IInv, session.error = "None", session.pc \in Manned, Quiet, Freed,
         UNCHANGED <<parts, lane, origin>>, control' \in Seq({"Pause", "Cancel"}),
         NEW j, Settling(j), j.segments.leased = {workers'[v].bytes : v \in Busy'},
         NEW n, IsSession(n), n.error = "None", n.reply = "None", n.pc \in {"transfer", "drain"},
         n.pc = "drain" => Busy' = {} /\ n.storage_failed /\ j.state = "Stopping",
         NEW c, {c.total, c.validator} \subseteq Nat, c.name \in Stopping, StopWith(j, c, n)
  PROVE  IInv'
<1>1. PICK next : next = [n EXCEPT !.stopping = TRUE]
  OBVIOUS
<1>2. /\ IsSession(next) /\ next.pc = n.pc /\ next.error = "None" /\ next.reply = "None"
      /\ next.storage_failed = n.storage_failed
  BY <1>1, Sets DEF Kept4
<1>3. JobOK(j) /\ j.state \in SegmentStates
  BY DEF Settling
<1>4. CASE j.state \in Running \cup {"Stopping"}
  <2>1. Step(j, c, next)
    BY <1>1, <1>4 DEF StopWith
  <2>2. \A k \in Execute(j, c) : k.state = "Stopping"
    BY <1>3, <1>4, Takes DEF Stopping
  <2>3. \A k \in Execute(j, c) : StateAt(next.pc, k.state)
    BY <1>2, <2>2 DEF StateAt, SegmentStates
  <2> QED
    BY <1>2, <2>1, <2>3, MannedStep
<1>5. CASE j.state \notin Running \cup {"Stopping"}
  <2>1. UNCHANGED <<record, budget>> /\ job' = j /\ session' = next
    BY <1>1, <1>5 DEF StopWith
  <2>2. n.pc = "transfer"
    BY <1>5
  <2>3. StateAt(next.pc, j.state)
    BY <1>2, <1>3, <2>2 DEF StateAt
  <2> QED
    BY <1>2, <2>1, <2>2, <2>3, MannedStep
<1> QED
  BY <1>4, <1>5

\* The job between two checkpoints.
LEMMA AtTransfer ==
  ASSUME IInv, Coordinating("transfer")
  PROVE  /\ session.pc = "transfer" /\ session.error = "None" /\ origin' = origin /\ Shapes
         /\ session.pc \in Manned /\ Quiet /\ session.reply = "None" /\ Settling(job)
         /\ job.segments.leased = {workers[v].bytes : v \in Busy}
         /\ WorkersOK /\ LeasesOK
<1>1. /\ session.pc = "transfer" /\ session.error = "None" /\ origin' = origin
      /\ LiveOK /\ Shapes /\ Quiet /\ session.reply = "None"
  BY Working1 DEF Pcs, Moving, Manned, Waits
<1>2. JobOK(job) /\ Match /\ StateAt(session.pc, job.state) /\ LeasesOK /\ WrittenOK /\ CheckpointOK
  BY <1>1 DEF LiveOK
<1>3. session.pc \in Manned /\ session.pc \in Moving /\ session.pc \notin Checkpointing
  BY <1>1 DEF Manned, Moving, Checkpointing
<1>4. Settling(job)
  BY <1>1, <1>2, <1>3 DEF Settling, Match, StateAt, WrittenOK, CheckpointOK
<1> QED
  BY <1>1, <1>2, <1>3, <1>4 DEF LeasesOK, IInv

\* A control is taken while workers run.
LEMMA TransferControlOK ==
  ASSUME IInv, Coordinating("transfer"), OnControl(session), UNCHANGED <<parts, lane, workers>>
  PROVE  IInv'
<1>1. /\ session.pc = "transfer" /\ session.error = "None" /\ origin' = origin /\ Shapes
      /\ session.pc \in Manned /\ Quiet /\ session.reply = "None" /\ Settling(job)
      /\ job.segments.leased = {workers[v].bytes : v \in Busy}
  BY AtTransfer
<1>2. Freed /\ Busy' = Busy /\ IsSession(session)
  BY <1>1, FreedSame DEF Busy, Shapes
<1>3. job.segments.leased = {workers'[v].bytes : v \in Busy'}
  BY <1>1, <1>2
<1>4. control' \in Seq({"Pause", "Cancel"}) /\ Head(control) \in {"Pause", "Cancel"}
  BY <1>1, Controls DEF OnControl
<1>5. CASE StopWith(job, Command("Pause"), session)
  <2>1. PICK c : c = Command("Pause")
    OBVIOUS
  <2>2. c.name \in Stopping /\ {c.total, c.validator} \subseteq Nat
    BY <2>1, CommandFields DEF Stopping, CauseKind
  <2> QED
    BY <1>1, <1>2, <1>3, <1>4, <1>5, <2>1, <2>2, MannedStop
<1>6. CASE Step(job, Command("Cancel"), [session EXCEPT !.stopping = TRUE])
  <2>1. PICK c : c = Command("Cancel")
    OBVIOUS
  <2>2. c.name = "Cancel" /\ {c.total, c.validator} \subseteq Nat
    BY <2>1, CommandFields
  <2>3. PICK next : next = [session EXCEPT !.stopping = TRUE]
    OBVIOUS
  <2>4. /\ IsSession(next) /\ next.pc = "transfer" /\ next.error = "None" /\ next.reply = "None"
    BY <1>1, <1>2, <2>3, Sets DEF Kept4
  <2>5. \A k \in Execute(job, c) : StateAt(next.pc, k.state)
    BY <1>1, <2>2, <2>4, Takes DEF StateAt, SegmentStates, Settling
  <2> QED
    BY <1>1, <1>2, <1>3, <1>4, <1>6, <2>1, <2>2, <2>3, <2>4, <2>5, MannedStep
<1> QED
  BY <1>5, <1>6 DEF OnControl

\* The transfer's loop ends.
LEMMA TransferDoneOK ==
  ASSUME IInv, TransferDone
  PROVE  IInv'
<1>1. /\ session.pc = "transfer" /\ session.error = "None" /\ origin' = origin /\ Shapes
      /\ session.pc \in Manned /\ Quiet /\ session.reply = "None" /\ Settling(job)
      /\ job.segments.leased = {workers[v].bytes : v \in Busy}
  BY AtTransfer DEF TransferDone
<1>2. UNCHANGED <<parts, workers, lane, control>> /\ Busy = {}
  BY DEF TransferDone
<1>3. Freed /\ Busy' = Busy /\ IsSession(session) /\ control' \in Seq({"Pause", "Cancel"})
  BY <1>1, <1>2, FreedSame DEF Busy, Shapes
<1>4. job.segments.leased = {workers'[v].bytes : v \in Busy'}
  BY <1>1, <1>2, <1>3
<1>5. CASE job.state # "Transferring" /\ session' = At("finish") /\ UNCHANGED <<job, record, budget>>
  <2>1. PICK p \in Pcs : p = "finish"
    BY DEF Pcs, Moving
  <2>2. PICK next : next = At(p)
    OBVIOUS
  <2>3. IsSession(next) /\ next.pc = p /\ next.error = "None" /\ next.reply = "None"
    BY <1>1, <1>3, <2>2, Goes
  <2>4. StateAt(next.pc, job.state)
    BY <1>1, <1>5, <2>1, <2>3 DEF StateAt, Settling, SegmentStates
  <2> QED
    BY <1>1, <1>2, <1>3, <1>4, <1>5, <2>1, <2>2, <2>3, <2>4, MannedStep
<1>6. CASE Step(job, Command("AllSegmentsDurable"), session)
  <2>1. PICK c : c = Command("AllSegmentsDurable")
    OBVIOUS
  <2>2. c.name = "AllSegmentsDurable" /\ {c.total, c.validator} \subseteq Nat
    BY <2>1, CommandFields
  <2>3. \A k \in Execute(job, c) : StateAt(session.pc, k.state)
    BY <1>1, <2>2, Takes DEF StateAt, SegmentStates, Settling
  <2> QED
    BY <1>1, <1>2, <1>3, <1>4, <1>6, <2>1, <2>2, <2>3, MannedStep
<1>7. CASE session' = Failed("Invariant") /\ UNCHANGED <<job, record, budget>>
  <2>1. Halted
    BY <1>3, <1>7, Fails DEF Halted, Errors
  <2>2. RecordOK' /\ RecordedBytesAreStable' /\ Narrowed /\ budget' \in Budgets
    BY <1>1, <1>2, <1>7, SameRecorded DEF IInv, RecordOK, Extents, Narrowed, Shapes
  <2> QED
    BY <1>1, <1>2, <1>3, <2>1, <2>2, Halts
<1> QED
  BY <1>5, <1>6, <1>7 DEF TransferDone

\* A worker is joined, its lease settled first.
LEMMA TransferWorkerOK ==
  ASSUME IInv, Coordinating("transfer"), NEW w \in Busy, OnWorker(w),
         UNCHANGED <<parts, lane, control>>
  PROVE  IInv'
<1>1. /\ session.pc = "transfer" /\ session.error = "None" /\ origin' = origin /\ Shapes
      /\ session.pc \in Manned /\ Quiet /\ session.reply = "None" /\ Settling(job)
      /\ job.segments.leased = {workers[v].bytes : v \in Busy} /\ WorkersOK /\ LeasesOK
  BY AtTransfer
<1>2. PICK p, B, r : p = job.segments /\ B = workers[w].bytes /\ r = workers[w].phase
  OBVIOUS
<1>3. /\ B \in p.leased /\ w \in Slots /\ r \in Results /\ r # "sent"
      /\ workers' = [workers EXCEPT ![w] = NoTask]
  <2>1. r \in Results /\ workers' = [workers EXCEPT ![w] = NoTask]
    BY <1>2 DEF OnWorker
  <2> QED
    BY <1>1, <1>2, <2>1 DEF Busy, Results
<1>4. /\ workers' \in [Slots -> Tasks] /\ workers'[w] = NoTask
      /\ \A v \in Slots \ {w} : workers'[v] = workers[v]
  <2>1. NoTask \in Tasks
    <3>1. PICK ph \in Phases : ph = "free"
      BY DEF Phases
    <3>2. [bytes |-> {}, at |-> 0, content |-> 0, phase |-> ph] \in Tasks
      BY DEF Tasks
    <3> QED
      BY <3>1, <3>2 DEF NoTask
  <2> QED
    BY <1>1, <1>3, <2>1 DEF Shapes
<1>5. Freed
  BY <1>2, <1>3, <1>4 DEF Freed
<1>6. Busy' = Busy \ {w}
  <2>1. NoTask.phase = "free"
    BY DEF NoTask
  <2> QED
    BY <1>3, <1>4, <2>1 DEF Busy
<1>7. p.leased \ {B} = {workers'[v].bytes : v \in Busy'}
  <2>1. \A v \in Busy \ {w} : workers[v].bytes # B /\ workers'[v] = workers[v]
    <3>1. B # {}
      BY <1>1, <1>2, <1>3 DEF WorkersOK, WorkerOK, Busy
    <3>2. \A v \in Busy \ {w} : workers[v].bytes \cap B = {}
      BY <1>1, <1>2 DEF WorkersOK
    <3> QED
      BY <1>4, <3>1, <3>2 DEF Busy
  <2>2. \A C \in p.leased \ {B} : \E v \in Busy \ {w} : C = workers[v].bytes
    BY <1>1, <1>2
  <2>3. \A v \in Busy : workers[v].bytes \in p.leased
    BY <1>1, <1>2
  <2> QED
    BY <1>6, <2>1, <2>2, <2>3
<1>8. /\ JobOK(job) /\ PlanOK(p) /\ job.state \in SegmentStates
      /\ job.validator = NoValidator => OneSegment(p)
  BY <1>1, <1>2, JobFields DEF Settling
<1>9. PICK released : released = [job EXCEPT !.segments = ReleaseBytes(p, B)]
  OBVIOUS
<1>10. Settling(released) /\ released.segments.leased = {workers'[v].bytes : v \in Busy'}
  <2>1. PICK m : m = ReleaseBytes(p, B)
    OBVIOUS
  <2>2. /\ PlanOK(m) /\ m.total = p.total /\ m.written = p.written /\ m.durable = p.durable
        /\ m.leased = p.leased \ {B} /\ m.ckpt = p.ckpt /\ (OneSegment(p) => OneSegment(m))
    BY <1>3, <1>8, <2>1, ReleaseOK
  <2>3. released = [job EXCEPT !.segments = m]
    BY <1>9, <2>1
  <2>4. /\ JobOK(released) /\ released.segments = m /\ released.state = job.state
        /\ released.generation = job.generation /\ released.validator = job.validator
        /\ Strip(released) = Strip(job)
    BY <1>2, <1>8, <2>2, <2>3, WithPlan
  <2> QED
    BY <1>1, <1>2, <1>7, <2>2, <2>4 DEF Settling
<1>11. control' \in Seq({"Pause", "Cancel"}) /\ IsSession(session)
  BY <1>1 DEF Shapes
<1>12. ASSUME NEW c, {c.total, c.validator} \subseteq Nat, c.name \in Stopping,
              StopWith(released, c, session)
       PROVE  IInv'
  BY <1>1, <1>5, <1>10, <1>11, <1>12, MannedStop
<1>13. CASE r = "Ok" /\ job' = [job EXCEPT !.segments = MarkWritten(p, B)]
            /\ session' = [session EXCEPT !.unsynced = @ + Cardinality(B)]
            /\ UNCHANGED <<record, budget>>
  <2>1. PICK m : m = MarkWritten(p, B)
    OBVIOUS
  <2>2. /\ PlanOK(m) /\ m.total = p.total /\ m.written = p.written \cup B /\ m.durable = p.durable
        /\ m.leased = p.leased \ {B} /\ m.ckpt = p.ckpt
        /\ OneSegment(p) => OneSegment(m) /\ p.written = {}
    BY <1>3, <1>8, <2>1, MarkOK
  <2>3. PICK k : k = [job EXCEPT !.segments = m]
    OBVIOUS
  <2>4. /\ JobOK(k) /\ k.segments = m /\ k.state = job.state
        /\ k.generation = job.generation /\ k.validator = job.validator
        /\ Strip(k) = Strip(job) /\ job' = k
    BY <1>2, <1>8, <1>13, <2>1, <2>2, <2>3, WithPlan
  <2>5. Uniform(Cached, m.written, k.validator)
    <3>1. \A b \in B : b \in DOMAIN Cached /\ Cached[b] = workers[w].content
      <4>1. WorkerOK(w)
        BY <1>1, <1>3 DEF WorkersOK
      <4> QED
        BY <1>2, <1>13, <4>1 DEF WorkerOK, Writes
    <3>2. job.validator \in {NoValidator, workers[w].content}
      BY <1>1, <1>2, <1>13 DEF LeasesOK, Writes
    <3>3. CASE job.validator = NoValidator
      BY <1>8, <2>2, <2>4, <3>1, <3>3 DEF Uniform
    <3>4. CASE job.validator # NoValidator
      <4>1. p.written # {} => Uniform(Cached, p.written, job.validator)
        BY <1>1, <1>2 DEF Settling
      <4>2. \A b \in p.written : b \in DOMAIN Cached /\ Cached[b] = job.validator
        BY <3>4, <4>1 DEF Uniform
      <4>3. \A b \in m.written : b \in DOMAIN Cached /\ Cached[b] = job.validator
        BY <2>2, <3>1, <3>2, <3>4, <4>2
      <4> QED
        BY <2>4, <4>3 DEF Uniform
    <3> QED
      BY <3>3, <3>4
  <2>6. Settling(k) /\ k.segments.leased = {workers'[v].bytes : v \in Busy'}
    BY <1>1, <1>2, <1>7, <2>2, <2>4, <2>5 DEF Settling
  <2>7. Cardinality(B) \in Nat
    <3>1. PICK t \in Nat : t = p.total
      BY <1>3, <1>8, PlanFields
    <3>2. B \subseteq 0 .. (t - 1) /\ 0 \in Int /\ t - 1 \in Int
      BY <1>3, <1>8, <3>1, PlanFields DEF Bytes
    <3> QED
      BY <3>2, FS_Interval, FS_Subset, FS_CardinalityType
  <2>8. /\ IsSession(session') /\ session'.pc = "transfer" /\ session'.error = "None"
        /\ session'.reply = "None"
    <3>1. PICK u \in Nat : u = session.unsynced + Cardinality(B)
      BY <1>11, <2>7, SessionFields
    <3>2. session' = [session EXCEPT !.unsynced = u]
      BY <1>13, <3>1
    <3>3. /\ session' \in [pc : Pcs, live : BOOLEAN, after : Afters, stopping : BOOLEAN,
                storage_failed : BOOLEAN, unsynced : Nat, attempt : Nat, hashes : {session.hashes},
                reply : Replies, error : Errors]
          /\ session'.pc = session.pc /\ session'.reply = session.reply
          /\ session'.error = session.error /\ session'.hashes = session.hashes
      BY <1>11, <3>2 DEF IsSession
    <3> QED
      BY <1>1, <3>3 DEF IsSession
  <2>9. StateAt(session'.pc, k.state)
    BY <1>8, <2>4, <2>8 DEF StateAt
  <2>10. PICK next : next = session'
    OBVIOUS
  <2> QED
    BY <1>1, <1>5, <1>11, <1>13, <2>4, <2>6, <2>8, <2>9, <2>10, MannedStep
<1>14. CASE r = "Cancelled" /\ job' = released /\ UNCHANGED <<record, session, budget>>
  <2>1. StateAt(session.pc, released.state)
    BY <1>1, <1>10 DEF StateAt, Settling
  <2> QED
    BY <1>1, <1>5, <1>10, <1>11, <1>14, <2>1, MannedStep
<1>15. CASE StorageFailure(released, session)
  <2>1. PICK c : c = Because("RequireAction", "Storage")
    OBVIOUS
  <2>2. c.name \in Stopping /\ {c.total, c.validator} \subseteq Nat
    BY <2>1, CommandFields DEF Stopping, CauseKind
  <2>3. PICK n : n = [session EXCEPT !.storage_failed = TRUE]
    OBVIOUS
  <2>4. IsSession(n) /\ n.pc = "transfer" /\ n.error = "None" /\ n.reply = "None"
    BY <1>1, <1>11, <2>3, Sets DEF Kept4
  <2>5. StopWith(released, c, n)
    BY <1>15, <2>1, <2>3 DEF StorageFailure
  <2> QED
    BY <1>1, <1>5, <1>10, <1>11, <2>2, <2>4, <2>5, MannedStop
<1>16. CASE StopWith(released, Because("Fail", "Unknown"), session)
  <2>1. PICK c : c = Because("Fail", "Unknown")
    OBVIOUS
  <2>2. c.name \in Stopping /\ {c.total, c.validator} \subseteq Nat
    BY <2>1, CommandFields DEF Stopping, CauseKind
  <2> QED
    BY <1>12, <1>16, <2>1, <2>2
<1>17. CASE r \notin {"Ok", "Cancelled", "Storage", "Panicked"} /\ StopWith(released, TransportCommand(r), session)
  <2>1. PICK c : c = TransportCommand(r)
    OBVIOUS
  <2>2. c.name \in Stopping /\ {c.total, c.validator} \subseteq Nat
    BY <1>3, <1>17, <2>1, TransportStops DEF Results
  <2> QED
    BY <1>12, <1>17, <2>1, <2>2
<1> QED
  BY <1>2, <1>3, <1>8, <1>9, <1>13, <1>14, <1>15, <1>16, <1>17 DEF OnWorker

\* The transfer waits for a worker or a control.
LEMMA TransferWaitOK ==
  ASSUME IInv, TransferWait
  PROVE  IInv'
BY TransferControlOK, TransferWorkerOK DEF TransferWait

-----------------------------------------------------------------------------
(***************************************************************************)
(* checkpoint.                                                             *)
(***************************************************************************)

\* The job while a checkpoint is on its way.
LEMMA AtCheckpoint ==
  ASSUME IInv, NEW pc \in Checkpointing, Coordinating(pc)
  PROVE  /\ session.pc = pc /\ session.error = "None" /\ origin' = origin /\ Shapes /\ LiveOK
         /\ session.pc \in Manned /\ JobOK(job) /\ Match /\ LeasesOK /\ WrittenOK /\ CheckpointOK
         /\ WorkersOK /\ job.segments.ckpt # NoCheckpoint /\ job.state \in SegmentStates
         /\ PlanOK(job.segments) /\ (job.validator = NoValidator => OneSegment(job.segments))
         /\ session.after \in {"transfer", "drain"}
         /\ session.after = "transfer" => job.state = "Transferring"
         /\ session.after = "drain" => /\ job.state = "Stopping" /\ Busy = {}
                                       /\ job.segments.frozen = job.segments.written
<1>1. pc \in Pcs \ {"close", "idle"} /\ pc \in Manned
  BY DEF Pcs, Moving, Manned, Checkpointing
<1>2. session.pc = pc /\ session.error = "None" /\ origin' = origin /\ LiveOK /\ Shapes
  BY <1>1, Working1
<1>3. JobOK(job) /\ Match /\ LeasesOK /\ WrittenOK /\ CheckpointOK /\ WorkersOK
  BY <1>2 DEF LiveOK, IInv
<1> QED
  BY <1>1, <1>2, <1>3, JobFields DEF CheckpointOK, SegmentStates

\* Without its checkpoint the job stands by its record again.
LEMMA AbandonedOK ==
  ASSUME IInv, NEW pc \in Checkpointing, Coordinating(pc)
  PROVE  /\ Abandoned.state = job.state /\ Abandoned.segments.leased = job.segments.leased
         /\ pc # "commit" => Settling(Abandoned)
         /\ JobOK(Abandoned) /\ Strip(Abandoned) = Strip(job)
<1>1. /\ session.pc = pc /\ JobOK(job) /\ Match /\ WrittenOK /\ session.pc \in Manned
      /\ job.segments.ckpt # NoCheckpoint /\ job.state \in SegmentStates
      /\ PlanOK(job.segments) /\ (job.validator = NoValidator => OneSegment(job.segments))
  BY AtCheckpoint
<1>2. PICK p, m : p = job.segments /\ m = DiscardCheckpoint(p)
  OBVIOUS
<1>3. /\ PlanOK(m) /\ m.total = p.total /\ m.written = p.written /\ m.durable = p.durable
      /\ m.leased = p.leased /\ m.frozen = {} /\ m.ckpt = NoCheckpoint
      /\ OneSegment(p) => OneSegment(m)
  BY <1>1, <1>2, AbandonOK
<1>4. Abandoned = [job EXCEPT !.segments = m]
  BY <1>2 DEF Abandoned
<1>5. PICK k : k = Abandoned
  OBVIOUS
<1>6. /\ JobOK(k) /\ k.segments = m /\ k.state = job.state /\ k.generation = job.generation
      /\ k.validator = job.validator /\ Strip(k) = Strip(job)
  BY <1>1, <1>2, <1>3, <1>4, <1>5, WithPlan
<1>7. pc # "commit" => Settling(k)
  BY <1>1, <1>2, <1>3, <1>6 DEF Settling, Match, WrittenOK, Moving
<1> QED
  BY <1>2, <1>3, <1>5, <1>6, <1>7

\* The lane could not sync or hash: the checkpoint is abandoned and the job stopped.
LEMMA CheckpointFails ==
  ASSUME IInv, NEW pc \in {"sync", "hash"}, Answered(pc),
         StorageFailure(Abandoned, Taken(session.after)),
         UNCHANGED <<parts, workers, lane, control>>
  PROVE  IInv'
<1>1. Coordinating(pc) /\ pc \in Checkpointing /\ session.reply # "None"
  BY DEF Answered, Checkpointing
<1>2. /\ session.pc = pc /\ session.error = "None" /\ origin' = origin /\ Shapes
      /\ session.pc \in Manned /\ LeasesOK
      /\ session.after \in {"transfer", "drain"}
      /\ session.after = "drain" => job.state = "Stopping" /\ Busy = {}
  BY <1>1, AtCheckpoint
<1>3. /\ Settling(Abandoned) /\ Abandoned.state = job.state
      /\ Abandoned.segments.leased = job.segments.leased
  BY <1>1, AbandonedOK
<1>4. PICK j : j = Abandoned
  OBVIOUS
<1>5. PICK p \in Pcs : p = session.after
  BY <1>2 DEF Pcs, Moving, Manned
<1>6. PICK t : t = Taken(p)
  OBVIOUS
<1>7. IsSession(t) /\ t.pc = p /\ t.error = "None" /\ t.reply = "None"
  BY <1>2, <1>6, TakenFields DEF Shapes
<1>8. PICK n : n = [t EXCEPT !.storage_failed = TRUE]
  OBVIOUS
<1>9. IsSession(n) /\ n.pc = p /\ n.error = "None" /\ n.reply = "None" /\ n.storage_failed = TRUE
  BY <1>7, <1>8, Sets DEF Kept4
<1>10. PICK c : c = Because("RequireAction", "Storage")
  OBVIOUS
<1>11. c.name \in Stopping /\ {c.total, c.validator} \subseteq Nat
  BY <1>10, CommandFields DEF Stopping, CauseKind
<1>12. StopWith(j, c, n)
  BY <1>4, <1>5, <1>6, <1>8, <1>10 DEF StorageFailure
<1>13. Freed /\ Busy' = Busy /\ Quiet /\ control' \in Seq({"Pause", "Cancel"})
  BY <1>1, <1>2, FreedSame DEF Busy, Quiet, Shapes
<1>14. j.segments.leased = {workers'[v].bytes : v \in Busy'}
  BY <1>2, <1>3, <1>4, <1>13 DEF LeasesOK
<1> QED
  BY <1>2, <1>3, <1>4, <1>5, <1>9, <1>11, <1>12, <1>13, <1>14, MannedStop

\* Synced: the frozen bytes are on the disk, and are hashed next.
LEMMA SyncAnsweredOK ==
  ASSUME IInv, SyncAnswered
  PROVE  IInv'
<1>1. Answered("sync") /\ UNCHANGED <<parts, workers, control>>
  BY DEF SyncAnswered
<1>2. CASE session.reply # "Ok"
  BY <1>1, <1>2, CheckpointFails DEF SyncAnswered
<1>3. CASE session.reply = "Ok"
  <2>1. PICK pc \in Checkpointing : pc = "sync"
    BY DEF Checkpointing
  <2>2. Coordinating(pc) /\ session.reply # "None"
    BY <1>1, <2>1 DEF Answered
  <2>3. /\ session.pc = pc /\ session.error = "None" /\ origin' = origin /\ Shapes /\ LiveOK
        /\ session.pc \in Manned /\ JobOK(job) /\ Match /\ LeasesOK /\ WrittenOK /\ CheckpointOK
        /\ WorkersOK /\ job.segments.ckpt # NoCheckpoint /\ job.state \in SegmentStates
        /\ PlanOK(job.segments) /\ (job.validator = NoValidator => OneSegment(job.segments))
    BY <2>2, AtCheckpoint
  <2>4. PICK p, m : p = job.segments /\ m = AcknowledgeSync(p)
    OBVIOUS
  <2>5. /\ PlanOK(m) /\ m.total = p.total /\ m.written = p.written /\ m.durable = p.durable
        /\ m.leased = p.leased /\ m.frozen = p.frozen /\ m.ckpt # NoCheckpoint
        /\ OneSegment(p) => OneSegment(m)
    BY <2>3, <2>4, SyncedOK
  <2>6. PICK k : k = [job EXCEPT !.segments = m]
    OBVIOUS
  <2>7. /\ JobOK(k) /\ k.segments = m /\ k.state = job.state /\ k.generation = job.generation
        /\ k.validator = job.validator /\ Strip(k) = Strip(job) /\ job' = k
    BY <1>3, <2>3, <2>4, <2>5, <2>6, WithPlan DEF SyncAnswered
  <2>8. PICK q \in Pcs : q = "hash"
    BY DEF Pcs, Waits
  <2>9. /\ IsSession(session') /\ session'.pc = q /\ session'.reply = "None"
        /\ session'.error = "None" /\ session'.after = session.after
    BY <1>3, <2>3, <2>8, TakenFields DEF SyncAnswered, Shapes
  <2>10. Freed /\ Quiet /\ Ask("Hash") /\ UNCHANGED <<record, budget>>
    BY <1>1, <1>3, <2>2, <2>3, FreedSame DEF Quiet, SyncAnswered
  <2>11. QueueOK' /\ lane' \in Lanes /\ lane'.generation = lane.generation
    <3>1. session'.pc \in DOMAIN Waits /\ "Hash" = Waits[session'.pc]
      BY <2>8, <2>9 DEF Waits
    <3> QED
      BY <2>3, <2>9, <2>10, <3>1, AskedQueue DEF IInv
  <2>12. /\ WorkersOK' /\ Busy' = Busy /\ Open' = Open /\ Cached' = Cached /\ OnDisk' = OnDisk
         /\ Extents' = Extents
    BY <1>1, <2>3, <2>10, <2>11, FreedWorkers DEF Busy, Open, Cached, OnDisk, IInv, Narrowed, Extents
  <2>13. RecordOK' /\ RecordedBytesAreStable' /\ Shapes'
    <3>1. RecordOK'
      BY <2>10 DEF IInv, RecordOK, Extents
    <3> QED
      BY <1>1, <2>3, <2>9, <2>10, <2>11, <3>1, SameParts, SameRecorded DEF IInv, Shapes
  <2>14. Match' /\ LeasesOK' /\ WrittenOK'
    <3>1. Match'
      BY <2>1, <2>3, <2>4, <2>5, <2>7, <2>8, <2>9, <2>10, <2>12 DEF Match
    <3>2. session'.pc \in Manned /\ session.pc \in Moving
      BY <2>3, <2>8, <2>9 DEF Manned, Checkpointing, Moving
    <3>3. LeasesOK'
      BY <1>1, <2>3, <2>4, <2>5, <2>7, <2>11, <2>12, <3>2 DEF LeasesOK
    <3>4. WrittenOK'
      BY <2>3, <2>4, <2>5, <2>7, <2>11, <2>12, <3>2 DEF WrittenOK
    <3> QED
      BY <3>1, <3>3, <3>4
  <2>15. CheckpointOK'
    <3>1. Same(Cached, OnDisk, p.frozen)
      BY <1>3, <2>1, <2>3, <2>4 DEF CheckpointOK
    <3>2. \/ session'.after = "transfer" /\ job'.state = "Transferring"
          \/ /\ session'.after = "drain" /\ job'.state = "Stopping"
             /\ Busy' = {} /\ m.frozen = m.written
      BY <2>3, <2>4, <2>5, <2>7, <2>9, <2>12 DEF CheckpointOK
    <3>3. session'.pc \in Checkpointing /\ session'.pc \in Moving
      BY <2>8, <2>9 DEF Checkpointing, Moving, Manned
    <3> QED
      BY <2>5, <2>7, <2>8, <2>9, <2>12, <3>1, <3>2, <3>3 DEF CheckpointOK
  <2>16. StateAt(session'.pc, job'.state)
    BY <2>8, <2>9 DEF StateAt
  <2>17. LiveOK'
    BY <2>7, <2>9, <2>14, <2>15, <2>16 DEF LiveOK
  <2> QED
    BY <2>8, <2>9, <2>11, <2>12, <2>13, <2>17, Lives
<1> QED
  BY <1>2, <1>3

\* The batch is stored: what was frozen is recorded with the content its digest was taken from.
LEMMA StoredOK ==
  ASSUME IInv, Coordinating("commit"), AdmitsBatch, record' = Stored,
         UNCHANGED <<parts, workers, lane>>
  PROVE  /\ RecordOK' /\ RecordedBytesAreStable' /\ WorkersOK' /\ record'.job = record.job
         /\ Extents' = Extents \cup job.segments.frozen
<1>1. PICK pc \in Checkpointing : pc = "commit"
  BY DEF Checkpointing
<1>2. /\ session.pc = pc /\ Shapes /\ session.pc \in Manned /\ JobOK(job) /\ Match /\ LeasesOK
      /\ WrittenOK /\ CheckpointOK /\ WorkersOK /\ PlanOK(job.segments)
      /\ (job.validator = NoValidator => OneSegment(job.segments))
  BY <1>1, AtCheckpoint
<1>3. PICK p, F, h, v : /\ p = job.segments /\ F = p.frozen /\ h = session.hashes
                        /\ v = job.validator
  OBVIOUS
<1>4. RecordOK /\ RecordedBytesAreStable
  BY DEF IInv
<1>5. /\ Open /\ lane.generation = job.generation /\ record.job = Strip(job)
      /\ record.job.generation = job.generation /\ record.job.validator = v
      /\ record.job.segments.total = p.total
  BY <1>2, <1>3, StripOK DEF LeasesOK, Match
<1>6. Same(Cached, OnDisk, F) /\ h = RestrictTo(Cached, F)
  BY <1>1, <1>2, <1>3 DEF CheckpointOK
<1>7. DOMAIN h = F /\ \A b \in F : h[b] = Cached[b]
  BY <1>6 DEF RestrictTo, Same
<1>8. PICK f : f = Override(record.extents, h)
  OBVIOUS
<1>9. /\ DOMAIN f = Extents \cup F /\ \A b \in F : f[b] = h[b]
      /\ \A b \in Extents \ F : f[b] = record.extents[b]
  BY <1>7, <1>8 DEF Override, Extents
<1>10. /\ record'.job = record.job /\ record'.extents = f
       /\ record' \in [job : {record'.job}, extents : {record'.extents}]
  <2>1. record' = [record EXCEPT !.extents = f]
    BY <1>3, <1>8 DEF Stored
  <2> QED
    BY <1>4, <2>1 DEF RecordOK
<1>11. Extents' = Extents \cup F
  BY <1>9, <1>10 DEF Extents
<1>12. F \subseteq p.written /\ F \subseteq Bytes(p.total)
  BY <1>2, <1>3, PlanFields
<1>13. p.written # {} => Uniform(Cached, p.written, v)
  BY <1>2, <1>3 DEF WrittenOK, Moving
<1>14. \A b, c \in F : Cached[b] = Cached[c] /\ v \in {NoValidator, Cached[b]}
  BY <1>12, <1>13 DEF Uniform
<1>15. Uniform(f, Extents \cup F, v)
  <2>1. \A b, c \in Extents : record.extents[b] = record.extents[c]
                              /\ v \in {NoValidator, record.extents[b]}
    BY <1>4, <1>5 DEF RecordOK, Uniform
  <2>2. CASE v # NoValidator
    <3>1. \A b \in Extents \cup F : f[b] = v
      BY <1>7, <1>9, <1>14, <2>1, <2>2
    <3> QED
      BY <1>9, <3>1 DEF Uniform
  <2>3. CASE v = NoValidator
    <3>1. F \in {{}, Bytes(p.total)} /\ Extents \subseteq Bytes(p.total)
      BY <1>2, <1>3, <1>4, <1>5, <2>3 DEF OneSegment, Whole, RecordOK
    <3>2. CASE F = {}
      BY <1>9, <2>1, <2>3, <3>2 DEF Uniform
    <3>3. CASE F = Bytes(p.total)
      <4>1. Extents \cup F = F
        BY <3>1, <3>3
      <4> QED
        BY <1>7, <1>9, <1>14, <2>3, <4>1 DEF Uniform
    <3> QED
      BY <3>1, <3>2, <3>3
  <2> QED
    BY <2>2, <2>3
<1>16. RecordOK'
  <2>1. v = NoValidator => Extents \cup F \in Whole(record.job.segments)
    <3> SUFFICES ASSUME v = NoValidator
                 PROVE  Extents \cup F \in Whole(record.job.segments)
      OBVIOUS
    <3>1. F \in {{}, Bytes(p.total)} /\ Extents \in {{}, Bytes(p.total)}
      BY <1>2, <1>3, <1>4, <1>5 DEF OneSegment, Whole, RecordOK
    <3>2. Extents \cup F \in {{}, Bytes(p.total)}
      BY <3>1
    <3> QED
      BY <1>5, <3>2 DEF Whole
  <2>2. Extents \cup F \subseteq Bytes(p.total)
    BY <1>4, <1>5, <1>12 DEF RecordOK
  <2>3. JobOK(record.job) /\ record.job = Strip(record.job)
    BY <1>4 DEF RecordOK
  <2> QED
    BY <1>5, <1>10, <1>11, <1>15, <2>1, <2>2, <2>3 DEF RecordOK
<1>17. RecordedBytesAreStable'
  <2>1. ASSUME NEW b \in F
        PROVE  /\ b \in DOMAIN Cached /\ Cached[b] = f[b]
               /\ b \in DOMAIN OnDisk /\ OnDisk[b] = f[b]
    BY <1>6, <1>7, <1>9 DEF Same
  <2>2. lane.generation = record.job.generation /\ record.job.generation \in DOMAIN parts
    BY <1>5 DEF Open
  <2>3. \A b \in F : LET part == parts[record.job.generation] IN
                     /\ b \in DOMAIN part.stable /\ part.stable[b] = f[b]
                     /\ b \in DOMAIN part.cached /\ part.cached[b] = f[b]
    BY <2>1, <2>2 DEF Cached, OnDisk
  <2>4. record.job.state \notin {"Cancelling", "Cancelled", "Completed"} =>
         \A b \in Extents \ F : LET part == parts[record.job.generation] IN
                     /\ b \in DOMAIN part.stable /\ part.stable[b] = f[b]
                     /\ b \in DOMAIN part.cached /\ part.cached[b] = f[b]
    BY <1>4, <1>9 DEF RecordedBytesAreStable, Extents
  <2> QED
    BY <1>9, <1>10, <2>2, <2>3, <2>4 DEF RecordedBytesAreStable
<1>18. WorkersOK'
  <2>1. Busy' = Busy /\ Open' = Open /\ Cached' = Cached
    BY DEF Busy, Open, Cached
  <2>2. \A w \in Busy : workers[w].bytes \cap F = {}
    <3>1. \A w \in Busy : workers[w].bytes \in p.leased
      BY <1>2, <1>3 DEF LeasesOK
    <3> QED
      BY <1>2, <1>3, <1>12, <3>1 DEF PlanOK
  <2>3. \A w \in Slots : WorkerOK(w)'
    <3> SUFFICES ASSUME NEW w \in Busy
                 PROVE  WorkerOK(w)'
      BY <2>1 DEF WorkerOK, Busy
    <3>1. WorkerOK(w) /\ workers'[w] = workers[w] /\ workers[w].bytes \cap F = {}
      BY <1>2, <2>2 DEF WorkersOK, Busy
    <3> QED
      BY <1>10, <1>11, <2>1, <3>1 DEF WorkerOK
  <2> QED
    BY <1>2, <2>1, <2>3 DEF WorkersOK
<1> QED
  BY <1>3, <1>10, <1>11, <1>16, <1>17, <1>18

\* A batch waits to be committed, or to be sent again.
LEMMA CommitWaits ==
  ASSUME IInv, session.error = "None", session.pc \in {"hash", "commit"}, Quiet,
         session.hashes = RestrictTo(Cached, job.segments.frozen),
         UNCHANGED <<job, parts, workers, lane, origin, control>>, budget' \in Budgets,
         IsSession(session'), session'.pc = "commit", session'.after = session.after,
         session'.reply = "None", session'.error = "None", session'.hashes = session.hashes,
         RecordOK', RecordedBytesAreStable', WorkersOK', record'.job = record.job,
         Extents \subseteq Extents', Extents' \subseteq Extents \cup job.segments.frozen
  PROVE  IInv'
<1>1. /\ JobOK(job) /\ Match /\ LeasesOK /\ WrittenOK /\ CheckpointOK /\ Shapes
  BY DEF IInv, LiveOK
<1>2. Freed /\ control' \in Seq({"Pause", "Cancel"})
  BY <1>1, FreedSame DEF Shapes
<1>3. QueueOK' /\ Shapes'
  BY <1>1, <1>2, FreedQueue, SameParts DEF IInv, Shapes
<1>4. Busy' = Busy /\ Open' = Open /\ Cached' = Cached /\ OnDisk' = OnDisk
  BY DEF Busy, Open, Cached, OnDisk
<1>5. /\ session.pc \in Manned /\ session'.pc \in Manned /\ session.pc \in Moving
      /\ session'.pc \in Moving /\ session.pc \in Checkpointing /\ session'.pc \in Checkpointing
  BY DEF Manned, Moving, Checkpointing
<1>6. Match'
  BY <1>1 DEF Match
<1>7. LeasesOK' /\ WrittenOK'
  BY <1>1, <1>4, <1>5 DEF LeasesOK, WrittenOK
<1>8. CheckpointOK'
  BY <1>1, <1>4, <1>5 DEF CheckpointOK
<1>9. StateAt(session'.pc, job'.state)
  BY DEF StateAt
<1>10. LiveOK'
  BY <1>1, <1>6, <1>7, <1>8, <1>9 DEF LiveOK
<1> QED
  BY <1>3, <1>10, Lives

\* Hashed: the batch is committed next.
LEMMA HashAnsweredOK ==
  ASSUME IInv, HashAnswered
  PROVE  IInv'
<1>1. Answered("hash") /\ UNCHANGED <<parts, workers, lane, control>>
  BY DEF HashAnswered
<1>2. CASE session.reply # "Ok"
  BY <1>1, <1>2, CheckpointFails DEF HashAnswered
<1>3. CASE session.reply = "Ok"
  <2>1. PICK pc \in Checkpointing : pc = "hash"
    BY DEF Checkpointing
  <2>2. Coordinating(pc) /\ session.reply # "None"
    BY <1>1, <2>1 DEF Answered
  <2>3. /\ session.pc = pc /\ session.error = "None" /\ origin' = origin /\ Shapes
        /\ CheckpointOK /\ WorkersOK /\ UNCHANGED <<job, record, budget>>
    BY <1>3, <2>2, AtCheckpoint DEF HashAnswered
  <2>4. session.hashes = RestrictTo(Cached, job.segments.frozen)
    BY <1>3, <2>1, <2>3 DEF CheckpointOK
  <2>5. PICK q \in Pcs : q = "commit"
    BY DEF Pcs, Moving, Manned, Checkpointing
  <2>6. PICK t : t = Taken(q)
    OBVIOUS
  <2>7. /\ IsSession(t) /\ t.pc = q /\ t.reply = "None" /\ t.error = "None"
        /\ t.after = session.after /\ t.hashes = session.hashes
    BY <2>3, <2>6, TakenFields DEF Shapes
  <2>8. session' = [t EXCEPT !.attempt = 0]
    BY <1>3, <2>5, <2>6 DEF HashAnswered
  <2>9. /\ session' \in [pc : Pcs, live : BOOLEAN, after : Afters, stopping : BOOLEAN,
              storage_failed : BOOLEAN, unsynced : Nat, attempt : Nat, hashes : {t.hashes},
              reply : Replies, error : Errors]
        /\ session'.pc = t.pc /\ session'.reply = t.reply /\ session'.error = t.error
        /\ session'.hashes = t.hashes /\ session'.after = t.after
    BY <2>7, <2>8 DEF IsSession
  <2>10. IsSession(session')
    BY <2>9 DEF IsSession
  <2>11. RecordOK' /\ RecordedBytesAreStable' /\ WorkersOK' /\ Extents' = Extents /\ Quiet
    <3>1. RecordOK' /\ RecordedBytesAreStable' /\ Extents' = Extents /\ Narrowed /\ Freed
      BY <1>1, <2>3, SameRecorded, FreedSame DEF IInv, RecordOK, Extents, Narrowed
    <3> QED
      BY <1>1, <2>2, <2>3, <3>1, FreedWorkers DEF Quiet
  <2>12. budget' \in Budgets
    BY <2>3 DEF Shapes
  <2> QED
    BY <1>1, <2>1, <2>3, <2>4, <2>5, <2>7, <2>9, <2>10, <2>11, <2>12, CommitWaits
<1> QED
  BY <1>2, <1>3

\* The locals once a batch was committed, and while it is sent again.
LEMMA Committing ==
  ASSUME IsSession(session)
  PROVE  /\ \A p \in Pcs : LET s == [At(p) EXCEPT !.unsynced = 0, !.hashes = None] IN
              /\ IsSession(s) /\ s.pc = p /\ s.reply = session.reply /\ s.error = session.error
              /\ s.storage_failed = session.storage_failed
         /\ LET s == [session EXCEPT !.attempt = @ + 1] IN
              /\ IsSession(s) /\ s.pc = session.pc /\ s.after = session.after
              /\ s.reply = session.reply /\ s.error = session.error /\ s.hashes = session.hashes
<1>1. ASSUME NEW p \in Pcs, NEW s, s = [At(p) EXCEPT !.unsynced = 0, !.hashes = None]
      PROVE  /\ IsSession(s) /\ s.pc = p /\ s.reply = session.reply /\ s.error = session.error
             /\ s.storage_failed = session.storage_failed
  <2>1. PICK x, h : x = At(p) /\ h = None
    OBVIOUS
  <2>2. /\ IsSession(x) /\ x.pc = p /\ x.reply = session.reply
        /\ x.error = session.error /\ x.storage_failed = session.storage_failed
    BY <2>1, Goes
  <2>3. s = [x EXCEPT !.unsynced = 0, !.hashes = h]
    BY <1>1, <2>1
  <2>4. /\ s \in [pc : Pcs, live : BOOLEAN, after : Afters, stopping : BOOLEAN,
                  storage_failed : BOOLEAN, unsynced : Nat, attempt : Nat, hashes : {h},
                  reply : Replies, error : Errors]
        /\ s.pc = p /\ s.reply = x.reply /\ s.error = x.error
        /\ s.storage_failed = x.storage_failed /\ s.hashes = h
    BY <2>2, <2>3 DEF IsSession
  <2> QED
    BY <2>2, <2>4 DEF IsSession
<1>2. ASSUME NEW s, s = [session EXCEPT !.attempt = @ + 1]
      PROVE  /\ IsSession(s) /\ s.pc = session.pc /\ s.after = session.after
             /\ s.reply = session.reply /\ s.error = session.error /\ s.hashes = session.hashes
  <2>1. PICK n \in Nat : n = session.attempt + 1
    BY SessionFields
  <2>2. s = [session EXCEPT !.attempt = n]
    BY <1>2, <2>1
  <2>3. /\ s \in [pc : Pcs, live : BOOLEAN, after : Afters, stopping : BOOLEAN,
                  storage_failed : BOOLEAN, unsynced : Nat, attempt : Nat, hashes : {session.hashes},
                  reply : Replies, error : Errors]
        /\ s.pc = session.pc /\ s.after = session.after
        /\ s.reply = session.reply /\ s.error = session.error /\ s.hashes = session.hashes
    BY <2>2 DEF IsSession
  <2> QED
    BY <2>3 DEF IsSession
<1> QED
  BY <1>1, <1>2

\* The batch is stored, sent again, or given up.
LEMMA CommitExtentsOK ==
  ASSUME IInv, CommitExtents
  PROVE  IInv'
<1>1. PICK pc \in Checkpointing : pc = "commit"
  BY DEF Checkpointing
<1>2. Coordinating(pc) /\ UNCHANGED <<parts, workers, lane, control>>
  BY <1>1 DEF CommitExtents
<1>3. /\ session.pc = pc /\ session.error = "None" /\ origin' = origin /\ Shapes /\ LiveOK
      /\ session.pc \in Manned /\ JobOK(job) /\ Match /\ LeasesOK /\ WrittenOK /\ CheckpointOK
      /\ WorkersOK /\ job.segments.ckpt # NoCheckpoint /\ job.state \in SegmentStates
      /\ PlanOK(job.segments) /\ (job.validator = NoValidator => OneSegment(job.segments))
      /\ session.after \in {"transfer", "drain"}
      /\ session.after = "transfer" => job.state = "Transferring"
      /\ session.after = "drain" => /\ job.state = "Stopping" /\ Busy = {}
                                    /\ job.segments.frozen = job.segments.written
  BY <1>2, AtCheckpoint
<1>4. /\ Freed /\ Quiet /\ Busy' = Busy /\ IsSession(session) /\ session.reply = "None"
      /\ control' \in Seq({"Pause", "Cancel"})
  BY <1>1, <1>2, <1>3, FreedSame DEF Quiet, Busy, Shapes, LiveOK, Waits
<1>5. ASSUME record' = record
      PROVE  RecordOK' /\ RecordedBytesAreStable' /\ WorkersOK' /\ record'.job = record.job
             /\ Extents' = Extents
  <2>1. RecordOK' /\ RecordedBytesAreStable' /\ Extents' = Extents /\ Narrowed
    BY <1>2, <1>5, SameRecorded DEF IInv, RecordOK, Extents, Narrowed
  <2> QED
    BY <1>2, <1>3, <1>4, <1>5, <2>1, FreedWorkers
<1>6. ASSUME AdmitsBatch, record' = Stored
      PROVE  RecordOK' /\ RecordedBytesAreStable' /\ WorkersOK' /\ record'.job = record.job
             /\ Extents' = Extents \cup job.segments.frozen
  BY <1>1, <1>2, <1>6, StoredOK
<1>7. ASSUME session' = Failed("Commit"), record' = record \/ (AdmitsBatch /\ record' = Stored),
             budget' \in Budgets
      PROVE  IInv'
  <2>1. Halted
    BY <1>4, <1>7, Fails DEF Halted, Errors
  <2>2. RecordOK' /\ RecordedBytesAreStable' /\ WorkersOK'
    BY <1>5, <1>6, <1>7
  <2>3. QueueOK' /\ Shapes'
    BY <1>2, <1>3, <1>4, <1>7, <2>1, FreedQueue, SameParts DEF IInv, Shapes, Freed, Halted
  <2> QED
    BY <2>1, <2>2, <2>3 DEF IInv, Halted
<1>8. CASE /\ AdmitsBatch /\ record' = Stored
           /\ job' = [job EXCEPT !.segments = AcknowledgeCommit(@)]
           /\ session' = [At(session.after) EXCEPT !.unsynced = 0, !.hashes = None]
           /\ UNCHANGED budget
  <2>1. PICK p, m : p = job.segments /\ m = AcknowledgeCommit(p)
    OBVIOUS
  <2>2. /\ PlanOK(m) /\ m.total = p.total /\ m.written = p.written \ p.frozen
        /\ m.durable = p.durable \cup p.frozen
        /\ m.leased = p.leased /\ m.frozen = {} /\ m.ckpt = NoCheckpoint
        /\ OneSegment(p) => OneSegment(m)
    BY <1>3, <2>1, CommittedOK
  <2>3. PICK k : k = [job EXCEPT !.segments = m]
    OBVIOUS
  <2>4. /\ JobOK(k) /\ k.segments = m /\ k.state = job.state /\ k.generation = job.generation
        /\ k.validator = job.validator /\ Strip(k) = Strip(job) /\ job' = k
    BY <1>3, <1>8, <2>1, <2>2, <2>3, WithPlan
  <2>5. /\ RecordOK' /\ RecordedBytesAreStable' /\ WorkersOK' /\ record'.job = record.job
        /\ Extents' = Extents \cup p.frozen
    BY <1>6, <1>8, <2>1
  <2>6. m.durable = Extents' /\ record'.job = Strip(k)
    BY <1>3, <2>1, <2>2, <2>4, <2>5 DEF Match
  <2>7. m.leased = {workers'[v].bytes : v \in Busy'}
    BY <1>2, <1>3, <1>4, <2>1, <2>2 DEF LeasesOK
  <2>8. m.written # {} => Uniform(Cached, m.written, k.validator)
    <3>1. p.written # {} => Uniform(Cached, p.written, job.validator)
      BY <1>3, <2>1 DEF WrittenOK, Moving
    <3> QED
      BY <2>2, <2>4, <3>1 DEF Uniform
  <2>9. PICK q \in Pcs : q = session.after
    BY <1>3 DEF Pcs, Moving, Manned
  <2>10. IsSession(session') /\ session'.pc = q /\ session'.reply = "None" /\ session'.error = "None"
    BY <1>3, <1>4, <1>8, <2>9, Committing
  <2>11. StateAt(session'.pc, k.state)
    BY <1>3, <2>4, <2>9, <2>10 DEF StateAt, SegmentStates
  <2>12. budget' \in Budgets
    BY <1>3, <1>8 DEF Shapes
  <2> QED
    BY <1>2, <1>3, <1>4, <2>1, <2>2, <2>4, <2>5, <2>6, <2>7, <2>8, <2>9, <2>10, <2>11, <2>12,
       MannedGo
<1>9. CASE /\ Spend("faults")
           /\ record' \in {record} \cup Only(AdmitsBatch, Stored)
           /\ IF session.attempt < CommitRetries
                THEN session' = [session EXCEPT !.attempt = @ + 1] /\ UNCHANGED job
                ELSE session' = Failed("Commit") /\ job' = Abandoned
  <2>1. record' = record \/ (AdmitsBatch /\ record' = Stored)
    BY <1>9 DEF Only
  <2>2. budget' \in Budgets
    BY <1>3, <1>9, Spends DEF Shapes
  <2>3. CASE session' = Failed("Commit")
    BY <1>7, <2>1, <2>2, <2>3
  <2>4. CASE session' = [session EXCEPT !.attempt = @ + 1] /\ UNCHANGED job
    <3>1. /\ IsSession(session') /\ session'.pc = session.pc /\ session'.after = session.after
          /\ session'.reply = session.reply /\ session'.error = session.error
          /\ session'.hashes = session.hashes
      BY <1>4, <2>4, Committing
    <3>2. /\ RecordOK' /\ RecordedBytesAreStable' /\ WorkersOK' /\ record'.job = record.job
          /\ Extents \subseteq Extents' /\ Extents' \subseteq Extents \cup job.segments.frozen
      BY <1>5, <1>6, <2>1
    <3>3. session.hashes = RestrictTo(Cached, job.segments.frozen)
      BY <1>1, <1>3 DEF CheckpointOK
    <3> QED
      BY <1>1, <1>2, <1>3, <1>4, <2>2, <2>4, <3>1, <3>2, <3>3, CommitWaits
  <2> QED
    BY <1>9, <2>3, <2>4
<1>10. CASE session' = Failed("Commit") /\ UNCHANGED <<record, budget>>
  BY <1>3, <1>7, <1>10 DEF Shapes
<1> QED
  BY <1>8, <1>9, <1>10 DEF CommitExtents

-----------------------------------------------------------------------------
(***************************************************************************)
(* The lane and the workers are brought up.                                *)
(***************************************************************************)

\* The part is created, or opened and found to hold what the record says.
LEMMA OpenPartOK ==
  ASSUME IInv, OpenPart
  PROVE  IInv'
<1>1. /\ session.pc = "open" /\ session.error = "None" /\ origin' = origin
      /\ Busy = {} /\ CalmOK /\ Quiet /\ Shapes /\ session.reply = "None"
  BY Working1 DEF OpenPart, Pcs, Manned, Checkpointing, Waits
<1>2. job.state \in {"Transferring", "Verifying"} /\ Clean(job.segments) /\ JobOK(job)
  BY <1>1 DEF CalmOK, StateAt, Moving, Manned, Checkpointing
<1>3. UNCHANGED <<job, record, workers, control, budget>>
  BY DEF OpenPart
<1>4. PICK g \in Nat : g = job.generation
  BY <1>2, JobFields
<1>5. PICK p \in Pcs : p = IF job.state = "Verifying" THEN "vsync" ELSE "transfer"
  BY DEF Pcs, Moving, Manned, Waits
<1>6. /\ IsSession(session') /\ session'.pc = p /\ session'.error = "None"
      /\ session'.reply = "None"
  BY <1>1, <1>5, Goes DEF Shapes, OpenPart
<1>7. PICK q \in Seq(Messages) :
        /\ q = IF p = "vsync" THEN <<[kind |-> "Sync"]>> ELSE <<>>
        /\ \A i \in DOMAIN q : i = 1 /\ p = "vsync" /\ q[i].kind = "Sync"
  <2>1. PICK m \in Messages : m = [kind |-> "Sync"]
    <3>1. [kind |-> "Sync"] \in [kind : {"Sync", "Hash", "Verify", "Discard"}]
      OBVIOUS
    <3> QED
      BY <3>1 DEF Messages
  <2>2. PICK e \in Seq(Messages), o \in Seq(Messages) :
          /\ e = <<>> /\ DOMAIN e = {} /\ o = <<m>>
          /\ \A i \in DOMAIN o : i = 1 /\ o[i] = m
    <3>1. /\ <<m>> \in Seq(Messages) /\ <<>> \in Seq(Messages) /\ DOMAIN <<>> = {}
          /\ \A i \in DOMAIN <<m>> : i = 1 /\ <<m>>[i] = m
      OBVIOUS
    <3> QED
      BY <3>1
  <2>3. m.kind = "Sync"
    BY <2>1
  <2>4. CASE p = "vsync"
    BY <2>1, <2>2, <2>3, <2>4
  <2>5. CASE p # "vsync"
    BY <2>2, <2>5
  <2> QED
    BY <2>4, <2>5
<1>8. lane' \in Lanes /\ lane'.generation = g /\ lane'.queue = q
  <2>1. lane' = [NoLane EXCEPT !.generation = g, !.queue = q]
    BY <1>4, <1>5, <1>7 DEF OpenPart
  <2> QED
    BY <2>1 DEF NoLane, Lanes
<1>9. QueueOK'
  <2>1. \A i \in DOMAIN q : IsAsked(q[i], session') /\ ~IsWrite(q[i], workers') /\ i = 1
    BY <1>5, <1>6, <1>7 DEF IsAsked, IsWrite, Waits
  <2> QED
    BY <1>8, <2>1 DEF QueueOK, Waiting
<1>10. /\ DOMAIN parts' = DOMAIN parts \cup {g} /\ \A h \in DOMAIN parts : parts'[h] = parts[h]
       /\ PartsOK'
  <2>1. PICK f : f = [h \in {g} |-> NewPart]
    OBVIOUS
  <2>2. DOMAIN f = {g} /\ f[g] = NewPart /\ parts' = Override(f, parts)
    BY <1>4, <2>1 DEF OpenPart
  <2>3. PICK N : N = None
    OBVIOUS
  <2>4. IsPart(NewPart)
    BY <2>3 DEF IsPart, NewPart
  <2>5. /\ DOMAIN parts' = DOMAIN parts \cup {g} /\ \A h \in DOMAIN parts : parts'[h] = parts[h]
        /\ parts' = [h \in DOMAIN parts' |-> parts'[h]]
        /\ g \notin DOMAIN parts => parts'[g] = NewPart
    BY <2>2 DEF Override
  <2>6. \A h \in DOMAIN parts : IsPart(parts[h])
    BY <1>1 DEF Shapes, PartsOK
  <2>7. \A h \in DOMAIN parts' : IsPart(parts'[h])
    BY <2>4, <2>5, <2>6
  <2> QED
    BY <2>5, <2>7 DEF PartsOK, IsPart
<1>11. RecordOK' /\ RecordedBytesAreStable' /\ Extents' = Extents
  BY <1>3, <1>10 DEF IInv, RecordOK, Extents, RecordedBytesAreStable
<1>12. Shapes'
  BY <1>1, <1>3, <1>6, <1>8, <1>10 DEF Shapes
<1>13. Busy' = {} /\ WorkersOK'
  <2>1. Busy' = {}
    BY <1>1, <1>3 DEF Busy
  <2> QED
    BY <2>1 DEF WorkersOK, WorkerOK, Busy
<1>14. StateAt(p, job.state)
  BY <1>2, <1>5 DEF StateAt, SegmentStates
<1>15. CASE p = "vsync"
  <2>1. CalmOK'
    BY <1>1, <1>2, <1>3, <1>6, <1>11, <1>14, <1>15 DEF CalmOK, WrittenOK, Clean
  <2> QED
    BY <1>6, <1>9, <1>11, <1>12, <1>13, <1>15, <2>1, Calm DEF Manned, Checkpointing
<1>16. CASE p = "transfer"
  <2>1. Open' /\ lane'.generation = job'.generation
    BY <1>3, <1>4, <1>8, <1>10 DEF Open
  <2>2. {workers'[w].bytes : w \in Busy'} = {}
    BY <1>13
  <2>3. LeasesOK' /\ WrittenOK' /\ Match'
    BY <1>1, <1>2, <1>3, <1>11, <1>13, <2>1, <2>2 DEF LeasesOK, WrittenOK, Match, CalmOK, Clean
  <2>4. CheckpointOK'
    BY <1>1, <1>3, <1>6, <1>16 DEF CheckpointOK, CalmOK, Checkpointing, Moving, Manned
  <2>5. LiveOK'
    BY <1>2, <1>3, <1>6, <1>14, <2>3, <2>4 DEF LiveOK
  <2> QED
    BY <1>6, <1>9, <1>11, <1>12, <1>13, <1>16, <2>5, Lives
<1> QED
  BY <1>5, <1>15, <1>16

\* A free slot is given a lease, and its worker begins to connect.
LEMMA SpawnWorkerOK ==
  ASSUME IInv, NEW w \in Slots, SpawnWorker(w)
  PROVE  IInv'
<1>1. /\ session.pc = "transfer" /\ session.error = "None" /\ origin' = origin /\ Shapes
      /\ session.pc \in Manned /\ Quiet /\ session.reply = "None" /\ Settling(job)
      /\ job.segments.leased = {workers[v].bytes : v \in Busy} /\ WorkersOK /\ LeasesOK
  BY AtTransfer DEF SpawnWorker
<1>2. UNCHANGED <<record, parts, session, lane, control, budget>> /\ w \notin Busy
  BY DEF SpawnWorker
<1>3. PICK B \in Leasable :
       /\ job' = [job EXCEPT !.segments = LeaseBytes(@, B)]
       /\ workers' = [workers EXCEPT ![w] =
            [bytes |-> B, at |-> CHOOSE b \in B : \A c \in B : b <= c, content |-> 0,
             phase |-> "connect"]]
  BY DEF SpawnWorker
<1>4. PICK p : p = job.segments
  OBVIOUS
<1>5. /\ JobOK(job) /\ PlanOK(p) /\ job.state \in SegmentStates
      /\ job.validator = NoValidator => OneSegment(p)
  BY <1>1, <1>4, JobFields DEF Settling
<1>6. /\ CanLease(p, B) /\ (job.validator = NoValidator => B = Bytes(p.total))
      /\ \E lo, hi \in Bytes(p.total) : B = lo .. hi
  BY <1>3, <1>4 DEF Leasable
<1>7. PICK m : m = LeaseBytes(p, B)
  OBVIOUS
<1>8. /\ PlanOK(m) /\ m.total = p.total /\ m.written = p.written /\ m.durable = p.durable
      /\ m.leased = p.leased \cup {B} /\ m.frozen = p.frozen /\ m.ckpt = p.ckpt
      /\ B \cap (p.written \cup p.durable) = {} /\ B \subseteq Bytes(p.total)
      /\ \A C \in p.leased : B \cap C = {}
      /\ OneSegment(p) /\ B = Bytes(p.total) => OneSegment(m)
  <2>1. PlanOK(p) /\ CanLease(p, B)
    BY <1>5, <1>6
  <2> QED
    BY <1>7, <2>1, LeaseOK
<1>9. PICK k : k = [job EXCEPT !.segments = m]
  OBVIOUS
<1>10. /\ JobOK(k) /\ k.segments = m /\ k.state = job.state /\ k.generation = job.generation
       /\ k.validator = job.validator /\ Strip(k) = Strip(job) /\ job' = k
  BY <1>3, <1>4, <1>5, <1>6, <1>7, <1>8, <1>9, WithPlan
<1>11. B # {} /\ B \subseteq Int /\ \A a, c \in B : a .. c \subseteq B
  BY <1>6 DEF CanLease, Bytes
<1>12. PICK x \in B : x = (CHOOSE b \in B : \A c \in B : b <= c) /\ \A c \in B : x <= c
  <2>1. \E b \in B : \A c \in B : b <= c
    BY <1>6, <1>11 DEF Bytes
  <2> QED
    BY <2>1
<1>13. PICK t \in Tasks : t = [bytes |-> B, at |-> x, content |-> 0, phase |-> "connect"]
  <2>1. PICK ph \in Phases : ph = "connect"
    BY DEF Phases
  <2>2. [bytes |-> B, at |-> x, content |-> 0, phase |-> ph] \in Tasks
    BY <1>11 DEF Tasks
  <2> QED
    BY <2>1, <2>2
<1>14. t.bytes = B /\ t.at = x /\ t.phase = "connect"
  BY <1>13
<1>15. /\ workers' \in [Slots -> Tasks] /\ workers'[w] = t
       /\ \A v \in Slots \ {w} : workers'[v] = workers[v]
  <2>1. workers' = [workers EXCEPT ![w] = t]
    BY <1>3, <1>12, <1>13
  <2> QED
    BY <1>1, <2>1 DEF Shapes
<1>16. Busy' = Busy \cup {w} /\ workers[w].phase = "free"
  BY <1>2, <1>14, <1>15 DEF Busy
<1>17. Open' = Open /\ Cached' = Cached /\ Extents' = Extents /\ Open
       /\ lane.generation = job.generation
  BY <1>1, <1>2 DEF Open, Cached, Extents, LeasesOK
<1>18. WorkersOK'
  <2>1. WorkerOK(w)'
    <3>1. B \cap Extents = {}
      BY <1>1, <1>4, <1>8 DEF Settling
    <3> QED
      BY <1>11, <1>12, <1>14, <1>15, <1>17, <3>1 DEF WorkerOK, Writes
  <2>2. \A v \in Slots \ {w} : WorkerOK(v)'
    BY <1>1, <1>2, <1>15, <1>17 DEF WorkersOK, WorkerOK
  <2>3. ASSUME NEW v \in Busy
        PROVE  v # w /\ workers'[v] = workers[v] /\ workers[v].bytes \cap B = {}
    <3>1. v \in Slots \ {w}
      BY <1>2 DEF Busy
    <3>2. workers[v].bytes \in p.leased
      BY <1>1, <1>4
    <3> QED
      BY <1>8, <1>15, <3>1, <3>2
  <2> QED
    BY <1>1, <1>14, <1>15, <1>16, <2>1, <2>2, <2>3 DEF WorkersOK
<1>19. QueueOK'
  <2>1. \A n : IsWrite(n, workers') = IsWrite(n, workers)
    BY <1>14, <1>15, <1>16 DEF IsWrite
  <2> QED
    BY <1>2, <2>1 DEF IInv, QueueOK, Waiting
<1>20. Shapes' /\ RecordOK' /\ RecordedBytesAreStable'
  <2>1. RecordOK' /\ RecordedBytesAreStable'
    BY <1>2, SameRecorded DEF IInv, RecordOK, Extents
  <2> QED
    BY <1>1, <1>2, <1>15, <2>1, SameParts DEF Shapes
<1>21. Match' /\ WrittenOK' /\ CheckpointOK'
  <2>1. Match'
    BY <1>1, <1>2, <1>4, <1>8, <1>10, <1>17 DEF Settling, Match
  <2>2. WrittenOK'
    BY <1>1, <1>2, <1>4, <1>8, <1>10, <1>17 DEF Settling, WrittenOK
  <2>3. CheckpointOK'
    BY <1>1, <1>2, <1>4, <1>8, <1>10 DEF Settling, CheckpointOK, Checkpointing, Moving, Manned
  <2> QED
    BY <2>1, <2>2, <2>3
<1>22. LeasesOK'
  <2>1. m.leased = {workers'[v].bytes : v \in Busy'}
    <3>1. \A v \in Busy : workers'[v].bytes = workers[v].bytes
      BY <1>2, <1>15 DEF Busy
    <3>2. p.leased = {workers'[v].bytes : v \in Busy}
      BY <1>1, <1>4, <3>1
    <3> QED
      BY <1>8, <1>14, <1>15, <1>16, <3>2
  <2>2. \A v \in Busy' : workers'[v].phase \in Writes =>
                          job'.validator \in {NoValidator, workers'[v].content}
    BY <1>1, <1>2, <1>10, <1>14, <1>15, <1>16 DEF LeasesOK, Writes, Busy
  <2> QED
    BY <1>1, <1>2, <1>10, <1>17, <2>1, <2>2 DEF LeasesOK
<1>23. LiveOK'
  BY <1>1, <1>2, <1>10, <1>21, <1>22 DEF LiveOK, IInv
<1> QED
  BY <1>1, <1>2, <1>18, <1>19, <1>20, <1>23, Lives

-----------------------------------------------------------------------------
(***************************************************************************)
(* The workers.                                                            *)
(***************************************************************************)

\* What the cache holds of a task's bytes.
Fetched(t, cache) ==
  t.phase \in Writes => \A b \in t.bytes :
    b < t.at \/ t.phase \in {"tail", "Ok"} => b \in DOMAIN cache /\ cache[b] = t.content

\* A worker that has nothing in the lane goes on with its lease.
LEMMA WorkerStep ==
  ASSUME IInv, NEW w \in Slots, workers[w].phase \in {"connect", "read", "tail"},
         UNCHANGED <<job, record, parts, origin, session, control, budget>>,
         NEW t \in Tasks, workers' = [workers EXCEPT ![w] = t], t.bytes = workers[w].bytes,
         t.phase \notin {"free", "connect"}, t.phase \in {"read", "sent"} => t.at \in t.bytes,
         Open => Fetched(t, Cached),
         session.error = "None" /\ t.phase \in Writes => job.validator \in {NoValidator, t.content},
         lane' \in Lanes, lane'.generation = lane.generation,
         Waiting(lane'.queue, workers', session)
  PROVE  IInv'
<1>1. Shapes /\ RecordOK /\ RecordedBytesAreStable /\ WorkersOK
  BY DEF IInv
<1>2. /\ workers' \in [Slots -> Tasks] /\ workers'[w] = t
      /\ \A v \in Slots \ {w} : workers'[v] = workers[v]
  BY <1>1 DEF Shapes
<1>3. Busy' = Busy /\ w \in Busy /\ \A v \in Slots : workers'[v].bytes = workers[v].bytes
  BY <1>2 DEF Busy
<1>4. Open' = Open /\ Cached' = Cached /\ OnDisk' = OnDisk /\ Extents' = Extents
  BY DEF Open, Cached, OnDisk, Extents
<1>5. WorkersOK'
  <2>1. WorkerOK(w)'
    <3>1. WorkerOK(w)
      BY <1>1 DEF WorkersOK
    <3>2. /\ Open /\ t.bytes # {} /\ \A a, c \in t.bytes : a .. c \subseteq t.bytes
          /\ record.job.generation = lane.generation => t.bytes \cap Extents = {}
      BY <3>1 DEF WorkerOK
    <3> QED
      BY <1>2, <1>4, <3>2 DEF WorkerOK, Fetched
  <2>2. \A v \in Slots \ {w} : WorkerOK(v)'
    BY <1>1, <1>2, <1>4 DEF WorkersOK, WorkerOK
  <2>3. \A v, u \in Busy' : v # u => workers'[v].bytes \cap workers'[u].bytes = {}
    BY <1>1, <1>3 DEF WorkersOK, Busy
  <2> QED
    BY <2>1, <2>2, <2>3 DEF WorkersOK
<1>6. QueueOK'
  BY DEF QueueOK
<1>7. Shapes' /\ RecordOK' /\ RecordedBytesAreStable'
  <2>1. RecordOK' /\ RecordedBytesAreStable'
    BY <1>1, SameRecorded DEF RecordOK, Extents
  <2> QED
    BY <1>1, <1>2, <2>1, SameParts DEF Shapes
<1>8. session.error = "None" => LiveOK'
  <2> SUFFICES ASSUME session.error = "None", LiveOK PROVE LiveOK'
    BY DEF IInv
  <2>1. Match' /\ WrittenOK' /\ CheckpointOK'
    BY <1>3, <1>4 DEF LiveOK, Match, WrittenOK, CheckpointOK
  <2>2. LeasesOK'
    <3>1. {workers'[v].bytes : v \in Busy'} = {workers[v].bytes : v \in Busy}
      BY <1>3 DEF Busy
    <3>2. \A v \in Busy' : workers'[v].phase \in Writes =>
                            job.validator \in {NoValidator, workers'[v].content}
      BY <1>2, <1>3 DEF LiveOK, LeasesOK, Busy
    <3> QED
      BY <1>3, <1>4, <3>1, <3>2 DEF LiveOK, LeasesOK
  <2> QED
    BY <2>1, <2>2 DEF LiveOK
<1>9. session.pc # "idle"
  BY <1>3 DEF IInv
<1> QED
  BY <1>5, <1>6, <1>7, <1>8, <1>9 DEF IInv

\* The queue waits for other workers only.
LEMMA QueueStays ==
  ASSUME IInv, NEW w \in Slots, workers[w].phase # "sent", NEW t, t.phase # "sent",
         workers' = [workers EXCEPT ![w] = t]
  PROVE  Waiting(lane.queue, workers', session)
<1>1. /\ workers'[w] = t /\ \A v \in Slots \ {w} : workers'[v] = workers[v]
  BY DEF IInv, Shapes
<1>2. \A m : IsWrite(m, workers') = IsWrite(m, workers)
  BY <1>1 DEF IsWrite
<1> QED
  BY <1>2 DEF IInv, QueueOK, Waiting

\* A worker changes its phase only.
LEMMA WorkerBecomes ==
  ASSUME IInv, NEW w \in Slots, Working(w, {"connect", "read", "tail"}), lane' = lane,
         NEW phase \in Phases \ {"free", "connect", "sent", "read", "tail"}, Becomes(w, phase),
         phase = "Ok" => workers[w].phase = "tail"
  PROVE  IInv'
<1>1. /\ workers[w].phase \in {"connect", "read", "tail"} /\ Shapes
      /\ UNCHANGED <<job, record, parts, origin, session, control, budget>>
  BY DEF Working, IInv
<1>2. PICK t : t = [workers[w] EXCEPT !.phase = phase]
  OBVIOUS
<1>3. workers' = [workers EXCEPT ![w] = t]
  BY <1>2 DEF Becomes
<1>4. /\ t \in Tasks /\ t.phase = phase /\ t.bytes = workers[w].bytes /\ t.at = workers[w].at
      /\ t.content = workers[w].content
  BY <1>1, <1>2 DEF Shapes, Tasks
<1>5. Waiting(lane.queue, workers', session)
  BY <1>1, <1>3, <1>4, QueueStays
<1>6. WorkerOK(w) /\ lane \in Lanes
  BY <1>1 DEF IInv, WorkersOK, Shapes
<1>7. Fetched(t, Cached)
  BY <1>1, <1>4, <1>6 DEF Fetched, WorkerOK, Writes
<1>8. session.error = "None" /\ t.phase \in Writes => job.validator \in {NoValidator, t.content}
  <2> SUFFICES ASSUME session.error = "None", t.phase \in Writes
               PROVE  job.validator \in {NoValidator, t.content}
    OBVIOUS
  <2>1. workers[w].phase = "tail" /\ w \in Busy
    BY <1>4 DEF Writes, Busy
  <2> QED
    BY <1>4, <2>1 DEF IInv, LiveOK, LeasesOK, Writes
<1> QED
  BY <1>1, <1>3, <1>4, <1>5, <1>6, <1>7, <1>8, WorkerStep

\* A worker sees the token.
LEMMA WorkerCancelledOK ==
  ASSUME IInv, NEW w \in Slots, WorkerCancelled(w)
  PROVE  IInv'
<1>1. PICK phase \in Phases \ {"free", "connect", "sent", "read", "tail"} : phase = "Cancelled"
  BY DEF Phases, Results
<1> QED
  BY <1>1, WorkerBecomes DEF WorkerCancelled

\* A worker fails.
LEMMA WorkerFailedOK ==
  ASSUME IInv, NEW w \in Slots, WorkerFailed(w)
  PROVE  IInv'
<1>1. PICK failure \in Failures : Becomes(w, failure)
  BY DEF WorkerFailed
<1>2. failure \in Phases \ {"free", "connect", "sent", "read", "tail", "Ok"}
  BY SessionAssumption DEF Phases, Results
<1> QED
  BY <1>1, <1>2, WorkerBecomes DEF WorkerFailed

\* A worker has written its range.
LEMMA WorkerDoneOK ==
  ASSUME IInv, NEW w \in Slots, WorkerDone(w)
  PROVE  IInv'
<1>1. PICK phase \in Phases \ {"free", "connect", "sent", "read", "tail"} : phase = "Ok"
  BY DEF Phases, Results
<1>2. Working(w, {"connect", "read", "tail"}) /\ workers[w].phase = "tail"
  BY DEF WorkerDone, Working
<1> QED
  BY <1>1, <1>2, WorkerBecomes DEF WorkerDone

\* A stream is bound to the job's validator.
LEMMA WorkerConnectedOK ==
  ASSUME IInv, NEW w \in Slots, WorkerConnected(w)
  PROVE  IInv'
<1>1. /\ workers[w].phase = "connect" /\ Shapes /\ lane' = lane
      /\ UNCHANGED <<job, record, parts, origin, session, control, budget>>
  BY DEF WorkerConnected, Working, IInv
<1>2. CASE Becomes(w, "Changed")
  <2>1. PICK phase \in Phases \ {"free", "connect", "sent", "read", "tail"} : phase = "Changed"
    BY DEF Phases, Results
  <2>2. Working(w, {"connect", "read", "tail"}) /\ phase # "Ok"
    BY <2>1 DEF WorkerConnected, Working
  <2> QED
    BY <1>1, <1>2, <2>1, <2>2, WorkerBecomes
<1>3. CASE /\ job.validator \in {NoValidator, Validator(origin)}
           /\ workers' = [workers EXCEPT ![w].phase = "read", ![w].content = origin]
  <2>1. PICK t : t = [workers[w] EXCEPT !.phase = "read", !.content = origin]
    OBVIOUS
  <2>2. workers' = [workers EXCEPT ![w] = t]
    BY <1>1, <1>3, <2>1 DEF Shapes
  <2>3. PICK ph \in Phases : ph = "read"
    BY DEF Phases, Writes
  <2>4. origin \in Nat
    BY <1>1, SessionAssumption DEF Shapes
  <2>5. /\ t \in Tasks /\ t.phase = ph /\ t.bytes = workers[w].bytes /\ t.at = workers[w].at
        /\ t.content = origin
    <3>1. t = [workers[w] EXCEPT !.phase = ph, !.content = origin]
      BY <2>1, <2>3
    <3> QED
      BY <1>1, <2>4, <3>1 DEF Shapes, Tasks
  <2>6. Waiting(lane.queue, workers', session)
    BY <1>1, <2>2, <2>3, <2>5, QueueStays
  <2>7. /\ t.at \in t.bytes /\ \A b \in t.bytes : t.at <= b
        /\ lane \in Lanes /\ t.at \in Int /\ t.bytes \subseteq Int
    BY <1>1, <2>5 DEF IInv, WorkersOK, WorkerOK, Shapes, Tasks
  <2>8. Fetched(t, Cached)
    BY <2>3, <2>5, <2>7 DEF Fetched
  <2>9. job.validator \in {NoValidator, t.content}
    BY <1>3, <2>5 DEF Validator
  <2> QED
    BY <1>1, <2>2, <2>3, <2>5, <2>6, <2>7, <2>8, <2>9, WorkerStep
<1> QED
  BY <1>2, <1>3 DEF WorkerConnected

\* The next byte goes to the lane.
LEMMA WorkerReadOK ==
  ASSUME IInv, NEW w \in Slots, WorkerRead(w)
  PROVE  IInv'
<1>1. /\ workers[w].phase = "read" /\ Shapes /\ Becomes(w, "sent")
      /\ UNCHANGED <<job, record, parts, origin, session, control, budget>>
  BY DEF WorkerRead, Working, IInv
<1>2. PICK ph \in Phases : ph = "sent"
  BY DEF Phases, Writes
<1>3. PICK t : t = [workers[w] EXCEPT !.phase = ph]
  OBVIOUS
<1>4. workers' = [workers EXCEPT ![w] = t]
  BY <1>1, <1>2, <1>3 DEF Becomes
<1>5. /\ t \in Tasks /\ t.phase = ph /\ t.bytes = workers[w].bytes /\ t.at = workers[w].at
      /\ t.content = workers[w].content /\ t.at \in Int /\ t.content \in Nat
  BY <1>1, <1>3 DEF Shapes, Tasks
<1>6. PICK m \in Messages : m = [kind |-> "Write", worker |-> w, byte |-> t.at, content |-> t.content]
  <2>1. [kind |-> "Write", worker |-> w, byte |-> t.at, content |-> t.content]
          \in [kind : {"Write"}, worker : Slots, byte : Int, content : Nat]
    BY <1>5
  <2> QED
    BY <2>1 DEF Messages
<1>7. m.kind = "Write" /\ m.worker = w /\ m.byte = t.at /\ m.content = t.content
  BY <1>6
<1>8. PICK q \in Seq(Messages) : q = lane.queue
  BY <1>1 DEF Shapes, Lanes
<1>9. PICK r \in Seq(Messages) : r = Append(q, m)
  BY Appended
<1>10. lane' \in Lanes /\ lane'.generation = lane.generation /\ lane'.queue = r
  <2>1. lane' = [lane EXCEPT !.queue = r]
    BY <1>5, <1>6, <1>8, <1>9 DEF WorkerRead
  <2> QED
    BY <1>1, <2>1 DEF Shapes, Lanes
<1>11. \A i \in DOMAIN r : \/ i \in DOMAIN q /\ r[i] = q[i]
                           \/ i = Len(q) + 1 /\ r[i] = m
  BY <1>9, Appended
<1>12. /\ workers'[w] = t /\ \A v \in Slots \ {w} : workers'[v] = workers[v]
  BY <1>1, <1>4 DEF Shapes
<1>13. Waiting(q, workers, session)
  BY <1>8 DEF IInv, QueueOK
<1>14. \A i \in DOMAIN q :
         \/ IsWrite(q[i], workers) /\ IsWrite(q[i], workers') /\ q[i].worker # w
         \/ IsAsked(q[i], session) /\ ~IsWrite(q[i], workers')
  <2>1. \A n : IsWrite(n, workers) => n.worker # w /\ IsWrite(n, workers')
    BY <1>1, <1>12 DEF IsWrite
  <2>2. \A n : IsAsked(n, session) => ~IsWrite(n, workers')
    BY DEF IsWrite, IsAsked
  <2> QED
    BY <1>13, <2>1, <2>2 DEF Waiting
<1>15. IsWrite(m, workers') /\ ~IsAsked(m, session)
  BY <1>2, <1>5, <1>7, <1>12 DEF IsWrite, IsAsked
<1>16. Waiting(r, workers', session)
  <2>1. \A i \in DOMAIN r : IsWrite(r[i], workers') \/ IsAsked(r[i], session)
    BY <1>11, <1>14, <1>15
  <2>2. ASSUME NEW i \in DOMAIN r, NEW k \in DOMAIN r,
               IsWrite(r[i], workers'), IsWrite(r[k], workers'), r[i].worker = r[k].worker
        PROVE  i = k
    <3>1. CASE i \in DOMAIN q /\ k \in DOMAIN q /\ r[i] = q[i] /\ r[k] = q[k]
      BY <1>13, <1>14, <2>2, <3>1 DEF Waiting
    <3>2. CASE i = Len(q) + 1 /\ k = Len(q) + 1
      BY <3>2
    <3>3. \A a \in DOMAIN q : IsWrite(q[a], workers') => q[a].worker # w
      BY <1>14
    <3> QED
      BY <1>7, <1>11, <2>2, <3>1, <3>2, <3>3
  <2>3. ASSUME NEW i \in DOMAIN r, NEW k \in DOMAIN r,
               IsAsked(r[i], session), IsAsked(r[k], session)
        PROVE  i = k
    BY <1>11, <1>13, <1>15, <2>3 DEF Waiting
  <2> QED
    BY <2>1, <2>2, <2>3 DEF Waiting
<1>17. WorkerOK(w)
  BY DEF IInv, WorkersOK
<1>18. t.at \in t.bytes /\ Fetched(t, Cached)
  BY <1>1, <1>2, <1>5, <1>17 DEF WorkerOK, Fetched, Writes
<1>19. session.error = "None" => job.validator \in {NoValidator, t.content}
  BY <1>1, <1>5 DEF IInv, LiveOK, LeasesOK, Writes, Busy
<1> QED
  BY <1>1, <1>2, <1>4, <1>5, <1>10, <1>16, <1>18, <1>19, WorkerStep

-----------------------------------------------------------------------------
(***************************************************************************)
(* The writer lane.                                                        *)
(***************************************************************************)

\* The first command of a queue, and the others.
LEMMA Taking ==
  ASSUME NEW S, NEW q \in Seq(S), q # <<>>
  PROVE  /\ Tail(q) \in Seq(S) /\ Head(q) \in S /\ 1 \in DOMAIN q /\ Head(q) = q[1]
         /\ \A i \in DOMAIN Tail(q) : i + 1 \in DOMAIN q /\ i + 1 # 1 /\ Tail(q)[i] = q[i + 1]
         /\ \A i, k \in DOMAIN Tail(q) : i + 1 = k + 1 => i = k
OBVIOUS

\* What the lane takes is what someone waits for, and nobody else waits for the same.
LEMMA Taken1 ==
  ASSUME IInv, lane.queue # <<>>, NEW failed \in BOOLEAN, LaneTakes(failed)
  PROVE  /\ lane' \in Lanes /\ lane'.generation = lane.generation
         /\ Waiting(lane'.queue, workers, session)
         /\ Command1 \in Messages
         /\ IsWrite(Command1, workers) \/ IsAsked(Command1, session)
         /\ IsWrite(Command1, workers) => \A i \in DOMAIN lane'.queue :
              IsWrite(lane'.queue[i], workers) => lane'.queue[i].worker # Command1.worker
         /\ IsAsked(Command1, session) => \A i \in DOMAIN lane'.queue :
              IsWrite(lane'.queue[i], workers)
<1>1. PICK q \in Seq(Messages) : q = lane.queue
  BY DEF IInv, Shapes, Lanes
<1>2. PICK r : r = Tail(q)
  OBVIOUS
<1>3. /\ r \in Seq(Messages) /\ Command1 \in Messages /\ 1 \in DOMAIN q /\ Command1 = q[1]
      /\ \A i \in DOMAIN r : i + 1 \in DOMAIN q /\ i + 1 # 1 /\ r[i] = q[i + 1]
      /\ \A i, k \in DOMAIN r : i + 1 = k + 1 => i = k
  BY <1>1, <1>2, Taking DEF Command1
<1>4. lane' \in Lanes /\ lane'.generation = lane.generation /\ lane'.queue = r
  <2>1. lane \in Lanes /\ lane' = [lane EXCEPT !.queue = r, !.failed = failed]
    BY <1>1, <1>2 DEF IInv, Shapes, LaneTakes
  <2> QED
    BY <1>3, <2>1 DEF Lanes
<1>5. Waiting(q, workers, session)
  BY <1>1 DEF IInv, QueueOK
<1>6. /\ IsWrite(q[1], workers) \/ IsAsked(q[1], session)
      /\ Waiting(r, workers, session)
  BY <1>3, <1>5 DEF Waiting
<1>7. ASSUME NEW i \in DOMAIN r, IsWrite(q[1], workers), IsWrite(r[i], workers)
      PROVE  r[i].worker # q[1].worker
  BY <1>3, <1>5, <1>7 DEF Waiting
<1>8. ASSUME NEW i \in DOMAIN r, IsAsked(q[1], session) PROVE IsWrite(r[i], workers)
  BY <1>3, <1>5, <1>8 DEF Waiting
<1> QED
  BY <1>3, <1>4, <1>6, <1>7, <1>8

\* The coordinator waits for a command: its session goes on.
LEMMA Asked1 ==
  ASSUME IInv, IsAsked(Command1, session)
  PROVE  /\ session.pc \in DOMAIN Waits /\ session.error = "None" /\ LiveOK
         /\ session.pc \notin {"idle", "close", "commit", "finish", "drain"}
         /\ Command1.kind = Waits[session.pc] /\ Shapes /\ WorkersOK /\ RecordOK
         /\ RecordedBytesAreStable
<1>1. session.pc \in DOMAIN Waits /\ Command1.kind = Waits[session.pc]
  BY DEF IsAsked
<1>2. session.pc \notin {"idle", "close", "commit", "finish", "drain"}
  BY <1>1 DEF Waits
<1> QED
  BY <1>1, <1>2 DEF IInv

\* The lane answers the coordinator.
LEMMA LaneAnswers ==
  ASSUME IInv, lane.queue # <<>>, Command1.kind # "Write",
         UNCHANGED <<job, record, origin, control, workers>>, budget' \in Budgets,
         NEW failed \in BOOLEAN, LaneTakes(failed),
         NEW r \in Replies \ {"None"}, IsSession(session'), session'.reply = r,
         session'.pc = session.pc, session'.error = session.error,
         session'.after = session.after, session'.storage_failed = session.storage_failed,
         PartsOK', RecordedBytesAreStable',
         session.pc # "discard" => Open' = Open /\ Cached' = Cached,
         session.pc = "hash" => OnDisk' = OnDisk,
         session.pc = "sync" /\ r = "Ok" => Same(Cached', OnDisk', job.segments.frozen),
         session.pc = "hash" /\ r = "Ok" =>
           session'.hashes = RestrictTo(Cached, job.segments.frozen)
  PROVE  IInv'
<1>1. /\ lane' \in Lanes /\ lane'.generation = lane.generation /\ IsAsked(Command1, session)
      /\ \A i \in DOMAIN lane'.queue : IsWrite(lane'.queue[i], workers)
      /\ Waiting(lane'.queue, workers, session)
  BY Taken1 DEF IsWrite
<1>2. /\ session.pc \in DOMAIN Waits /\ session.error = "None" /\ LiveOK
      /\ session.pc \notin {"idle", "close", "commit", "finish", "drain"}
      /\ Command1.kind = Waits[session.pc] /\ Shapes /\ WorkersOK /\ RecordOK
  BY <1>1, Asked1
<1>3. Shapes'
  BY <1>1, <1>2 DEF Shapes
<1>4. QueueOK'
  <2>1. \A m : IsWrite(m, workers) => ~IsAsked(m, session')
    BY DEF IsWrite, IsAsked
  <2> QED
    BY <1>1, <2>1 DEF QueueOK, Waiting
<1>5. Busy' = Busy /\ Extents' = Extents /\ RecordOK'
  BY <1>2 DEF Busy, Extents, RecordOK
<1>6. session.pc = "discard" => Busy = {}
  BY <1>2 DEF LiveOK, LeasesOK, Manned, Checkpointing
<1>7. WorkersOK'
  <2>1. CASE session.pc = "discard"
    BY <1>5, <1>6, <2>1 DEF WorkersOK, WorkerOK, Busy
  <2>2. CASE session.pc # "discard"
    <3>1. Open' = Open /\ Cached' = Cached
      BY <2>2
    <3> QED
      BY <1>1, <1>2, <1>5, <3>1 DEF WorkersOK, WorkerOK
  <2> QED
    BY <2>1, <2>2
<1>8. session.pc # "discard" \/ session.pc \notin Moving
  BY DEF Moving, Manned, Checkpointing
<1>9. Match' /\ LeasesOK' /\ WrittenOK'
  <2>1. Match'
    BY <1>2, <1>5 DEF LiveOK, Match
  <2>2. LeasesOK'
    BY <1>1, <1>2, <1>5, <1>8 DEF LiveOK, LeasesOK, Moving
  <2>3. WrittenOK'
    BY <1>1, <1>2, <1>5, <1>8 DEF LiveOK, WrittenOK
  <2> QED
    BY <2>1, <2>2, <2>3
<1>10. CheckpointOK'
  <2>1. session.pc = "hash" => Cached' = Cached /\ OnDisk' = OnDisk
    OBVIOUS
  <2> QED
    BY <1>2, <1>5, <2>1 DEF LiveOK, CheckpointOK
<1>11. LiveOK'
  BY <1>2, <1>9, <1>10 DEF LiveOK
<1> QED
  BY <1>2, <1>3, <1>4, <1>5, <1>7, <1>11, Lives

\* The locals when an answer comes.
WithAnswer(s, r, h) == [s EXCEPT !.reply = r, !.hashes = h]

\* The locals once the lane has answered.
LEMMA Replied ==
  ASSUME IsSession(session), NEW r \in Replies, NEW h, session' = WithAnswer(session, r, h)
  PROVE  /\ IsSession(session') /\ session'.pc = session.pc /\ session'.error = session.error
         /\ session'.after = session.after /\ session'.storage_failed = session.storage_failed
         /\ session'.reply = r /\ session'.hashes = h
<1>1. /\ session' \in [pc : Pcs, live : BOOLEAN, after : Afters, stopping : BOOLEAN,
                       storage_failed : BOOLEAN, unsynced : Nat, attempt : Nat, hashes : {h},
                       reply : Replies, error : Errors]
      /\ session'.pc = session.pc /\ session'.error = session.error
      /\ session'.after = session.after /\ session'.storage_failed = session.storage_failed
      /\ session'.reply = r /\ session'.hashes = h
  BY DEF IsSession, WithAnswer
<1> QED
  BY <1>1 DEF IsSession

\* An answer of the lane that carries no hashes.
LEMMA Replies1 ==
  ASSUME IsSession(session), NEW r \in Replies, Reply(r)
  PROVE  /\ IsSession(session') /\ session'.pc = session.pc /\ session'.error = session.error
         /\ session'.after = session.after /\ session'.storage_failed = session.storage_failed
         /\ session'.reply = r /\ session'.hashes = session.hashes
<1>1. PICK h : h = session.hashes
  OBVIOUS
<1>2. session' = WithAnswer(session, r, h)
  BY <1>1, Zenon DEF Reply, IsSession, WithAnswer
<1> QED
  BY <1>1, <1>2, Replied

\* A lane that leaves the files alone.
LEMMA SameFiles ==
  ASSUME parts' = parts, lane'.generation = lane.generation
  PROVE  Open' = Open /\ Cached' = Cached /\ OnDisk' = OnDisk
BY DEF Open, Cached, OnDisk

\* The lane compares the part with the record and the expected digest.
LEMMA LaneVerifyOK ==
  ASSUME IInv, LaneVerify
  PROVE  IInv'
<1>1. /\ lane.queue # <<>> /\ Command1.kind = "Verify"
      /\ UNCHANGED <<job, record, origin, control, workers, parts, budget>>
  BY DEF LaneVerify, Lane, Reply
<1>2. PICK failed \in BOOLEAN : LaneTakes(failed)
  BY DEF LaneVerify
<1>3. PICK r \in Replies \ {"None"} : r \in {"Ok", "Integrity"} /\ Reply(r)
  BY DEF LaneVerify, Replies
<1>4. IsAsked(Command1, session) /\ lane'.generation = lane.generation
  BY <1>1, <1>2, Taken1 DEF IsWrite
<1>5. session.pc \in {"verify"} /\ Shapes /\ RecordedBytesAreStable
  BY <1>1, <1>4, Asked1 DEF Waits
<1>6. PartsOK' /\ RecordedBytesAreStable' /\ budget' \in Budgets
  BY <1>1, <1>5, SameParts, SameRecorded DEF Shapes
<1>7. Open' = Open /\ Cached' = Cached /\ OnDisk' = OnDisk
  BY <1>1, <1>4, SameFiles
<1>8. IsSession(session)
  BY <1>5 DEF Shapes
<1>9. /\ IsSession(session') /\ session'.pc = session.pc /\ session'.error = session.error
      /\ session'.after = session.after /\ session'.storage_failed = session.storage_failed
      /\ session'.reply = r
  BY <1>3, <1>8, Replies1
<1> QED
  BY <1>1, <1>2, <1>5, <1>6, <1>7, <1>9, LaneAnswers

\* The lane hashes the frozen bytes.
LEMMA LaneHashOK ==
  ASSUME IInv, LaneHash
  PROVE  IInv'
<1>1. /\ lane.queue # <<>> /\ Command1.kind = "Hash"
      /\ UNCHANGED <<job, record, origin, control, workers, parts, budget>>
  BY DEF LaneHash, Lane
<1>2. PICK failed \in BOOLEAN : LaneTakes(failed)
  BY DEF LaneHash
<1>3. PICK r \in Replies \ {"None"} : r = "Ok"
  BY DEF Replies
<1>4. IsAsked(Command1, session) /\ lane'.generation = lane.generation
  BY <1>1, <1>2, Taken1 DEF IsWrite
<1>5. session.pc \in {"hash"} /\ Shapes /\ RecordedBytesAreStable
  BY <1>1, <1>4, Asked1 DEF Waits
<1>6. PartsOK' /\ RecordedBytesAreStable' /\ budget' \in Budgets
  BY <1>1, <1>5, SameParts, SameRecorded DEF Shapes
<1>7. Open' = Open /\ Cached' = Cached /\ OnDisk' = OnDisk
  BY <1>1, <1>4, SameFiles
<1>8. PICK h : h = RestrictTo(Cached, job.segments.frozen)
  OBVIOUS
<1>9. session' = WithAnswer(session, r, h) /\ IsSession(session)
  BY <1>3, <1>5, <1>8 DEF LaneHash, Part, Cached, Shapes, WithAnswer
<1>10. /\ IsSession(session') /\ session'.pc = session.pc /\ session'.error = session.error
       /\ session'.after = session.after /\ session'.storage_failed = session.storage_failed
       /\ session'.reply = r /\ session'.hashes = h
  BY <1>9, Replied
<1> QED
  BY <1>1, <1>2, <1>5, <1>6, <1>7, <1>8, <1>10, LaneAnswers

\* A sync: the file has on disk what it has in the cache.
LEMMA LaneSyncOK ==
  ASSUME IInv, LaneSync
  PROVE  IInv'
<1>1. /\ lane.queue # <<>> /\ Command1.kind = "Sync"
      /\ UNCHANGED <<job, record, origin, control, workers, budget>>
  BY DEF LaneSync, Lane, Reply
<1>2. PICK failed \in BOOLEAN : LaneTakes(failed)
  BY DEF LaneSync
<1>3. PICK r \in Replies \ {"None"} : r = "Ok" /\ Reply(r)
  BY DEF LaneSync, Replies
<1>4. IsAsked(Command1, session) /\ lane'.generation = lane.generation
  BY <1>1, <1>2, Taken1 DEF IsWrite
<1>5. session.pc \in {"sync", "vsync"} /\ Shapes /\ RecordedBytesAreStable /\ LiveOK
  BY <1>1, <1>4, Asked1 DEF Waits
<1>6. parts' = [parts EXCEPT ![lane.generation].stable = Cached]
  BY DEF LaneSync, Part, Cached
<1>7. /\ DOMAIN parts' = DOMAIN parts
      /\ \A g \in DOMAIN parts : g # lane.generation => parts'[g] = parts[g]
      /\ Open => /\ parts'[lane.generation].cached = Cached
                 /\ parts'[lane.generation].stable = Cached
                 /\ IsPart(parts'[lane.generation])
  <2>1. Open => IsPart(parts[lane.generation])
    BY <1>5 DEF Shapes, PartsOK, Open
  <2>2. /\ DOMAIN parts' = DOMAIN parts
        /\ \A g \in DOMAIN parts : g # lane.generation => parts'[g] = parts[g]
        /\ Open => parts'[lane.generation] = [parts[lane.generation] EXCEPT !.stable = Cached]
    BY <1>6 DEF Open
  <2>3. ASSUME NEW x, IsPart(x), NEW y, y = [x EXCEPT !.stable = Cached], x.cached = Cached
        PROVE  y.cached = Cached /\ y.stable = Cached /\ IsPart(y)
    BY <2>3 DEF IsPart
  <2> QED
    BY <2>1, <2>2, <2>3 DEF Cached
<1>8. PartsOK'
  <2>1. parts' = [g \in DOMAIN parts' |-> parts'[g]]
    BY <1>6, <1>7
  <2>2. \A g \in DOMAIN parts' : IsPart(parts'[g])
    BY <1>5, <1>7 DEF Shapes, PartsOK, Open
  <2> QED
    BY <2>1, <2>2 DEF PartsOK, IsPart
<1>9. RecordedBytesAreStable'
  BY <1>1, <1>5, <1>7 DEF RecordedBytesAreStable, Open, Cached
<1>10. Open' = Open
  BY <1>4, <1>7 DEF Open
<1>11. Open => Cached' = Cached /\ OnDisk' = Cached
  BY <1>4, <1>7 DEF Open, Cached, OnDisk
<1>12. ~Open => Cached' = Cached
  <2>1. ~Open => parts' = parts
    BY <1>5, <1>6 DEF Open, Shapes, PartsOK
  <2> QED
    BY <1>4, <2>1 DEF Cached
<1>13. session.pc = "sync" => Same(Cached', OnDisk', job.segments.frozen)
  <2> SUFFICES ASSUME session.pc = "sync" PROVE Same(Cached', OnDisk', job.segments.frozen)
    OBVIOUS
  <2>1. Open /\ PlanOK(job.segments) /\ session.pc \in Moving
    BY <1>5 DEF LiveOK, LeasesOK, JobOK, Manned, Checkpointing, Moving
  <2>2. \A b \in job.segments.frozen : b \in DOMAIN Cached
    BY <1>5, <2>1 DEF LiveOK, WrittenOK, Uniform, PlanOK
  <2> QED
    BY <1>11, <2>1, <2>2 DEF Same
<1>14. IsSession(session) /\ budget' \in Budgets
  BY <1>1, <1>5 DEF Shapes
<1>15. /\ IsSession(session') /\ session'.pc = session.pc /\ session'.error = session.error
       /\ session'.after = session.after /\ session'.storage_failed = session.storage_failed
       /\ session'.reply = r
  BY <1>3, <1>14, Replies1
<1> QED
  BY <1>1, <1>2, <1>3, <1>5, <1>8, <1>9, <1>10, <1>11, <1>12, <1>13, <1>14, <1>15, LaneAnswers

\* The part of a cancelled job is given up; its record no longer needs it.
LEMMA LaneDiscardOK ==
  ASSUME IInv, LaneDiscard
  PROVE  IInv'
<1>1. /\ lane.queue # <<>> /\ Command1.kind = "Discard"
      /\ UNCHANGED <<job, record, origin, control, workers, budget>>
  BY DEF LaneDiscard, Lane, Reply
<1>2. PICK failed \in BOOLEAN : LaneTakes(failed)
  BY DEF LaneDiscard
<1>3. PICK r \in Replies \ {"None"} : r = "Ok" /\ Reply(r)
  BY DEF LaneDiscard, Replies
<1>4. IsAsked(Command1, session)
  BY <1>1, <1>2, Taken1 DEF IsWrite
<1>5. session.pc \in {"discard"} /\ Shapes /\ LiveOK
  BY <1>1, <1>4, Asked1 DEF Waits
<1>6. PartsOK'
  BY DEF LaneDiscard, RestrictTo, PartsOK, IsPart, IInv, Shapes
<1>7. RecordedBytesAreStable'
  <2>1. record'.job.state = "Cancelling"
    BY <1>1, <1>5, StripOK DEF LiveOK, Match, StateAt
  <2> QED
    BY <2>1 DEF RecordedBytesAreStable
<1>8. IsSession(session) /\ budget' \in Budgets
  BY <1>1, <1>5 DEF Shapes
<1>9. /\ IsSession(session') /\ session'.pc = session.pc /\ session'.error = session.error
      /\ session'.after = session.after /\ session'.storage_failed = session.storage_failed
      /\ session'.reply = r
  BY <1>3, <1>8, Replies1
<1> QED
  BY <1>1, <1>2, <1>5, <1>6, <1>7, <1>8, <1>9, LaneAnswers

\* The file after the write that the lane has taken.
AfterWrite == [parts EXCEPT ![lane.generation].cached = WithByte]

\* A write changes one byte of one part.
LEMMA AfterWriteOK ==
  ASSUME Shapes, Open
  PROVE  /\ DOMAIN AfterWrite = DOMAIN parts
         /\ AfterWrite = [g \in DOMAIN AfterWrite |-> AfterWrite[g]]
         /\ \A g \in DOMAIN parts : g # lane.generation => AfterWrite[g] = parts[g]
         /\ IsPart(AfterWrite[lane.generation]) /\ AfterWrite[lane.generation].stable = OnDisk
         /\ LET f == AfterWrite[lane.generation].cached IN
              /\ DOMAIN f = DOMAIN Cached \cup {Command1.byte}
              /\ f[Command1.byte] = Command1.content
              /\ \A b \in DOMAIN Cached \ {Command1.byte} : f[b] = Cached[b]
<1>1. IsPart(parts[lane.generation])
  BY DEF Shapes, PartsOK, Open
<1>2. PICK f : f = WithByte
  OBVIOUS
<1>3. /\ DOMAIN f = DOMAIN Cached \cup {Command1.byte}
      /\ f[Command1.byte] = Command1.content
      /\ \A b \in DOMAIN Cached \ {Command1.byte} : f[b] = Cached[b]
  BY <1>2 DEF WithByte, Override, Cached, Part
<1>4. PICK x : x = [parts[lane.generation] EXCEPT !.cached = f]
  OBVIOUS
<1>5. AfterWrite = [parts EXCEPT ![lane.generation] = x]
  BY <1>2, <1>4 DEF AfterWrite, Open
<1>6. IsPart(x) /\ x.cached = f /\ x.stable = OnDisk
  BY <1>1, <1>4 DEF IsPart, OnDisk
<1>7. /\ DOMAIN AfterWrite = DOMAIN parts /\ AfterWrite[lane.generation] = x
      /\ AfterWrite = [g \in DOMAIN AfterWrite |-> AfterWrite[g]]
      /\ \A g \in DOMAIN parts : g # lane.generation => AfterWrite[g] = parts[g]
  BY <1>5 DEF Open
<1> QED
  BY <1>3, <1>6, <1>7

\* A write is answered: its byte belongs to the lease of its worker, so nothing that
\* was recorded, frozen or written by another worker is touched.
LEMMA LaneWrites ==
  ASSUME IInv, lane.queue # <<>>, Command1.kind = "Write",
         UNCHANGED <<job, record, origin, control, session>>, budget' \in Budgets,
         NEW failed \in BOOLEAN, LaneTakes(failed),
         NEW w, w = Command1.worker, NEW t \in Tasks, workers' = [workers EXCEPT ![w] = t],
         t.bytes = workers[w].bytes, t.content = workers[w].content,
         parts' \in {parts, AfterWrite},
         \/ t.phase = "Storage"
         \/ /\ parts' = AfterWrite /\ t.at = workers[w].at + 1
            /\ t.phase = PhaseAfter(w)
  PROVE  IInv'
<1>1. /\ lane' \in Lanes /\ lane'.generation = lane.generation
      /\ Waiting(lane'.queue, workers, session) /\ IsWrite(Command1, workers)
      /\ \A i \in DOMAIN lane'.queue :
           IsWrite(lane'.queue[i], workers) => lane'.queue[i].worker # w
  BY Taken1 DEF IsAsked
<1>2. PICK x : x = workers[w].at
  OBVIOUS
<1>3. /\ w \in Slots /\ workers[w].phase = "sent" /\ Command1.byte = x
      /\ Command1.content = t.content
  BY <1>1, <1>2 DEF IsWrite
<1>4. /\ Shapes /\ RecordOK /\ RecordedBytesAreStable /\ WorkersOK /\ WorkerOK(w)
      /\ w \in Busy /\ session.pc # "idle"
  BY <1>3 DEF IInv, WorkersOK, Busy
<1>5. /\ Open /\ x \in t.bytes /\ t.bytes # {} /\ \A a, c \in t.bytes : a .. c \subseteq t.bytes
      /\ record.job.generation = lane.generation => t.bytes \cap Extents = {}
      /\ \A b \in t.bytes : b < x => b \in DOMAIN Cached /\ Cached[b] = t.content
      /\ x \in Int /\ t.bytes \subseteq Int
  BY <1>2, <1>3, <1>4 DEF WorkerOK, Writes, Shapes, Tasks
<1>6. /\ workers' \in [Slots -> Tasks] /\ workers'[w] = t
      /\ \A v \in Slots \ {w} : workers'[v] = workers[v]
  BY <1>3, <1>4 DEF Shapes
<1>7. t.phase \in {"read", "tail", "Storage"}
  BY DEF PhaseAfter
<1>8. Busy' = Busy /\ \A v \in Slots : workers'[v].bytes = workers[v].bytes
  BY <1>3, <1>4, <1>6, <1>7 DEF Busy
<1>9. /\ DOMAIN parts' = DOMAIN parts /\ PartsOK'
      /\ \A g \in DOMAIN parts : g # lane.generation => parts'[g] = parts[g]
  <2>1. CASE parts' = parts
    BY <1>4, <2>1, SameParts
  <2>2. CASE parts' = AfterWrite
    <3>1. \A g \in DOMAIN parts' : IsPart(parts'[g])
      BY <1>4, <1>5, <2>2, AfterWriteOK DEF Shapes, PartsOK
    <3> QED
      BY <1>4, <1>5, <2>2, <3>1, AfterWriteOK DEF PartsOK, IsPart
  <2> QED
    BY <2>1, <2>2
<1>10. /\ OnDisk' = OnDisk
       /\ \A b : b # x => /\ (b \in DOMAIN Cached') = (b \in DOMAIN Cached)
                          /\ b \in DOMAIN Cached => Cached'[b] = Cached[b]
       /\ parts' = AfterWrite => x \in DOMAIN Cached' /\ Cached'[x] = t.content
  <2>1. CASE parts' = parts /\ parts' # AfterWrite
    BY <1>1, <2>1 DEF Cached, OnDisk
  <2>2. CASE parts' = AfterWrite
    <3>1. Cached' = AfterWrite[lane.generation].cached /\ OnDisk' = AfterWrite[lane.generation].stable
      BY <1>1, <2>2 DEF Cached, OnDisk
    <3> QED
      BY <1>3, <1>4, <1>5, <3>1, AfterWriteOK
  <2> QED
    BY <2>1, <2>2
<1>11. Open' = Open /\ Extents' = Extents
  BY <1>1, <1>9 DEF Open, Extents
<1>12. WorkerOK(w)'
  <2>1. t.phase \in {"read", "sent"} => t.at \in t.bytes
    BY <1>7 DEF PhaseAfter
  <2>2. t.phase \in Writes => \A b \in t.bytes :
          b < t.at \/ t.phase \in {"tail", "Ok"} => b \in DOMAIN Cached' /\ Cached'[b] = t.content
    <3> SUFFICES ASSUME t.phase \in Writes, NEW b \in t.bytes,
                        b < t.at \/ t.phase \in {"tail", "Ok"}
                 PROVE  b \in DOMAIN Cached' /\ Cached'[b] = t.content
      OBVIOUS
    <3>1. parts' = AfterWrite /\ t.at = x + 1 /\ (x + 1 \in t.bytes \/ t.phase = "tail")
          /\ (t.phase \in {"tail", "Ok"} => x + 1 \notin t.bytes)
      BY <1>2, <1>7 DEF PhaseAfter, Writes
    <3>2. b <= x
      <4>1. CASE b < t.at
        BY <1>5, <3>1, <4>1
      <4>2. CASE t.phase \in {"tail", "Ok"}
        <5>1. x + 1 \notin t.bytes /\ b \in Int
          BY <1>5, <3>1, <4>2
        <5>2. x .. b \subseteq t.bytes
          BY <1>5
        <5> QED
          BY <1>5, <5>1, <5>2
      <4> QED
        BY <4>1, <4>2
    <3> QED
      BY <1>5, <1>10, <3>1, <3>2
  <2> QED
    BY <1>1, <1>5, <1>6, <1>7, <1>11, <2>1, <2>2 DEF WorkerOK
<1>13. \A v \in Busy \ {w} : x \notin workers[v].bytes
  BY <1>4, <1>5 DEF WorkersOK
<1>14. WorkersOK'
  <2>1. ASSUME NEW v \in Slots \ {w} PROVE WorkerOK(v)'
    <3> SUFFICES ASSUME workers[v].phase # "free" PROVE WorkerOK(v)'
      BY <1>6 DEF WorkerOK
    <3>1. x \notin workers[v].bytes /\ WorkerOK(v) /\ workers'[v] = workers[v]
      BY <1>4, <1>6, <1>13 DEF Busy, WorkersOK
    <3>2. \A b \in workers[v].bytes : b \in DOMAIN Cached =>
            b \in DOMAIN Cached' /\ Cached'[b] = Cached[b]
      BY <1>10, <3>1
    <3> QED
      BY <1>1, <1>11, <3>1, <3>2 DEF WorkerOK
  <2>2. \A v, u \in Busy' : v # u => workers'[v].bytes \cap workers'[u].bytes = {}
    BY <1>4, <1>8 DEF WorkersOK, Busy
  <2> QED
    BY <1>12, <2>1, <2>2 DEF WorkersOK
<1>15. QueueOK'
  <2>1. \A n : IsWrite(n, workers) /\ n.worker # w => IsWrite(n, workers')
    BY <1>6 DEF IsWrite
  <2>2. \A n : IsWrite(n, workers') => IsWrite(n, workers)
    BY <1>6, <1>7 DEF IsWrite
  <2> QED
    BY <1>1, <2>1, <2>2 DEF QueueOK, Waiting
<1>16. RecordOK' /\ Shapes'
  BY <1>1, <1>4, <1>6, <1>9, <1>11 DEF RecordOK, Shapes
<1>17. RecordedBytesAreStable'
  <2> SUFFICES ASSUME record.job.state \notin {"Cancelling", "Cancelled", "Completed"},
                      NEW b \in Extents
               PROVE  /\ record.job.generation \in DOMAIN parts'
                      /\ LET part == parts'[record.job.generation] IN
                           /\ b \in DOMAIN part.stable /\ part.stable[b] = record.extents[b]
                           /\ b \in DOMAIN part.cached /\ part.cached[b] = record.extents[b]
    BY DEF RecordedBytesAreStable, Extents
  <2>1. /\ record.job.generation \in DOMAIN parts
        /\ LET part == parts[record.job.generation] IN
             /\ b \in DOMAIN part.stable /\ part.stable[b] = record.extents[b]
             /\ b \in DOMAIN part.cached /\ part.cached[b] = record.extents[b]
    BY <1>4 DEF RecordedBytesAreStable, Extents
  <2>2. CASE record.job.generation # lane.generation
    BY <1>9, <2>1, <2>2
  <2>3. CASE record.job.generation = lane.generation
    <3>1. b # x
      BY <1>5, <2>3
    <3>2. Cached = parts[record.job.generation].cached /\ OnDisk = parts[record.job.generation].stable
          /\ Cached' = parts'[record.job.generation].cached
          /\ OnDisk' = parts'[record.job.generation].stable
      BY <1>1, <2>3 DEF Cached, OnDisk
    <3> QED
      BY <1>9, <1>10, <2>1, <3>1, <3>2
  <2> QED
    BY <2>2, <2>3
<1>18. session.error = "None" => LiveOK'
  <2> SUFFICES ASSUME session.error = "None", LiveOK PROVE LiveOK'
    BY DEF IInv
  <2>1. JobOK(job) /\ PlanOK(job.segments) /\ Match /\ LeasesOK /\ WrittenOK /\ CheckpointOK
    BY DEF LiveOK, JobOK
  <2>2. x \notin job.segments.written /\ x \notin job.segments.frozen
    BY <1>4, <1>5, <2>1 DEF LeasesOK, PlanOK
  <2>3. /\ Match'
        /\ WrittenOK'
    <3>1. ASSUME NEW S, x \notin S, NEW v, Uniform(Cached, S, v) PROVE Uniform(Cached', S, v)
      BY <1>10, <3>1 DEF Uniform
    <3> QED
      BY <1>1, <1>11, <2>1, <2>2, <3>1 DEF Match, WrittenOK
  <2>4. LeasesOK'
    <3>1. {workers'[v].bytes : v \in Busy'} = {workers[v].bytes : v \in Busy}
      BY <1>8 DEF Busy
    <3>2. \A v \in Busy' : workers'[v].phase \in Writes =>
                            job.validator \in {NoValidator, workers'[v].content}
      BY <1>3, <1>4, <1>6, <1>8, <2>1 DEF LeasesOK, Busy, Writes
    <3> QED
      BY <1>1, <1>8, <1>11, <2>1, <3>1, <3>2 DEF LeasesOK
  <2>5. CheckpointOK'
    <3>1. Same(Cached, OnDisk, job.segments.frozen) => Same(Cached', OnDisk', job.segments.frozen)
      BY <1>10, <2>2 DEF Same
    <3>2. RestrictTo(Cached', job.segments.frozen) = RestrictTo(Cached, job.segments.frozen)
      <4>1. DOMAIN Cached' \cap job.segments.frozen = DOMAIN Cached \cap job.segments.frozen
        BY <1>10, <2>2
      <4>2. \A b \in DOMAIN Cached \cap job.segments.frozen : Cached'[b] = Cached[b]
        BY <1>10, <2>2
      <4> QED
        BY <4>1, <4>2 DEF RestrictTo
    <3> QED
      BY <1>8, <2>1, <3>1, <3>2 DEF CheckpointOK
  <2> QED
    BY <2>1, <2>3, <2>4, <2>5 DEF LiveOK
<1> QED
  BY <1>4, <1>14, <1>15, <1>16, <1>17, <1>18 DEF IInv

\* The lane writes a byte.
LEMMA LaneWriteOK ==
  ASSUME IInv, LaneWrite
  PROVE  IInv'
<1>1. /\ lane.queue # <<>> /\ Command1.kind = "Write"
      /\ UNCHANGED <<job, record, origin, control, session, budget>> /\ Shapes
  BY DEF LaneWrite, Lane, IInv
<1>2. PICK failed \in BOOLEAN : LaneTakes(failed)
  BY DEF LaneWrite
<1>3. PICK w : w = Command1.worker
  OBVIOUS
<1>4. w \in Slots /\ workers[w].at \in Int
  BY <1>1, <1>2, <1>3, Taken1 DEF IsWrite, IsAsked, Shapes, Tasks
<1>5. PICK ph \in Phases : ph = PhaseAfter(w)
  BY DEF PhaseAfter, Phases, Writes
<1>6. PICK n \in Int : n = workers[w].at + 1
  BY <1>4
<1>61. PICK t : t = [workers[w] EXCEPT !.at = n, !.phase = ph]
  OBVIOUS
<1>7. workers' = [workers EXCEPT ![w] = t]
  BY <1>1, <1>3, <1>4, <1>5, <1>6, <1>61 DEF LaneWrite, Shapes
<1>8. /\ t \in Tasks /\ t.bytes = workers[w].bytes /\ t.content = workers[w].content
      /\ t.at = n /\ t.phase = ph
  BY <1>1, <1>4, <1>61 DEF Shapes, Tasks
<1>9. parts' = AfterWrite /\ budget' \in Budgets
  BY <1>1 DEF LaneWrite, AfterWrite, Shapes
<1> QED
  BY <1>1, <1>2, <1>3, <1>5, <1>6, <1>7, <1>8, <1>9, LaneWrites

\* A command fails, and its sender learns of it.
LEMMA LaneFailsOK ==
  ASSUME IInv, NEW kind, LaneFails(kind)
  PROVE  IInv'
<1>1. /\ lane.queue # <<>> /\ Command1.kind = kind /\ Shapes
      /\ UNCHANGED <<job, record, origin, control>>
  BY DEF LaneFails, Lane, IInv
<1>2. PICK failed \in BOOLEAN : LaneTakes(failed)
  BY DEF LaneFails
<1>3. budget' \in Budgets
  BY <1>1, Spends DEF LaneFails, Shapes
<1>4. CASE kind = "Write"
  <2>1. PICK w : w = Command1.worker
    OBVIOUS
  <2>2. w \in Slots
    BY <1>1, <1>2, <1>4, <2>1, Taken1 DEF IsWrite, IsAsked
  <2>3. PICK ph \in Phases : ph = "Storage"
    BY DEF Phases, Results
  <2>4. PICK t : t = [workers[w] EXCEPT !.phase = ph]
    OBVIOUS
  <2>5. workers' = [workers EXCEPT ![w] = t] /\ session' = session
    BY <1>4, <2>1, <2>3, <2>4 DEF LaneFails
  <2>6. t \in Tasks /\ t.bytes = workers[w].bytes /\ t.content = workers[w].content /\ t.phase = ph
    BY <1>1, <2>2, <2>4 DEF Shapes, Tasks
  <2>7. parts' \in {parts, AfterWrite}
    BY <1>4 DEF LaneFails, AfterWrite, Only
  <2> QED
    BY <1>1, <1>2, <1>3, <1>4, <2>1, <2>3, <2>5, <2>6, <2>7, LaneWrites
<1>5. CASE kind # "Write"
  <2>1. PICK r \in Replies \ {"None"} : r = "Storage"
    BY DEF Replies
  <2>2. Reply(r) /\ parts' = parts /\ workers' = workers
    BY <1>5, <2>1 DEF LaneFails, Reply
  <2>3. IsAsked(Command1, session) /\ lane'.generation = lane.generation
    BY <1>1, <1>2, <1>5, Taken1 DEF IsWrite
  <2>4. PartsOK' /\ RecordedBytesAreStable'
    BY <1>1, <2>2, SameParts, SameRecorded DEF IInv
  <2>5. Open' = Open /\ Cached' = Cached /\ OnDisk' = OnDisk
    BY <2>2, <2>3, SameFiles
  <2>6. IsSession(session)
    BY <1>1 DEF Shapes
  <2>7. /\ IsSession(session') /\ session'.pc = session.pc /\ session'.error = session.error
        /\ session'.after = session.after /\ session'.storage_failed = session.storage_failed
        /\ session'.reply = r
    BY <2>2, <2>6, Replies1
  <2> QED
    BY <1>1, <1>2, <1>3, <1>5, <2>1, <2>2, <2>4, <2>5, <2>7, LaneAnswers
<1> QED
  BY <1>4, <1>5

-----------------------------------------------------------------------------
(***************************************************************************)
(* Everything.                                                             *)
(***************************************************************************)

\* A step that changes nothing.
LEMMA StutterOK ==
  ASSUME IInv, UNCHANGED vars
  PROVE  IInv'
BY Frame DEF vars, Shapes, IInv

\* Every step of the coordinator preserves the invariant.
LEMMA CoordinatorOK ==
  ASSUME IInv, Coordinator
  PROVE  IInv'
BY StartOK, ProbeControlOK, ProbeAnsweredOK, ProbeFailedOK, OpenPartOK, OpenFailedOK,
   SpawnWorkerOK, TransferCheckpointOK, TransferWaitOK, TransferDoneOK, SyncAnsweredOK,
   HashAnsweredOK, CommitExtentsOK, FinishControlOK, FinishStoppingOK, DrainAfterCheckpointOK,
   FinishOtherOK, DropPartOK, DiscardAnsweredOK, CleanupOK, VerifySyncedOK, VerifyAnsweredOK,
   PublishEndedOK, CloseStopWorkersOK, CloseOK, RecoverOK
   DEF Coordinator

\* So does every step of a worker,
LEMMA WorkerStepsOK ==
  ASSUME IInv, NEW w \in Slots, Worker(w)
  PROVE  IInv'
BY WorkerCancelledOK, WorkerFailedOK, WorkerConnectedOK, WorkerReadOK, WorkerDoneOK DEF Worker

\* every step of the lane,
LEMMA WriterLaneOK ==
  ASSUME IInv, WriterLane
  PROVE  IInv'
BY LaneWriteOK, LaneSyncOK, LaneHashOK, LaneVerifyOK, LaneDiscardOK, LaneFailsOK DEF WriterLane

\* and every step at all.
LEMMA NextOK ==
  ASSUME IInv, [Next]_vars
  PROVE  IInv'
<1>1. CASE Coordinator
  BY <1>1, CoordinatorOK
<1>2. CASE \E w \in Slots : Worker(w)
  BY <1>2, WorkerStepsOK
<1>3. CASE WriterLane
  BY <1>3, WriterLaneOK
<1>4. CASE Drive
  BY <1>4, DriveOK
<1>5. CASE \E message \in {"Pause", "Cancel"} : Send(message)
  BY <1>5, SendOK
<1>6. CASE SourceChanges
  BY <1>6, SourceChangesOK
<1>7. CASE \E c \in RestCommands : AtRest(c)
  BY <1>7, AtRestOK
<1>8. CASE Crash
  BY <1>8, CrashOK
<1>9. CASE UNCHANGED vars
  BY <1>9, StutterOK
<1> QED
  BY <1>1, <1>2, <1>3, <1>4, <1>5, <1>6, <1>7, <1>8, <1>9 DEF Next

\* Nothing was fetched and nothing recorded.
LEMMA InitOK ==
  ASSUME Init
  PROVE  IInv
<1>1. /\ job = NewJob /\ record = [job |-> NewJob, extents |-> None] /\ parts = None
      /\ origin \in DOMAIN Size /\ session = NoSession /\ workers = [w \in Slots |-> NoTask]
      /\ lane = NoLane /\ control = <<>>
  BY DEF Init
<1>2. budget \in Budgets
  BY SessionAssumption DEF Init, Budgets
<1>3. PICK j : j = NewJob
  OBVIOUS
<1>4. /\ j.state = "Queued" /\ j.generation = 1 /\ j.validator = NoValidator
      /\ j.segments = NoMap /\ JobOK(j)
  <2>1. PICK m, st, rs, tk : m = NoMap /\ st = NoStop /\ rs = NoReason /\ tk = NoTick
    OBVIOUS
  <2>2. PICK s \in States : s = "Queued"
    BY DEF States
  <2>3. j = [state |-> s, generation |-> 1, reason |-> rs, retry_at |-> tk, stop |-> st,
             replace_on_drain |-> FALSE, attempts |-> 0, validator |-> 0, segments |-> m]
    BY <1>3, <2>1, <2>2 DEF NewJob, NoValidator
  <2>4. /\ j \in [state : States, generation : Nat, reason : {rs}, retry_at : {tk}, stop : {st},
                  replace_on_drain : BOOLEAN, attempts : {0}, validator : Nat, segments : {m}]
        /\ j.state = s /\ j.generation = 1 /\ j.validator = 0 /\ j.segments = m
        /\ j.stop = st /\ j.replace_on_drain = FALSE
    BY <2>3
  <2>5. j \in [state : States, generation : Nat, reason : {j.reason}, retry_at : {j.retry_at},
               stop : {j.stop}, replace_on_drain : BOOLEAN, attempts : {j.attempts},
               validator : Nat, segments : {j.segments}]
    BY <2>4
  <2>6. st.kind = "None"
    BY <2>1 DEF NoStop, Target
  <2>7. JobOK(j)
    BY <2>1, <2>2, <2>4, <2>5, <2>6, Plans DEF JobOK
  <2> QED
    BY <2>1, <2>2, <2>4, <2>7 DEF NoValidator
<1>5. Strip(j) = j
  BY <1>4 DEF Strip, JobOK
<1>6. record.job = j /\ Extents = {} /\ record \in [job : {record.job}, extents : {record.extents}]
  BY <1>1, <1>3 DEF Extents, None
<1>7. RecordOK /\ RecordedBytesAreStable
  BY <1>4, <1>5, <1>6 DEF RecordOK, RecordedBytesAreStable, Extents, Uniform, Whole
<1>8. /\ workers \in [Slots -> Tasks] /\ Busy = {} /\ lane \in Lanes /\ QueueOK /\ WorkersOK
      /\ lane.queue = <<>>
  <2>1. PICK ph \in Phases : ph = "free"
    BY DEF Phases
  <2>2. NoTask \in Tasks /\ NoTask.phase = "free"
    <3>1. [bytes |-> {}, at |-> 0, content |-> 0, phase |-> ph] \in Tasks
      BY DEF Tasks
    <3> QED
      BY <2>1, <3>1 DEF NoTask
  <2>3. workers \in [Slots -> Tasks] /\ Busy = {}
    BY <1>1, <2>2 DEF Busy
  <2>4. lane \in Lanes /\ lane.queue = <<>>
    BY <1>1 DEF NoLane, Lanes
  <2> QED
    BY <2>3, <2>4 DEF QueueOK, Waiting, WorkersOK, WorkerOK, Busy
<1>9. PICK p \in Pcs, l \in BOOLEAN, e \in Errors : p = "idle" /\ l = FALSE /\ e = "None"
  BY DEF Pcs, Errors
<1>10. IsSession(session) /\ session.pc = p /\ session.reply = "None" /\ session.error = e
  <2>1. session = NewSession(p, l, e)
    BY <1>1, <1>9 DEF NoSession, NewSession
  <2> QED
    BY <2>1, NewSessions
<1>11. PartsOK
  BY <1>1 DEF PartsOK, None
<1>12. Shapes
  BY <1>1, <1>2, <1>8, <1>10, <1>11 DEF Shapes
<1>13. p \notin Moving /\ p \notin Manned /\ p \notin Checkpointing /\ p \notin {"hash", "commit", "sync", "drain"}
  BY <1>9 DEF Moving, Manned, Checkpointing
<1>14. Match /\ StateAt(p, j.state)
  <2>1. NoMap.durable = {}
    BY Plans
  <2> QED
    BY <1>1, <1>3, <1>4, <1>5, <1>6, <1>9, <1>10, <2>1 DEF Match, StateAt, Unsettled, Running
<1>15. LeasesOK /\ WrittenOK /\ CheckpointOK
  <2>1. Clean(job.segments)
    BY <1>1, <1>3, <1>4, Plans
  <2>2. {workers[w].bytes : w \in Busy} = {}
    BY <1>8
  <2> QED
    BY <1>8, <1>10, <1>13, <2>1, <2>2 DEF LeasesOK, WrittenOK, CheckpointOK, Clean
<1>16. LiveOK
  BY <1>1, <1>3, <1>4, <1>10, <1>14, <1>15 DEF LiveOK
<1> QED
  BY <1>7, <1>8, <1>9, <1>10, <1>12, <1>16 DEF IInv

\* The inductive invariant.
THEOREM SessionInvariant == Spec => []IInv
<1>1. Init => IInv
  BY InitOK
<1>2. IInv /\ [Next]_vars => IInv'
  BY NextOK
<1> QED
  BY <1>1, <1>2, PTL DEF Spec

\* Whenever the process or the machine stops, what the record says of a part is in the
\* part: every recorded byte was synced, and no later write touches it.
THEOREM RecordedIsOnDisk == Spec => []RecordedBytesAreStable
<1>1. IInv => RecordedBytesAreStable
  BY DEF IInv
<1> QED
  BY <1>1, SessionInvariant, PTL

\* A record never mixes representations.
THEOREM NeverMixes == Spec => []OneRepresentationPerFile
<1>1. IInv => OneRepresentationPerFile
  BY DEF IInv, RecordOK, Uniform, OneRepresentationPerFile, Extents
<1> QED
  BY <1>1, SessionInvariant, PTL

\* A session that ended without an error has nothing leased, written or frozen, and its job
\* is the one that a reload of the record would give.
THEOREM EndsSettled == Spec => []EndsAsRecorded
<1>1. IInv => EndsAsRecorded
  <2> SUFFICES ASSUME IInv, session.pc = "idle", session.error = "None", job.state # "Cancelled"
               PROVE  job = Reloaded
    BY DEF EndsAsRecorded, Idle
  <2>1. LiveOK /\ RecordOK /\ JobOK(job) /\ PlanOK(job.segments)
    BY DEF IInv, LiveOK, JobOK
  <2>2. PICK p : p = job.segments
    OBVIOUS
  <2>3. Clean(p) /\ p.durable = Extents /\ p.frozen = {} /\ record.job = Strip(job)
    <3>1. session.pc \notin Moving /\ job.state # "Cancelling"
      BY <2>1 DEF LiveOK, StateAt, Unsettled, Moving, Manned, Checkpointing
    <3> QED
      BY <2>1, <2>2, <3>1 DEF LiveOK, CheckpointOK, Match, PlanOK, Clean
  <2>4. PICK m : m = IF p = NoMap THEN NoMap ELSE Fresh(p.total)
    OBVIOUS
  <2>5. record.job = [job EXCEPT !.segments = m] /\ record.job.segments = m
    BY <2>1, <2>2, <2>3, <2>4 DEF Strip, JobOK
  <2>6. (IF m = NoMap THEN NoMap ELSE Restored(m.total, Extents)) = p
    <3>1. CASE p = NoMap
      BY <2>4, <3>1
    <3>2. CASE p # NoMap
      <4>1. p.total \in Nat /\ p \in ProgressOf(p.total)
        BY <2>1, <2>2, <3>2 DEF PlanOK
      <4>2. m # NoMap /\ m.total = p.total
        BY <2>4, <3>2, <4>1, Plans
      <4>3. p = [total |-> p.total, leased |-> {}, written |-> {}, durable |-> Extents,
                 frozen |-> {}, ckpt |-> NoCheckpoint]
        BY <2>3, <4>1 DEF ProgressOf, Clean
      <4>4. Restored(p.total, Extents) = [total |-> p.total, leased |-> {}, written |-> {},
              durable |-> Extents, frozen |-> {}, ckpt |-> NoCheckpoint]
        BY DEF Restored, Fresh
      <4> QED
        BY <4>2, <4>3, <4>4
    <3> QED
      BY <3>1, <3>2
  <2>7. Reloaded = [[job EXCEPT !.segments = m] EXCEPT !.segments = p]
    BY <2>5, <2>6 DEF Reloaded, Extents
  <2>8. job = [job EXCEPT !.segments = p]
    BY <2>1, <2>2, Zenon DEF JobOK
  <2> QED
    BY <2>7, <2>8, Zenon
<1> QED
  BY <1>1, SessionInvariant, PTL

-----------------------------------------------------------------------------
(***************************************************************************)
(* What one step may do to the job: it executes one command of a job that  *)
(* has all the bytes of the coordinator's, or it leaves the record's job   *)
(* alone and loses nothing.                                                *)
(***************************************************************************)
Bad          == {"Domain", "Invariant"}
DoneBytes(j) == j.segments.written \cup j.segments.durable

Keeps ==
  /\ job'.generation = job.generation
  /\ session'.error = "None" /\ ~session'.storage_failed
  /\ budget'.crashes = budget.crashes
  => DoneBytes(job) \subseteq DoneBytes(job')

Thrift == budget'.sessions = budget.sessions /\ budget'.commands = budget.commands

Moves ==
  /\ record'.job = record.job /\ Thrift /\ Keeps
  /\ session'.error \in Bad => session.error \in Bad
  /\ session'.pc = "start" => session.pc = "start"

\* The sources are not larger than the job allows, and generations do not run out.
Fits ==
  /\ \A rep \in DOMAIN Size : Size[rep] <= MaxBytes
  /\ MaxSessions + MaxCommands < LastGeneration

Accepts(j, c) ==
  Fits /\ (j.replace_on_drain => j.generation < LastGeneration) => Execute(j, c) # {}

Executing(j, c, next) ==
  /\ Step(j, c, next) /\ JobOK(j) /\ record.job = Strip(j) /\ session.error = "None"
  /\ {c.total, c.validator} \subseteq Nat
  /\ c.name # "ReplaceRepresentation" /\ (c.name = "Start" => session.pc = "start")
  /\ IsSession(next) /\ next.error = "None" /\ next.pc # "start"
  /\ DoneBytes(j) = DoneBytes(job) \/ next.storage_failed
  /\ Accepts(j, c)

Executes == \E j, c, next : Executing(j, c, next)

\* Which of the budgets a step touches.
LEMMA SpendsOne ==
  ASSUME budget \in Budgets
  PROVE  /\ UNCHANGED budget => Thrift
         /\ \A what \in {"faults", "controls", "changes"} : Spend(what) => Thrift
         /\ Spend("crashes") => Thrift /\ budget'.crashes # budget.crashes
BY DEF Budgets, Spend, Thrift

\* A step that leaves the job alone.
LEMMA Still ==
  ASSUME UNCHANGED <<job, record>>, session'.error = session.error, Thrift,
         session'.pc = session.pc \/ session'.pc # "start"
  PROVE  Moves
BY DEF Moves, Keeps

\* A step that gives the session up, not because the domain refused.
LEMMA GivenUp ==
  ASSUME record'.job = record.job, session'.error \notin Bad \cup {"None"}, session'.pc = "close",
         Thrift
  PROVE  Moves
BY DEF Moves, Keeps

\* The commands of a session are accepted in the states it gives them in.
LEMMA Accepted ==
  ASSUME NEW j, JobOK(j), NEW c,
         \/ c.name = "Start" /\ j.state = "Queued"
         \/ c.name \in Stopping /\ j.state \in Running \cup {"Stopping"}
         \/ c.name = "Cancel" /\ j.state \in Running \cup {"Stopping", "Cancelling"}
         \/ c.name = "RequireAction" /\ j.state \in {"Verifying", "Publishing"}
         \/ c.name = "Pause" /\ j.state = "Verifying"
         \/ c.name = "VerificationPassed" /\ j.state = "Verifying"
         \/ c.name = "PublishCommitted" /\ j.state = "Publishing"
         \/ c.name = "CleanupFinished" /\ j.state = "Cancelling" /\ Quiescent(j)
         \/ c.name = "AllSegmentsDurable" /\ j.state = "Transferring" /\ AllDurable(j.segments)
         \/ c.name = "WorkersDrained" /\ j.state = "Stopping" /\ Settled(j)
         \/ /\ c.name = "ProbeSucceeded" /\ j.state = "Probing"
            /\ Fits => c.total <= MaxBytes
            /\ \/ j.segments = NoMap
               \/ /\ j.segments.total = c.total /\ c.validator # NoValidator
                  /\ c.validator = j.validator
  PROVE  Accepts(j, c)
<1> SUFFICES ASSUME Fits, j.replace_on_drain => j.generation < LastGeneration
             PROVE  Execute(j, c) # {}
  BY DEF Accepts
<1>1. CASE c.name = "Start" /\ j.state = "Queued"
  BY <1>1 DEF Execute
<1>2. CASE c.name \in Stopping /\ j.state \in Running
  BY <1>2 DEF Execute, Stopping, CauseKind, Running
<1>3. CASE c.name \in Stopping /\ j.state = "Stopping"
  BY <1>3 DEF Execute, Stopping, CauseKind, Running
<1>4. CASE c.name = "Cancel" /\ j.state \in Running \cup {"Stopping", "Cancelling"}
  BY <1>4 DEF Execute, CauseKind, Running
<1>5. CASE c.name = "RequireAction" /\ j.state \in {"Verifying", "Publishing"}
  BY <1>5 DEF Execute, CauseKind, Running, Resumable
<1>6. CASE c.name \in {"Pause", "VerificationPassed"} /\ j.state = "Verifying"
  BY <1>6 DEF Execute, CauseKind, Running, Resumable
<1>7. CASE c.name = "PublishCommitted" /\ j.state = "Publishing"
  BY <1>7 DEF Execute, CauseKind, Running, Resumable
<1>8. CASE c.name = "CleanupFinished" /\ j.state = "Cancelling" /\ Quiescent(j)
  BY <1>8 DEF Execute, Only, CauseKind, Running, Resumable
<1>9. CASE c.name = "AllSegmentsDurable" /\ j.state = "Transferring" /\ AllDurable(j.segments)
  BY <1>9 DEF Execute, Only, CauseKind, Running, Complete, JobOK
<1>10. CASE c.name = "WorkersDrained" /\ j.state = "Stopping" /\ Settled(j)
  <2>1. Execute(j, c) = WorkersDrained(j)
    BY <1>10 DEF Execute, CauseKind, Running
  <2> QED
    BY <1>10, <2>1 DEF WorkersDrained, Only
<1>11. CASE /\ c.name = "ProbeSucceeded" /\ j.state = "Probing" /\ c.total <= MaxBytes
            /\ \/ j.segments = NoMap
               \/ /\ j.segments.total = c.total /\ c.validator # NoValidator
                  /\ c.validator = j.validator
  <2>1. Execute(j, c) = Probed(j, c)
    BY <1>11 DEF Execute, CauseKind, Running, Resumable
  <2> QED
    BY <1>11, <2>1 DEF Probed, Only
<1> QED
  BY <1>1, <1>2, <1>3, <1>4, <1>5, <1>6, <1>7, <1>8, <1>9, <1>10, <1>11

\* stop_with: a command, or nothing for a job that is past stopping.
LEMMA StopWithMoves ==
  ASSUME Shapes, NEW j, JobOK(j), record.job = Strip(j), session.error = "None",
         NEW next, IsSession(next), next.error = "None", next.pc # "start",
         j.generation = job.generation,
         DoneBytes(j) = DoneBytes(job) \/ next.storage_failed,
         NEW c, {c.total, c.validator} \subseteq Nat, c.name \in Stopping, StopWith(j, c, next)
  PROVE  Moves \/ Executes
<1>1. PICK n : n = [next EXCEPT !.stopping = TRUE]
  OBVIOUS
<1>2. /\ IsSession(n) /\ n.error = "None" /\ n.pc # "start"
      /\ n.storage_failed = next.storage_failed
  BY <1>1, Sets DEF Kept4
<1>3. CASE j.state \in Running \cup {"Stopping"}
  <2>1. Step(j, c, n)
    BY <1>1, <1>3 DEF StopWith
  <2>2. Accepts(j, c)
    BY <1>3, Accepted
  <2>3. c.name # "ReplaceRepresentation" /\ c.name # "Start"
    BY DEF Stopping, CauseKind
  <2>4. Executing(j, c, n)
    BY <1>2, <2>1, <2>2, <2>3 DEF Executing
  <2> QED
    BY <2>4 DEF Executes
<1>4. CASE j.state \notin Running \cup {"Stopping"}
  <2>1. job' = j /\ session' = n /\ UNCHANGED <<record, budget>>
    BY <1>1, <1>4 DEF StopWith
  <2>2. Thrift
    BY <2>1, SpendsOne DEF Shapes
  <2> QED
    BY <1>2, <2>1, <2>2 DEF Moves, Keeps, Bad
<1> QED
  BY <1>3, <1>4

\* The repository could not be read.
LEMMA UnreadMoves ==
  ASSUME Shapes, NEW next, IsSession(next), Unread(next)
  PROVE  Moves
<1>1. PICK p \in Pcs, e \in Errors : p = "close" /\ e = "Repository"
  BY DEF Pcs, Errors
<1>2. session' = [next EXCEPT !.pc = p, !.error = e] /\ Thrift /\ record' = record
  BY <1>1, SpendsOne DEF Unread, Shapes
<1>3. session'.pc = p /\ session'.error = e
  BY <1>2 DEF IsSession
<1> QED
  BY <1>1, <1>2, <1>3, GivenUp DEF Bad

\* A command of the coordinator's own job.
LEMMA OwnCommand ==
  ASSUME IInv, session.error = "None", NEW c, {c.total, c.validator} \subseteq Nat,
         c.name # "ReplaceRepresentation", c.name = "Start" => session.pc = "start",
         NEW next, IsSession(next), next.error = "None", next.pc # "start",
         Step(job, c, next), Accepts(job, c)
  PROVE  Executes
<1>1. Executing(job, c, next)
  BY DEF Executing, IInv, LiveOK, Match
<1> QED
  BY <1>1 DEF Executes

\* Locals that go on elsewhere.
LEMMA Onward ==
  ASSUME IInv, NEW p \in Pcs \ {"start"}
  PROVE  /\ IsSession(At(p)) /\ At(p).pc # "start" /\ At(p).error = session.error /\ At(p).pc = p
         /\ At(p).storage_failed = session.storage_failed
         /\ IsSession(Taken(p)) /\ Taken(p).pc # "start" /\ Taken(p).error = session.error
         /\ Taken(p).storage_failed = session.storage_failed
BY Goes, TakenFields DEF IInv, Shapes

\* Start gives a command.
LEMMA StartMoves ==
  ASSUME IInv, Start
  PROVE  Moves \/ Executes
<1>1. /\ session.pc = "start" /\ session.error = "None" /\ CalmOK
  BY Working1 DEF Start, Pcs, Manned, Checkpointing
<1>2. PICK c : c = Command("Start")
  OBVIOUS
<1>3. c.name = "Start" /\ {c.total, c.validator} \subseteq Nat
  BY <1>2, CommandFields
<1>4. job.state = "Queued" /\ JobOK(job)
  BY <1>1 DEF CalmOK, StateAt
<1>5. PICK p \in Pcs \ {"start"} : p = "probe"
  BY DEF Pcs
<1>6. Step(job, c, At(p)) /\ Accepts(job, c)
  BY <1>2, <1>3, <1>4, <1>5, Accepted DEF Start
<1> QED
  BY <1>1, <1>3, <1>6, OwnCommand, Onward

\* on_control.
LEMMA ControlMoves ==
  ASSUME IInv, session.error = "None", job.state \in Running \cup {"Stopping", "Cancelling"},
         NEW next, IsSession(next), next.error = "None", next.pc # "start", OnControl(next)
  PROVE  Moves \/ Executes
<1>1. JobOK(job) /\ record.job = Strip(job) /\ Shapes
  BY DEF IInv, LiveOK, Match
<1>2. Head(control) \in {"Pause", "Cancel"}
  BY <1>1, Controls DEF OnControl
<1>3. CASE StopWith(job, Command("Pause"), next)
  <2>1. PICK c : c = Command("Pause")
    OBVIOUS
  <2>2. c.name \in Stopping /\ {c.total, c.validator} \subseteq Nat
    BY <2>1, CommandFields DEF Stopping, CauseKind
  <2> QED
    BY <1>1, <1>3, <2>1, <2>2, StopWithMoves
<1>4. CASE Step(job, Command("Cancel"), [next EXCEPT !.stopping = TRUE])
  <2>1. PICK c : c = Command("Cancel")
    OBVIOUS
  <2>2. c.name = "Cancel" /\ {c.total, c.validator} \subseteq Nat
    BY <2>1, CommandFields
  <2>3. PICK n : n = [next EXCEPT !.stopping = TRUE]
    OBVIOUS
  <2>4. IsSession(n) /\ n.error = "None" /\ n.pc # "start"
    BY <2>3, Sets DEF Kept4
  <2>5. Accepts(job, c) /\ Step(job, c, n)
    BY <1>1, <1>4, <2>1, <2>2, <2>3, Accepted
  <2> QED
    BY <2>2, <2>4, <2>5, OwnCommand
<1> QED
  BY <1>2, <1>3, <1>4 DEF OnControl

\* A control during the probe.
LEMMA ProbeControlMoves ==
  ASSUME IInv, ProbeControl
  PROVE  Moves \/ Executes
<1>1. /\ session.pc = "probe" /\ session.error = "None" /\ CalmOK
  BY Working1 DEF ProbeControl, Pcs, Manned, Checkpointing
<1>2. job.state \in Running
  BY <1>1 DEF CalmOK, StateAt, Running
<1>3. PICK p \in Pcs \ {"start"} : p = "finish" /\ OnControl(At(p))
  BY DEF ProbeControl, Pcs, Moving
<1>4. PICK next : next = At(p)
  OBVIOUS
<1> QED
  BY <1>1, <1>2, <1>3, <1>4, ControlMoves, Onward

\* The probe's answer: the plan, or another representation.
LEMMA ProbeAnsweredMoves ==
  ASSUME IInv, ProbeAnswered
  PROVE  Moves \/ Executes
<1>1. /\ session.pc = "probe" /\ session.error = "None" /\ CalmOK /\ Shapes
  BY Working1 DEF ProbeAnswered, Pcs, Manned, Checkpointing
<1>2. job.state = "Probing" /\ job.state \in Running /\ JobOK(job)
  BY <1>1 DEF CalmOK, StateAt, Running
<1>3. PICK total, validator : total = Size[origin] /\ validator = Validator(origin)
  OBVIOUS
<1>4. total \in Nat /\ validator \in Nat /\ (Fits => total <= MaxBytes)
  BY <1>1, <1>3, SessionAssumption DEF Shapes, Validator, NoValidator, Fits
<1>5. PICK p \in Pcs \ {"start"}, q \in Pcs \ {"start"} : p = "finish" /\ q = "open"
  BY DEF Pcs, Moving
<1>6. \/ Step(job, Command("RepresentationChanged"), At(p))
      \/ /\ job.segments = NoMap \/ (job.segments.total = total /\ validator # NoValidator
                                     /\ validator = job.validator)
         /\ Step(job, [Command("ProbeSucceeded") EXCEPT !.total = total, !.validator = validator],
                 At(q))
  BY <1>3, <1>5 DEF ProbeAnswered
<1>7. CASE Step(job, Command("RepresentationChanged"), At(p))
  <2>1. PICK c : c = Command("RepresentationChanged")
    OBVIOUS
  <2>2. c.name = "RepresentationChanged" /\ {c.total, c.validator} \subseteq Nat
        /\ c.name \in Stopping
    BY <2>1, CommandFields DEF Stopping
  <2>3. Accepts(job, c) /\ Step(job, c, At(p))
    BY <1>2, <1>7, <2>1, <2>2, Accepted
  <2> QED
    BY <1>1, <2>2, <2>3, OwnCommand, Onward
<1>8. CASE /\ job.segments = NoMap \/ (job.segments.total = total /\ validator # NoValidator
                                       /\ validator = job.validator)
           /\ Step(job, [Command("ProbeSucceeded") EXCEPT !.total = total, !.validator = validator],
                   At(q))
  <2>1. PICK c : c = [Command("ProbeSucceeded") EXCEPT !.total = total, !.validator = validator]
    OBVIOUS
  <2>2. c.name = "ProbeSucceeded" /\ c.total = total /\ c.validator = validator
    BY <2>1 DEF Command
  <2>3. Accepts(job, c) /\ Step(job, c, At(q))
    BY <1>2, <1>4, <1>8, <2>1, <2>2, Accepted
  <2> QED
    BY <1>1, <1>4, <2>2, <2>3, OwnCommand, Onward
<1> QED
  BY <1>6, <1>7, <1>8

\* The probe's failure stops the job.
LEMMA ProbeFailedMoves ==
  ASSUME IInv, ProbeFailed
  PROVE  Moves \/ Executes
<1>1. /\ session.pc = "probe" /\ session.error = "None" /\ CalmOK /\ Shapes
  BY Working1 DEF ProbeFailed, Pcs, Manned, Checkpointing
<1>2. PICK p \in Pcs \ {"start"} : p = "finish"
  BY DEF Pcs, Moving
<1>3. PICK failure \in Failures \ {"Panicked"} : StopWith(job, TransportCommand(failure), At(p))
  BY <1>2 DEF ProbeFailed
<1>4. PICK c : c = TransportCommand(failure)
  OBVIOUS
<1>5. c.name \in Stopping /\ {c.total, c.validator} \subseteq Nat
  BY <1>4, TransportStops, SessionAssumption
<1>6. JobOK(job) /\ record.job = Strip(job)
  BY <1>1 DEF CalmOK
<1> QED
  BY <1>1, <1>3, <1>4, <1>5, <1>6, StopWithMoves, Onward

\* So does a part that cannot be opened; a job to be verified needs a decision.
LEMMA OpenFailedMoves ==
  ASSUME IInv, OpenFailed
  PROVE  Moves \/ Executes
<1>1. /\ session.pc = "open" /\ session.error = "None" /\ CalmOK /\ Shapes
  BY Working1 DEF OpenFailed, Pcs, Manned, Checkpointing
<1>2. JobOK(job) /\ record.job = Strip(job) /\ IsSession(session)
  BY <1>1 DEF CalmOK, Shapes
<1>3. PICK p \in Pcs \ {"start"}, q \in Pcs \ {"start"} : p = "finish" /\ q = "close"
  BY DEF Pcs, Moving
<1>4. PICK next : next = [At(p) EXCEPT !.storage_failed = TRUE]
  OBVIOUS
<1>5. IsSession(next) /\ next.pc = p /\ next.error = "None" /\ next.storage_failed
  <2>1. IsSession(At(p)) /\ At(p).pc = p /\ At(p).error = "None"
    BY <1>1, Onward
  <2> QED
    BY <1>4, <2>1, Sets DEF Kept4
<1>6. PICK reason : \/ Unread(At("close"))
                    \/ IF job.state = "Verifying"
                         THEN Step(job, Because("RequireAction", reason), [next EXCEPT !.pc = q])
                         ELSE StopWith(job, Because("RequireAction", reason), next)
  BY <1>3, <1>4 DEF OpenFailed
<1>7. PICK c : c = Because("RequireAction", reason)
  OBVIOUS
<1>8. c.name = "RequireAction" /\ c.name \in Stopping /\ {c.total, c.validator} \subseteq Nat
  BY <1>7, CommandFields DEF Stopping, CauseKind
<1>9. CASE Unread(At("close"))
  BY <1>1, <1>3, <1>9, Onward, UnreadMoves
<1>10. CASE job.state = "Verifying" /\ Step(job, c, [next EXCEPT !.pc = q])
  <2>1. PICK n : n = [next EXCEPT !.pc = q]
    OBVIOUS
  <2>2. IsSession(n) /\ n.pc = q /\ n.error = "None"
    BY <1>5, <2>1, Sets DEF Kept4
  <2>3. Accepts(job, c)
    BY <1>2, <1>8, <1>10, Accepted
  <2> QED
    BY <1>1, <1>8, <1>10, <2>1, <2>2, <2>3, OwnCommand
<1>11. CASE StopWith(job, c, next)
  BY <1>1, <1>2, <1>5, <1>8, <1>11, StopWithMoves
<1> QED
  BY <1>6, <1>7, <1>9, <1>10, <1>11

\* The job goes on and has at least the bytes it had.
LEMMA Advances ==
  ASSUME record'.job = record.job, Thrift, session'.error = "None", session'.pc # "start",
         DoneBytes(job) \subseteq DoneBytes(job')
  PROVE  Moves
BY DEF Moves, Keeps, Bad

\* A lease leaves the written bytes alone.
LEMMA SpawnWorkerMoves ==
  ASSUME IInv, NEW w \in Slots, SpawnWorker(w)
  PROVE  Moves
<1>1. session.pc = "transfer" /\ session.error = "None" /\ Shapes /\ Settling(job)
  BY AtTransfer DEF SpawnWorker
<1>2. PICK B \in Leasable : job' = [job EXCEPT !.segments = LeaseBytes(@, B)]
  BY DEF SpawnWorker
<1>3. PICK p, m : p = job.segments /\ m = LeaseBytes(p, B)
  OBVIOUS
<1>4. JobOK(job) /\ PlanOK(p) /\ CanLease(p, B)
  BY <1>1, <1>2, <1>3, JobFields DEF Settling, Leasable
<1>5. m.written = p.written /\ m.durable = p.durable
  BY <1>3, <1>4, LeaseOK
<1>6. job' = [job EXCEPT !.segments = m]
  BY <1>2, <1>3
<1>7. job'.segments = m
  BY <1>4, <1>6 DEF JobOK
<1>8. UNCHANGED <<session, record>> /\ Thrift
  BY <1>1, SpendsOne DEF SpawnWorker, Shapes
<1> QED
  BY <1>1, <1>3, <1>5, <1>7, <1>8, Advances DEF DoneBytes

\* A checkpoint is begun.
LEMMA PreparedMoves ==
  ASSUME IInv, session.error = "None", job.segments # NoMap,
         job' = [job EXCEPT !.segments = PrepareSync(@)],
         NEW a \in Afters, session' = [At("sync") EXCEPT !.after = a], UNCHANGED <<record, budget>>
  PROVE  Moves
<1>1. JobOK(job) /\ Shapes /\ PlanOK(job.segments)
  BY JobFields DEF IInv, LiveOK
<1>2. PICK p, m : p = job.segments /\ m = PrepareSync(p)
  OBVIOUS
<1>3. m.written = p.written /\ m.durable = p.durable
  BY <1>1, <1>2, PrepareOK
<1>4. job' = [job EXCEPT !.segments = m]
  BY <1>2
<1>5. job'.segments = m
  BY <1>1, <1>4 DEF JobOK
<1>6. session'.pc = "sync" /\ session'.error = "None" /\ Thrift
  BY <1>1, Syncing, SpendsOne DEF Shapes
<1> QED
  BY <1>2, <1>3, <1>5, <1>6, Advances DEF DoneBytes

\* So does the beginning of a checkpoint.
LEMMA TransferCheckpointMoves ==
  ASSUME IInv, TransferCheckpoint
  PROVE  Moves
<1>1. session.error = "None" /\ Settling(job)
  BY AtTransfer DEF TransferCheckpoint
<1>2. PICK a \in Afters : a = "transfer"
  BY DEF Afters
<1>3. job.segments # NoMap
  BY <1>1 DEF TransferCheckpoint, CheckpointDue, Settling, JobOK
<1> QED
  BY <1>1, <1>2, <1>3, PreparedMoves DEF TransferCheckpoint

\* A worker is joined: its bytes are added, or its lease is released.
LEMMA TransferWorkerMoves ==
  ASSUME IInv, Coordinating("transfer"), NEW w \in Busy, OnWorker(w)
  PROVE  Moves \/ Executes
<1>1. /\ session.pc = "transfer" /\ session.error = "None" /\ Shapes /\ Settling(job)
      /\ job.segments.leased = {workers[v].bytes : v \in Busy} /\ IsSession(session)
  BY AtTransfer DEF Shapes
<1>2. PICK p, B, r : p = job.segments /\ B = workers[w].bytes /\ r = workers[w].phase
  OBVIOUS
<1>3. B \in p.leased /\ r \in Results
  BY <1>1, <1>2 DEF OnWorker
<1>4. /\ JobOK(job) /\ PlanOK(p) /\ job.state \in SegmentStates /\ record.job = Strip(job)
      /\ job.validator = NoValidator => OneSegment(p)
  BY <1>1, <1>2, JobFields DEF Settling
<1>5. PICK released : released = [job EXCEPT !.segments = ReleaseBytes(p, B)]
  OBVIOUS
<1>6. /\ JobOK(released) /\ record.job = Strip(released) /\ released.generation = job.generation
      /\ DoneBytes(released) = DoneBytes(job)
  <2>1. PICK m : m = ReleaseBytes(p, B)
    OBVIOUS
  <2>2. /\ PlanOK(m) /\ m.total = p.total /\ m.written = p.written /\ m.durable = p.durable
        /\ OneSegment(p) => OneSegment(m)
    BY <1>3, <1>4, <2>1, ReleaseOK
  <2>3. released = [job EXCEPT !.segments = m]
    BY <1>5, <2>1
  <2>4. /\ JobOK(released) /\ released.segments = m
        /\ released.generation = job.generation /\ Strip(released) = Strip(job)
    BY <1>2, <1>4, <2>2, <2>3, WithPlan
  <2> QED
    BY <1>2, <1>4, <2>2, <2>4 DEF DoneBytes
<1>7. ASSUME NEW c, {c.total, c.validator} \subseteq Nat, c.name \in Stopping,
             StopWith(released, c, session)
      PROVE  Moves \/ Executes
  BY <1>1, <1>6, <1>7, StopWithMoves
<1>8. UNCHANGED budget => Thrift
  BY <1>1, SpendsOne DEF Shapes
<1>9. CASE /\ job' = [job EXCEPT !.segments = MarkWritten(p, B)]
           /\ session' = [session EXCEPT !.unsynced = @ + Cardinality(B)]
           /\ UNCHANGED <<record, budget>>
  <2>1. PICK m : m = MarkWritten(p, B)
    OBVIOUS
  <2>2. m.written = p.written \cup B /\ m.durable = p.durable
    BY <1>3, <1>4, <2>1, MarkOK
  <2>3. job' = [job EXCEPT !.segments = m]
    BY <1>9, <2>1
  <2>4. job'.segments = m
    BY <1>4, <2>3 DEF JobOK
  <2>5. session'.pc = "transfer" /\ session'.error = "None"
    BY <1>1, <1>9 DEF IsSession
  <2> QED
    BY <1>2, <1>8, <1>9, <2>2, <2>4, <2>5, Advances DEF DoneBytes
<1>10. CASE job' = released /\ UNCHANGED <<record, session, budget>>
  BY <1>1, <1>6, <1>8, <1>10, Advances
<1>11. CASE StorageFailure(released, session)
  <2>1. PICK c : c = Because("RequireAction", "Storage")
    OBVIOUS
  <2>2. c.name \in Stopping /\ {c.total, c.validator} \subseteq Nat
    BY <2>1, CommandFields DEF Stopping, CauseKind
  <2>3. PICK n : n = [session EXCEPT !.storage_failed = TRUE]
    OBVIOUS
  <2>4. IsSession(n) /\ n.pc = "transfer" /\ n.error = "None"
    BY <1>1, <2>3, Sets DEF Kept4
  <2>5. StopWith(released, c, n)
    BY <1>11, <2>1, <2>3 DEF StorageFailure
  <2> QED
    BY <1>1, <1>6, <2>2, <2>4, <2>5, StopWithMoves
<1>12. CASE StopWith(released, Because("Fail", "Unknown"), session)
  <2>1. PICK c : c = Because("Fail", "Unknown")
    OBVIOUS
  <2>2. c.name \in Stopping /\ {c.total, c.validator} \subseteq Nat
    BY <2>1, CommandFields DEF Stopping, CauseKind
  <2> QED
    BY <1>7, <1>12, <2>1, <2>2
<1>13. CASE /\ r \notin {"Ok", "Cancelled", "Storage", "Panicked"}
            /\ StopWith(released, TransportCommand(r), session)
  <2>1. PICK c : c = TransportCommand(r)
    OBVIOUS
  <2>2. c.name \in Stopping /\ {c.total, c.validator} \subseteq Nat
    BY <1>3, <1>13, <2>1, TransportStops DEF Results
  <2> QED
    BY <1>7, <1>13, <2>1, <2>2
<1> QED
  BY <1>2, <1>3, <1>4, <1>5, <1>9, <1>10, <1>11, <1>12, <1>13 DEF OnWorker

\* The transfer waits for a worker or a control.
LEMMA TransferWaitMoves ==
  ASSUME IInv, TransferWait
  PROVE  Moves \/ Executes
<1>1. /\ session.pc = "transfer" /\ session.error = "None" /\ Shapes /\ Settling(job)
  BY AtTransfer DEF TransferWait
<1>2. CASE OnControl(session)
  <2>1. IsSession(session) /\ job.state \in Running \cup {"Stopping", "Cancelling"}
    BY <1>1 DEF Shapes, Settling, SegmentStates, Running
  <2> QED
    BY <1>1, <1>2, <2>1, ControlMoves
<1>3. CASE \E w \in Busy : OnWorker(w)
  BY <1>3, TransferWorkerMoves DEF TransferWait
<1> QED
  BY <1>2, <1>3 DEF TransferWait

\* When nothing can be leased, nothing is and nothing waits for a checkpoint, all is durable.
LEMMA NothingLeft ==
  ASSUME Settling(job), job.state = "Transferring", Busy = {}, job.segments.leased = {},
         job.segments.written = {}, ~CanSpawn
  PROVE  AllDurable(job.segments)
<1>1. PICK p : p = job.segments
  OBVIOUS
<1>2. PlanOK(p) /\ (job.validator = NoValidator => OneSegment(p)) /\ p # NoMap
  BY <1>1, JobFields DEF Settling
<1>3. p.total \in Nat /\ p.durable \subseteq Bytes(p.total)
  BY <1>2, PlanFields DEF PlanOK
<1>4. Leasable = {}
  <2>1. 1 \in Slots
    BY SessionAssumption DEF Slots
  <2> QED
    BY <2>1 DEF CanSpawn
<1>5. SUFFICES ASSUME NEW b \in Bytes(p.total), b \notin p.durable
               PROVE  FALSE
  BY <1>1, <1>3 DEF AllDurable
<1>6. PendingBytes(p) = Bytes(p.total) \ p.durable
  BY <1>1 DEF PendingBytes
<1>7. CASE job.validator # NoValidator
  <2>1. PICK B : B = b .. b
    OBVIOUS
  <2>2. B \in {lo .. hi : lo, hi \in Bytes(p.total)}
    <3>1. \E lo \in Bytes(p.total) : \E hi \in Bytes(p.total) : B = lo .. hi
      BY <1>5, <2>1
    <3> QED
      BY <3>1
  <2>3. B = {b}
    BY <2>1 DEF Bytes
  <2>4. CanLease(p, B)
    BY <1>5, <1>6, <2>3 DEF CanLease
  <2> QED
    BY <1>1, <1>4, <1>7, <2>2, <2>4 DEF Leasable
<1>8. CASE job.validator = NoValidator
  <2>1. p.durable = {}
    BY <1>2, <1>5, <1>8 DEF OneSegment, Whole
  <2>2. CanLease(p, Bytes(p.total))
    BY <1>5, <1>6, <2>1 DEF CanLease
  <2>3. /\ 0 \in Bytes(p.total) /\ p.total - 1 \in Bytes(p.total)
        /\ Bytes(p.total) = 0 .. (p.total - 1)
    BY <1>3, <1>5 DEF Bytes
  <2>4. Bytes(p.total) \in {lo .. hi : lo, hi \in Bytes(p.total)}
    BY <2>3
  <2> QED
    BY <1>1, <1>4, <2>2, <2>4 DEF Leasable
<1> QED
  BY <1>7, <1>8

\* The transfer's loop ends with everything durable, or a job that was stopped.
LEMMA TransferDoneMoves ==
  ASSUME IInv, TransferDone
  PROVE  Moves \/ Executes
<1>1. /\ session.pc = "transfer" /\ session.error = "None" /\ Shapes /\ Settling(job)
      /\ job.segments.leased = {workers[v].bytes : v \in Busy} /\ IsSession(session)
  BY AtTransfer DEF TransferDone, Shapes
<1>2. Busy = {} /\ ~CanSpawn /\ ~CheckpointDue
  BY DEF TransferDone
<1>3. CASE job.state # "Transferring"
  <2>1. PICK p \in Pcs \ {"start"} : p = "finish"
    BY DEF Pcs, Moving
  <2>2. session' = At(p) /\ UNCHANGED <<job, record, budget>>
    BY <1>3, <2>1 DEF TransferDone
  <2>3. session'.error = session.error /\ session'.pc # "start" /\ Thrift
    BY <1>1, <2>2, Onward, SpendsOne DEF Shapes
  <2> QED
    BY <2>2, <2>3, Still
<1>4. CASE job.state = "Transferring"
  <2>1. AllDurable(job.segments)
    <3>1. job.segments.leased = {} /\ job.segments.written = {}
      BY <1>1, <1>2, <1>4 DEF CheckpointDue, HasUnsynced
    <3> QED
      BY <1>1, <1>2, <1>4, <3>1, NothingLeft
  <2>2. PICK c : c = Command("AllSegmentsDurable")
    OBVIOUS
  <2>3. c.name = "AllSegmentsDurable" /\ {c.total, c.validator} \subseteq Nat
    BY <2>2, CommandFields
  <2>4. Step(job, c, session)
    BY <1>4, <2>1, <2>2 DEF TransferDone
  <2>5. Accepts(job, c)
    BY <1>1, <1>4, <2>1, <2>3, Accepted DEF Settling
  <2> QED
    BY <1>1, <2>3, <2>4, <2>5, OwnCommand
<1> QED
  BY <1>3, <1>4

\* The lane could not sync or hash.
LEMMA CheckpointFailsMoves ==
  ASSUME IInv, NEW pc \in {"sync", "hash"}, Answered(pc),
         StorageFailure(Abandoned, Taken(session.after))
  PROVE  Moves \/ Executes
<1>1. Coordinating(pc) /\ pc \in Checkpointing
  BY DEF Answered, Checkpointing
<1>2. session.error = "None" /\ Shapes /\ session.after \in {"transfer", "drain"}
  BY <1>1, AtCheckpoint
<1>3. PICK j : j = Abandoned
  OBVIOUS
<1>4. JobOK(j) /\ record.job = Strip(j) /\ j.generation = job.generation
  BY <1>1, <1>3, AbandonedOK DEF Settling
<1>5. PICK p \in Pcs \ {"start"} : p = session.after
  BY <1>2 DEF Pcs, Moving, Manned
<1>6. PICK t : t = Taken(p)
  OBVIOUS
<1>7. IsSession(t) /\ t.pc = p /\ t.error = "None"
  BY <1>2, <1>6, TakenFields DEF Shapes
<1>8. PICK n : n = [t EXCEPT !.storage_failed = TRUE]
  OBVIOUS
<1>9. IsSession(n) /\ n.pc = p /\ n.error = "None" /\ n.storage_failed
  BY <1>7, <1>8, Sets DEF Kept4
<1>10. PICK c : c = Because("RequireAction", "Storage")
  OBVIOUS
<1>11. c.name \in Stopping /\ {c.total, c.validator} \subseteq Nat
  BY <1>10, CommandFields DEF Stopping, CauseKind
<1>12. StopWith(j, c, n)
  BY <1>3, <1>5, <1>6, <1>8, <1>10 DEF StorageFailure
<1> QED
  BY <1>2, <1>4, <1>9, <1>11, <1>12, StopWithMoves

\* The sync is acknowledged, or the checkpoint abandoned.
LEMMA SyncAnsweredMoves ==
  ASSUME IInv, SyncAnswered
  PROVE  Moves \/ Executes
<1>1. Answered("sync")
  BY DEF SyncAnswered
<1>2. CASE session.reply # "Ok"
  BY <1>1, <1>2, CheckpointFailsMoves DEF SyncAnswered
<1>3. CASE session.reply = "Ok"
  <2>1. PICK pc \in Checkpointing : pc = "sync"
    BY DEF Checkpointing
  <2>2. /\ session.error = "None" /\ Shapes /\ JobOK(job) /\ job.segments.ckpt # NoCheckpoint
        /\ PlanOK(job.segments)
    BY <1>1, <2>1, AtCheckpoint DEF Answered
  <2>3. PICK p, m : p = job.segments /\ m = AcknowledgeSync(p)
    OBVIOUS
  <2>4. m.written = p.written /\ m.durable = p.durable
    BY <2>2, <2>3, SyncedOK
  <2>5. job' = [job EXCEPT !.segments = m]
    BY <1>3, <2>3 DEF SyncAnswered
  <2>6. job'.segments = m
    BY <2>2, <2>5 DEF JobOK
  <2>7. PICK q \in Pcs \ {"start"} : q = "hash"
    BY DEF Pcs, Waits
  <2>8. session' = Taken(q) /\ UNCHANGED <<record, budget>>
    BY <1>3, <2>7 DEF SyncAnswered
  <2>9. session'.error = "None" /\ session'.pc # "start" /\ Thrift
    BY <2>2, <2>8, Onward, SpendsOne DEF Shapes
  <2> QED
    BY <2>3, <2>4, <2>6, <2>8, <2>9, Advances DEF DoneBytes
<1> QED
  BY <1>2, <1>3

\* The hashes are taken, or the checkpoint abandoned.
LEMMA HashAnsweredMoves ==
  ASSUME IInv, HashAnswered
  PROVE  Moves \/ Executes
<1>1. Answered("hash")
  BY DEF HashAnswered
<1>2. CASE session.reply # "Ok"
  BY <1>1, <1>2, CheckpointFailsMoves DEF HashAnswered
<1>3. CASE session.reply = "Ok"
  <2>1. PICK pc \in Checkpointing : pc = "hash"
    BY DEF Checkpointing
  <2>2. session.error = "None" /\ Shapes
    BY <1>1, <2>1, AtCheckpoint DEF Answered
  <2>3. PICK q \in Pcs \ {"start"} : q = "commit"
    BY DEF Pcs, Moving, Manned, Checkpointing
  <2>4. PICK t : t = Taken(q)
    OBVIOUS
  <2>5. session' = [t EXCEPT !.attempt = 0] /\ UNCHANGED <<job, record, budget>>
    BY <1>3, <2>3, <2>4 DEF HashAnswered
  <2>6. IsSession(t) /\ t.pc # "start" /\ t.error = "None"
    BY <2>2, <2>4, Onward
  <2>7. session'.error = "None" /\ session'.pc # "start" /\ Thrift
    BY <2>2, <2>5, <2>6, SpendsOne DEF Shapes, IsSession
  <2> QED
    BY <2>2, <2>5, <2>7, Still
<1> QED
  BY <1>2, <1>3

\* What was frozen is durable, or still written, or the session is given up.
LEMMA CommitExtentsMoves ==
  ASSUME IInv, CommitExtents
  PROVE  Moves
<1>1. PICK pc \in Checkpointing : pc = "commit"
  BY DEF Checkpointing
<1>2. /\ session.pc = "commit" /\ session.error = "None" /\ Shapes /\ JobOK(job)
      /\ job.segments.ckpt # NoCheckpoint /\ PlanOK(job.segments) /\ IsSession(session)
      /\ session.after \in {"transfer", "drain"}
  BY <1>1, AtCheckpoint DEF CommitExtents, Shapes
<1>3. record' = Stored => record'.job = record.job
  BY DEF Stored, IInv, RecordOK
<1>4. ASSUME session' = Failed("Commit"), record'.job = record.job, Thrift
      PROVE  Moves
  BY <1>2, <1>4, Fails, GivenUp DEF Errors, Bad
<1>5. CASE /\ record' = Stored
           /\ job' = [job EXCEPT !.segments = AcknowledgeCommit(@)]
           /\ session' = [At(session.after) EXCEPT !.unsynced = 0, !.hashes = None]
           /\ UNCHANGED budget
  <2>1. PICK p, m : p = job.segments /\ m = AcknowledgeCommit(p)
    OBVIOUS
  <2>2. m.written = p.written \ p.frozen /\ m.durable = p.durable \cup p.frozen
    BY <1>2, <2>1, CommittedOK
  <2>3. job' = [job EXCEPT !.segments = m]
    BY <1>5, <2>1
  <2>4. job'.segments = m
    BY <1>2, <2>3 DEF JobOK
  <2>5. PICK q \in Pcs \ {"start"} : q = session.after
    BY <1>2 DEF Pcs, Moving, Manned
  <2>6. PICK t : t = At(q)
    OBVIOUS
  <2>7. IsSession(t) /\ t.pc # "start" /\ t.error = "None"
    BY <1>2, <2>6, Onward
  <2>8. session' = [t EXCEPT !.unsynced = 0, !.hashes = None]
    BY <1>5, <2>5, <2>6
  <2>9. session'.error = "None" /\ session'.pc # "start"
    BY <2>7, <2>8 DEF IsSession
  <2>10. Thrift
    BY <1>2, <1>5, SpendsOne DEF Shapes
  <2> QED
    BY <1>3, <1>5, <2>1, <2>2, <2>4, <2>9, <2>10, Advances DEF DoneBytes
<1>6. CASE /\ Spend("faults")
           /\ record' \in {record} \cup Only(AdmitsBatch, Stored)
           /\ IF session.attempt < CommitRetries
                THEN session' = [session EXCEPT !.attempt = @ + 1] /\ UNCHANGED job
                ELSE session' = Failed("Commit") /\ job' = Abandoned
  <2>1. Thrift /\ record'.job = record.job
    BY <1>2, <1>3, <1>6, SpendsOne DEF Shapes, Only
  <2>2. CASE session' = [session EXCEPT !.attempt = @ + 1] /\ UNCHANGED job
    <3>1. session'.error = "None" /\ session'.pc # "start"
      BY <1>2, <2>2 DEF IsSession
    <3> QED
      BY <2>1, <2>2, <3>1, Advances
  <2> QED
    BY <1>4, <1>6, <2>1, <2>2
<1>7. CASE session' = Failed("Commit") /\ UNCHANGED <<record, budget>>
  BY <1>2, <1>4, <1>7, SpendsOne DEF Shapes
<1> QED
  BY <1>5, <1>6, <1>7 DEF CommitExtents

\* A Cancel during finish.
LEMMA FinishControlMoves ==
  ASSUME IInv, FinishControl
  PROVE  Moves \/ Executes
<1>1. /\ session.pc = "finish" /\ session.error = "None" /\ CalmOK /\ Shapes
  BY Working1 DEF FinishControl, Finishing, Pcs, Moving, Manned, Checkpointing
<1>2. CASE UNCHANGED <<job, record, session, budget>>
  BY <1>1, <1>2, SpendsOne, Still DEF Shapes
<1>3. CASE Step(job, Command("Cancel"), session)
  <2>1. PICK c : c = Command("Cancel")
    OBVIOUS
  <2>2. c.name = "Cancel" /\ {c.total, c.validator} \subseteq Nat
    BY <2>1, CommandFields
  <2>3. Accepts(job, c) /\ IsSession(session)
    BY <1>1, <2>2, Accepted DEF CalmOK, StateAt, Shapes
  <2> QED
    BY <1>1, <1>3, <2>1, <2>2, <2>3, OwnCommand
<1> QED
  BY <1>2, <1>3 DEF FinishControl

\* WorkersDrained.
LEMMA DrainMoves ==
  ASSUME IInv, session.error = "None", NEW j, JobOK(j), record.job = Strip(j),
         j.state = "Stopping", Settled(j), DoneBytes(j) = DoneBytes(job) \/ session.storage_failed,
         Drain(j)
  PROVE  Executes
<1>1. PICK p \in Pcs \ {"start"} :
        p = IF \E k \in WorkersDrained(j) : k.state = "Verifying" THEN Verified ELSE "close"
  BY DEF Pcs, Verified, Waits
<1>2. PICK next : next = At(p)
  OBVIOUS
<1>3. /\ IsSession(next) /\ next.pc # "start" /\ next.error = "None"
      /\ next.storage_failed = session.storage_failed
  BY <1>2, Onward
<1>4. PICK c : c = Command("WorkersDrained")
  OBVIOUS
<1>5. c.name = "WorkersDrained" /\ {c.total, c.validator} \subseteq Nat
  BY <1>4, CommandFields
<1>6. Step(j, c, next)
  BY <1>1, <1>2, <1>4 DEF Drain, Landed
<1>7. Accepts(j, c)
  BY <1>5, Accepted
<1>8. Executing(j, c, next)
  BY <1>3, <1>5, <1>6, <1>7 DEF Executing
<1> QED
  BY <1>8 DEF Executes

\* A job whose last bytes could not be saved has none that wait for a checkpoint.
LEMMA SavedSettles ==
  ASSUME CalmOK, job.state = "Stopping"
  PROVE  Settled(Saved) /\ (~Unsaved => Saved = job)
<1>1. Saved.segments.leased = {} /\ Saved.segments.ckpt = NoCheckpoint /\ JobOK(job)
  BY SavedOK DEF CalmOK
<1>2. CASE ~Unsaved
  BY <1>1, <1>2 DEF Saved, Unsaved, Settled, Quiescent, HasActiveLeases, HasPendingCheckpoint
<1>3. CASE Unsaved
  <2>1. PICK p, m : p = job.segments /\ m = DiscardUnsynced(p)
    OBVIOUS
  <2>2. PlanOK(p) /\ p.written # {} /\ p.ckpt = NoCheckpoint
    BY <1>1, <1>3, <2>1, JobFields DEF Unsaved, HasUnsynced, CalmOK
  <2>3. m.written = {}
    BY <2>1, <2>2, DiscardUnsyncedOK
  <2>4. Saved = [job EXCEPT !.segments = m]
    BY <1>3, <2>1 DEF Saved
  <2>5. Saved.segments = m
    BY <1>1, <2>4 DEF JobOK
  <2> QED
    BY <1>1, <1>3, <2>3, <2>5
    DEF Settled, Quiescent, HasActiveLeases, HasPendingCheckpoint, HasUnsynced
<1> QED
  BY <1>2, <1>3

\* finish saves what was written, or drains.
LEMMA FinishStoppingMoves ==
  ASSUME IInv, FinishStopping
  PROVE  Moves \/ Executes
<1>1. /\ session.pc = "finish" /\ session.error = "None" /\ CalmOK /\ Shapes
  BY Working1 DEF FinishStopping, Finishing, Pcs, Moving, Manned, Checkpointing
<1>2. job.state = "Stopping"
  BY DEF FinishStopping
<1>3. CASE FinalCheckpoint
  <2>1. PICK a \in Afters : a = "drain"
    BY DEF Afters
  <2>2. job.segments # NoMap
    BY <1>3, Plans DEF FinalCheckpoint, Unsaved, HasUnsynced, Clean
  <2> QED
    BY <1>1, <1>3, <2>1, <2>2, PreparedMoves DEF FinishStopping
<1>4. CASE ~FinalCheckpoint
  <2>1. PICK j : j = Saved
    OBVIOUS
  <2>2. /\ JobOK(j) /\ record.job = Strip(j) /\ j.state = "Stopping" /\ Settled(j)
        /\ ~Unsaved => j = job
    BY <1>1, <1>2, <2>1, SavedOK, SavedSettles
  <2>3. Drain(j) /\ (j = job \/ session.storage_failed)
    BY <1>4, <2>1, <2>2 DEF FinishStopping, FinalCheckpoint
  <2> QED
    BY <1>1, <2>2, <2>3, DrainMoves
<1> QED
  BY <1>3, <1>4

\* The drain after the last checkpoint has nothing left to save.
LEMMA DrainAfterCheckpointMoves ==
  ASSUME IInv, DrainAfterCheckpoint
  PROVE  Moves \/ Executes
<1>1. /\ session.pc = "drain" /\ session.error = "None" /\ CalmOK
  BY Working1 DEF DrainAfterCheckpoint, Pcs, Moving, Manned, Checkpointing
<1>2. job.state = "Stopping"
  BY <1>1 DEF CalmOK, StateAt
<1>3. PICK j : j = IF session.storage_failed THEN Saved ELSE job
  OBVIOUS
<1>4. /\ JobOK(j) /\ record.job = Strip(j) /\ j.state = "Stopping"
  BY <1>1, <1>2, <1>3, SavedOK DEF CalmOK
<1>5. Settled(j)
  BY <1>1, <1>2, <1>3, SavedSettles
  DEF CalmOK, Settled, Quiescent, HasActiveLeases, HasPendingCheckpoint, HasUnsynced
<1>6. Drain(j) /\ (j = job \/ session.storage_failed)
  BY <1>3 DEF DrainAfterCheckpoint
<1> QED
  BY <1>1, <1>4, <1>5, <1>6, DrainMoves

\* A verdict on a job of which nothing is at work.
LEMMA VerdictMoves ==
  ASSUME IInv, session.error = "None", NEW next, IsSession(next), next.error = "None",
         next.pc # "start", NEW c, Step(job, c, next), {c.total, c.validator} \subseteq Nat,
         \/ c.name = "RequireAction" /\ job.state \in {"Verifying", "Publishing"}
         \/ c.name = "Pause" /\ job.state \in Running \cup {"Verifying"}
         \/ c.name = "VerificationPassed" /\ job.state = "Verifying"
         \/ c.name = "PublishCommitted" /\ job.state = "Publishing"
         \/ c.name = "CleanupFinished" /\ job.state = "Cancelling" /\ Quiescent(job)
         \/ c.name = "WorkersDrained" /\ job.state = "Stopping" /\ Settled(job)
  PROVE  Executes
<1>1. JobOK(job)
  BY DEF IInv, LiveOK
<1>2. c.name # "ReplaceRepresentation" /\ c.name # "Start"
  OBVIOUS
<1>3. c.name = "Pause" => c.name \in Stopping
  BY DEF Stopping, CauseKind
<1>4. Accepts(job, c)
  BY <1>1, <1>3, Accepted
<1> QED
  BY <1>2, <1>4, OwnCommand

\* CleanupFinished.
LEMMA CleanupMoves ==
  ASSUME IInv, Cleanup
  PROVE  Executes
<1>1. /\ session.pc = "cleanup" /\ session.error = "None" /\ CalmOK
  BY Working1 DEF Cleanup, Pcs, Manned, Checkpointing
<1>2. PICK p \in Pcs \ {"start"} : p = "close"
  BY DEF Pcs
<1>3. PICK c : c = Command("CleanupFinished")
  OBVIOUS
<1>4. c.name = "CleanupFinished" /\ {c.total, c.validator} \subseteq Nat
  BY <1>3, CommandFields
<1>5. Step(job, c, At(p)) /\ job.state = "Cancelling" /\ Quiescent(job)
  BY <1>1, <1>2, <1>3
  DEF Cleanup, CalmOK, StateAt, Quiescent, HasActiveLeases, HasPendingCheckpoint
<1> QED
  BY <1>1, <1>4, <1>5, Onward, VerdictMoves

\* verify, after its sync.
LEMMA VerifySyncedMoves ==
  ASSUME IInv, VerifySynced
  PROVE  Moves \/ Executes
<1>1. /\ session.pc = "vsync" /\ session.error = "None" /\ CalmOK /\ Shapes
  BY Working1 DEF VerifySynced, Answered, Pcs, Manned, Checkpointing, Waits
<1>2. PICK p \in Pcs \ {"start"}, q \in Pcs \ {"start"} : p = "close" /\ q = "verify"
  BY DEF Pcs, Waits
<1>3. CASE session' = Taken(q) /\ UNCHANGED <<job, record, budget>>
  <2>1. session'.error = session.error /\ session'.pc # "start" /\ Thrift
    BY <1>1, <1>3, Onward, SpendsOne DEF Shapes
  <2> QED
    BY <1>3, <2>1, Still
<1>4. CASE Unread(Taken(p))
  BY <1>1, <1>4, Onward, UnreadMoves
<1>5. CASE Step(job, Because("RequireAction", "Storage"), Taken(p))
  <2>1. PICK c : c = Because("RequireAction", "Storage")
    OBVIOUS
  <2>2. c.name = "RequireAction" /\ {c.total, c.validator} \subseteq Nat
    BY <2>1, CommandFields
  <2>3. job.state = "Verifying"
    BY <1>1 DEF CalmOK, StateAt
  <2> QED
    BY <1>1, <1>5, <2>1, <2>2, <2>3, Onward, VerdictMoves
<1> QED
  BY <1>2, <1>3, <1>4, <1>5 DEF VerifySynced

\* verify, after the comparison.
LEMMA VerifyAnsweredMoves ==
  ASSUME IInv, VerifyAnswered
  PROVE  Moves \/ Executes
<1>1. /\ session.pc = "verify" /\ session.error = "None" /\ CalmOK /\ Shapes
  BY Working1 DEF VerifyAnswered, Answered, Pcs, Manned, Checkpointing, Waits
<1>2. job.state = "Verifying"
  BY <1>1 DEF CalmOK, StateAt
<1>3. PICK p \in Pcs \ {"start"}, q \in Pcs \ {"start"} : p = "close" /\ q = "publish"
  BY DEF Pcs
<1>4. CASE Unread(Taken(p))
  BY <1>1, <1>4, Onward, UnreadMoves
<1>5. CASE Step(job, Because("RequireAction", session.reply), Taken(p))
  <2>1. PICK c : c = Because("RequireAction", session.reply)
    OBVIOUS
  <2>2. c.name = "RequireAction" /\ {c.total, c.validator} \subseteq Nat
    BY <2>1, CommandFields
  <2> QED
    BY <1>1, <1>2, <1>5, <2>1, <2>2, Onward, VerdictMoves
<1>6. CASE Step(job, Command("VerificationPassed"), Taken(q))
  <2>1. PICK c : c = Command("VerificationPassed")
    OBVIOUS
  <2>2. c.name = "VerificationPassed" /\ {c.total, c.validator} \subseteq Nat
    BY <2>1, CommandFields
  <2> QED
    BY <1>1, <1>2, <1>6, <2>1, <2>2, Onward, VerdictMoves
<1> QED
  BY <1>3, <1>4, <1>5, <1>6 DEF VerifyAnswered

\* publish.
LEMMA PublishEndedMoves ==
  ASSUME IInv, PublishEnded
  PROVE  Moves \/ Executes
<1>1. /\ session.pc = "publish" /\ session.error = "None" /\ CalmOK /\ Shapes
  BY Working1 DEF PublishEnded, Pcs, Manned, Checkpointing
<1>2. job.state = "Publishing"
  BY <1>1 DEF CalmOK, StateAt
<1>3. PICK p \in Pcs \ {"start"} : p = "close"
  BY DEF Pcs
<1>4. CASE Unread(At(p))
  BY <1>1, <1>4, Onward, UnreadMoves
<1>5. CASE \E reason \in {"Destination", "Integrity", "Storage"} :
             Step(job, Because("RequireAction", reason), At(p))
  <2>1. PICK reason : Step(job, Because("RequireAction", reason), At(p))
    BY <1>5
  <2>2. PICK c : c = Because("RequireAction", reason)
    OBVIOUS
  <2>3. c.name = "RequireAction" /\ {c.total, c.validator} \subseteq Nat
    BY <2>2, CommandFields
  <2> QED
    BY <1>1, <1>2, <2>1, <2>2, <2>3, Onward, VerdictMoves
<1>6. CASE Step(job, Command("PublishCommitted"), At(p))
  <2>1. PICK c : c = Command("PublishCommitted")
    OBVIOUS
  <2>2. c.name = "PublishCommitted" /\ {c.total, c.validator} \subseteq Nat
    BY <2>1, CommandFields
  <2> QED
    BY <1>1, <1>2, <1>6, <2>1, <2>2, Onward, VerdictMoves
<1> QED
  BY <1>3, <1>4, <1>5, <1>6 DEF PublishEnded

\* recover gives the commands a restored job accepts.
LEMMA RecoverMoves ==
  ASSUME IInv, Recover
  PROVE  Moves \/ Executes
<1>1. /\ session.pc = "recover" /\ session.error = "None" /\ CalmOK /\ Shapes
      /\ session.pc \notin Moving
  BY Working1 DEF Recover, Pcs, Manned, Moving, Checkpointing
<1>2. PICK p \in Pcs \ {"start"}, q \in Pcs \ {"start"}, r \in Pcs \ {"start"} :
        p = "close" /\ q = "drop" /\ r = "recover"
  BY DEF Pcs
<1>3. CASE \E x \in {p, q} : session' = At(x) /\ UNCHANGED <<job, record, budget>>
  <2>1. PICK x \in Pcs \ {"start"} : session' = At(x) /\ UNCHANGED <<job, record, budget>>
    BY <1>3
  <2>2. session'.error = session.error /\ session'.pc # "start" /\ Thrift
    BY <1>1, <2>1, Onward, SpendsOne DEF Shapes
  <2> QED
    BY <2>1, <2>2, Still
<1>4. CASE /\ job.state \in Running \cup {"Verifying"}
           /\ \E x \in {p, r} : Step(job, Command("Pause"), At(x))
  <2>1. PICK x \in Pcs \ {"start"} : Step(job, Command("Pause"), At(x))
    BY <1>4
  <2>2. PICK c : c = Command("Pause")
    OBVIOUS
  <2>3. c.name = "Pause" /\ {c.total, c.validator} \subseteq Nat
    BY <2>2, CommandFields
  <2> QED
    BY <1>1, <1>4, <2>1, <2>2, <2>3, Onward, VerdictMoves
<1>5. CASE job.state = "Stopping" /\ Step(job, Command("WorkersDrained"), At(p))
  <2>1. PICK c : c = Command("WorkersDrained")
    OBVIOUS
  <2>2. c.name = "WorkersDrained" /\ {c.total, c.validator} \subseteq Nat
    BY <2>1, CommandFields
  <2>3. Settled(job)
    BY <1>1, <1>5
    DEF CalmOK, Clean, Settled, Quiescent, HasActiveLeases, HasPendingCheckpoint, HasUnsynced
  <2> QED
    BY <1>1, <1>5, <2>1, <2>2, <2>3, Onward, VerdictMoves
<1> QED
  BY <1>2, <1>3, <1>4, <1>5 DEF Recover

\* Steps of the coordinator that leave the job alone.
LEMMA QuietMoves ==
  ASSUME IInv, OpenPart \/ FinishOther \/ DropPart \/ DiscardAnswered \/ CloseStopWorkers \/ Close
  PROVE  Moves
<1>1. Shapes /\ IsSession(session)
  BY DEF IInv, Shapes
<1>2. UNCHANGED <<job, record, budget>>
  BY DEF OpenPart, FinishOther, DropPart, DiscardAnswered, CloseStopWorkers, Close
<1>3. Thrift
  BY <1>1, <1>2, SpendsOne DEF Shapes
<1>4. {"vsync", "transfer", "discard", "drop", "close", "cleanup"} \subseteq Pcs \ {"start"}
  BY DEF Pcs, Moving, Manned, Waits
<1>5. CASE \E p \in Pcs \ {"start"} : session' \in {At(p), Taken(p)}
  <2>1. session'.error = session.error /\ session'.pc # "start"
    BY <1>5, Onward
  <2> QED
    BY <1>2, <1>3, <2>1, Still
<1>6. CASE session' = [session EXCEPT !.stopping = TRUE]
  <2>1. session'.error = session.error /\ session'.pc = session.pc
    BY <1>1, <1>6 DEF IsSession
  <2> QED
    BY <1>2, <1>3, <2>1, Still
<1>7. CASE session' = [NoSession EXCEPT !.error = session.error]
  <2>1. session'.error = session.error /\ session'.pc # "start"
    BY <1>7 DEF NoSession
  <2> QED
    BY <1>2, <1>3, <2>1, Still
<1>8. \/ \E p \in Pcs \ {"start"} : session' \in {At(p), Taken(p)}
      \/ session' = [session EXCEPT !.stopping = TRUE]
      \/ session' = [NoSession EXCEPT !.error = session.error]
  BY <1>4 DEF OpenPart, FinishOther, DropPart, DiscardAnswered, CloseStopWorkers, Close
<1> QED
  BY <1>5, <1>6, <1>7, <1>8

\* Steps of the workers, the lane and the environment.
LEMMA OthersMove ==
  ASSUME IInv,
         \/ UNCHANGED vars \/ (\E w \in Slots : Worker(w)) \/ WriterLane
         \/ (\E message \in {"Pause", "Cancel"} : Send(message)) \/ SourceChanges
  PROVE  Moves
<1>1. Shapes /\ IsSession(session)
  BY DEF IInv, Shapes
<1>2. UNCHANGED <<job, record>>
  BY DEF vars, Worker, Working, WorkerCancelled, WorkerFailed, WorkerConnected, WorkerRead,
         WorkerDone, WriterLane, Lane, LaneWrite, LaneSync, LaneHash, LaneVerify, LaneDiscard,
         LaneFails, Send, SourceChanges
<1>3. Thrift
  <2>1. UNCHANGED budget \/ Spend("faults") \/ Spend("controls") \/ Spend("changes")
    BY DEF vars, Worker, Working, WorkerCancelled, WorkerFailed, WorkerConnected, WorkerRead,
           WorkerDone, WriterLane, LaneWrite, LaneSync, LaneHash, LaneVerify, LaneDiscard,
           LaneFails, Send, SourceChanges
  <2> QED
    BY <1>1, <2>1, SpendsOne DEF Shapes
<1>4. \/ session' = session
      \/ \E r : Reply(r)
      \/ LaneHash
  BY DEF vars, Worker, Working, WorkerCancelled, WorkerFailed, WorkerConnected, WorkerRead,
         WorkerDone, WriterLane, LaneWrite, LaneSync, LaneVerify, LaneDiscard,
         LaneFails, Send, SourceChanges
<1>5. session'.error = session.error /\ session'.pc = session.pc
  BY <1>1, <1>4 DEF Reply, LaneHash, IsSession
<1> QED
  BY <1>2, <1>3, <1>5, Still

\* Every step of a session.
LEMMA NextMoves ==
  ASSUME IInv, [Next]_vars
  PROVE  \/ Moves \/ Executes \/ Drive \/ Crash \/ \E c \in RestCommands : AtRest(c)
<1>1. CASE Coordinator
  BY <1>1, StartMoves, ProbeControlMoves, ProbeAnsweredMoves, ProbeFailedMoves, OpenFailedMoves,
     SpawnWorkerMoves, TransferCheckpointMoves, TransferWaitMoves, TransferDoneMoves,
     SyncAnsweredMoves, HashAnsweredMoves, CommitExtentsMoves, FinishControlMoves,
     FinishStoppingMoves, DrainAfterCheckpointMoves, CleanupMoves, VerifySyncedMoves,
     VerifyAnsweredMoves, PublishEndedMoves, RecoverMoves, QuietMoves
  DEF Coordinator
<1>2. CASE ~Coordinator
  BY <1>2, OthersMove DEF Next
<1> QED
  BY <1>1, <1>2

-----------------------------------------------------------------------------
(***************************************************************************)
(* Written bytes are kept.                                                 *)
(***************************************************************************)

\* The job's bytes survive a command that keeps its generation.
LEMMA KinKeeps ==
  ASSUME NEW j, NEW c, NEW k, Kin(j, c, k), j.generation \in Nat, k.generation = j.generation
  PROVE  DoneBytes(j) \subseteq DoneBytes(k)
<1>1. DoneBytes([segments |-> NoMap]) = {}
  BY Plans DEF DoneBytes, Clean
<1> QED
  BY <1>1 DEF Kin, DoneBytes

\* A command of a session loses no written byte,
LEMMA ExecutesKeeps ==
  ASSUME IInv, Executes
  PROVE  Keeps
<1>1. PICK j, c, next : Executing(j, c, next)
  BY DEF Executes
<1>2. /\ JobOK(j) /\ record.job = Strip(j) /\ Step(j, c, next) /\ {c.total, c.validator} \subseteq Nat
      /\ DoneBytes(j) = DoneBytes(job) \/ next.storage_failed
      /\ session.error = "None" /\ Shapes /\ RecordOK /\ RecordedBytesAreStable
  BY <1>1 DEF Executing, IInv
<1>3. j.generation = job.generation /\ j.generation \in Nat
  <2>1. JobOK(job) /\ record.job = Strip(job)
    BY <1>2 DEF IInv, LiveOK, Match
  <2> QED
    BY <1>2, <2>1, StripOK, JobFields, ZenonT(60)
<1>4. \/ \E k \in Execute(j, c) : job' = k /\ session' = next /\ Kin(j, c, k)
      \/ Halted
  BY <1>2, Steps
<1>5. CASE Halted
  BY <1>5 DEF Halted, Keeps
<1>6. CASE \E k \in Execute(j, c) : job' = k /\ session' = next /\ Kin(j, c, k)
  <2>1. PICK k \in Execute(j, c) : job' = k /\ session' = next /\ Kin(j, c, k)
    BY <1>6
  <2>2. k.generation = j.generation => DoneBytes(j) \subseteq DoneBytes(k)
    BY <1>3, <2>1, KinKeeps
  <2> QED
    BY <1>2, <1>3, <2>1, <2>2 DEF Keeps
<1> QED
  BY <1>4, <1>5, <1>6

\* and neither does a command to a job at rest.
LEMMA RestKeeps ==
  ASSUME IInv, NEW c \in RestCommands, AtRest(c)
  PROVE  Keeps
<1>1. JobOK(job) /\ {c.total, c.validator} \subseteq Nat
  BY DEF AtRest, IInv, LiveOK, RestCommands, Command, NoValidator
<1>2. PICK k \in Execute(job, c) : job' = k
  BY DEF AtRest
<1>3. Kin(job, c, k) /\ job.generation \in Nat
  BY <1>1, <1>2, JobStep, JobFields
<1> QED
  BY <1>2, <1>3, KinKeeps DEF Keeps

\* No step gives up bytes a worker has finished, unless the process crashes, the session
\* ends with an error, the storage failed, or the generation is over.
THEOREM WrittenStays == Spec => WrittenIsKept
<1>1. ASSUME IInv, [Next]_vars
      PROVE  Keeps
  <2>1. CASE Moves
    BY <2>1 DEF Moves
  <2>2. CASE Drive
    BY <2>2 DEF Drive, Keeps
  <2>3. CASE Crash
    <3>1. budget'.crashes # budget.crashes
      BY <1>1, <2>3, SpendsOne DEF Crash, IInv, Shapes
    <3> QED
      BY <3>1 DEF Keeps
  <2> QED
    BY <1>1, <2>1, <2>2, <2>3, NextMoves, ExecutesKeeps, RestKeeps
<1>2. IInv /\ [Next]_vars =>
        [LET Done(j) == j.segments.written \cup j.segments.durable IN
         /\ job'.generation = job.generation
         /\ session'.error = "None" /\ ~session'.storage_failed
         /\ budget'.crashes = budget.crashes
         => Done(job) \subseteq Done(job')]_vars
  BY <1>1 DEF Keeps, DoneBytes
<1> QED
  BY <1>2, SessionInvariant, PTL DEF Spec, WrittenIsKept

-----------------------------------------------------------------------------
(***************************************************************************)
(* No internal error: generations do not run out.                          *)
(***************************************************************************)

\* A job that runs or stops may still begin a generation.
Active  == Running \cup {"Stopping"}
Due(j)  == j.generation + (IF j.state \in Active THEN 1 ELSE 0)
Granted == 1 + (MaxSessions - budget.sessions) + (MaxCommands - budget.commands)

\* Every generation was paid for by a session or by a command of a job at rest.
GenerationsOK ==
  /\ budget.sessions >= 0 /\ budget.commands >= 0
  /\ Due(record.job) <= Granted
  /\ session.pc = "start" => record.job.generation + 1 <= Granted

\* Only Start and ReplaceRepresentation make more due.
LEMMA DueStep ==
  ASSUME NEW j, JobOK(j), NEW c, {c.total, c.validator} \subseteq Nat, NEW k \in Execute(j, c)
  PROVE  /\ JobOK(k) /\ Due(k) \in Nat /\ Due(j) \in Nat
         /\ c.name \notin {"Start", "ReplaceRepresentation"} => Due(k) <= Due(j)
         /\ c.name = "Start" => Due(k) <= j.generation + 1
         /\ c.name = "ReplaceRepresentation" => Due(k) <= Due(j) + 1
<1>1. Arms(j, c, k) /\ JobOK(k) /\ Kin(j, c, k)
  BY ExecuteArms, JobStep
<1>2. j.generation \in Nat /\ k.generation \in Nat
  BY <1>1, JobFields
<1>3. Due(k) \in Nat /\ Due(j) \in Nat
  BY <1>2 DEF Due
<1>4. CASE c.name = "WorkersDrained"
  <2>1. j.state = "Stopping" /\ k \in WorkersDrained(j)
    BY <1>4, Takes
  <2>2. /\ k.state \in {"Verifying", "Queued", "Paused", "RetryWait", "NeedsAction", "Failed"}
        /\ k.generation \in {j.generation, j.generation + 1}
    BY <2>1, DrainTurns
  <2> QED
    BY <1>1, <1>2, <1>3, <1>4, <2>1, <2>2 DEF Due, Active, Running
<1>5. CASE c.name = "ReplaceRepresentation"
  <2>1. k = j \/ (k = Replaced(j) /\ j.state \notin Active)
    BY <1>1, <1>5 DEF Arms, CauseKind, Active, Running
  <2>2. k = Replaced(j) => k.state = "Queued"
    BY DEF Replaced, NextGeneration, JobOK
  <2>3. k.generation \in {j.generation, j.generation + 1}
    BY <1>1 DEF Kin
  <2> QED
    BY <1>1, <1>2, <1>3, <1>5, <2>1, <2>2, <2>3 DEF Due, Active, Running
<1>6. CASE c.name = "Start"
  <2>1. k.generation = j.generation
    BY <1>6, Turns
  <2> QED
    BY <1>1, <1>2, <1>3, <1>6, <2>1 DEF Due
<1>7. CASE c.name \notin {"Start", "WorkersDrained", "ReplaceRepresentation"}
  <2>1. k.generation = j.generation
    BY <1>1, <1>7, JobStep, Takes, Turns, JobFields DEF Kin
  <2>2. j.state \notin Active => k.state \notin Active
    BY <1>1, <1>7, ZenonT(60) DEF Arms, Active, Running, Resumable, CauseKind, Resumed, Cancelled, JobOK
  <2> QED
    BY <1>1, <1>2, <1>3, <1>7, <2>1, <2>2 DEF Due
<1> QED
  BY <1>4, <1>5, <1>6, <1>7

\* What is due depends on what the record keeps of a job.
LEMMA StripDue ==
  ASSUME NEW j, JobOK(j)
  PROVE  Due(Strip(j)) = Due(j) /\ Strip(j).generation = j.generation
BY StripOK DEF Due

\* The commands of a session are accepted, and pay for their generation.
LEMMA ExecutesGenerations ==
  ASSUME IInv, GenerationsOK, Executes
  PROVE  GenerationsOK' /\ (Fits /\ session'.error \in Bad => FALSE)
<1>1. PICK j, c, next : Executing(j, c, next)
  BY DEF Executes
<1>2. /\ JobOK(j) /\ record.job = Strip(j) /\ Step(j, c, next) /\ {c.total, c.validator} \subseteq Nat
      /\ session.error = "None" /\ Shapes /\ RecordOK /\ RecordedBytesAreStable
      /\ c.name # "ReplaceRepresentation" /\ (c.name = "Start" => session.pc = "start")
      /\ next.error = "None" /\ next.pc # "start" /\ Accepts(j, c)
      /\ IsSession(session) /\ budget \in Budgets
  BY <1>1 DEF Executing, IInv, Shapes
<1>3. /\ Due(record.job) = Due(j) /\ record.job.generation = j.generation /\ j.generation \in Nat
  BY <1>2, StripDue, JobFields
<1>4. /\ MaxSessions \in Nat /\ MaxCommands \in Nat /\ LastGeneration \in Nat
      /\ budget.sessions \in Int /\ budget.commands \in Int
  BY <1>2, SessionAssumption, JobAssumption DEF Budgets
<1>5. Thrift /\ Granted' = Granted
  BY <1>2, SpendsOne DEF Step, Thrift, Granted
<1>6. session'.pc # "start"
  BY <1>2, Fails DEF Step, Errors
<1>7. Due(record'.job) <= Granted
  <2>1. CASE record' = record
    BY <2>1 DEF GenerationsOK
  <2>2. ASSUME NEW k \in Execute(j, c), record' = Recorded(k)
        PROVE  Due(record'.job) <= Granted
    <3>1. /\ JobOK(k) /\ Due(k) \in Nat /\ Due(j) \in Nat
          /\ c.name # "Start" => Due(k) <= Due(j)
          /\ c.name = "Start" => Due(k) <= j.generation + 1
      BY <1>2, DueStep
    <3>2. record'.job = Strip(k)
      BY <2>2 DEF Recorded
    <3>3. Due(record'.job) = Due(k)
      BY <3>1, <3>2, StripDue
    <3>4. Granted \in Int
      BY <1>4 DEF Granted
    <3> QED
      BY <1>2, <1>3, <3>1, <3>3, <3>4 DEF GenerationsOK
  <2> QED
    BY <1>2, <2>1, <2>2 DEF Step
<1>8. ASSUME Fits, session'.error \in Bad
      PROVE  FALSE
  <2>1. Execute(j, c) = {}
    <3>1. session'.error \notin {"None", "Commit"}
      BY <1>8 DEF Bad
    <3> QED
      BY <1>2, <3>1, Fails DEF Step, Errors
  <2>2. j.replace_on_drain => j.generation < LastGeneration
    <3> SUFFICES ASSUME j.replace_on_drain
                 PROVE  j.generation < LastGeneration
      OBVIOUS
    <3>1. Due(j) = j.generation + 1
      BY <1>2 DEF JobOK, Due, Active
    <3>2. j.generation + 1 <= 1 + MaxSessions + MaxCommands
      BY <1>3, <1>4, <3>1 DEF GenerationsOK, Granted
    <3> QED
      BY <1>3, <1>4, <1>8, <3>2 DEF Fits
  <2> QED
    BY <1>2, <1>8, <2>1, <2>2 DEF Accepts
<1> QED
  BY <1>5, <1>6, <1>7, <1>8 DEF GenerationsOK, Thrift

\* A command to a job at rest pays for the generation it may begin.
LEMMA RestGenerations ==
  ASSUME IInv, GenerationsOK, NEW c \in RestCommands, AtRest(c)
  PROVE  GenerationsOK' /\ session'.error = session.error
<1>1. /\ JobOK(job) /\ record.job = Strip(job) /\ {c.total, c.validator} \subseteq Nat
      /\ c.name # "Start" /\ IsSession(session) /\ budget \in Budgets /\ session.pc = "idle"
  BY DEF AtRest, Coordinating, IInv, Shapes, LiveOK, Match, RestCommands, Command, NoValidator
<1>2. PICK k \in Execute(job, c) : record' = Recorded(k) /\ session' = Settle(k)
  BY DEF AtRest
<1>3. /\ MaxSessions \in Nat /\ MaxCommands \in Nat
      /\ budget.sessions \in Int /\ budget.commands \in Int
  BY <1>1, SessionAssumption DEF Budgets
<1>4. /\ budget'.sessions = budget.sessions /\ budget'.commands = budget.commands - 1
      /\ budget.commands > 0
  BY <1>1 DEF AtRest, Spend, Budgets
<1>5. JobOK(k) /\ Due(k) \in Nat /\ Due(job) \in Nat /\ Due(k) <= Due(job) + 1
  BY <1>1, <1>2, DueStep
<1>6. Due(record'.job) = Due(k) /\ Due(record.job) = Due(job)
  BY <1>1, <1>2, <1>5, StripDue DEF Recorded
<1>7. session'.pc # "start" /\ session'.error = session.error
  BY <1>1, <1>2 DEF Settle, IsSession
<1> QED
  BY <1>3, <1>4, <1>5, <1>6, <1>7 DEF GenerationsOK, Granted

\* Generations are paid for, and no step makes an internal error.
LEMMA GenerationsStep ==
  ASSUME IInv, GenerationsOK, [Next]_vars
  PROVE  /\ GenerationsOK'
         /\ Fits /\ session'.error \in Bad => session.error \in Bad
<1>1. /\ MaxSessions \in Nat /\ MaxCommands \in Nat /\ budget \in Budgets
      /\ budget.sessions \in Int /\ budget.commands \in Int
      /\ Due(record.job) \in Nat /\ record.job.generation \in Nat
  <2>1. MaxSessions \in Nat /\ MaxCommands \in Nat
    BY SessionAssumption
  <2>2. budget \in Budgets /\ JobOK(record.job)
    BY DEF IInv, Shapes, RecordOK
  <2>3. budget.sessions \in Int /\ budget.commands \in Int
    BY <2>2 DEF Budgets
  <2>4. record.job.generation \in Nat
    BY <2>2, JobFields
  <2>5. Due(record.job) \in Nat
    BY <2>4 DEF Due
  <2> QED
    BY <2>1, <2>2, <2>3, <2>4, <2>5
<1>2. CASE Moves
  BY <1>2 DEF Moves, Thrift, GenerationsOK, Granted
<1>3. CASE Drive
  <2>1. /\ budget'.sessions = budget.sessions - 1 /\ budget.sessions > 0
        /\ budget'.commands = budget.commands /\ record' = record
    BY <1>1, <1>3 DEF Drive, Spend, Budgets
  <2>2. record.job.generation <= Due(record.job)
    BY <1>1 DEF Due
  <2>3. session'.error = "None"
    BY <1>3 DEF Drive, NoSession
  <2> QED
    BY <1>1, <2>1, <2>2, <2>3 DEF GenerationsOK, Granted, Bad
<1>4. CASE Crash
  <2>1. Thrift /\ record' = record
    BY <1>1, <1>4, SpendsOne DEF Crash
  <2>2. session'.pc # "start" /\ session'.error = "None"
    BY <1>4 DEF Crash, NoSession
  <2> QED
    BY <2>1, <2>2 DEF Thrift, GenerationsOK, Granted, Bad
<1> QED
  BY <1>2, <1>3, <1>4, NextMoves, ExecutesGenerations, RestGenerations

\* If the sources are no larger than the job allows and the sessions and commands fewer than
\* the generations, the coordinator never gives the domain a command or a token it refuses,
\* its own bookkeeping never contradicts itself, and no worker outlives the transfer.
THEOREM DomainNeverRefuses == Fits => (Spec => []NoInternalError)
<1> SUFFICES ASSUME Fits
             PROVE  Spec => []NoInternalError
  OBVIOUS
<1> DEFINE Inv == GenerationsOK /\ session.error \notin Bad
<1>1. Init => Inv
  <2> SUFFICES ASSUME Init
               PROVE  Inv
    OBVIOUS
  <2>1. record.job.generation = 1 /\ record.job.state = "Queued"
    BY DEF Init, NewJob
  <2>2. session.pc = "idle" /\ session.error = "None"
    BY DEF Init, NoSession
  <2>3. budget.sessions = MaxSessions /\ budget.commands = MaxCommands
    BY DEF Init
  <2> QED
    BY <2>1, <2>2, <2>3, SessionAssumption DEF GenerationsOK, Due, Active, Running, Granted, Bad
<1>2. IInv /\ Inv /\ [Next]_vars => Inv'
  BY GenerationsStep
<1>3. IInv /\ Inv => NoInternalError
  <2> SUFFICES ASSUME IInv, Inv
               PROVE  NoInternalError
    OBVIOUS
  <2>1. session.pc \in {"transfer", "finish", "drain"} => LiveOK
    BY DEF IInv
  <2>2. session.pc \in {"transfer", "finish", "drain"} => session.pc \notin Checkpointing
    BY DEF Checkpointing
  <2>3. session.pc = "finish" => session.pc \notin Manned
    BY DEF Manned, Checkpointing
  <2> QED
    BY <2>1, <2>2, <2>3
    DEF NoInternalError, Bad, LiveOK, CheckpointOK, LeasesOK, HasPendingCheckpoint
<1> QED
  BY <1>1, <1>2, <1>3, SessionInvariant, PTL DEF Spec
=============================================================================
