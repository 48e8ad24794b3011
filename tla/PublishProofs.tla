--------------------------- MODULE PublishProofs ----------------------------
(***************************************************************************)
(* Proofs about Publish, for every size of the file, every number of       *)
(* generations, runs, faults, crashes, losses of power and orders.         *)
(*                                                                         *)
(* What stands at the destination was proved through a handle that is long *)
(* gone.  IInv carries the proof across the steps and the sessions: what   *)
(* the record has of a block is what the generation's representation has   *)
(* (RecordOK); a digest in a handle or in an intent is that of the whole   *)
(* representation, which the request allows (ProofOK, RecordOK); from the  *)
(* sync before the verification on, the inode on the disk is the one in    *)
(* memory (ProofOK); and the inode behind the destination is               *)
(* recorded to its last block and sealed, so that no later session of its  *)
(* generation creates, writes or unseals it (DestOK).  DestOK also says    *)
(* that no loss of power brings back a published file other than the one   *)
(* there is.                                                               *)
(***************************************************************************)
EXTENDS Publish, TLAPS

States == {"Queued", "Probing", "Transferring", "Stopping", "Paused", "RetryWait", "NeedsAction",
           "Failed", "Verifying", "Publishing", "Completed", "Cancelling", "Cancelled"}

\* The fields of a job that decide: its plan and its counters may be anything.
JobOK(j) ==
  /\ j \in [state : States, generation : Generations, reason : {j.reason},
            retry_at : {j.retry_at}, stop : {j.stop}, replace_on_drain : BOOLEAN,
            attempts : {j.attempts}, validator : {j.validator}, segments : {j.segments}]
  /\ ~j.replace_on_drain
  /\ j.stop.kind \in {"None"} \cup DOMAIN Rank
  /\ (j.stop.kind # "None") = (j.state = "Stopping")

Contents == {None} \cup [Blocks -> Int]
Marks    == {"blank", "open", "sealed"}
Entries  == [part : SUBSET Int, meta : SUBSET Int, staged : SUBSET Int,
             dest : {Free, Foreign} \cup Generations]
Budgets  == [runs : Int, faults : Int, crashes : Int, power : Int, damage : Int, foreign : Int,
             commands : Int]
Handles  == [generation : Int, coverage : SUBSET Blocks, protected : SUBSET Blocks,
             synchronized : BOOLEAN, verified : Contents, sealed : BOOLEAN,
             published : BOOLEAN, cancelled : BOOLEAN]

Making    == {"createMeta", "setLen", "identity", "syncMeta", "syncCreated"}
Writing   == {"transfer", "commit"}
Verifying == {"vsync", "verify", "intent", "passed"}
Linking   == {"seal", "sealSync", "stage", "prove", "link"}
Linked    == {"unstage", "syncInode", "syncDest", "syncParts", "committed"}
Ending    == {"attempt", "reopen", "rsync", "rverify", "publish"} \cup Linking \cup Linked
Releasing == {"release", "removePart", "removeMeta"}
Dropping  == {"drop", "dropPart", "dropMeta", "cleanup"}
Pcs       == {"idle", "start", "probe", "open", "drain"} \cup Making \cup Writing \cup Verifying
             \cup Ending \cup Releasing \cup Dropping

Files    == [Generations -> [cached : Contents, stable : Contents]]
Metas    == [Generations -> [cached : Marks, stable : Marks]]
Sessions == [pc : Pcs, handle : Handles]

\* A record has its fields, and a job.
RowOK(r) ==
  /\ r \in [job : {r.job}, extents : {r.extents}, intent : {r.intent}, expected : {r.expected}]
  /\ JobOK(r.job)

\* Every variable has its type.
DiskOK ==
  /\ RowOK(record)
  /\ names \in Entries /\ past \subseteq Entries /\ names \in past
  /\ files \in Files /\ metas \in Metas
  /\ budget \in Budgets /\ budget.damage <= MaxDamage

Shapes == DiskOK /\ session \in Sessions

Recorded100 == DOMAIN record.extents = Blocks
Allowed     == record.expected \in {0, gen}

\* What is recorded of a block is the representation's, and an intent is of all of it.
RecordOK ==
  /\ DOMAIN record.extents \subseteq Blocks
  /\ record.extents = [b \in DOMAIN record.extents |-> gen]
  /\ record.intent.generation = gen => record.intent.digest = Filled(gen)

\* The inode at the destination, and what the record has of it.
Proven(g) ==
  /\ files[g] = Both(Filled(g)) /\ metas[g] = Both("sealed")
  /\ record.expected \in {0, g}
  /\ g <= gen /\ (g = gen => Recorded100)

DestOK ==
  /\ \A s \in past : s.dest \in Generations => s.dest = names.dest
  /\ names.dest \in Generations => Proven(names.dest)

\* Where a session is, and what it relies on.
StateOK ==
  /\ session.pc \in {"open"} \cup Making => job.state \in {"Transferring", "Verifying"}
  /\ session.pc \in Ending => job.state = "Publishing"
  /\ session.pc \in Releasing => job.state = "Completed"
  /\ session.pc \in Dropping => job.state = "Cancelling"

PartOK ==
  /\ session.pc \in Making =>
       /\ record.extents = None
       /\ gen \in names.part /\ (session.pc # "createMeta" => gen \in names.meta)
       /\ session.pc \notin {"createMeta", "setLen"} => files[gen] = Both(Filled(0))
  /\ session.pc \in Writing =>
       /\ gen \in names.part \cap names.meta
       /\ files[gen].cached \in [Blocks -> Int]
       /\ DOMAIN record.extents \subseteq handle.coverage
       /\ \A b \in handle.coverage \ DOMAIN record.extents : files[gen].cached[b] = gen
  /\ session.pc = "commit" =>
       /\ files[gen].stable = files[gen].cached
       /\ Journalled => \A s \in past : gen \in s.part \cap s.meta

DigestOK == handle.verified # None => handle.verified = Filled(gen) /\ Allowed /\ Recorded100

ProofOK ==
  /\ DigestOK
  /\ session.pc \in {"intent"} \cup Linking => handle.verified # None
  /\ \/ session.pc \in {"verify", "rverify", "intent", "passed", "publish"} \cup Linking
     \/ session.pc = "attempt" /\ handle # NoHandle
     => files[gen].stable = files[gen].cached
  /\ session.pc = "sealSync" => metas[gen].cached = "sealed"
  /\ session.pc \in {"stage", "prove", "link"} => metas[gen] = Both("sealed")
  /\ session.pc = "link" => files[gen].cached = handle.verified
  /\ session.pc \in Linked \cup Releasing => names.dest = gen

\* BytesAreKept, where directory changes are one log.
HoldsAll ==
  Journalled /\ job.state \notin {"Cancelling", "Cancelled"} /\ record.extents # None =>
    \A s \in past : Holds(s)

\* A block is there, in memory and on the disk.
HasBlock(f, b) == b \in DOMAIN f.cached /\ b \in DOMAIN f.stable

KeptOK ==
  /\ HoldsAll
  /\ \A b \in DOMAIN record.extents : HasBlock(files[gen], b)
  /\ budget.damage = MaxDamage => \A b \in DOMAIN record.extents :
       files[gen].cached[b] = gen /\ files[gen].stable[b] = gen

IInv == Shapes /\ RecordOK /\ DestOK /\ StateOK /\ PartOK /\ ProofOK /\ KeptOK
-----------------------------------------------------------------------------
(***************************************************************************)
(* Values.                                                                 *)
(***************************************************************************)

\* There is a block, so that a complete content is no empty one and tells its generation.
LEMMA Values ==
  /\ 0 \in Blocks
  /\ None \in Contents /\ DOMAIN None = {}
  /\ \A c \in Int : Filled(c) \in [Blocks -> Int] /\ Filled(c) # None
  /\ \A c, d \in Int : Filled(c) = Filled(d) => c = d
  /\ Free \notin Generations /\ Foreign \notin Generations /\ Free # Foreign
  /\ Generations \subseteq Int
  /\ \A x : Both(x).cached = x /\ Both(x).stable = x
<1>1. 0 \in Blocks
  BY PublishAssumption DEF Blocks, Bytes
<1>2. None \in Contents /\ DOMAIN None = {}
  BY DEF None, Contents
<1>3. \A c \in Int : Filled(c) \in [Blocks -> Int]
  BY DEF Filled
<1>4. \A c \in Int : Filled(c)[0] = c
  BY <1>1 DEF Filled
<1>5. \A c \in Int : DOMAIN Filled(c) = Blocks
  BY DEF Filled
<1>6. Free \notin Generations /\ Foreign \notin Generations /\ Free # Foreign
      /\ Generations \subseteq Int
  BY PublishAssumption DEF Free, Foreign, Generations
<1>7. \A x : Both(x).cached = x /\ Both(x).stable = x
  BY DEF Both
<1> QED
  BY <1>1, <1>2, <1>3, <1>4, <1>5, <1>6, <1>7

\* A session that holds nothing.
LEMMA IdleFields ==
  /\ Idle \in Sessions /\ NoHandle \in Handles
  /\ Idle.pc = "idle" /\ Idle.handle = NoHandle
  /\ NoHandle.verified = None /\ NoHandle.coverage = {} /\ NoHandle.generation = 0
<1>1. PICK n : n = None /\ n \in Contents
  BY Values
<1>2. NoHandle \in Handles
  BY <1>1 DEF NoHandle, Handles
<1>3. NoHandle.verified = None /\ NoHandle.coverage = {} /\ NoHandle.generation = 0
  BY DEF NoHandle
<1> QED
  BY <1>2, <1>3 DEF Idle, Pcs, Sessions

-----------------------------------------------------------------------------
(***************************************************************************)
(* The commands of a session and of its user.                              *)
(***************************************************************************)
Dead == {"Cancelling", "Cancelled"}

\* The commands that stay with the generation.
Ordinary == {"Start", "ProbeSucceeded", "RequireAction", "AllSegmentsDurable", "WorkersDrained",
             "VerificationPassed", "PublishCommitted", "CleanupFinished", "Pause", "Resume",
             "Cancel"}

\* Job::execute, the arms these commands and a replacement reach.
Arms(j, c, k) ==
  LET s == j.state
      n == c.name
  IN
  \/ s = "Queued" /\ n = "Start" /\ k = [j EXCEPT !.state = "Probing", !.attempts = Bump(@)]
  \/ s = "Probing" /\ n = "ProbeSucceeded" /\ k \in Probed(j, c)
  \/ s \in Running /\ n \in {"Pause", "RequireAction"} /\ k = Begin(j, Cause(c))
  \/ s = "Transferring" /\ n = "AllSegmentsDurable" /\ k = Begin(j, Simple("Verifying"))
  \/ s = "Stopping" /\ n = "Resume" /\ k = ResumeStopping(j)
  \/ s = "Stopping" /\ n \in {"Pause", "RequireAction"}
     /\ k = [j EXCEPT !.stop = Raise(@, Cause(c))]
  \/ s = "Stopping" /\ n = "WorkersDrained" /\ k \in WorkersDrained(j)
  \/ s \in {"Queued", "Verifying"} /\ n = "Pause" /\ k = [j EXCEPT !.state = "Paused"]
  \/ s = "RetryWait" /\ n = "Pause"
     /\ k = [[j EXCEPT !.state = "Paused"] EXCEPT !.retry_at = NoTick]
  \/ s \in Resumable /\ n = "Resume" /\ k = Resumed(j)
  \/ s \in {"Verifying", "Publishing"} /\ n = "RequireAction"
     /\ k = [[j EXCEPT !.state = "NeedsAction"] EXCEPT !.reason = c.reason]
  \/ s = "Verifying" /\ n = "VerificationPassed" /\ k = [j EXCEPT !.state = "Publishing"]
  \/ s = "Publishing" /\ n = "PublishCommitted" /\ k = [j EXCEPT !.state = "Completed"]
  \/ s \in Running \cup Resumable \cup {"Queued", "Stopping", "Verifying"} /\ n = "Cancel"
     /\ k = Cancelled(j)
  \/ s = "Cancelling" /\ n = "CleanupFinished" /\ k = [j EXCEPT !.state = "Cancelled"]
  \/ s \in {"NeedsAction", "Paused", "Failed"} /\ n = "ReplaceRepresentation"
     /\ j.generation < LastGeneration /\ k = Replaced(j)
  \/ s \notin {"Completed", "Cancelled"} /\ n \in {"Pause", "Resume", "Cancel"} /\ k = j

\* What Execute holds for one of these commands comes from one of its arms.
LEMMA ExecuteArms ==
  ASSUME NEW j, NEW c, NEW k \in Execute(j, c),
         c.name \in Ordinary \cup {"ReplaceRepresentation"}
  PROVE  Arms(j, c, k)
BY DEF Execute, Arms, Ordinary, Only, CauseKind, Running, Resumable

\* What such a command leaves of a job.
Kept(j, c, k) ==
  /\ JobOK(k) /\ k.generation = j.generation
  /\ j.state \notin {"Completed", "Cancelled"}
  /\ k.state \notin Dead => j.state \notin Dead
  /\ k.state = "Completed" => c.name = "PublishCommitted" /\ j.state = "Publishing"
  /\ k.state = "Cancelled" => c.name = "CleanupFinished"
  /\ c.name = "ProbeSucceeded" => k.state = "Transferring"
  /\ c.name = "VerificationPassed" => k.state = "Publishing"
  /\ c.name = "PublishCommitted" => k.state = "Completed"

\* The fields of a job.
LEMMA JobFields ==
  ASSUME NEW j, JobOK(j)
  PROVE  /\ j.state \in States /\ j.generation \in Generations
         /\ IF j.state = "Stopping" THEN j.stop.kind \in DOMAIN Rank ELSE j.stop.kind = "None"
         /\ NoStop.kind = "None"
         /\ \A kind : Simple(kind).kind = kind
BY DEF JobOK, NoStop, Simple, Target

\* A job after a command that keeps its generation.
After(j, s, r, t, p, a, v, m) ==
  [j EXCEPT !.state = s, !.reason = r, !.retry_at = t, !.stop = p, !.attempts = a,
            !.validator = v, !.segments = m]

\* It is a job if its stop target is the one its state has.
LEMMA JobFrom ==
  ASSUME NEW j, JobOK(j), NEW k,
         NEW s \in States, NEW r, NEW t, NEW p, NEW a, NEW v, NEW m,
         k = After(j, s, r, t, p, a, v, m),
         IF s = "Stopping" THEN p.kind \in DOMAIN Rank ELSE p.kind = "None"
  PROVE  JobOK(k) /\ k.generation = j.generation /\ k.state = s
<1>1. /\ k \in [state : States, generation : Generations, reason : {r},
            retry_at : {t}, stop : {p}, replace_on_drain : BOOLEAN,
            attempts : {a}, validator : {v}, segments : {m}]
      /\ k.generation = j.generation /\ k.state = s /\ k.stop = p
      /\ k.replace_on_drain = j.replace_on_drain
  BY DEF JobOK, After
<1>2. k \in [state : States, generation : Generations, reason : {k.reason},
            retry_at : {k.retry_at}, stop : {k.stop}, replace_on_drain : BOOLEAN,
            attempts : {k.attempts}, validator : {k.validator}, segments : {k.segments}]
  BY <1>1
<1>3. ~k.replace_on_drain
  BY <1>1, Zenon DEF JobOK
<1>4. p.kind \in {"None"} \cup DOMAIN Rank /\ (p.kind # "None") = (s = "Stopping")
  BY DEF Rank
<1> QED
  BY <1>1, <1>2, <1>3, <1>4 DEF JobOK

\* Where a cause, and two causes, want a job to land.
LEMMA CauseKinds ==
  ASSUME NEW c, c.name \in {"Pause", "RequireAction"}
  PROVE  /\ Cause(c).kind \in DOMAIN Rank
         /\ \A a : a.kind \in DOMAIN Rank => Raise(a, Cause(c)).kind \in DOMAIN Rank
         /\ Simple("Verifying").kind \in DOMAIN Rank /\ Simple("Queued").kind \in DOMAIN Rank
<1>1. Cause(c).kind \in DOMAIN Rank
  BY DEF Cause, Target, CauseKind, Rank
<1>2. \A a : Raise(a, Cause(c)) \in {a, Cause(c)}
  BY DEF Raise
<1>3. Simple("Verifying").kind \in DOMAIN Rank /\ Simple("Queued").kind \in DOMAIN Rank
  BY DEF Simple, Target, Rank
<1> QED
  BY <1>1, <1>2, <1>3

\* What a session's commands and a user's, but for the replacement, leave of a job.
LEMMA JobStep ==
  ASSUME NEW j, JobOK(j), NEW c, c.name \in Ordinary, NEW k \in Execute(j, c)
  PROVE  Kept(j, c, k)
<1>1. Arms(j, c, k)
  BY ExecuteArms
<1>2. CASE /\ j.state = "Queued" /\ c.name = "Start"
           /\ k = [j EXCEPT !.state = "Probing", !.attempts = Bump(@)]
  <2>1. k = After(j, "Probing", j.reason, j.retry_at, j.stop,
                Bump(j.attempts), j.validator, j.segments)
    BY <1>2, Zenon DEF JobOK, After
  <2>2. JobOK(k) /\ k.generation = j.generation /\ k.state = "Probing"
    BY <1>2, <2>1, JobFrom, JobFields DEF States
  <2> QED
    BY <1>2, <2>2 DEF Kept, Dead, Running, Resumable
<1>3. CASE /\ j.state = "Probing" /\ c.name = "ProbeSucceeded"
           /\ k \in Probed(j, c)
  <2>1. PICK v, m : k = After(j, "Transferring", j.reason, j.retry_at, j.stop, j.attempts, v, m)
    <3>1. CASE j.segments = NoMap
      <4>1. k = [j EXCEPT !.state = "Transferring", !.validator = c.validator,
                          !.segments = Fresh(c.total)]
        BY <1>3, <3>1 DEF Probed, Only
      <4>2. k = After(j, "Transferring", j.reason, j.retry_at, j.stop, j.attempts, c.validator,
                      Fresh(c.total))
        BY <4>1, Zenon DEF After, JobOK
      <4> QED
        BY <4>2
    <3>2. CASE j.segments # NoMap
      <4>1. k = [j EXCEPT !.state = "Transferring"]
        BY <1>3, <3>2 DEF Probed, Only
      <4>2. k = After(j, "Transferring", j.reason, j.retry_at, j.stop, j.attempts, j.validator,
                      j.segments)
        BY <4>1, Zenon DEF After, JobOK
      <4> QED
        BY <4>2
    <3> QED
      BY <3>1, <3>2
  <2>2. JobOK(k) /\ k.generation = j.generation /\ k.state = "Transferring"
    BY <1>3, <2>1, JobFrom, JobFields DEF States
  <2> QED
    BY <1>3, <2>2 DEF Kept, Dead
<1>4. CASE /\ j.state \in Running /\ c.name \in {"Pause", "RequireAction"}
           /\ k = Begin(j, Cause(c))
  <2>1. k = After(j, "Stopping", j.reason, j.retry_at, Cause(c),
                j.attempts, j.validator, j.segments)
    BY <1>4, Zenon DEF JobOK, After, Begin
  <2>2. JobOK(k) /\ k.generation = j.generation /\ k.state = "Stopping"
    BY <1>4, <2>1, JobFrom, JobFields, CauseKinds DEF States
  <2> QED
    BY <1>4, <2>2 DEF Kept, Dead, Running, Resumable
<1>5. CASE /\ j.state = "Transferring" /\ c.name = "AllSegmentsDurable"
           /\ k = Begin(j, Simple("Verifying"))
  <2>1. k = After(j, "Stopping", j.reason, j.retry_at, Simple("Verifying"),
                j.attempts, j.validator, j.segments)
    BY <1>5, Zenon DEF JobOK, After, Begin
  <2>2. JobOK(k) /\ k.generation = j.generation /\ k.state = "Stopping"
    BY <1>5, <2>1, JobFrom, JobFields DEF States, Rank
  <2> QED
    BY <1>5, <2>2 DEF Kept, Dead, Running, Resumable
<1>6. CASE /\ j.state = "Stopping" /\ c.name = "Resume"
           /\ k = ResumeStopping(j)
  <2>1. CASE k = j
    BY <1>6, <2>1, JobFields DEF Kept, Dead
  <2>2. CASE k # j
    <3>1. PICK kind \in {"Verifying", "Queued"} :
            k = [j EXCEPT !.attempts = 0, !.stop = Simple(kind)]
      BY <1>6, <2>2 DEF ResumeStopping
    <3>2. k = After(j, j.state, j.reason, j.retry_at, Simple(kind), 0, j.validator, j.segments)
      BY <3>1, Zenon DEF After, JobOK
    <3>3. JobOK(k) /\ k.generation = j.generation /\ k.state = j.state
      BY <1>6, <3>2, JobFrom, JobFields DEF Rank
    <3> QED
      BY <1>6, <3>3 DEF Kept, Dead
  <2> QED
    BY <2>1, <2>2
<1>7. CASE /\ j.state = "Stopping" /\ c.name \in {"Pause", "RequireAction"}
           /\ k = [j EXCEPT !.stop = Raise(@, Cause(c))]
  <2>1. k = After(j, "Stopping", j.reason, j.retry_at, Raise(j.stop, Cause(c)),
                j.attempts, j.validator, j.segments)
    BY <1>7, Zenon DEF JobOK, After
  <2>2. JobOK(k) /\ k.generation = j.generation /\ k.state = "Stopping"
    BY <1>7, <2>1, JobFrom, JobFields, CauseKinds DEF States
  <2> QED
    BY <1>7, <2>2 DEF Kept, Dead, Running, Resumable
<1>8. CASE /\ j.state = "Stopping" /\ c.name = "WorkersDrained"
           /\ k \in WorkersDrained(j)
  <2>1. k = Land(j, j.stop)
    BY <1>8 DEF WorkersDrained, Only, JobOK
  <2>2. j.stop.kind \in {"Verifying", "Queued", "Paused", "RetryWait", "NeedsAction", "Failed"}
    BY <1>8, JobFields DEF Rank
  <2>3. PICK s \in {"Verifying", "Queued", "Paused", "RetryWait", "NeedsAction", "Failed"} :
          \/ k = [[j EXCEPT !.stop = NoStop] EXCEPT !.state = s]
          \/ k = [[j EXCEPT !.stop = NoStop] EXCEPT !.state = s, !.retry_at = j.stop.at_tick]
          \/ k = [[j EXCEPT !.stop = NoStop] EXCEPT !.state = s, !.reason = j.stop.reason]
    BY <2>1, <2>2 DEF Land
  <2>4. PICK r, t : k = After(j, s, r, t, NoStop, j.attempts, j.validator, j.segments)
    <3>1. CASE k = [[j EXCEPT !.stop = NoStop] EXCEPT !.state = s]
      <4> k = After(j, s, j.reason, j.retry_at, NoStop, j.attempts, j.validator, j.segments)
        BY <3>1, Zenon DEF After, JobOK
      <4> QED
        OBVIOUS
    <3>2. CASE k = [[j EXCEPT !.stop = NoStop] EXCEPT !.state = s, !.retry_at = j.stop.at_tick]
      <4> k = After(j, s, j.reason, j.stop.at_tick, NoStop, j.attempts, j.validator, j.segments)
        BY <3>2, Zenon DEF After, JobOK
      <4> QED
        OBVIOUS
    <3>3. CASE k = [[j EXCEPT !.stop = NoStop] EXCEPT !.state = s, !.reason = j.stop.reason]
      <4> k = After(j, s, j.stop.reason, j.retry_at, NoStop, j.attempts, j.validator, j.segments)
        BY <3>3, Zenon DEF After, JobOK
      <4> QED
        OBVIOUS
    <3> QED
      BY <2>3, <3>1, <3>2, <3>3
  <2>5. JobOK(k) /\ k.generation = j.generation /\ k.state = s
    BY <2>3, <2>4, JobFrom, JobFields DEF States
  <2> QED
    BY <1>8, <2>3, <2>5 DEF Kept, Dead
<1>9. CASE /\ j.state \in {"Queued", "Verifying"} /\ c.name = "Pause"
           /\ k = [j EXCEPT !.state = "Paused"]
  <2>1. k = After(j, "Paused", j.reason, j.retry_at, j.stop,
                j.attempts, j.validator, j.segments)
    BY <1>9, Zenon DEF JobOK, After
  <2>2. JobOK(k) /\ k.generation = j.generation /\ k.state = "Paused"
    BY <1>9, <2>1, JobFrom, JobFields DEF States
  <2> QED
    BY <1>9, <2>2 DEF Kept, Dead, Running, Resumable
<1>10. CASE /\ j.state = "RetryWait" /\ c.name = "Pause"
           /\ k = [[j EXCEPT !.state = "Paused"] EXCEPT !.retry_at = NoTick]
  <2>1. k = After(j, "Paused", j.reason, NoTick, j.stop,
                j.attempts, j.validator, j.segments)
    BY <1>10, Zenon DEF JobOK, After
  <2>2. JobOK(k) /\ k.generation = j.generation /\ k.state = "Paused"
    BY <1>10, <2>1, JobFrom, JobFields DEF States
  <2> QED
    BY <1>10, <2>2 DEF Kept, Dead, Running, Resumable
<1>11. CASE /\ j.state \in Resumable /\ c.name = "Resume"
           /\ k = Resumed(j)
  <2>1. PICK s \in {"Verifying", "Queued"} : \E r, t :
          k = [j EXCEPT !.state = s, !.reason = r, !.retry_at = t, !.attempts = 0]
    BY <1>11, Zenon DEF Resumed
  <2>2. PICK r, t : k = After(j, s, r, t, j.stop, 0, j.validator, j.segments)
    <3>1. PICK r, t :
            k = [j EXCEPT !.state = s, !.reason = r, !.retry_at = t, !.attempts = 0]
      BY <2>1
    <3>2. k = After(j, s, r, t, j.stop, 0, j.validator, j.segments)
      BY <3>1, Zenon DEF After, JobOK
    <3> QED
      BY <3>2
  <2>3. JobOK(k) /\ k.generation = j.generation /\ k.state = s
    BY <1>11, <2>1, <2>2, JobFrom, JobFields DEF States, Resumable
  <2> QED
    BY <1>11, <2>1, <2>3 DEF Kept, Dead, Resumable
<1>12. CASE /\ j.state \in {"Verifying", "Publishing"} /\ c.name = "RequireAction"
           /\ k = [[j EXCEPT !.state = "NeedsAction"] EXCEPT !.reason = c.reason]
  <2>1. k = After(j, "NeedsAction", c.reason, j.retry_at, j.stop,
                j.attempts, j.validator, j.segments)
    BY <1>12, Zenon DEF JobOK, After
  <2>2. JobOK(k) /\ k.generation = j.generation /\ k.state = "NeedsAction"
    BY <1>12, <2>1, JobFrom, JobFields DEF States
  <2> QED
    BY <1>12, <2>2 DEF Kept, Dead, Running, Resumable
<1>13. CASE /\ j.state = "Verifying" /\ c.name = "VerificationPassed"
           /\ k = [j EXCEPT !.state = "Publishing"]
  <2>1. k = After(j, "Publishing", j.reason, j.retry_at, j.stop,
                j.attempts, j.validator, j.segments)
    BY <1>13, Zenon DEF JobOK, After
  <2>2. JobOK(k) /\ k.generation = j.generation /\ k.state = "Publishing"
    BY <1>13, <2>1, JobFrom, JobFields DEF States
  <2> QED
    BY <1>13, <2>2 DEF Kept, Dead, Running, Resumable
<1>14. CASE /\ j.state = "Publishing" /\ c.name = "PublishCommitted"
           /\ k = [j EXCEPT !.state = "Completed"]
  <2>1. k = After(j, "Completed", j.reason, j.retry_at, j.stop,
                j.attempts, j.validator, j.segments)
    BY <1>14, Zenon DEF JobOK, After
  <2>2. JobOK(k) /\ k.generation = j.generation /\ k.state = "Completed"
    BY <1>14, <2>1, JobFrom, JobFields DEF States
  <2> QED
    BY <1>14, <2>2 DEF Kept, Dead, Running, Resumable
<1>15. CASE /\ j.state \in Running \cup Resumable \cup {"Queued", "Stopping", "Verifying"}
           /\ c.name = "Cancel"
           /\ k = Cancelled(j)
  <2>1. k = After(j, "Cancelling", j.reason, NoTick, NoStop,
                j.attempts, j.validator, j.segments)
    BY <1>15, Zenon DEF JobOK, After, Cancelled
  <2>2. JobOK(k) /\ k.generation = j.generation /\ k.state = "Cancelling"
    BY <1>15, <2>1, JobFrom, JobFields DEF States
  <2> QED
    BY <1>15, <2>2 DEF Kept, Dead, Running, Resumable
<1>16. CASE /\ j.state = "Cancelling" /\ c.name = "CleanupFinished"
           /\ k = [j EXCEPT !.state = "Cancelled"]
  <2>1. k = After(j, "Cancelled", j.reason, j.retry_at, j.stop,
                j.attempts, j.validator, j.segments)
    BY <1>16, Zenon DEF JobOK, After
  <2>2. JobOK(k) /\ k.generation = j.generation /\ k.state = "Cancelled"
    BY <1>16, <2>1, JobFrom, JobFields DEF States
  <2> QED
    BY <1>16, <2>2 DEF Kept, Dead, Running, Resumable
<1>17. CASE j.state \notin {"Completed", "Cancelled"} /\ c.name \in {"Pause", "Resume", "Cancel"} /\ k = j
  BY <1>17, JobFields DEF Kept, Dead
<1> QED
  BY <1>1, <1>2, <1>3, <1>4, <1>5, <1>6, <1>7, <1>8, <1>9, <1>10, <1>11, <1>12, <1>13, <1>14, <1>15, <1>16, <1>17 DEF Arms, Ordinary

\* A replacement starts the next generation.
LEMMA ReplaceStep ==
  ASSUME NEW j, JobOK(j), NEW c, c.name = "ReplaceRepresentation", NEW k \in Execute(j, c)
  PROVE  /\ JobOK(k) /\ k.generation = j.generation + 1 /\ k.state = "Queued"
         /\ j.state \in {"NeedsAction", "Paused", "Failed"}
<1>1. Arms(j, c, k)
  BY ExecuteArms
<1>2. /\ j.state \in {"NeedsAction", "Paused", "Failed"}
      /\ j.generation < LastGeneration /\ k = Replaced(j)
  BY <1>1 DEF Arms
<1>3. PICK g : g = j.generation + 1
  OBVIOUS
<1>4. g \in Generations
  BY <1>2, <1>3, JobFields, PublishAssumption DEF Generations
<1>5. PICK i : i = [j EXCEPT !.generation = g]
  OBVIOUS
<1>6. JobOK(i) /\ i.generation = g /\ i.state = j.state
  <2>1. /\ i \in [state : States, generation : Generations, reason : {i.reason},
            retry_at : {i.retry_at}, stop : {i.stop}, replace_on_drain : BOOLEAN,
            attempts : {i.attempts}, validator : {i.validator}, segments : {i.segments}]
        /\ i.generation = g /\ i.state = j.state /\ i.stop = j.stop
        /\ i.replace_on_drain = j.replace_on_drain
    BY <1>4, <1>5 DEF JobOK
  <2>2. ~i.replace_on_drain
    BY <2>1, Zenon DEF JobOK
  <2> QED
    BY <2>1, <2>2 DEF JobOK
<1>7. k = After(i, "Queued", NoReason, NoTick, i.stop, 0, NoValidator, NoMap)
  <2>1. k = [[j EXCEPT !.generation = g, !.segments = NoMap, !.validator = NoValidator]
              EXCEPT !.reason = NoReason, !.retry_at = NoTick, !.attempts = 0,
                     !.state = "Queued"]
    BY <1>2, <1>3 DEF Replaced, NextGeneration
  <2>2. k = [i EXCEPT !.state = "Queued", !.reason = NoReason, !.retry_at = NoTick,
                      !.stop = i.stop, !.attempts = 0,
                      !.validator = NoValidator, !.segments = NoMap]
    BY <2>1, <1>5, <1>6, Zenon DEF JobOK
  <2> QED
    BY <2>2 DEF After
<1> QED
  BY <1>2, <1>3, <1>6, <1>7, JobFrom, JobFields DEF States

-----------------------------------------------------------------------------
(***************************************************************************)
(* What a step leaves alone.                                               *)
(***************************************************************************)

\* The record keeps its generation and what it has of it, and no damage is done.
Quiet ==
  /\ RowOK(record')
  /\ record'.extents = record.extents /\ record'.intent = record.intent
  /\ record'.expected = record.expected /\ record'.job.generation = record.job.generation
  /\ record'.job.state \notin Dead => record.job.state \notin Dead
  /\ budget' \in Budgets /\ budget'.damage = budget.damage

\* The job ends with this step as it had ended before.
EndKept ==
  /\ (record'.job.state = "Completed") = (record.job.state = "Completed")
  /\ (record'.job.state = "Cancelled") = (record.job.state = "Cancelled")

\* The destination stays what it is, and what it may have been.
Reached ==
  /\ names' \in Entries /\ past' \subseteq Entries /\ names' \in past'
  /\ names'.dest = names.dest
  /\ \A s \in past' : \E t \in past : t.dest = s.dest

\* No entry changes that holds the bytes.
Near ==
  /\ Reached
  /\ Journalled => \A s \in past' : \E t \in past :
       t.dest = s.dest /\ t.part = s.part /\ t.meta = s.meta

\* No inode changes where it is published or recorded.
Steady ==
  /\ files' \in Files /\ metas' \in Metas
  /\ names.dest \in Generations => /\ files'[names.dest] = files[names.dest]
                                   /\ metas'[names.dest] = metas[names.dest]
  /\ \A b \in DOMAIN record.extents :
       /\ HasBlock(files[gen], b) => HasBlock(files'[gen], b)
       /\ files[gen].cached[b] = gen /\ files[gen].stable[b] = gen
          => files'[gen].cached[b] = gen /\ files'[gen].stable[b] = gen

\* What the environment has left.
LEMMA SpendStep ==
  ASSUME budget \in Budgets,
         NEW what \in {"runs", "faults", "crashes", "power", "foreign", "commands"}, Spend(what)
  PROVE  budget' \in Budgets /\ budget'.damage = budget.damage
<1>1. PICK n : n = budget[what] - 1
  OBVIOUS
<1>2. n \in Int
  BY <1>1 DEF Budgets
<1>3. budget' = [budget EXCEPT ![what] = n]
  BY <1>1 DEF Spend
<1> QED
  BY <1>2, <1>3 DEF Budgets

\* A step of the job, with its answer or without.
LEMMA QuietStep ==
  ASSUME Shapes, NEW c, NEW next, c.name \in Ordinary, Step(c, next)
  PROVE  /\ Quiet
         /\ \/ session' = Idle
            \/ session' = next /\ record'.job \in Execute(record.job, c)
         /\ \/ EndKept
            \/ /\ c.name = "PublishCommitted" /\ record.job.state = "Publishing"
               /\ record'.job.state = "Completed"
            \/ /\ c.name = "CleanupFinished" /\ record'.job.state = "Cancelled"
               /\ record.job.state \notin {"Completed", "Cancelled"}
<1>1. PICK k \in Execute(record.job, c) :
        \/ record' = Recorded(k) /\ session' = next /\ UNCHANGED budget
        \/ GiveUp({record, Recorded(k)})
  BY DEF Step, job
<1>2. Kept(record.job, c, k)
  BY JobStep DEF Shapes, DiskOK, RowOK
<1>3. Recorded(k) = [record EXCEPT !.job = k]
  BY <1>2 DEF Recorded, Kept, gen
<1>4. record' = [record EXCEPT !.job = k] \/ record' = record
  BY <1>1, <1>3 DEF GiveUp
<1>5. budget' \in Budgets /\ budget'.damage = budget.damage
  BY <1>1, SpendStep DEF Shapes, DiskOK, GiveUp
<1>6. session' = Idle \/ (session' = next /\ record' = [record EXCEPT !.job = k])
  BY <1>1, <1>3 DEF GiveUp
<1>7. CASE record' = record
  BY <1>5, <1>6, <1>7 DEF Shapes, DiskOK, Quiet, EndKept, RowOK
<1>8. CASE record' = [record EXCEPT !.job = k]
  <2>1. /\ record'.job = k /\ record'.extents = record.extents
        /\ record'.intent = record.intent /\ record'.expected = record.expected
        /\ record' \in [job : {record'.job}, extents : {record'.extents},
                        intent : {record'.intent}, expected : {record'.expected}]
    BY <1>8 DEF Shapes, DiskOK, RowOK
  <2>2. Quiet
    BY <2>1, <1>2, <1>5 DEF Quiet, RowOK, Kept
  <2> QED
    BY <2>1, <2>2, <1>2, <1>6 DEF Kept, EndKept
<1> QED
  BY <1>4, <1>7, <1>8

\* The session gives up, or drains first.
Halts == Quiet /\ EndKept /\ session' \in {Idle, At("drain")}

\* Blocked, a failing operation, and an answer that is lost.
LEMMA BlockedHalts ==
  ASSUME Shapes, NEW reason, Blocked(reason)
  PROVE  Halts
<1>1. PICK next \in {Idle, At("drain")} : Step(Because(reason), next)
  BY DEF Blocked
<1>2. Because(reason).name = "RequireAction"
  BY DEF Because, Command
<1> QED
  BY <1>1, <1>2, QuietStep DEF Ordinary, Halts

\* A refused step leaves a job, and a record, that is as sound as before.
LEMMA RefusedQuiet ==
  ASSUME Shapes, Spend("faults"), NEW k \in Execute(record.job, Because("Storage")),
         record' = Recorded(k)
  PROVE  Quiet /\ EndKept
<1>2. Because("Storage").name = "RequireAction"
  BY DEF Because, Command
<1>3. Kept(record.job, Because("Storage"), k)
  BY <1>2, JobStep DEF Shapes, DiskOK, RowOK, Ordinary
<1>4. record' = [record EXCEPT !.job = k]
  BY <1>3 DEF Recorded, Kept, gen
<1>5. budget' \in Budgets /\ budget'.damage = budget.damage
  BY SpendStep DEF Shapes, DiskOK
<1>6. /\ record'.job = k /\ record'.extents = record.extents
      /\ record'.intent = record.intent /\ record'.expected = record.expected
      /\ record' \in [job : {record'.job}, extents : {record'.extents},
                      intent : {record'.intent}, expected : {record'.expected}]
  BY <1>4 DEF Shapes, DiskOK, RowOK
<1> QED
  BY <1>2, <1>3, <1>5, <1>6 DEF Quiet, RowOK, Kept, EndKept

\* A session whose storage fails halts (Coordinator::blocked).
LEMMA FailingHalts ==
  ASSUME Shapes, NEW pc, Failing(pc)
  PROVE  Halts /\ session.pc = pc
BY RefusedQuiet DEF Halts, Failing, job

\* So does one that gives up, its record left alone.
LEMMA GiveUpHalts ==
  ASSUME Shapes, GiveUp({record})
  PROVE  Halts
<1>1. record' = record /\ session' = Idle
  BY DEF GiveUp
<1>2. budget' \in Budgets /\ budget'.damage = budget.damage
  BY SpendStep DEF Shapes, DiskOK, GiveUp
<1> QED
  BY <1>1, <1>2 DEF Halts, Quiet, EndKept, Shapes, DiskOK

\* A step with the record as it was.
LEMMA UnchangedQuiet ==
  ASSUME Shapes, UNCHANGED record, budget' \in Budgets, budget'.damage = budget.damage
  PROVE  Quiet /\ EndKept
BY DEF Quiet, EndKept, Shapes, DiskOK

\* The disk as it was.
LEMMA SameDisk ==
  ASSUME Shapes, UnchangedDisk
  PROVE  Near /\ Steady
BY DEF Reached, Near, Steady, Shapes, DiskOK, UnchangedDisk

\* A session that stands elsewhere.
LEMMA Elsewhere ==
  ASSUME Shapes, NEW pc \in Pcs, NEW h \in Handles
  PROVE  /\ At(pc) \in Sessions /\ At(pc).pc = pc /\ At(pc).handle = session.handle
         /\ With(pc, h) \in Sessions /\ With(pc, h).pc = pc /\ With(pc, h).handle = h
         /\ session.pc \in Pcs /\ session.handle \in Handles
BY DEF Shapes, Sessions, At, With

\* What the invariant says of the record and the disk survives a step that is quiet and
\* steady, if the bytes are held after it.
LEMMA CarriedBy ==
  ASSUME IInv, Quiet, Reached, Steady, HoldsAll'
  PROVE  DiskOK' /\ RecordOK' /\ DestOK' /\ KeptOK'
<1>1. DiskOK'
  BY DEF IInv, Shapes, DiskOK, Quiet, Reached, Steady
<1>2. RecordOK'
  BY DEF IInv, RecordOK, Quiet, gen
<1>3. DestOK'
  <2>1. \A s \in past' : s.dest \in Generations => s.dest = names'.dest
    BY DEF IInv, DestOK, Reached
  <2>2. ASSUME names'.dest \in Generations
        PROVE  Proven(names.dest)'
    BY <2>2 DEF IInv, DestOK, Reached, Steady, Proven, Quiet, gen, Recorded100
  <2> QED
    BY <2>1, <2>2 DEF DestOK, Reached, Proven
<1>4. KeptOK'
  <2>1. ASSUME budget'.damage = MaxDamage, NEW b \in DOMAIN record'.extents
        PROVE  /\ files'[record'.job.generation].cached[b] = record'.job.generation
               /\ files'[record'.job.generation].stable[b] = record'.job.generation
    BY <2>1 DEF IInv, KeptOK, Quiet, Steady, gen
  <2>2. ASSUME NEW b \in DOMAIN record'.extents
        PROVE  HasBlock(files'[record'.job.generation], b)
    BY <2>2 DEF IInv, KeptOK, Quiet, Steady, gen
  <2> QED
    BY <2>1, <2>2 DEF KeptOK, gen, HasBlock
<1> QED
  BY <1>1, <1>2, <1>3, <1>4

\* They are if no entry changes that holds them.
LEMMA Carried ==
  ASSUME IInv, Quiet, Near, Steady
  PROVE  DiskOK' /\ RecordOK' /\ DestOK' /\ KeptOK'
<1>1. ASSUME Journalled, record'.job.state \notin Dead, record'.extents # None, NEW s \in past'
      PROVE  record'.job.generation \in s.part \cap s.meta \/ s.dest = record'.job.generation
  <2>1. record.job.state \notin Dead /\ record.extents # None
    BY <1>1 DEF Quiet
  <2>2. PICK t \in past : t.dest = s.dest /\ t.part = s.part /\ t.meta = s.meta
    BY <1>1 DEF Near
  <2>3. record.job.generation \in t.part \cap t.meta \/ t.dest = record.job.generation
    BY <1>1, <2>1 DEF IInv, KeptOK, HoldsAll, Holds, gen, job, Dead
  <2> QED
    BY <2>2, <2>3 DEF Quiet
<1>2. HoldsAll'
  BY <1>1 DEF HoldsAll, Holds, gen, job, Dead
<1> QED
  BY <1>2, CarriedBy DEF Near

\* A digest stays what it is.
LEMMA SameDigest ==
  ASSUME IInv, Quiet, session'.handle.verified \in {None, session.handle.verified}
  PROVE  DigestOK'
BY DEF IInv, ProofOK, DigestOK, Quiet, Allowed, Recorded100, gen, handle

\* A step with which the session halts.
LEMMA HaltStep ==
  ASSUME IInv, Quiet, session' \in {Idle, At("drain")}, Near, Steady
  PROVE  IInv'
<1>1. Shapes
  BY DEF IInv
<1>2. DiskOK' /\ RecordOK' /\ DestOK' /\ KeptOK'
  BY <1>1, Carried
<1>3. /\ session' \in Sessions /\ session'.pc \in {"idle", "drain"}
      /\ session'.handle \in {NoHandle, session.handle}
  <2>1. "drain" \in Pcs
    BY DEF Pcs
  <2> QED
    BY <1>1, <2>1, IdleFields, Elsewhere
<1>4. DigestOK'
  BY <1>1, <1>3, SameDigest, IdleFields
<1>5. StateOK' /\ PartOK' /\ ProofOK'
  BY <1>3, <1>4 DEF StateOK, PartOK, ProofOK, Making, Writing, Linking, Linked, Ending, Releasing,
                    Dropping
<1> QED
  BY <1>2, <1>3, <1>5 DEF IInv, Shapes

\* A step of which the storage, or the answer, fails.
LEMMA FailStep ==
  ASSUME IInv, Near, Steady, NEW pc, NEW reason,
         Failing(pc) \/ Blocked(reason) \/ GiveUp({record})
  PROVE  IInv'
<1>1. Halts
  BY FailingHalts, BlockedHalts, GiveUpHalts DEF IInv
<1> QED
  BY <1>1, HaltStep DEF Halts

\* A step with which it goes on.
LEMMA Proceeds ==
  ASSUME IInv, Quiet, Near, Steady, session' \in Sessions, StateOK', PartOK', ProofOK'
  PROVE  IInv'
BY Carried DEF IInv, Shapes

\* Neither the record nor the budget changes.
LEMMA Still ==
  ASSUME IInv, UNCHANGED <<record, budget>>
  PROVE  Quiet /\ EndKept /\ gen' = gen
BY UnchangedQuiet DEF IInv, Shapes, DiskOK, gen

\* A step after which the session stands elsewhere with the handle it has.
LEMMA Shifted ==
  ASSUME IInv, Quiet, NEW pc \in Pcs, session' = At(pc)
  PROVE  /\ session' \in Sessions /\ session'.pc = pc /\ session'.handle = session.handle
         /\ DigestOK'
<1>1. /\ session' \in Sessions /\ session'.pc = pc /\ session'.handle = session.handle
  BY Elsewhere, IdleFields DEF IInv
<1> QED
  BY <1>1, SameDigest

-----------------------------------------------------------------------------
(***************************************************************************)
(* The disk.                                                               *)
(***************************************************************************)

\* The generation at work, and the types of what it has on the disk.
LEMMA AtWork ==
  ASSUME IInv
  PROVE  /\ gen \in Generations /\ gen \in Int
         /\ files[gen] \in [cached : Contents, stable : Contents]
         /\ metas[gen] \in [cached : Marks, stable : Marks]
         /\ names.dest = gen => /\ files[gen] = Both(Filled(gen)) /\ metas[gen] = Both("sealed")
                                /\ DOMAIN record.extents = Blocks /\ record.expected \in {0, gen}
         /\ record.extents = None => names.dest # gen
         /\ DOMAIN record.extents \subseteq Blocks
         /\ session.pc \in Pcs /\ session.handle \in Handles
<1>1. gen \in Generations
  BY JobFields DEF IInv, Shapes, DiskOK, RowOK, gen
<1>2. /\ names.dest = gen => /\ files[gen] = Both(Filled(gen)) /\ metas[gen] = Both("sealed")
                             /\ DOMAIN record.extents = Blocks /\ record.expected \in {0, gen}
  BY <1>1 DEF IInv, DestOK, Proven, Recorded100
<1> QED
  BY <1>1, <1>2, Values
     DEF IInv, Shapes, DiskOK, Files, Metas, RecordOK, Sessions

\* Entries change in memory.
LEMMA RenamedStep ==
  ASSUME Shapes, NEW n \in Entries, Renamed(n), n.dest = names.dest
  PROVE  /\ Reached /\ names' = n
         /\ n.part = names.part /\ n.meta = names.meta => Near
BY DEF Shapes, DiskOK, Renamed, Reached, Near

\* The staged link comes or goes.
LEMMA StagedStep ==
  ASSUME Shapes, NEW S \in SUBSET Int, Renamed([names EXCEPT !.staged = S])
  PROVE  Near /\ names'.part = names.part /\ names'.meta = names.meta
<1>1. /\ [names EXCEPT !.staged = S] \in Entries
      /\ [names EXCEPT !.staged = S].dest = names.dest
      /\ [names EXCEPT !.staged = S].part = names.part
      /\ [names EXCEPT !.staged = S].meta = names.meta
  BY DEF Shapes, DiskOK, Entries
<1> QED
  BY <1>1, RenamedStep

\* The staged link goes in memory, and leaves what is published.
LEMMA UnstagedStep ==
  ASSUME IInv, Renamed(Unstaged)
  PROVE  Near
<1>1. names.staged \ {gen} \in SUBSET Int
  BY DEF IInv, Shapes, DiskOK, Entries
<1> QED
  BY <1>1, StagedStep DEF IInv, Unstaged

\* A synced file, with its names.
LEMMA SyncFileStep ==
  ASSUME Shapes, UNCHANGED names, SyncFile
  PROVE  Near
BY DEF Shapes, DiskOK, SyncFile, Near, Reached

\* A synced directory.
LEMMA SyncPartsStep ==
  ASSUME Shapes, SyncParts, names' \in Entries, names'.dest = names.dest
  PROVE  /\ Reached /\ (Journalled => past' = {names'})
         /\ names' = names => Near
<1>1. CASE Journalled
  BY <1>1 DEF Shapes, DiskOK, SyncParts, Near, Reached
<1>2. CASE ~Journalled
  <2>1. past' = {[names' EXCEPT !.dest = s.dest] : s \in past}
    BY <1>2 DEF SyncParts
  <2>2. ASSUME NEW s \in past
        PROVE  /\ [names' EXCEPT !.dest = s.dest] \in Entries
               /\ [names' EXCEPT !.dest = s.dest].dest = s.dest
    BY DEF Shapes, DiskOK, Entries
  <2>3. [names' EXCEPT !.dest = names.dest] = names'
    BY DEF Entries
  <2>4. names' \in past'
    BY <2>1, <2>3 DEF Shapes, DiskOK
  <2> QED
    BY <1>2, <2>1, <2>2, <2>4, ZenonT(60) DEF Reached, Near
<1> QED
  BY <1>1, <1>2

\* A sync of the destination's directory brings its entry to the disk.
LEMMA SyncDestinationStep ==
  ASSUME Shapes, SyncDestination, UNCHANGED names
  PROVE  Near
<1>1. CASE Journalled
  BY <1>1 DEF Shapes, DiskOK, SyncDestination, Near, Reached
<1>2. CASE ~Journalled
  <2>1. past' = {[s EXCEPT !.dest = names.dest] : s \in past}
    BY <1>2 DEF SyncDestination
  <2>2. ASSUME NEW s \in past
        PROVE  /\ [s EXCEPT !.dest = names.dest] \in Entries
               /\ [s EXCEPT !.dest = names.dest].dest = names.dest
    BY DEF Shapes, DiskOK, Entries
  <2>3. [names EXCEPT !.dest = names.dest] = names
    BY DEF Shapes, DiskOK, Entries
  <2>4. names \in past'
    BY <2>1, <2>3 DEF Shapes, DiskOK
  <2> QED
    BY <1>2, <2>1, <2>2, <2>4 DEF Shapes, DiskOK, Reached, Near
<1> QED
  BY <1>1, <1>2

\* An inode's blocks, and its sidecar's mark.
LEMMA FileUpdate ==
  ASSUME IInv, NEW f \in [cached : Contents, stable : Contents],
         files' = [files EXCEPT ![gen] = f]
  PROVE  /\ files' \in Files /\ files'[gen] = f
         /\ \A g \in Generations : g # gen => files'[g] = files[g]
BY AtWork DEF IInv, Shapes, DiskOK, Files

\* A sidecar's mark changes, and the types stay.
LEMMA MetaUpdate ==
  ASSUME IInv, NEW m \in [cached : Marks, stable : Marks],
         metas' = [metas EXCEPT ![gen] = m]
  PROVE  /\ metas' \in Metas /\ metas'[gen] = m
         /\ \A g \in Generations : g # gen => metas'[g] = metas[g]
BY AtWork DEF IInv, Shapes, DiskOK, Metas

\* sync_all brings an inode's blocks to the disk.
LEMMA FlushStep ==
  ASSUME IInv, files' = [files EXCEPT ![gen].stable = files[gen].cached], UNCHANGED metas
  PROVE  /\ Steady
         /\ files'[gen].cached = files[gen].cached /\ files'[gen].stable = files[gen].cached
<1>1. PICK f : f = [files[gen] EXCEPT !.stable = files[gen].cached]
  OBVIOUS
<1>2. /\ f \in [cached : Contents, stable : Contents]
      /\ f.cached = files[gen].cached /\ f.stable = files[gen].cached
  BY <1>1, AtWork
<1>3. files' = [files EXCEPT ![gen] = f]
  BY <1>1, AtWork DEF IInv, Shapes, DiskOK, Files
<1>4. /\ files' \in Files /\ files'[gen] = f
      /\ \A g \in Generations : g # gen => files'[g] = files[g]
  BY <1>2, <1>3, FileUpdate
<1>5. names.dest = gen => f = files[gen]
  BY <1>1, AtWork DEF Both
<1> QED
  BY <1>2, <1>4, <1>5 DEF Steady, IInv, Shapes, DiskOK, HasBlock

\* A mark is set, and comes to the disk.
LEMMA MarkStep ==
  ASSUME IInv, UNCHANGED files, NEW mark \in {"open", "sealed"},
         names.dest = gen => mark = "sealed",
         metas' = [metas EXCEPT ![gen].cached = mark]
  PROVE  Steady /\ metas'[gen].cached = mark
<1>1. PICK m : m = [metas[gen] EXCEPT !.cached = mark]
  OBVIOUS
<1>2. m \in [cached : Marks, stable : Marks] /\ m.cached = mark
  BY <1>1, AtWork DEF Marks
<1>3. metas' = [metas EXCEPT ![gen] = m]
  BY <1>1, AtWork DEF IInv, Shapes, DiskOK, Metas
<1>4. /\ metas' \in Metas /\ metas'[gen] = m
      /\ \A g \in Generations : g # gen => metas'[g] = metas[g]
  BY <1>2, <1>3, MetaUpdate
<1>5. names.dest = gen => m = metas[gen]
  BY <1>1, AtWork DEF Both
<1> QED
  BY <1>2, <1>4, <1>5 DEF Steady, IInv, Shapes, DiskOK

\* A sync brings a mark to the disk.
LEMMA MarkFlushStep ==
  ASSUME IInv, UNCHANGED files, metas' = [metas EXCEPT ![gen].stable = metas[gen].cached]
  PROVE  Steady /\ metas'[gen] = Both(metas[gen].cached)
<1>1. PICK m : m = [metas[gen] EXCEPT !.stable = metas[gen].cached]
  OBVIOUS
<1>2. m \in [cached : Marks, stable : Marks] /\ m = Both(metas[gen].cached)
  BY <1>1, AtWork DEF Marks, Both
<1>3. metas' = [metas EXCEPT ![gen] = m]
  BY <1>1, AtWork DEF IInv, Shapes, DiskOK, Metas
<1>4. /\ metas' \in Metas /\ metas'[gen] = m
      /\ \A g \in Generations : g # gen => metas'[g] = metas[g]
  BY <1>2, <1>3, MetaUpdate
<1>5. names.dest = gen => m = metas[gen]
  BY <1>1, AtWork DEF Both
<1> QED
  BY <1>2, <1>4, <1>5 DEF Steady, IInv, Shapes, DiskOK

-----------------------------------------------------------------------------
(***************************************************************************)
(* The actions.                                                            *)
(***************************************************************************)
\* The scheduler hands the job to a session.
LEMMA RunStep == IInv /\ Run => IInv'
<1> SUFFICES ASSUME IInv, Run PROVE IInv'
  OBVIOUS
<1>1. Shapes /\ session = Idle /\ record' = record
  BY DEF IInv, Run
<1>2. budget' \in Budgets /\ budget'.damage = budget.damage
  BY SpendStep DEF Run, IInv, Shapes, DiskOK
<1>3. Quiet /\ Near /\ Steady
  BY <1>1, <1>2, UnchangedQuiet, SameDisk DEF Run
<1>4. PICK pc \in {"start", "open", "attempt"} :
        /\ session' = At(pc)
        /\ pc = "open" => record.job.state = "Verifying"
        /\ pc = "attempt" => record.job.state = "Publishing"
  BY DEF Run, job
<1>5. /\ session' \in Sessions /\ session'.pc = pc /\ session'.handle = session.handle
      /\ DigestOK'
  BY <1>3, <1>4, Shifted DEF Pcs, Ending
<1>6. session'.handle = NoHandle
  BY <1>1, <1>5, IdleFields
<1>7. StateOK' /\ PartOK' /\ ProofOK'
  BY <1>1, <1>4, <1>5, <1>6
     DEF StateOK, PartOK, ProofOK, Making, Writing, Linking, Linked, Ending, Releasing, Dropping,
         job, handle
<1> QED
  BY <1>3, <1>5, <1>7, Carried DEF IInv, Shapes

\* The session loads its record, and takes the arm of its state.
LEMMA StartStep == IInv /\ Start => IInv'
<1> SUFFICES ASSUME IInv, Start PROVE IInv'
  OBVIOUS
<1>1. Shapes /\ Near /\ Steady
  BY SameDisk DEF IInv, Start
<1>2. Quiet /\ session' \in {Idle, At("probe")}
  BY <1>1, QuietStep DEF Start, Command, Ordinary
<1>3. CASE session' = Idle
  BY <1>1, <1>2, <1>3, HaltStep
<1>4. CASE session' = At("probe")
  <2>1. session' \in Sessions /\ session'.pc = "probe" /\ DigestOK'
    BY <1>2, <1>4, Shifted DEF Pcs
  <2>2. StateOK' /\ PartOK' /\ ProofOK'
    BY <2>1 DEF StateOK, PartOK, ProofOK, Making, Writing, Linking, Linked, Ending, Releasing,
                Dropping
  <2> QED
    BY <1>1, <1>2, <2>1, <2>2, Carried DEF IInv, Shapes
<1> QED
  BY <1>2, <1>3, <1>4

\* The probe is answered: the representation is accepted or refused.
LEMMA ProbeStep == IInv /\ Probe => IInv'
<1> SUFFICES ASSUME IInv, Probe PROVE IInv'
  OBVIOUS
<1>1. Shapes /\ Near /\ Steady
  BY SameDisk DEF IInv, Probe
<1>2. PICK c : /\ c.name = "ProbeSucceeded" /\ Step(c, At("open"))
  <2>1. [Command("ProbeSucceeded") EXCEPT !.total = Total, !.validator = gen].name
          = "ProbeSucceeded"
    BY DEF Command
  <2> QED
    BY <2>1 DEF Probe
<1>3. /\ Quiet
      /\ \/ session' = Idle
         \/ session' = At("open") /\ record'.job \in Execute(record.job, c)
  BY <1>1, <1>2, QuietStep DEF Ordinary
<1>4. CASE session' = Idle
  BY <1>1, <1>3, <1>4, HaltStep
<1>5. CASE session' = At("open") /\ record'.job \in Execute(record.job, c)
  <2>1. session' \in Sessions /\ session'.pc = "open" /\ DigestOK'
    BY <1>3, <1>5, Shifted DEF Pcs
  <2>2. record'.job.state = "Transferring"
    BY <1>1, <1>2, <1>5, JobStep DEF Shapes, DiskOK, RowOK, Kept, Ordinary
  <2>3. StateOK' /\ PartOK' /\ ProofOK'
    BY <2>1, <2>2 DEF StateOK, PartOK, ProofOK, Making, Writing, Linking, Linked, Ending,
                      Releasing, Dropping, job
  <2> QED
    BY <1>1, <1>3, <2>1, <2>3, Carried DEF IInv, Shapes
<1> QED
  BY <1>3, <1>4, <1>5

\* All is covered, and the job goes on to verify.
LEMMA TransferDoneStep == IInv /\ TransferDone => IInv'
<1> SUFFICES ASSUME IInv, TransferDone PROVE IInv'
  OBVIOUS
<1>1. Shapes /\ Near /\ Steady
  BY SameDisk DEF IInv, TransferDone
<1>2. Quiet /\ session' \in {Idle, At("drain")}
  BY <1>1, QuietStep DEF TransferDone, Command, Ordinary
<1> QED
  BY <1>1, <1>2, HaltStep

\* A stopping job drains, and its session ends.
LEMMA DrainStep == IInv /\ Drain => IInv'
<1> SUFFICES ASSUME IInv, Drain PROVE IInv'
  OBVIOUS
<1>1. Shapes /\ Near /\ Steady
  BY SameDisk DEF IInv, Drain
<1>2. Quiet /\ session' \in {Idle, At("vsync")}
  BY <1>1, QuietStep DEF Drain, Command, Ordinary
<1>3. CASE session' = Idle
  BY <1>1, <1>2, <1>3, HaltStep
<1>4. CASE session' = At("vsync")
  <2>1. session' \in Sessions /\ session'.pc = "vsync" /\ DigestOK'
    BY <1>2, <1>4, Shifted DEF Pcs, Verifying
  <2>2. StateOK' /\ PartOK' /\ ProofOK'
    BY <2>1 DEF StateOK, PartOK, ProofOK, Making, Writing, Linking, Linked, Ending, Releasing,
                Dropping
  <2> QED
    BY <1>1, <1>2, <2>1, <2>2, Carried DEF IInv, Shapes
<1> QED
  BY <1>2, <1>3, <1>4

\* The verification passed: the job is recorded as publishing.
LEMMA PassedStep == IInv /\ Passed => IInv'
<1> SUFFICES ASSUME IInv, Passed PROVE IInv'
  OBVIOUS
<1>1. Shapes /\ Near /\ Steady
  BY SameDisk DEF IInv, Passed
<1>2. /\ Quiet
      /\ \/ session' = Idle
         \/ session' = At("attempt")
            /\ record'.job \in Execute(record.job, Command("VerificationPassed"))
  BY <1>1, QuietStep DEF Passed, Command, Ordinary
<1>3. CASE session' = Idle
  BY <1>1, <1>2, <1>3, HaltStep
<1>4. CASE session' = At("attempt")
           /\ record'.job \in Execute(record.job, Command("VerificationPassed"))
  <2>1. session' \in Sessions /\ session'.pc = "attempt" /\ DigestOK'
    BY <1>2, <1>4, Shifted DEF Pcs, Ending
  <2>2. record'.job.state = "Publishing"
    BY <1>1, <1>4, JobStep DEF Shapes, DiskOK, RowOK, Kept, Ordinary, Command
  <2>3. files'[gen].stable = files'[gen].cached /\ gen' = gen
    BY <1>2 DEF Passed, UnchangedDisk, IInv, ProofOK, Quiet, gen
  <2>4. StateOK' /\ PartOK' /\ ProofOK'
    BY <2>1, <2>2, <2>3 DEF StateOK, PartOK, ProofOK, Making, Writing, Linking, Linked, Ending,
                            Releasing, Dropping, job
  <2> QED
    BY <1>1, <1>2, <2>1, <2>4, Carried DEF IInv, Shapes
<1> QED
  BY <1>2, <1>3, <1>4

\* The published file is recorded, and the job completes.
LEMMA PublishCommittedStep == IInv /\ PublishCommitted => IInv'
<1> SUFFICES ASSUME IInv, PublishCommitted PROVE IInv'
  OBVIOUS
<1>1. Shapes /\ Near /\ Steady
  BY SameDisk DEF IInv, PublishCommitted
<1>2. /\ Quiet
      /\ \/ session' = Idle
         \/ session' = At("release")
            /\ record'.job \in Execute(record.job, Command("PublishCommitted"))
  BY <1>1, QuietStep DEF PublishCommitted, Command, Ordinary
<1>3. CASE session' = Idle
  BY <1>1, <1>2, <1>3, HaltStep
<1>4. CASE session' = At("release")
           /\ record'.job \in Execute(record.job, Command("PublishCommitted"))
  <2>1. session' \in Sessions /\ session'.pc = "release" /\ DigestOK'
    BY <1>2, <1>4, Shifted DEF Pcs, Releasing
  <2>2. record'.job.state = "Completed"
    BY <1>1, <1>4, JobStep DEF Shapes, DiskOK, RowOK, Kept, Ordinary, Command
  <2>3. names'.dest = gen'
    BY <1>2 DEF PublishCommitted, UnchangedDisk, IInv, ProofOK, Quiet, gen, Linked
  <2>4. StateOK' /\ PartOK' /\ ProofOK'
    BY <2>1, <2>2, <2>3 DEF StateOK, PartOK, ProofOK, Making, Writing, Linking, Linked, Ending,
                            Releasing, Dropping, job
  <2> QED
    BY <1>1, <1>2, <2>1, <2>4, Carried DEF IInv, Shapes
<1> QED
  BY <1>2, <1>3, <1>4

\* A cancelled job is recorded as cleaned up.
LEMMA CleanupStep == IInv /\ Cleanup => IInv'
<1> SUFFICES ASSUME IInv, Cleanup PROVE IInv'
  OBVIOUS
<1>1. Shapes /\ Near /\ Steady
  BY SameDisk DEF IInv, Cleanup
<1>2. Quiet /\ session' = Idle
  BY <1>1, QuietStep DEF Cleanup, Command, Ordinary
<1> QED
  BY <1>1, <1>2, HaltStep

\* A sync of either directory fails, and the session halts.
LEMMA SyncFailsStep == IInv /\ SyncFails => IInv'
BY SameDisk, FailingHalts, HaltStep DEF IInv, SyncFails, Halts

\* The process dies: the session goes, the disk and its cache stay.
LEMMA RestartStep == IInv /\ Restart => IInv'
<1> SUFFICES ASSUME IInv, Restart PROVE IInv'
  OBVIOUS
<1>1. Shapes /\ Near /\ Steady /\ session' = Idle
  BY SameDisk DEF IInv, Restart
<1>2. Quiet
  BY <1>1, SpendStep, UnchangedQuiet DEF Restart, Shapes, DiskOK
<1> QED
  BY <1>1, <1>2, HaltStep

\* At the next start a job that was at work is queued again.
LEMMA RecoverStep == IInv /\ Recover => IInv'
<1> SUFFICES ASSUME IInv, Recover PROVE IInv'
  OBVIOUS
<1>1. Shapes /\ Near /\ Steady
  BY SameDisk DEF IInv, Recover
<1>2. CASE \E c : c.name \in {"Pause", "WorkersDrained"} /\ Step(c, Idle)
  BY <1>1, <1>2, QuietStep, HaltStep DEF Ordinary
<1>3. CASE record.job.state = "Cancelling" /\ session' = At("drop") /\ UNCHANGED <<record, budget>>
  <2>1. Quiet
    BY <1>1, <1>3, UnchangedQuiet DEF Shapes, DiskOK
  <2>2. session' \in Sessions /\ session'.pc = "drop" /\ DigestOK'
    BY <1>3, <2>1, Shifted DEF Pcs, Dropping
  <2>3. StateOK' /\ PartOK' /\ ProofOK'
    BY <1>3, <2>2 DEF StateOK, PartOK, ProofOK, Making, Writing, Linking, Linked, Ending,
                      Releasing, Dropping, job
  <2> QED
    BY <1>1, <2>1, <2>2, <2>3, Carried DEF IInv, Shapes
<1> QED
  BY <1>2, <1>3 DEF Recover, Command, job

\* Until the part is made nothing of it is recorded, nor published.
LEMMA CreatePartStep == IInv /\ CreatePart => IInv'
<1> SUFFICES ASSUME IInv, CreatePart PROVE IInv'
  OBVIOUS
<1>1. CASE Failing("open") /\ UnchangedDisk
  BY <1>1, SameDisk, FailStep DEF IInv
<1>2. CASE /\ Renamed([names EXCEPT !.part = @ \cup {gen}])
           /\ files' = [files EXCEPT ![gen] = Both(None)]
           /\ session' = At("createMeta")
           /\ UNCHANGED <<record, metas, budget>>
  <2>1. record.extents = None /\ session.pc = "open"
    BY DEF CreatePart, Creates
  <2>2. Quiet /\ gen' = gen
    BY <1>2, Still
  <2>3. Reached /\ gen \in names'.part
    <3>1. PICK n : n = [names EXCEPT !.part = @ \cup {gen}]
      OBVIOUS
    <3>2. n \in Entries /\ n.dest = names.dest /\ gen \in n.part
      BY <3>1, AtWork DEF IInv, Shapes, DiskOK, Entries
    <3> QED
      BY <1>2, <3>1, <3>2, RenamedStep DEF IInv
  <2>4. Steady
    <3>1. Both(None) \in [cached : Contents, stable : Contents]
      BY Values DEF Both
    <3> QED
      BY <1>2, <2>1, <3>1, FileUpdate, AtWork, Values DEF Steady, IInv, Shapes, DiskOK
  <2>5. DiskOK' /\ RecordOK' /\ DestOK' /\ KeptOK'
    BY <1>2, <2>1, <2>2, <2>3, <2>4, CarriedBy DEF HoldsAll
  <2>6. session' \in Sessions /\ session'.pc = "createMeta" /\ DigestOK'
    BY <1>2, <2>2, Shifted DEF Pcs, Making
  <2>7. StateOK' /\ PartOK' /\ ProofOK'
    BY <1>2, <2>1, <2>2, <2>3, <2>6
       DEF StateOK, PartOK, ProofOK, Making, Writing, Linking, Linked, Ending, Releasing,
           Dropping, job, IInv
  <2> QED
    BY <2>5, <2>6, <2>7 DEF IInv, Shapes
<1> QED
  BY <1>1, <1>2 DEF CreatePart

\* The sidecar is created beside the part.
LEMMA CreateMetaStep == IInv /\ CreateMeta => IInv'
<1> SUFFICES ASSUME IInv, CreateMeta PROVE IInv'
  OBVIOUS
<1>1. CASE (Failing("createMeta") \/ Blocked("Storage")) /\ UnchangedDisk
  BY <1>1, SameDisk, FailStep DEF IInv
<1>2. CASE /\ Renamed([names EXCEPT !.meta = @ \cup {gen}])
           /\ metas' = [metas EXCEPT ![gen] = Both("blank")]
           /\ session' = At("setLen")
           /\ UNCHANGED <<record, files, budget>>
  <2>1. record.extents = None /\ session.pc = "createMeta" /\ gen \in names.part
    BY DEF CreateMeta, IInv, PartOK, Making
  <2>2. Quiet /\ gen' = gen
    BY <1>2, Still
  <2>3. Reached /\ gen \in names'.part \cap names'.meta
    <3>1. PICK n : n = [names EXCEPT !.meta = @ \cup {gen}]
      OBVIOUS
    <3>2. n \in Entries /\ n.dest = names.dest /\ gen \in n.meta /\ n.part = names.part
      BY <3>1, AtWork DEF IInv, Shapes, DiskOK, Entries
    <3> QED
      BY <1>2, <2>1, <3>1, <3>2, RenamedStep DEF IInv
  <2>4. Steady
    <3>1. Both("blank") \in [cached : Marks, stable : Marks]
      BY DEF Both, Marks
    <3> QED
      BY <1>2, <2>1, <3>1, MetaUpdate, AtWork, Values DEF Steady, IInv, Shapes, DiskOK
  <2>5. DiskOK' /\ RecordOK' /\ DestOK' /\ KeptOK'
    BY <1>2, <2>1, <2>2, <2>3, <2>4, CarriedBy DEF HoldsAll
  <2>6. session' \in Sessions /\ session'.pc = "setLen" /\ DigestOK'
    BY <1>2, <2>2, Shifted DEF Pcs, Making
  <2>7. StateOK' /\ PartOK' /\ ProofOK'
    BY <1>2, <2>1, <2>2, <2>3, <2>6
       DEF StateOK, PartOK, ProofOK, Making, Writing, Linking, Linked, Ending, Releasing,
           Dropping, job, IInv
  <2> QED
    BY <2>5, <2>6, <2>7 DEF IInv, Shapes
<1> QED
  BY <1>1, <1>2 DEF CreateMeta

\* The part gets its length.
LEMMA SetLenStep == IInv /\ SetLen => IInv'
<1> SUFFICES ASSUME IInv, SetLen PROVE IInv'
  OBVIOUS
<1>1. CASE Failing("setLen") /\ UNCHANGED <<files, past>>
  <2>1. UnchangedDisk
    BY <1>1 DEF SetLen, UnchangedDisk
  <2> QED
    BY <1>1, <2>1, SameDisk, FailStep DEF IInv
<1>2. CASE /\ files' = [files EXCEPT ![gen] = Both(Filled(0))]
           /\ SyncFile /\ session' = At("identity")
           /\ UNCHANGED <<record, budget>>
  <2>1. /\ record.extents = None /\ session.pc = "setLen" /\ gen \in names.part \cap names.meta
        /\ names' = names /\ metas' = metas
    BY DEF SetLen, IInv, PartOK, Making
  <2>2. Quiet /\ gen' = gen
    BY <1>2, Still
  <2>3. Near
    BY <1>2, <2>1, SyncFileStep DEF IInv
  <2>4. Steady /\ files'[gen] = Both(Filled(0))
    <3>a. PICK z : z = Filled(0)
      OBVIOUS
    <3>b. z \in Contents
      BY <3>a, Values DEF Contents
    <3>1. Both(Filled(0)) \in [cached : Contents, stable : Contents]
      BY <3>a, <3>b DEF Both
    <3> QED
      BY <1>2, <2>1, <3>1, FileUpdate, AtWork, Values DEF Steady, IInv, Shapes, DiskOK
  <2>5. session' \in Sessions /\ session'.pc = "identity" /\ DigestOK'
    BY <1>2, <2>2, Shifted DEF Pcs, Making
  <2>6. StateOK' /\ PartOK' /\ ProofOK'
    BY <1>2, <2>1, <2>2, <2>4, <2>5
       DEF StateOK, PartOK, ProofOK, Making, Writing, Linking, Linked, Ending, Releasing,
           Dropping, job, IInv
  <2> QED
    BY <2>2, <2>3, <2>4, <2>5, <2>6, Proceeds
<1> QED
  BY <1>1, <1>2 DEF SetLen

\* The sidecar gets the identity of the part.
LEMMA WriteIdentityStep == IInv /\ WriteIdentity => IInv'
<1> SUFFICES ASSUME IInv, WriteIdentity PROVE IInv'
  OBVIOUS
<1>1. /\ record.extents = None /\ session.pc = "identity" /\ gen \in names.part \cap names.meta
      /\ names' = names /\ files' = files /\ past' = past /\ files[gen] = Both(Filled(0))
      /\ record' = record /\ session' = At("syncMeta")
  BY DEF WriteIdentity, IInv, PartOK, Making
<1>2. Quiet /\ gen' = gen
  BY Still DEF WriteIdentity
<1>3. Near
  BY <1>1 DEF IInv, Shapes, DiskOK, Near, Reached
<1>4. Steady
  BY <1>1, MarkStep, AtWork DEF WriteIdentity
<1>5. session' \in Sessions /\ session'.pc = "syncMeta" /\ DigestOK'
  BY <1>1, <1>2, Shifted DEF Pcs, Making
<1>6. StateOK' /\ PartOK' /\ ProofOK'
  BY <1>1, <1>2, <1>5
     DEF StateOK, PartOK, ProofOK, Making, Writing, Linking, Linked, Ending, Releasing,
         Dropping, job, IInv
<1> QED
  BY <1>2, <1>3, <1>4, <1>5, <1>6, Proceeds

\* The part, the sidecar and their directory come to the disk.
LEMMA SyncCreatedStep == IInv /\ SyncCreated => IInv'
<1> SUFFICES ASSUME IInv, SyncCreated PROVE IInv'
  OBVIOUS
<1>1. /\ record.extents = None /\ gen \in names.part \cap names.meta
      /\ names' = names /\ files' = files /\ files[gen] = Both(Filled(0))
      /\ record.job.state \in {"Transferring", "Verifying"} /\ names.dest # gen
  BY AtWork DEF SyncCreated, IInv, PartOK, StateOK, Making, job
<1>2. CASE Failing(session.pc) /\ UNCHANGED <<past, metas>>
  <2>1. UnchangedDisk
    BY <1>1, <1>2 DEF UnchangedDisk
  <2> QED
    BY <1>2, <2>1, SameDisk, FailStep DEF IInv
<1>3. CASE /\ metas' = [metas EXCEPT ![gen].stable = metas[gen].cached]
           /\ SyncFile /\ session' = At("syncCreated")
           /\ UNCHANGED <<record, budget>>
  <2>1. Quiet /\ gen' = gen
    BY <1>3, Still
  <2>2. Near /\ Steady
    BY <1>1, <1>3, SyncFileStep, MarkFlushStep DEF IInv
  <2>3. session' \in Sessions /\ session'.pc = "syncCreated" /\ DigestOK'
    BY <1>3, <2>1, Shifted DEF Pcs, Making
  <2>4. StateOK' /\ PartOK' /\ ProofOK'
    BY <1>1, <1>3, <2>1, <2>3
       DEF StateOK, PartOK, ProofOK, Making, Writing, Linking, Linked, Ending, Releasing,
           Dropping, job
  <2> QED
    BY <2>1, <2>2, <2>3, <2>4, Proceeds
<1>4. CASE /\ SyncParts
           /\ session' = With(AfterOpen[job.state],
                              [NoHandle EXCEPT !.generation = gen, !.synchronized = TRUE])
           /\ UNCHANGED <<record, metas, budget>>
  <2>1. Quiet /\ gen' = gen
    BY <1>4, Still
  <2>2. Near /\ Steady
    BY <1>1, <1>4, SyncPartsStep DEF IInv, Shapes, DiskOK, Steady
  <2>3. PICK pc \in {"transfer", "vsync"} : pc = AfterOpen[job.state]
    BY <1>1 DEF AfterOpen, job
  <2>4. PICK h : h = [NoHandle EXCEPT !.generation = gen, !.synchronized = TRUE]
    OBVIOUS
  <2>5. h \in Handles /\ h.verified = None /\ h.coverage = {}
    <3>1. PICK t \in BOOLEAN : t = TRUE
      OBVIOUS
    <3>2. h = [NoHandle EXCEPT !.generation = gen, !.synchronized = t]
      BY <2>4, <3>1
    <3> QED
      BY <3>2, IdleFields, AtWork DEF Handles
  <2>6. session' \in Sessions /\ session'.pc = pc /\ session'.handle = h
    <3>1. pc \in Pcs
      BY <2>3 DEF Pcs, Writing, Verifying
    <3>2. session' = With(pc, h)
      BY <1>4, <2>3, <2>4
    <3> QED
      BY <2>5, <3>1, <3>2, Elsewhere DEF IInv
  <2>7. DigestOK'
    BY <2>1, <2>5, <2>6, SameDigest
  <2>8. files'[gen].cached \in [Blocks -> Int] /\ DOMAIN record'.extents = {}
    BY <1>1, <1>4, Values, SMTT(40)
  <2>9. StateOK' /\ PartOK' /\ ProofOK'
    BY <1>1, <1>4, <2>1, <2>3, <2>5, <2>6, <2>7, <2>8
       DEF StateOK, PartOK, ProofOK, Making, Writing, Linking, Linked, Ending, Releasing,
           Dropping, handle
  <2> QED
    BY <2>1, <2>2, <2>6, <2>9, Proceeds
<1> QED
  BY <1>2, <1>3, <1>4 DEF SyncCreated

\* A part that is there is opened with what its record covers.
LEMMA OpenPartStep == IInv /\ OpenPart => IInv'
<1> SUFFICES ASSUME IInv, OpenPart PROVE IInv'
  OBVIOUS
<1>1. Near /\ Steady
  BY SameDisk DEF OpenPart, IInv
<1>2. CASE Blocked("Storage") \/ Blocked("Integrity") \/ Failing(session.pc)
  BY <1>1, <1>2, FailStep
<1>3. CASE /\ gen \in names.part \cap names.meta
           /\ Wellformed(gen)
           /\ session' = With(AfterOpen[job.state], Opened(gen)) /\ UNCHANGED <<record, budget>>
  <2>1. Quiet /\ gen' = gen
    BY <1>3, Still
  <2>2. record.job.state \in {"Transferring", "Verifying", "Publishing"}
    BY DEF OpenPart, IInv, StateOK, Ending, job
  <2>3. PICK pc \in {"transfer", "vsync", "rsync"} :
          pc = AfterOpen[job.state] /\ (pc = "rsync" => record.job.state = "Publishing")
    BY <2>2 DEF AfterOpen, job
  <2>4. PICK h : h = Opened(gen)
    OBVIOUS
  <2>5. h \in Handles /\ h.verified = None /\ h.coverage = DOMAIN record.extents
    <3>1. PICK t \in BOOLEAN : t = (metas[gen].cached = "sealed")
      OBVIOUS
    <3>2. PICK D \in SUBSET Blocks : D = DOMAIN record.extents
      BY AtWork
    <3>3. h = [NoHandle EXCEPT !.generation = gen, !.coverage = D, !.protected = D, !.sealed = t]
      BY <2>4, <3>1, <3>2 DEF Opened
    <3> QED
      BY <3>2, <3>3, IdleFields, AtWork DEF Handles
  <2>6. session' \in Sessions /\ session'.pc = pc /\ session'.handle = h
    BY <1>3, <2>3, <2>4, <2>5, Elsewhere DEF IInv, Pcs, Writing, Verifying, Ending
  <2>7. DigestOK'
    BY <2>1, <2>5, <2>6, SameDigest
  <2>8. files'[gen].cached \in [Blocks -> Int]
    BY <1>3, AtWork DEF OpenPart, UnchangedDisk, Wellformed, Contents
  <2>9. StateOK' /\ PartOK' /\ ProofOK'
    BY <1>3, <2>1, <2>3, <2>5, <2>6, <2>7, <2>8
       DEF StateOK, PartOK, ProofOK, Making, Writing, Linking, Linked, Ending, Releasing,
           Dropping, handle, job, OpenPart, UnchangedDisk
  <2> QED
    BY <1>1, <2>1, <2>6, <2>9, Proceeds
<1> QED
  BY <1>2, <1>3 DEF OpenPart

\* No block of a published inode is written: its record covers them all.
LEMMA WriteAtStep ==
  ASSUME IInv, NEW b \in Blocks, WriteAt(b)
  PROVE  IInv'
<1>1. /\ session.pc = "transfer" /\ b \notin session.handle.coverage
      /\ names' = names /\ past' = past /\ metas' = metas
      /\ gen \in names.part \cap names.meta
      /\ files[gen].cached \in [Blocks -> Int]
      /\ DOMAIN record.extents \subseteq session.handle.coverage
      /\ \A d \in session.handle.coverage \ DOMAIN record.extents : files[gen].cached[d] = gen
  BY DEF WriteAt, handle, IInv, PartOK, Writing
<1>2. names.dest # gen /\ b \notin DOMAIN record.extents
  BY <1>1, AtWork
<1>3. Near
  BY <1>1 DEF IInv, Shapes, DiskOK, Near, Reached
<1>4. ASSUME NEW c \in Int, files' = [files EXCEPT ![gen].cached[b] = c]
      PROVE  /\ Steady /\ files'[gen].cached \in [Blocks -> Int]
             /\ files'[gen].cached[b] = c
             /\ \A d \in Blocks : d # b => files'[gen].cached[d] = files[gen].cached[d]
  <2>1. PICK x : x = [files[gen].cached EXCEPT ![b] = c]
    OBVIOUS
  <2>2. /\ x \in [Blocks -> Int] /\ x[b] = c
        /\ \A d \in Blocks : d # b => x[d] = files[gen].cached[d]
    BY <1>1, <2>1
  <2>3. PICK f : f = [files[gen] EXCEPT !.cached = x]
    OBVIOUS
  <2>4. /\ f \in [cached : Contents, stable : Contents]
        /\ f.cached = x /\ f.stable = files[gen].stable
    <3>1. x \in Contents
      BY <2>2 DEF Contents
    <3> QED
      BY <2>3, <3>1, AtWork
  <2>5. files' = [files EXCEPT ![gen] = f]
    BY <1>4, <2>1, <2>3
  <2>6. /\ files' \in Files /\ files'[gen] = f
        /\ \A g \in Generations : g # gen => files'[g] = files[g]
    BY <2>4, <2>5, FileUpdate
  <2>7. \A d \in DOMAIN record.extents : f.cached[d] = files[gen].cached[d]
    BY <1>2, <2>2, <2>4, AtWork
  <2>8. \A d \in DOMAIN record.extents : d \in DOMAIN f.cached
    BY <2>2, <2>4, AtWork
  <2>9. Steady
    BY <1>1, <1>2, <2>4, <2>6, <2>7, <2>8 DEF Steady, IInv, Shapes, DiskOK, HasBlock
  <2> QED
    BY <2>2, <2>4, <2>6, <2>9
<1>5. CASE /\ files' = [files EXCEPT ![gen].cached[b] = gen]
           /\ session' = With("transfer", [handle EXCEPT !.coverage = @ \cup {b},
                                             !.synchronized = FALSE, !.verified = None])
           /\ UNCHANGED <<record, budget>>
  <2>1. Quiet /\ gen' = gen
    BY <1>5, Still
  <2>2. /\ Steady /\ files'[gen].cached \in [Blocks -> Int] /\ files'[gen].cached[b] = gen
        /\ \A d \in Blocks : d # b => files'[gen].cached[d] = files[gen].cached[d]
    BY <1>4, <1>5, AtWork
  <2>3. PICK h : h = [session.handle EXCEPT !.coverage = @ \cup {b},
                                            !.synchronized = FALSE, !.verified = None]
    OBVIOUS
  <2>4. /\ h \in Handles /\ h.verified = None
        /\ h.coverage = session.handle.coverage \cup {b}
    <3>1. PICK t \in BOOLEAN : t = FALSE
      OBVIOUS
    <3>2. PICK n \in Contents : n = None
      BY Values
    <3>3. PICK C \in SUBSET Blocks : C = session.handle.coverage \cup {b}
      BY AtWork DEF Handles
    <3>4. h = [session.handle EXCEPT !.coverage = C, !.synchronized = t, !.verified = n]
      BY <2>3, <3>1, <3>2, <3>3
    <3>5. h \in Handles /\ h.verified = n /\ h.coverage = C
      BY <3>4, AtWork DEF Handles
    <3> QED
      BY <3>2, <3>3, <3>5
  <2>5. session' \in Sessions /\ session'.pc = "transfer" /\ session'.handle = h
    BY <1>5, <2>3, <2>4, Elsewhere DEF IInv, Pcs, Writing, handle
  <2>6. DigestOK'
    BY <2>1, <2>4, <2>5, SameDigest
  <2>7. \A d \in h.coverage \ DOMAIN record.extents : files'[gen].cached[d] = gen
    BY <1>1, <2>2, <2>4 DEF Handles
  <2>8. StateOK' /\ PartOK' /\ ProofOK'
    BY <1>1, <1>5, <2>1, <2>2, <2>4, <2>5, <2>6, <2>7
       DEF StateOK, PartOK, ProofOK, Making, Writing, Linking, Linked, Ending, Releasing,
           Dropping, handle
  <2> QED
    BY <1>3, <2>1, <2>2, <2>5, <2>8, Proceeds
<1>6. CASE /\ Spend("faults")
           /\ files' \in {[files EXCEPT ![gen].cached[b] = c] : c \in {0, -1, gen}}
           /\ \E k \in Execute(job, Because("Storage")) : record' = Recorded(k)
           /\ session' = At("drain")
  <2>1. Quiet
    BY <1>6, RefusedQuiet DEF IInv, job
  <2>2. Steady
    BY <1>4, <1>6, AtWork
  <2> QED
    BY <1>3, <1>6, <2>1, <2>2, HaltStep
<1> QED
  BY <1>5, <1>6 DEF WriteAt

\* A handle that was flushed.
LEMMA FlushedHandle ==
  ASSUME IInv, NEW pc \in Pcs
  PROVE  /\ Flushed(pc) \in Sessions /\ Flushed(pc).pc = pc
         /\ Flushed(pc).handle.verified = session.handle.verified
         /\ Flushed(pc).handle.coverage = session.handle.coverage
<1>1. PICK t \in BOOLEAN : t = TRUE
  OBVIOUS
<1>2. PICK h : h = [session.handle EXCEPT !.synchronized = t]
  OBVIOUS
<1>3. h \in Handles /\ h.verified = session.handle.verified
      /\ h.coverage = session.handle.coverage
  BY <1>2, AtWork DEF Handles
<1>4. Flushed(pc) = With(pc, h)
  BY <1>1, <1>2 DEF Flushed, handle
<1> QED
  BY <1>3, <1>4, Elsewhere DEF IInv

\* A checkpoint flushes the part before its extents are recorded.
LEMMA CheckpointStep == IInv /\ Checkpoint => IInv'
<1> SUFFICES ASSUME IInv, Checkpoint PROVE IInv'
  OBVIOUS
<1>1. Quiet /\ gen' = gen /\ record' = record /\ names' = names
  BY Still DEF Checkpoint
<1>2. Near /\ (Journalled => past' = {names})
  BY SyncFileStep DEF Checkpoint, IInv, SyncFile
<1>3. /\ Steady
      /\ files'[gen].cached = files[gen].cached /\ files'[gen].stable = files[gen].cached
  BY FlushStep DEF Checkpoint
<1>4. /\ session' \in Sessions /\ session'.pc = "commit"
      /\ session'.handle.verified = session.handle.verified
      /\ session'.handle.coverage = session.handle.coverage
  BY FlushedHandle DEF Checkpoint, Pcs, Writing
<1>5. DigestOK'
  BY <1>1, <1>4, SameDigest
<1>6. StateOK' /\ PartOK' /\ ProofOK'
  BY <1>1, <1>2, <1>3, <1>4, <1>5
     DEF StateOK, PartOK, ProofOK, Making, Writing, Linking, Linked, Ending, Releasing,
         Dropping, handle, Checkpoint, IInv
<1> QED
  BY <1>1, <1>2, <1>3, <1>4, <1>6, Proceeds

\* The blocks that are recorded are on the disk, under names that are there too.
LEMMA CommitExtentsStep == IInv /\ CommitExtents => IInv'
<1> SUFFICES ASSUME IInv, CommitExtents PROVE IInv'
  OBVIOUS
<1>1. Near /\ Steady
  BY SameDisk DEF CommitExtents, IInv
<1>2. CASE GiveUp({record})
  BY <1>1, <1>2, FailStep
<1> DEFINE E == [b \in session.handle.coverage |-> IF b \in DOMAIN record.extents
                                          THEN record.extents[b] ELSE files[gen].cached[b]]
           M == Restored(Total, session.handle.coverage)
           U == [record EXCEPT !.extents = E, !.job.segments = M]
<1>3. CASE /\ record' = U
           /\ \/ session' = At("transfer") /\ UNCHANGED budget
              \/ Spend("faults") /\ session' = Idle
  <2> DEFINE C == session.handle.coverage
  <2>1. /\ session.pc = "commit" /\ C \subseteq Blocks
        /\ gen \in names.part \cap names.meta
        /\ files[gen].cached \in [Blocks -> Int]
        /\ DOMAIN record.extents \subseteq C
        /\ \A b \in C \ DOMAIN record.extents : files[gen].cached[b] = gen
        /\ files[gen].stable = files[gen].cached
        /\ Journalled => \A s \in past : gen \in s.part \cap s.meta
    BY AtWork DEF CommitExtents, handle, IInv, PartOK, Writing, Handles
  <2>2. E = [b \in C |-> gen]
    <3>1. ASSUME NEW b \in C PROVE E[b] = gen
      BY <3>1, <2>1 DEF IInv, RecordOK
    <3> QED
      BY <3>1
  <2>3. PICK m, k, e : /\ m = M /\ k = [record.job EXCEPT !.segments = m]
                       /\ e = [b \in C |-> gen]
    OBVIOUS
  <2>4. record' = [record EXCEPT !.extents = e, !.job = k]
    BY <1>3, <2>2, <2>3
  <2>5. JobOK(k) /\ k.generation = record.job.generation /\ k.state = record.job.state
    <3>1. k = After(record.job, record.job.state, record.job.reason, record.job.retry_at,
                    record.job.stop, record.job.attempts, record.job.validator, m)
      BY <2>3, Zenon DEF After, JobOK, IInv, Shapes, DiskOK, RowOK
    <3>2. JobOK(record.job)
      BY DEF IInv, Shapes, DiskOK, RowOK
    <3>3. /\ record.job.state \in States
          /\ IF record.job.state = "Stopping" THEN record.job.stop.kind \in DOMAIN Rank
             ELSE record.job.stop.kind = "None"
      BY <3>2, JobFields
    <3> HIDE DEF E, M, U, C
    <3> QED
      BY <3>1, <3>2, <3>3, JobFrom
  <2>6. /\ record'.job = k /\ record'.extents = e /\ record'.intent = record.intent
        /\ record'.expected = record.expected
        /\ record' \in [job : {record'.job}, extents : {record'.extents},
                        intent : {record'.intent}, expected : {record'.expected}]
    BY <2>4 DEF IInv, Shapes, DiskOK, RowOK
  <2>7. gen' = gen /\ job'.state = job.state
    BY <2>5, <2>6 DEF gen, job
  <2>8. budget' \in Budgets /\ budget'.damage = budget.damage
    BY <1>3, SpendStep DEF IInv, Shapes, DiskOK
  <2>9. DiskOK'
    BY <2>5, <2>6, <2>8 DEF IInv, Shapes, DiskOK, RowOK, CommitExtents, UnchangedDisk
  <2>10. RecordOK'
    BY <2>1, <2>3, <2>6, <2>7 DEF IInv, RecordOK
  <2>11. DestOK'
    <3>1. ASSUME names.dest \in Generations PROVE Proven(names.dest)'
      <4>1. Proven(names.dest)
        BY <3>1 DEF IInv, DestOK
      <4>2. names.dest = gen => C = Blocks
        BY <4>1, <2>1 DEF Proven, Recorded100
      <4> QED
        BY <4>1, <4>2, <2>3, <2>6, <2>7 DEF Proven, Recorded100, CommitExtents, UnchangedDisk
    <3> QED
      BY <3>1 DEF IInv, DestOK, CommitExtents, UnchangedDisk, Proven
  <2>12. KeptOK'
    <3>1. ASSUME budget.damage = MaxDamage, NEW b \in C
          PROVE  files[gen].cached[b] = gen /\ files[gen].stable[b] = gen
      BY <3>1, <2>1 DEF IInv, KeptOK
    <3>2. HoldsAll'
      BY <2>1, <2>7 DEF HoldsAll, Holds, CommitExtents, UnchangedDisk
    <3>3. files' = files
      BY DEF CommitExtents, UnchangedDisk
    <3>4. \A b \in C : HasBlock(files[gen], b)
      BY <2>1 DEF HasBlock
    <3> QED
      BY <3>1, <3>2, <3>3, <3>4, <2>3, <2>6, <2>7, <2>8 DEF KeptOK, HasBlock
  <2>13. /\ session' \in Sessions /\ session'.pc \in {"transfer", "idle"}
         /\ session'.handle \in {NoHandle, session.handle}
         /\ session'.pc = "transfer" => session'.handle = session.handle
    <3>1. "transfer" \in Pcs
      BY DEF Pcs, Writing
    <3> QED
      BY <1>3, <3>1, Elsewhere, IdleFields DEF IInv
  <2>14. DigestOK'
    <3>1. Recorded100 => C = Blocks
      BY <2>1 DEF Recorded100
    <3> QED
      BY <3>1, <2>3, <2>6, <2>7, <2>13, IdleFields
         DEF IInv, ProofOK, DigestOK, Allowed, Recorded100, handle
  <2>15. StateOK' /\ PartOK' /\ ProofOK'
    BY <2>1, <2>3, <2>6, <2>7, <2>13, <2>14
       DEF StateOK, PartOK, ProofOK, Making, Writing, Linking, Linked, Ending, Releasing,
           Dropping, handle, CommitExtents, UnchangedDisk
  <2> QED
    BY <2>9, <2>10, <2>11, <2>12, <2>13, <2>15 DEF IInv, Shapes
<1> QED
  BY <1>2, <1>3 DEF CommitExtents, GiveUp, handle

\* The whole part is flushed before it is verified.
LEMMA SyncStep == IInv /\ Sync => IInv'
<1> SUFFICES ASSUME IInv, Sync PROVE IInv'
  OBVIOUS
<1>1. Quiet /\ gen' = gen /\ record' = record /\ names' = names
  BY Still DEF Sync
<1>2. Near
  BY SyncFileStep DEF Sync, IInv
<1>3. /\ Steady
      /\ files'[gen].cached = files[gen].cached /\ files'[gen].stable = files[gen].cached
  BY FlushStep DEF Sync
<1>4. PICK pc \in {"verify", "rverify"} :
        session' = Flushed(pc) /\ (pc = "rverify" => session.pc = "rsync")
  BY DEF Sync
<1>5. /\ session' \in Sessions /\ session'.pc = pc
      /\ session'.handle.verified = session.handle.verified
  BY <1>4, FlushedHandle DEF Pcs, Verifying, Ending
<1>6. DigestOK'
  BY <1>1, <1>5, SameDigest
<1>7. pc = "rverify" => record'.job.state = "Publishing"
  BY <1>1, <1>4 DEF IInv, StateOK, Ending, job
<1>8. StateOK' /\ PartOK' /\ ProofOK'
  BY <1>1, <1>3, <1>4, <1>5, <1>6, <1>7
     DEF StateOK, PartOK, ProofOK, Making, Writing, Linking, Linked, Ending, Releasing,
         Dropping, job
<1> QED
  BY <1>1, <1>2, <1>3, <1>5, <1>8, Proceeds

\* A file that agrees with the record is the whole representation, and the one asked for.
LEMMA Matching ==
  ASSUME IInv, Matches(gen)
  PROVE  files[gen].cached = Filled(gen) /\ Allowed /\ Recorded100
<1>1. DOMAIN record.extents = Blocks /\ 0 \in Blocks
  BY Values DEF Matches
<1>2. \A b \in Blocks : b \in DOMAIN files[gen].cached /\ files[gen].cached[b] = gen
  BY <1>1 DEF Matches, Proved, IInv, RecordOK
<1>3. files[gen].cached \in [Blocks -> Int]
  BY <1>1, <1>2, AtWork, Values DEF Contents
<1>4. files[gen].cached = Filled(gen)
  BY <1>2, <1>3 DEF Filled
<1>5. record.expected = 0 \/ record.expected = gen
  BY <1>1, <1>2 DEF Matches
<1> QED
  BY <1>1, <1>4, <1>5 DEF Allowed, Recorded100

\* A verified part has the digest of the whole representation.
LEMMA VerifyStep == IInv /\ Verify => IInv'
<1> SUFFICES ASSUME IInv, Verify PROVE IInv'
  OBVIOUS
<1>1. Near /\ Steady
  BY SameDisk DEF Verify, IInv
<1>2. CASE \/ Blocked("Storage") \/ Blocked("Integrity") \/ Failing(session.pc)
           \/ GiveUp({record})
  BY <1>1, <1>2, FailStep
<1>3. CASE /\ Matches(gen)
           /\ session' = With(IF session.pc = "verify" THEN "intent" ELSE "publish",
                              [handle EXCEPT !.verified = files[gen].cached])
           /\ UNCHANGED <<record, budget>>
  <2>1. Quiet /\ gen' = gen
    BY <1>3, Still
  <2>2. files[gen].cached = Filled(gen) /\ Allowed /\ Recorded100
    BY <1>3, Matching
  <2>3. PICK h : h = [session.handle EXCEPT !.verified = files[gen].cached]
    OBVIOUS
  <2>4. h \in Handles /\ h.verified = Filled(gen)
    <3>1. PICK x \in Contents : x = files[gen].cached
      BY AtWork
    <3>2. h = [session.handle EXCEPT !.verified = x]
      BY <2>3, <3>1
    <3>3. h \in Handles /\ h.verified = x
      BY <3>2, AtWork DEF Handles
    <3> QED
      BY <3>1, <3>3, <2>2
  <2>5. PICK pc \in {"intent", "publish"} :
          /\ session' = With(pc, h)
          /\ pc = "publish" => session.pc = "rverify"
    BY <1>3, <2>3 DEF Verify, handle
  <2>6. session' \in Sessions /\ session'.pc = pc /\ session'.handle = h
    BY <2>4, <2>5, Elsewhere DEF IInv, Pcs, Verifying, Ending
  <2>7. DigestOK'
    BY <1>3, <2>1, <2>2, <2>4, <2>6 DEF DigestOK, handle, Allowed, Recorded100
  <2>8. files'[gen].stable = files'[gen].cached
    BY DEF Verify, UnchangedDisk, IInv, ProofOK
  <2>9. pc = "publish" => record'.job.state = "Publishing"
    BY <1>3, <2>5 DEF IInv, StateOK, Ending, job
  <2>10. h.verified # None
    BY <2>4, AtWork, Values
  <2>11. StateOK' /\ PartOK' /\ ProofOK'
    BY <2>1, <2>5, <2>6, <2>7, <2>8, <2>9, <2>10
       DEF StateOK, PartOK, ProofOK, Making, Writing, Linking, Linked, Ending, Releasing,
           Dropping, job, handle
  <2> QED
    BY <1>1, <2>1, <2>6, <2>11, Proceeds
<1> QED
  BY <1>2, <1>3 DEF Verify

\* The digest becomes the intent of the record.
LEMMA RecordIntentStep == IInv /\ RecordIntent => IInv'
<1> SUFFICES ASSUME IInv, RecordIntent PROVE IInv'
  OBVIOUS
<1>1. Near /\ Steady
  BY SameDisk DEF RecordIntent, IInv
<1>2. CASE GiveUp({record})
  BY <1>1, <1>2, FailStep
<1>3. CASE /\ record' = [record EXCEPT !.intent = [generation |-> gen,
                                                   digest |-> session.handle.verified]]
           /\ \/ session' = At("passed") /\ UNCHANGED budget
              \/ Spend("faults") /\ session' = Idle
  <2>a. PICK i : i = [generation |-> gen, digest |-> session.handle.verified]
    OBVIOUS
  <2>1. /\ i = [generation |-> gen, digest |-> session.handle.verified]
        /\ i.generation = gen /\ i.digest = session.handle.verified
    BY <2>a
  <2>2. /\ record'.job = record.job /\ record'.extents = record.extents /\ record'.intent = i
        /\ record'.expected = record.expected
        /\ record' \in [job : {record'.job}, extents : {record'.extents},
                        intent : {record'.intent}, expected : {record'.expected}]
    BY <1>3, <2>1 DEF IInv, Shapes, DiskOK, RowOK
  <2>3. gen' = gen /\ job' = job
    BY <2>2 DEF gen, job
  <2>4. budget' \in Budgets /\ budget'.damage = budget.damage
    BY <1>3, SpendStep DEF IInv, Shapes, DiskOK
  <2>5. DiskOK'
    BY <2>2, <2>4 DEF IInv, Shapes, DiskOK, RowOK, RecordIntent, UnchangedDisk
  <2>6. RecordOK'
    <3>1. session.handle.verified = Filled(gen)
      BY DEF RecordIntent, IInv, ProofOK, DigestOK, handle
    <3> QED
      BY <3>1, <2>1, <2>2, <2>3 DEF IInv, RecordOK
  <2>7. DestOK'
    <3>1. ASSUME names.dest \in Generations PROVE Proven(names.dest)'
      BY <3>1, <2>2, <2>3
         DEF IInv, DestOK, Proven, Recorded100, RecordIntent, UnchangedDisk
    <3> QED
      BY <3>1 DEF IInv, DestOK, RecordIntent, UnchangedDisk, Proven
  <2>8. KeptOK'
    BY <2>2, <2>3, <2>4 DEF IInv, KeptOK, HoldsAll, Holds, HasBlock, RecordIntent, UnchangedDisk
  <2>9. /\ session' \in Sessions /\ session'.pc \in {"passed", "idle"}
        /\ session'.handle \in {NoHandle, session.handle}
    <3>1. "passed" \in Pcs
      BY DEF Pcs, Verifying
    <3> QED
      BY <1>3, <3>1, Elsewhere, IdleFields DEF IInv
  <2>10. DigestOK'
    BY <2>2, <2>3, <2>9, IdleFields
       DEF IInv, ProofOK, DigestOK, Allowed, Recorded100, handle
  <2>11. files'[gen].stable = files'[gen].cached
    BY DEF RecordIntent, UnchangedDisk, IInv, ProofOK
  <2>12. StateOK' /\ PartOK' /\ ProofOK'
    BY <2>3, <2>9, <2>10, <2>11
       DEF StateOK, PartOK, ProofOK, Making, Writing, Linking, Linked, Ending, Releasing,
           Dropping, handle
  <2> QED
    BY <2>5, <2>6, <2>7, <2>8, <2>9, <2>12 DEF IInv, Shapes
<1> QED
  BY <1>2, <1>3 DEF RecordIntent, GiveUp, handle

\* What has the digest of the intent is the file that was linked.
LEMMA OursIsGen ==
  ASSUME IInv, record.intent.generation = gen, Ours
  PROVE  names.dest = gen
<1>1. record.intent.digest = Filled(gen)
  BY DEF IInv, RecordOK
<1>2. files[names.dest].cached = Filled(names.dest)
  BY Values DEF IInv, DestOK, Proven, Ours
<1>3. names.dest \in Int /\ gen \in Int
  BY AtWork, Values DEF Ours
<1> QED
  BY <1>1, <1>2, <1>3, Values DEF Ours

\* A session with an intent looks for its file at the destination first.
LEMMA AttemptStep == IInv /\ Attempt => IInv'
<1> SUFFICES ASSUME IInv, Attempt PROVE IInv'
  OBVIOUS
<1>1. Near /\ Steady
  BY SameDisk DEF Attempt, IInv
<1>2. CASE Blocked("Storage") \/ Blocked("Destination") \/ GiveUp({record})
  BY <1>1, <1>2, FailStep
<1>3. CASE /\ record.intent.generation = gen
           /\ \/ session' = At("reopen")
              \/ session.handle # NoHandle /\ session' = At("publish")
              \/ Ours /\ session' = At("committed")
           /\ UNCHANGED <<record, budget>>
  <2>1. Quiet /\ gen' = gen
    BY <1>3, Still
  <2>2. PICK pc \in {"reopen", "publish", "committed"} :
          /\ session' = At(pc)
          /\ pc = "publish" => session.handle # NoHandle
          /\ pc = "committed" => Ours
    BY <1>3
  <2>3. session' \in Sessions /\ session'.pc = pc /\ DigestOK'
    BY <2>1, <2>2, Shifted DEF Pcs, Ending, Linked
  <2>4. record'.job.state = "Publishing"
    BY <1>3 DEF Attempt, IInv, StateOK, Ending, job
  <2>5. pc = "publish" => files'[gen].stable = files'[gen].cached
    BY <2>2 DEF Attempt, UnchangedDisk, IInv, ProofOK, handle
  <2>6. pc = "committed" => names'.dest = gen
    BY <1>3, <2>2, OursIsGen DEF Attempt, UnchangedDisk
  <2>7. StateOK' /\ PartOK' /\ ProofOK'
    BY <2>1, <2>2, <2>3, <2>4, <2>5, <2>6
       DEF StateOK, PartOK, ProofOK, Making, Writing, Linking, Linked, Ending, Releasing,
           Dropping, job
  <2> QED
    BY <1>1, <2>1, <2>3, <2>7, Proceeds
<1> QED
  BY <1>2, <1>3 DEF Attempt, handle

\* A handle that verified may publish.
LEMMA PublishStep == IInv /\ Publish => IInv'
<1> SUFFICES ASSUME IInv, Publish PROVE IInv'
  OBVIOUS
<1>1. Near /\ Steady
  BY SameDisk DEF Publish, IInv
<1>2. CASE Blocked("Storage") \/ Blocked("Destination") \/ Failing("publish")
  BY <1>1, <1>2, FailStep
<1>3. CASE session.handle.verified # None /\ session' = At("seal") /\ UNCHANGED <<record, budget>>
  <2>1. Quiet /\ gen' = gen
    BY <1>3, Still
  <2>2. /\ session' \in Sessions /\ session'.pc = "seal" /\ session'.handle = session.handle
        /\ DigestOK'
    BY <1>3, <2>1, Shifted DEF Pcs, Ending, Linking
  <2>3. record'.job.state = "Publishing"
    BY <1>3 DEF Publish, IInv, StateOK, Ending, job
  <2>4. files'[gen].stable = files'[gen].cached
    BY DEF Publish, UnchangedDisk, IInv, ProofOK
  <2>5. StateOK' /\ PartOK' /\ ProofOK'
    BY <1>3, <2>1, <2>2, <2>3, <2>4
       DEF StateOK, PartOK, ProofOK, Making, Writing, Linking, Linked, Ending, Releasing,
           Dropping, job, handle
  <2> QED
    BY <1>1, <2>1, <2>2, <2>5, Proceeds
<1> QED
  BY <1>2, <1>3 DEF Publish, handle

\* The sidecar is sealed.
LEMMA SealStep == IInv /\ Seal => IInv'
<1> SUFFICES ASSUME IInv, Seal PROVE IInv'
  OBVIOUS
<1>1. /\ Quiet /\ gen' = gen /\ record' = record /\ names' = names /\ past' = past
      /\ files' = files
  BY Still DEF Seal
<1>2. Near
  BY <1>1 DEF IInv, Shapes, DiskOK, Near, Reached
<1>3. Steady /\ metas'[gen].cached = "sealed"
  BY <1>1, MarkStep DEF Seal
<1>4. /\ session' \in Sessions /\ session'.pc = "sealSync" /\ session'.handle = session.handle
      /\ DigestOK'
  BY <1>1, Shifted DEF Seal, Pcs, Ending, Linking
<1>5. StateOK' /\ PartOK' /\ ProofOK'
  BY <1>1, <1>3, <1>4
     DEF StateOK, PartOK, ProofOK, Making, Writing, Linking, Linked, Ending, Releasing,
         Dropping, job, handle, Seal, IInv
<1> QED
  BY <1>1, <1>2, <1>3, <1>4, <1>5, Proceeds

\* The seal comes to the disk.
LEMMA SealSyncStep == IInv /\ SealSync => IInv'
<1> SUFFICES ASSUME IInv, SealSync PROVE IInv'
  OBVIOUS
<1>1. CASE Failing("sealSync") /\ UNCHANGED <<metas, past>>
  <2>1. UnchangedDisk
    BY <1>1 DEF SealSync, UnchangedDisk
  <2> QED
    BY <1>1, <2>1, SameDisk, FailStep DEF IInv
<1>2. CASE /\ metas' = [metas EXCEPT ![gen].stable = metas[gen].cached]
           /\ SyncFile
           /\ session' = With("stage", [handle EXCEPT !.sealed = TRUE])
           /\ UNCHANGED <<record, budget>>
  <2>1. Quiet /\ gen' = gen /\ record' = record /\ names' = names /\ files' = files
    BY <1>2, Still DEF SealSync
  <2>2. Near
    BY <1>2, <2>1, SyncFileStep DEF IInv
  <2>3. Steady /\ metas'[gen] = Both("sealed")
    BY <1>2, <2>1, MarkFlushStep DEF SealSync, IInv, ProofOK
  <2>4. PICK h : h = [session.handle EXCEPT !.sealed = TRUE]
    OBVIOUS
  <2>5. h \in Handles /\ h.verified = session.handle.verified
    <3>1. PICK t \in BOOLEAN : t = TRUE
      OBVIOUS
    <3>2. h = [session.handle EXCEPT !.sealed = t]
      BY <2>4, <3>1
    <3> QED
      BY <3>2, AtWork DEF Handles
  <2>6. session' \in Sessions /\ session'.pc = "stage" /\ session'.handle = h
    BY <1>2, <2>4, <2>5, Elsewhere DEF IInv, Pcs, Ending, Linking, handle
  <2>7. DigestOK'
    BY <2>1, <2>5, <2>6, SameDigest
  <2>8. StateOK' /\ PartOK' /\ ProofOK'
    BY <2>1, <2>3, <2>5, <2>6, <2>7
       DEF StateOK, PartOK, ProofOK, Making, Writing, Linking, Linked, Ending, Releasing,
           Dropping, job, handle, SealSync, IInv
  <2> QED
    BY <2>1, <2>2, <2>3, <2>6, <2>8, Proceeds
<1> QED
  BY <1>1, <1>2 DEF SealSync

\* The part is linked under a staged name.
LEMMA StageStep == IInv /\ Stage => IInv'
<1> SUFFICES ASSUME IInv, Stage PROVE IInv'
  OBVIOUS
<1>1. Steady /\ files' = files /\ metas' = metas /\ session.pc = "stage"
  BY DEF Stage, Steady, IInv, Shapes, DiskOK
<1>2. CASE Failing("stage") /\ Renamed([names EXCEPT !.staged = @ \ {gen}])
  <2>1. Near
    BY <1>2, UnstagedStep DEF Unstaged
  <2> QED
    BY <1>1, <1>2, <2>1, FailStep
<1>3. CASE /\ Renamed([names EXCEPT !.staged = @ \cup {gen}])
           /\ session' = At("prove")
           /\ UNCHANGED <<record, budget>>
  <2>1. Quiet /\ gen' = gen /\ record' = record
    BY <1>3, Still
  <2>2. Near
    <3>1. names.staged \cup {gen} \in SUBSET Int
      BY AtWork DEF IInv, Shapes, DiskOK, Entries
    <3> QED
      BY <1>3, <3>1, StagedStep DEF IInv
  <2>3. /\ session' \in Sessions /\ session'.pc = "prove" /\ session'.handle = session.handle
        /\ DigestOK'
    BY <1>3, <2>1, Shifted DEF Pcs, Ending, Linking
  <2>4. StateOK' /\ PartOK' /\ ProofOK'
    BY <1>1, <2>1, <2>3
       DEF StateOK, PartOK, ProofOK, Making, Writing, Linking, Linked, Ending, Releasing,
           Dropping, job, handle, IInv
  <2> QED
    BY <1>1, <2>1, <2>2, <2>3, <2>4, Proceeds
<1> QED
  BY <1>2, <1>3 DEF Stage

\* What the staged name shows is proved to be the part.
LEMMA ProveStep == IInv /\ Prove => IInv'
<1> SUFFICES ASSUME IInv, Prove PROVE IInv'
  OBVIOUS
<1>1. Steady /\ files' = files /\ metas' = metas /\ session.pc = "prove"
  BY DEF Prove, Steady, IInv, Shapes, DiskOK
<1>2. CASE (Failing("prove") \/ Blocked("Storage")) /\ Renamed(Unstaged)
  BY <1>1, <1>2, UnstagedStep, FailStep
<1>3. CASE /\ files[gen].cached = handle.verified
           /\ session' = At("link")
           /\ UNCHANGED <<record, names, past, budget>>
  <2>1. Quiet /\ gen' = gen /\ record' = record
    BY <1>3, Still
  <2>2. Near
    BY <1>3 DEF Near, Reached, IInv, Shapes, DiskOK
  <2>3. /\ session' \in Sessions /\ session'.pc = "link" /\ session'.handle = session.handle
        /\ DigestOK'
    BY <1>3, <2>1, Shifted DEF Pcs, Ending, Linking
  <2>4. StateOK' /\ PartOK' /\ ProofOK'
    BY <1>1, <1>3, <2>1, <2>3
       DEF StateOK, PartOK, ProofOK, Making, Writing, Linking, Linked, Ending, Releasing,
           Dropping, job, handle, IInv
  <2> QED
    BY <1>1, <2>1, <2>2, <2>3, <2>4, Proceeds
<1> QED
  BY <1>2, <1>3 DEF Prove

\* The link shows an inode that was proved and sealed.
LEMMA LinkStep == IInv /\ Link => IInv'
<1> SUFFICES ASSUME IInv, Link PROVE IInv'
  OBVIOUS
<1>1. Steady /\ files' = files /\ metas' = metas /\ session.pc = "link"
  BY DEF Link, Steady, IInv, Shapes, DiskOK
<1>2. CASE (Failing("link") \/ Blocked("Destination")) /\ Renamed(Unstaged)
  BY <1>1, <1>2, UnstagedStep, FailStep
<1>3. CASE /\ names.dest = Free
           /\ Renamed([names EXCEPT !.dest = gen])
           /\ session' = At("unstage")
           /\ UNCHANGED <<record, budget>>
  <2>1. Quiet /\ gen' = gen /\ record' = record /\ budget' = budget
    BY <1>3, Still
  <2>2. /\ names' \in Entries /\ names'.dest = gen /\ past' = past \cup {names'}
    <3>1. PICK n : n = [names EXCEPT !.dest = gen]
      OBVIOUS
    <3>2. n \in Entries /\ n.dest = gen
      BY <3>1, AtWork DEF IInv, Shapes, DiskOK, Entries
    <3> QED
      BY <1>3, <3>1, <3>2 DEF Renamed
  <2>3. DiskOK'
    BY <1>1, <2>1, <2>2 DEF IInv, Shapes, DiskOK
  <2>4. RecordOK'
    BY <2>1 DEF IInv, RecordOK
  <2>5. files[gen] = Both(Filled(gen)) /\ metas[gen] = Both("sealed") /\ Allowed /\ Recorded100
    <3>1. /\ files[gen].cached = Filled(gen) /\ files[gen].stable = Filled(gen)
          /\ metas[gen] = Both("sealed") /\ Allowed /\ Recorded100
      BY <1>1 DEF IInv, ProofOK, DigestOK, Linking, handle
    <3> QED
      BY <3>1, AtWork DEF Both
  <2>6. DestOK'
    <3>1. Proven(gen)'
      BY <1>1, <2>1, <2>5, AtWork DEF Proven, Allowed, Recorded100, gen
    <3>2. \A s \in past' : s.dest \in Generations => s.dest = gen
      BY <1>3, <2>2, Values DEF IInv, DestOK
    <3> QED
      BY <2>1, <2>2, <3>1, <3>2 DEF DestOK, Proven
  <2>7. KeptOK'
    <3>1. HoldsAll'
      BY <2>1, <2>2 DEF IInv, KeptOK, HoldsAll, Holds, job
    <3> QED
      BY <1>1, <2>1, <3>1 DEF IInv, KeptOK, HasBlock
  <2>8. /\ session' \in Sessions /\ session'.pc = "unstage" /\ session'.handle = session.handle
        /\ DigestOK'
    BY <1>3, <2>1, Shifted DEF Pcs, Ending, Linked
  <2>9. StateOK' /\ PartOK' /\ ProofOK'
    BY <1>1, <2>1, <2>2, <2>8
       DEF StateOK, PartOK, ProofOK, Making, Writing, Linking, Linked, Ending, Releasing,
           Dropping, job, handle, IInv
  <2> QED
    BY <2>3, <2>4, <2>6, <2>7, <2>8, <2>9 DEF IInv, Shapes
<1> QED
  BY <1>2, <1>3 DEF Link

\* The staged name goes once the destination shows the file.
LEMMA UnstageStep == IInv /\ Unstage => IInv'
<1> SUFFICES ASSUME IInv, Unstage PROVE IInv'
  OBVIOUS
<1>1. Steady /\ files' = files /\ metas' = metas /\ session.pc = "unstage"
  BY DEF Unstage, Steady, IInv, Shapes, DiskOK
<1>2. Quiet /\ gen' = gen /\ record' = record
  BY Still DEF Unstage
<1>3. Near
  BY UnstagedStep DEF Unstage
<1>4. session' \in Sessions /\ session'.pc = "syncInode" /\ DigestOK'
  BY <1>2, Shifted DEF Unstage, Pcs, Ending, Linked
<1>5. StateOK' /\ PartOK' /\ ProofOK'
  BY <1>1, <1>2, <1>3, <1>4
     DEF StateOK, PartOK, ProofOK, Making, Writing, Linking, Linked, Ending, Releasing,
         Dropping, job, IInv, Near, Reached
<1> QED
  BY <1>1, <1>2, <1>3, <1>4, <1>5, Proceeds

\* The published inode is synced.
LEMMA SyncInodeStep == IInv /\ SyncInode => IInv'
<1> SUFFICES ASSUME IInv, SyncInode PROVE IInv'
  OBVIOUS
<1>1. names' = names /\ metas' = metas /\ session.pc = "syncInode"
  BY DEF SyncInode
<1>2. CASE Failing("syncInode") /\ UNCHANGED <<files, past>>
  <2>1. UnchangedDisk
    BY <1>1, <1>2 DEF UnchangedDisk
  <2> QED
    BY <1>2, <2>1, SameDisk, FailStep DEF IInv
<1>3. CASE /\ files' = [files EXCEPT ![gen].stable = files[gen].cached]
           /\ SyncFile /\ session' = At("syncDest")
           /\ UNCHANGED <<record, budget>>
  <2>1. Quiet /\ gen' = gen /\ record' = record
    BY <1>3, Still
  <2>2. Near /\ Steady
    BY <1>1, <1>3, SyncFileStep, FlushStep DEF IInv
  <2>3. session' \in Sessions /\ session'.pc = "syncDest" /\ DigestOK'
    BY <1>3, <2>1, Shifted DEF Pcs, Ending, Linked
  <2>4. StateOK' /\ PartOK' /\ ProofOK'
    BY <1>1, <2>1, <2>3
       DEF StateOK, PartOK, ProofOK, Making, Writing, Linking, Linked, Ending, Releasing,
           Dropping, job, IInv
  <2> QED
    BY <2>1, <2>2, <2>3, <2>4, Proceeds
<1> QED
  BY <1>2, <1>3 DEF SyncInode

\* Its directories are synced.
LEMMA SyncDirectoriesStep == IInv /\ SyncDirectories => IInv'
<1> SUFFICES ASSUME IInv, SyncDirectories PROVE IInv'
  OBVIOUS
<1>1. Steady /\ files' = files /\ metas' = metas
  BY DEF SyncDirectories, Steady, IInv, Shapes, DiskOK
<1>2. CASE Failing(session.pc) /\ UNCHANGED <<names, past>>
  <2>1. UnchangedDisk
    BY <1>1, <1>2 DEF UnchangedDisk
  <2> QED
    BY <1>2, <2>1, SameDisk, FailStep DEF IInv
<1>3. CASE /\ UNCHANGED <<record, names, budget>>
           /\ \/ SyncDestination /\ session' = At("syncParts")
              \/ SyncParts /\ session' = With("committed", [handle EXCEPT !.published = TRUE])
  <2>1. Quiet /\ gen' = gen /\ record' = record /\ names' = names
    BY <1>3, Still
  <2>2. Near
    BY <1>3, SyncDestinationStep, SyncPartsStep DEF IInv, Shapes, DiskOK
  <2>3. PICK h : h = [session.handle EXCEPT !.published = TRUE]
    OBVIOUS
  <2>4. h \in Handles /\ h.verified = session.handle.verified
    <3>1. PICK t \in BOOLEAN : t = TRUE
      OBVIOUS
    <3>2. h = [session.handle EXCEPT !.published = t]
      BY <2>3, <3>1
    <3> QED
      BY <3>2, AtWork DEF Handles
  <2>5. /\ session' \in Sessions /\ session'.pc \in {"syncParts", "committed"}
        /\ session'.handle.verified = session.handle.verified
    <3>1. "syncParts" \in Pcs /\ "committed" \in Pcs
      BY DEF Pcs, Ending, Linked
    <3>2. session' = At("syncParts") \/ session' = With("committed", h)
      BY <1>3, <2>3 DEF handle
    <3> QED
      BY <2>4, <3>1, <3>2, Elsewhere DEF IInv
  <2>6. DigestOK'
    BY <2>1, <2>5, SameDigest
  <2>7. StateOK' /\ PartOK' /\ ProofOK'
    BY <2>1, <2>5, <2>6
       DEF StateOK, PartOK, ProofOK, Making, Writing, Linking, Linked, Ending, Releasing,
           Dropping, job, IInv, SyncDirectories
  <2> QED
    BY <1>1, <2>1, <2>2, <2>5, <2>7, Proceeds
<1> QED
  BY <1>2, <1>3 DEF SyncDirectories

\* Part and sidecar are released once the job is completed.
LEMMA ReleaseStep == IInv /\ Release => IInv'
<1> SUFFICES ASSUME IInv, Release PROVE IInv'
  OBVIOUS
<1>1. Near /\ Steady /\ record' = record /\ names' = names
  BY SameDisk DEF Release, IInv, UnchangedDisk
<1>2. Quiet /\ gen' = gen
  <2>1. budget' \in Budgets /\ budget'.damage = budget.damage
    BY SpendStep DEF Release, IInv, Shapes, DiskOK
  <2> QED
    BY <1>1, <2>1, UnchangedQuiet DEF IInv, gen
<1>3. PICK h : h \in {Opened(gen), session.handle} /\
        \/ session' = Idle
        \/ session.pc = "drop" /\ session' = At("cleanup")
        \/ session.pc = "drop" /\ session' = With("dropPart", [h EXCEPT !.cancelled = ~h.published])
        \/ /\ session.pc = "release"
           /\ session' = With("removePart", [h EXCEPT !.cancelled = ~h.published])
  BY DEF Release, handle
<1>4. h \in Handles /\ h.verified \in {None, session.handle.verified}
  <2>1. PICK t \in BOOLEAN : t = (metas[gen].cached = "sealed")
    OBVIOUS
  <2>2. PICK D \in SUBSET Blocks : D = DOMAIN record.extents
    BY AtWork
  <2>3. Opened(gen) = [NoHandle EXCEPT !.generation = gen, !.coverage = D, !.protected = D,
                                       !.sealed = t]
    BY <2>1, <2>2 DEF Opened
  <2>4. Opened(gen) \in Handles /\ Opened(gen).verified = None
    BY <2>2, <2>3, IdleFields, AtWork DEF Handles
  <2> QED
    BY <1>3, <2>4, AtWork
<1>5. PICK i : i = [h EXCEPT !.cancelled = ~h.published]
  OBVIOUS
<1>6. i \in Handles /\ i.verified = h.verified
  <2>1. PICK t \in BOOLEAN : t = ~h.published
    OBVIOUS
  <2>2. i = [h EXCEPT !.cancelled = t]
    BY <1>5, <2>1
  <2> QED
    BY <1>4, <2>2 DEF Handles
<1>7. CASE session' = Idle
  BY <1>1, <1>2, <1>7, HaltStep
<1>8. CASE \/ session.pc = "drop" /\ session' = At("cleanup")
           \/ session.pc = "drop" /\ session' = With("dropPart", i)
           \/ session.pc = "release" /\ session' = With("removePart", i)
  <2>1. /\ session' \in Sessions
        /\ \/ session.pc = "drop" /\ session'.pc \in {"cleanup", "dropPart"}
           \/ session.pc = "release" /\ session'.pc = "removePart"
        /\ session'.handle.verified \in {None, session.handle.verified}
    <3>1. "cleanup" \in Pcs /\ "dropPart" \in Pcs /\ "removePart" \in Pcs
      BY DEF Pcs, Releasing, Dropping
    <3>2. session.handle \in Handles
      BY AtWork
    <3> QED
      BY <1>4, <1>6, <1>8, <3>1, <3>2, Elsewhere DEF IInv
  <2>2. DigestOK'
    BY <1>2, <2>1, SameDigest
  <2>3. StateOK' /\ PartOK' /\ ProofOK'
    BY <1>1, <1>2, <2>1, <2>2
       DEF StateOK, PartOK, ProofOK, Making, Writing, Linking, Linked, Ending, Releasing,
           Dropping, job, IInv
  <2> QED
    BY <1>1, <1>2, <2>1, <2>3, Proceeds
<1> QED
  BY <1>3, <1>5, <1>7, <1>8

\* A part goes once its bytes stand at the destination, or nobody wants them.
LEMMA Unheld ==
  ASSUME IInv, Reached, UNCHANGED record, session.pc \in Releasing \cup Dropping,
         Journalled => past' \subseteq past \cup {names'}
  PROVE  HoldsAll'
<1>1. names'.dest = names.dest /\ gen' = gen /\ job' = job
  BY DEF Reached, gen, job
<1>2. CASE session.pc \in Dropping
  BY <1>1, <1>2 DEF IInv, StateOK, HoldsAll
<1>3. CASE session.pc \in Releasing
  <2>1. names.dest = gen
    BY <1>3 DEF IInv, ProofOK
  <2> QED
    BY <1>1, <2>1 DEF IInv, KeptOK, HoldsAll, Holds
<1> QED
  BY <1>2, <1>3

\* The part of a cancelled job is discarded,
LEMMA DiscardStep == IInv /\ Discard => IInv'
<1> SUFFICES ASSUME IInv, Discard PROVE IInv'
  OBVIOUS
<1>1. Steady /\ files' = files /\ metas' = metas
  BY DEF Discard, Steady, IInv, Shapes, DiskOK
<1>2. Quiet /\ gen' = gen /\ record' = record
  BY Still DEF Discard
<1>3. Reached /\ names'.dest = names.dest /\ past' = past \cup {names'}
  <2>1. PICK n : n = [names EXCEPT !.part = @ \ {handle.generation}]
    OBVIOUS
  <2>2. n \in Entries /\ n.dest = names.dest
    BY <2>1 DEF IInv, Shapes, DiskOK, Entries
  <2> QED
    BY <2>1, <2>2, RenamedStep DEF Discard, IInv, Renamed
<1>4. DiskOK' /\ RecordOK' /\ DestOK' /\ KeptOK'
  <2>1. HoldsAll'
    BY <1>2, <1>3, Unheld DEF Discard, Releasing, Dropping
  <2> QED
    BY <1>1, <1>2, <1>3, <2>1, CarriedBy
<1>5. PICK pc \in {"dropMeta", "removeMeta"} :
        /\ session' = At(pc)
        /\ IF pc = "dropMeta" THEN session.pc = "dropPart" ELSE session.pc = "removePart"
  BY DEF Discard
<1>6. session' \in Sessions /\ session'.pc = pc /\ DigestOK'
  BY <1>2, <1>5, Shifted DEF Pcs, Releasing, Dropping
<1>7. StateOK' /\ PartOK' /\ ProofOK'
  BY <1>2, <1>3, <1>5, <1>6
     DEF StateOK, PartOK, ProofOK, Making, Writing, Linking, Linked, Ending, Releasing,
         Dropping, job, IInv
<1> QED
  BY <1>4, <1>6, <1>7 DEF IInv, Shapes

\* and its sidecar.
LEMMA DiscardMetaStep == IInv /\ DiscardMeta => IInv'
<1> SUFFICES ASSUME IInv, DiscardMeta PROVE IInv'
  OBVIOUS
<1>1. Steady /\ files' = files /\ metas' = metas /\ record' = record
  BY DEF DiscardMeta, Steady, IInv, Shapes, DiskOK
<1>2. Quiet /\ gen' = gen
  <2>1. budget' \in Budgets /\ budget'.damage = budget.damage
    BY SpendStep DEF DiscardMeta, IInv, Shapes, DiskOK
  <2> QED
    BY <1>1, <2>1, UnchangedQuiet DEF IInv, gen
<1>3. Reached /\ (Journalled => past' \subseteq past \cup {names'})
  <2>1. CASE UNCHANGED <<names, past>>
    BY <2>1 DEF Reached, IInv, Shapes, DiskOK
  <2>2. CASE names' = [names EXCEPT !.meta = @ \ {handle.generation}] /\ SyncParts
    <3>1. names' \in Entries /\ names'.dest = names.dest
      BY <2>2 DEF IInv, Shapes, DiskOK, Entries
    <3> QED
      BY <2>2, <3>1, SyncPartsStep DEF IInv
  <2> QED
    BY <2>1, <2>2 DEF DiscardMeta
<1>4. DiskOK' /\ RecordOK' /\ DestOK' /\ KeptOK'
  <2>1. HoldsAll'
    BY <1>1, <1>3, Unheld DEF DiscardMeta, Releasing, Dropping
  <2> QED
    BY <1>1, <1>2, <1>3, <2>1, CarriedBy
<1>5. /\ session' \in Sessions /\ session'.handle = NoHandle
      /\ \/ session'.pc = "idle"
         \/ session'.pc = "cleanup" /\ session.pc = "dropMeta"
  <2>1. "cleanup" \in Pcs
    BY DEF Pcs, Dropping
  <2> QED
    BY <2>1, Elsewhere, IdleFields DEF DiscardMeta, IInv
<1>6. DigestOK'
  BY <1>2, <1>5, SameDigest, IdleFields
<1>7. StateOK' /\ PartOK' /\ ProofOK'
  BY <1>1, <1>5, <1>6
     DEF StateOK, PartOK, ProofOK, Making, Writing, Linking, Linked, Ending, Releasing,
         Dropping, job, IInv
<1> QED
  BY <1>4, <1>5, <1>7 DEF IInv, Shapes

\* The record starts over with a replacement, and what is published is of an earlier
\* generation then.
LEMMA ReplacedRecord ==
  ASSUME IInv, session = Idle, UNCHANGED session, UnchangedDisk,
         budget' \in Budgets, budget'.damage = budget.damage,
         NEW k \in Execute(record.job, Command("ReplaceRepresentation")), record' = Recorded(k)
  PROVE  IInv' /\ EndKept
<1>1. /\ JobOK(k) /\ k.generation = gen + 1 /\ k.state = "Queued"
      /\ record.job.state \in {"NeedsAction", "Paused", "Failed"}
  BY ReplaceStep DEF IInv, Shapes, DiskOK, RowOK, gen, Command
<1>2. record' = [record EXCEPT !.job = k, !.extents = None, !.intent = NoIntent]
  BY <1>1, AtWork DEF Recorded
<1>3. /\ record'.job = k /\ record'.extents = None /\ record'.intent = NoIntent
      /\ record'.expected = record.expected
      /\ record' \in [job : {record'.job}, extents : {record'.extents},
                      intent : {record'.intent}, expected : {record'.expected}]
  BY <1>2 DEF IInv, Shapes, DiskOK, RowOK
<1>4. gen' = gen + 1 /\ gen' \in Int /\ gen \in Int /\ gen' > 0
  BY <1>1, <1>3, AtWork DEF gen, Generations
<1>5. DiskOK'
  BY <1>1, <1>3 DEF IInv, Shapes, DiskOK, RowOK, UnchangedDisk
<1>6. RecordOK'
  <2>1. None = [b \in DOMAIN None |-> gen']
    BY DEF None
  <2>2. NoIntent.generation = 0
    BY DEF NoIntent
  <2> QED
    BY <1>3, <1>4, <2>1, <2>2, Values DEF RecordOK
<1>7. DestOK'
  <2>1. ASSUME names.dest \in Generations PROVE Proven(names.dest)'
    <3>1. Proven(names.dest) /\ names.dest \in Int
      BY <2>1, Values DEF IInv, DestOK
    <3>2. names.dest < gen'
      BY <1>4, <3>1 DEF Proven
    <3> QED
      BY <1>3, <1>4, <3>1, <3>2 DEF Proven, UnchangedDisk
  <2> QED
    BY <2>1 DEF IInv, DestOK, UnchangedDisk, Proven
<1>8. KeptOK'
  BY <1>3, Values DEF KeptOK, HoldsAll
<1>9. session' \in Sessions /\ session'.pc = "idle" /\ session'.handle.verified = None
  BY IdleFields
<1>10. StateOK' /\ PartOK' /\ ProofOK'
  BY <1>9 DEF StateOK, PartOK, ProofOK, DigestOK, Making, Writing, Linking, Linked, Ending,
              Releasing, Dropping, handle
<1> QED
  BY <1>1, <1>3, <1>5, <1>6, <1>7, <1>8, <1>9, <1>10 DEF IInv, Shapes, EndKept

\* The user pauses, resumes, cancels or replaces.
LEMMA OrderStep ==
  ASSUME IInv, NEW name \in {"Pause", "Resume", "Cancel", "ReplaceRepresentation"}, Order(name)
  PROVE  IInv' /\ EndKept
<1>1. /\ session = Idle /\ session' = session /\ UnchangedDisk
      /\ budget' \in Budgets /\ budget'.damage = budget.damage
  BY SpendStep DEF Order, IInv, Shapes, DiskOK
<1>2. PICK k \in Execute(record.job, Command(name)) : record' = Recorded(k)
  BY DEF Order, job
<1>3. CASE name = "ReplaceRepresentation"
  BY <1>1, <1>2, <1>3, ReplacedRecord
<1>4. CASE name # "ReplaceRepresentation"
  <2>1. Command(name).name = name
    BY DEF Command
  <2>2. Kept(record.job, Command(name), k)
    BY <1>2, <1>4, <2>1, JobStep DEF IInv, Shapes, DiskOK, RowOK, Ordinary
  <2>3. record' = [record EXCEPT !.job = k]
    BY <1>2, <2>2 DEF Recorded, Kept, gen
  <2>4. /\ record'.job = k /\ record'.extents = record.extents
        /\ record'.intent = record.intent /\ record'.expected = record.expected
        /\ record' \in [job : {record'.job}, extents : {record'.extents},
                        intent : {record'.intent}, expected : {record'.expected}]
    BY <2>3 DEF IInv, Shapes, DiskOK, RowOK
  <2>5. Quiet /\ EndKept
    BY <1>1, <1>4, <2>1, <2>2, <2>4 DEF Quiet, RowOK, Kept, EndKept
  <2> QED
    BY <1>1, <2>5, SameDisk, HaltStep DEF IInv
<1> QED
  BY <1>3, <1>4

\* What survives of a synced content is that content.
LEMMA Surviving ==
  ASSUME NEW file \in [cached : Contents, stable : Contents], NEW s \in Survivors(file)
  PROVE  /\ s \in Contents /\ DOMAIN s = DOMAIN file.cached
         /\ \A b \in DOMAIN s : b \in DOMAIN file.stable /\ file.cached[b] = file.stable[b]
                                => s[b] = file.cached[b]
         /\ file.stable = file.cached => s = file.cached
<1>1. /\ s \in [DOMAIN file.cached -> {0, -1} \cup Generations]
      /\ \A b \in DOMAIN s : s[b] \in {file.cached[b]} \cup
           (IF b \in DOMAIN file.stable THEN {file.stable[b]} ELSE {0})
  BY DEF Survivors
<1>2. file.cached = None \/ file.cached \in [Blocks -> Int]
  BY DEF Contents
<1>3. s \in Contents
  <2>1. CASE file.cached = None
    <3>1. s = None
      BY <1>1, <2>1 DEF None
    <3> QED
      BY <3>1, Values
  <2>2. CASE file.cached \in [Blocks -> Int]
    <3>1. {0, -1} \cup Generations \subseteq Int
      BY Values
    <3>2. s \in [Blocks -> Int]
      BY <1>1, <2>2, <3>1
    <3> QED
      BY <3>2 DEF Contents
  <2> QED
    BY <1>2, <2>1, <2>2
<1>4. \A b \in DOMAIN s : b \in DOMAIN file.stable /\ file.cached[b] = file.stable[b]
                          => s[b] = file.cached[b]
  BY <1>1
<1>5. ASSUME file.stable = file.cached PROVE s = file.cached
  <2>1. \A b \in DOMAIN file.cached : s[b] = file.cached[b]
    BY <1>1, <1>5
  <2>2. CASE file.cached = None
    BY <1>1, <2>2 DEF None
  <2>3. CASE file.cached \in [Blocks -> Int]
    BY <1>1, <2>1, <2>3
  <2> QED
    BY <1>2, <2>2, <2>3
<1> QED
  BY <1>1, <1>3, <1>4, <1>5

\* Whatever a loss of power brings back of the entries, a published file is the one that
\* there is, and the bytes are held.
LEMMA PowerCutStep == IInv /\ PowerCut => IInv'
<1> SUFFICES ASSUME IInv, PowerCut PROVE IInv'
  OBVIOUS
<1>1. session' = Idle /\ record' = record /\ budget' \in Budgets /\ budget'.damage = budget.damage
  BY SpendStep DEF PowerCut, IInv, Shapes, DiskOK
<1>2. Quiet /\ gen' = gen /\ job' = job
  BY <1>1, UnchangedQuiet DEF IInv, gen, job
<1>3. PICK s, t \in past : /\ Journalled => s = t
                           /\ names' = [s EXCEPT !.dest = t.dest]
                           /\ past' = {names'}
  BY DEF PowerCut
<1>4. names' \in Entries /\ names'.dest = t.dest /\ (Journalled => names' = s)
  BY <1>3 DEF IInv, Shapes, DiskOK, Entries
<1>5. PICK f \in Survivors(files[gen]), m \in {metas[gen].cached, metas[gen].stable} :
        files' = [files EXCEPT ![gen] = Both(f)] /\ metas' = [metas EXCEPT ![gen] = Both(m)]
  BY DEF PowerCut
<1>6. /\ f \in Contents /\ DOMAIN f = DOMAIN files[gen].cached
      /\ \A b \in DOMAIN f : b \in DOMAIN files[gen].stable
           /\ files[gen].cached[b] = files[gen].stable[b] => f[b] = files[gen].cached[b]
      /\ files[gen].stable = files[gen].cached => f = files[gen].cached
  BY <1>5, AtWork, Surviving
<1>7. /\ files' \in Files /\ files'[gen] = Both(f)
      /\ \A g \in Generations : g # gen => files'[g] = files[g]
  <2>1. Both(f) \in [cached : Contents, stable : Contents]
    BY <1>6 DEF Both
  <2> QED
    BY <1>5, <2>1, FileUpdate
<1>8. /\ metas' \in Metas /\ metas'[gen] = Both(m)
      /\ \A g \in Generations : g # gen => metas'[g] = metas[g]
  <2>1. m \in Marks
    BY <1>5, AtWork
  <2>2. Both(m) \in [cached : Marks, stable : Marks]
    BY <2>1 DEF Both
  <2> QED
    BY <1>5, <2>2, MetaUpdate
<1>9. DiskOK'
  BY <1>2, <1>3, <1>4, <1>7, <1>8 DEF IInv, Shapes, DiskOK, Quiet
<1>10. RecordOK'
  BY <1>1, <1>2 DEF IInv, RecordOK
<1>11. DestOK'
  <2>a. PICK d : d = names.dest
    OBVIOUS
  <2>1. ASSUME d \in Generations PROVE Proven(d)'
    <3>1. Proven(d)
      BY <2>1, <2>a DEF IInv, DestOK
    <3>2. names.dest = gen => files'[gen] = files[gen] /\ metas'[gen] = metas[gen]
      <4>1. ASSUME names.dest = gen
            PROVE  /\ files[gen] = Both(Filled(gen)) /\ metas[gen] = Both("sealed")
                   /\ files[gen].cached = Filled(gen) /\ files[gen].stable = Filled(gen)
                   /\ m = "sealed"
        BY <4>1, <1>5, AtWork, Values
      <4> QED
        BY <4>1, <1>6, <1>7, <1>8
    <3> QED
      BY <1>1, <1>2, <1>7, <1>8, <2>1, <2>a, <3>1, <3>2 DEF Proven, Recorded100
  <2>2. t.dest \in Generations => t.dest = d
    BY <2>a DEF IInv, DestOK
  <2> QED
    BY <1>3, <1>4, <2>1, <2>2 DEF DestOK, Proven
<1>12. KeptOK'
  <2>1. HoldsAll'
    BY <1>1, <1>2, <1>3, <1>4 DEF IInv, KeptOK, HoldsAll, Holds
  <2>2. ASSUME NEW b \in DOMAIN record.extents
        PROVE  HasBlock(files'[gen], b) /\ b \in DOMAIN f /\ b \in DOMAIN files[gen].stable
    BY <1>6, <1>7, Values, ZenonT(60) DEF IInv, KeptOK, HasBlock
  <2>3. ASSUME budget.damage = MaxDamage, NEW b \in DOMAIN record.extents
        PROVE  files'[gen].cached[b] = gen /\ files'[gen].stable[b] = gen
    <3>1. files[gen].cached[b] = gen /\ files[gen].stable[b] = gen
      BY <2>3 DEF IInv, KeptOK
    <3>2. f[b] = gen
      BY <1>6, <2>2, <3>1
    <3> QED
      BY <1>7, <3>2, Values
  <2> QED
    BY <1>1, <1>2, <2>1, <2>2, <2>3 DEF KeptOK, HasBlock
<1>13. session' \in Sessions /\ session'.pc = "idle" /\ session'.handle.verified = None
  BY <1>1, IdleFields
<1>14. StateOK' /\ PartOK' /\ ProofOK'
  BY <1>13 DEF StateOK, PartOK, ProofOK, DigestOK, Making, Writing, Linking, Linked, Ending,
               Releasing, Dropping, handle
<1> QED
  BY <1>9, <1>10, <1>11, <1>12, <1>13, <1>14 DEF IInv, Shapes

\* What damages a part does it before the part is published, and nobody takes it for proved.
LEMMA DamageStep ==
  ASSUME IInv, NEW b \in Blocks, Damage(b)
  PROVE  IInv'
<1>1. /\ names.dest # gen /\ session.pc # "link" /\ b \in DOMAIN record.extents
      /\ record' = record /\ names' = names /\ past' = past /\ metas' = metas
      /\ session' = session
  BY DEF Damage
<1>2. gen' = gen /\ job' = job
  BY <1>1 DEF gen, job
<1>3. budget' \in Budgets /\ budget'.damage < MaxDamage
  <2>1. PICK n : n = budget.damage - 1
    OBVIOUS
  <2>2. budget' = [budget EXCEPT !.damage = n]
    BY <2>1 DEF Damage, Spend
  <2>3. n \in Int /\ n < MaxDamage
    BY <2>1, PublishAssumption DEF IInv, Shapes, DiskOK, Budgets
  <2>4. budget' \in Budgets /\ budget'.damage = n
    BY <2>2, <2>3 DEF IInv, Shapes, DiskOK, Budgets
  <2> QED
    BY <2>3, <2>4
<1>4. HasBlock(files[gen], b)
  BY <1>1 DEF IInv, KeptOK
<1>5. files[gen].cached \in [Blocks -> Int] /\ files[gen].stable \in [Blocks -> Int]
  BY <1>4, AtWork, Values DEF HasBlock, Contents
<1>6. PICK x, y : /\ x = [files[gen].cached EXCEPT ![b] = -1]
                  /\ y = [files[gen].stable EXCEPT ![b] = -1]
  OBVIOUS
<1>7. /\ x \in [Blocks -> Int] /\ y \in [Blocks -> Int]
      /\ \A d \in Blocks : d # b => x[d] = files[gen].cached[d]
      /\ files[gen].stable = files[gen].cached => x = y
  BY <1>5, <1>6
<1>8. PICK f : f = [files[gen] EXCEPT !.cached = x, !.stable = y]
  OBVIOUS
<1>9. f \in [cached : Contents, stable : Contents] /\ f.cached = x /\ f.stable = y
  <2>1. x \in Contents /\ y \in Contents
    BY <1>7 DEF Contents
  <2> QED
    BY <1>8, <2>1, AtWork
<1>10. files' = [files EXCEPT ![gen] = f]
  <2>1. files' = [[files EXCEPT ![gen].cached[b] = -1] EXCEPT ![gen].stable[b] = -1]
    BY DEF Damage
  <2> QED
    BY <2>1, <1>6, <1>8, AtWork DEF IInv, Shapes, DiskOK, Files
<1>11. /\ files' \in Files /\ files'[gen] = f
       /\ \A g \in Generations : g # gen => files'[g] = files[g]
  BY <1>9, <1>10, FileUpdate
<1>12. DiskOK'
  BY <1>1, <1>3, <1>11, PublishAssumption DEF IInv, Shapes, DiskOK, Budgets
<1>13. RecordOK'
  BY <1>1, <1>2 DEF IInv, RecordOK
<1>14. DestOK'
  BY <1>1, <1>2, <1>11 DEF IInv, DestOK, Proven, Recorded100
<1>15. KeptOK'
  <2>1. \A d \in DOMAIN record.extents : HasBlock(f, d)
    BY <1>7, <1>9, AtWork DEF HasBlock
  <2>2. HoldsAll'
    BY <1>1, <1>2 DEF IInv, KeptOK, HoldsAll, Holds
  <2>3. budget'.damage # MaxDamage
    BY <1>3, PublishAssumption DEF Budgets
  <2> QED
    BY <1>1, <1>2, <1>11, <2>1, <2>2, <2>3 DEF KeptOK, HasBlock
<1>16. StateOK'
  BY <1>1, <1>2 DEF IInv, StateOK
<1>17. PartOK'
  <2>1. record.extents # None
    BY <1>1, Values
  <2>2. session.pc \notin Making
    BY <2>1 DEF IInv, PartOK
  <2>3. \A d \in session.handle.coverage \ DOMAIN record.extents : x[d] = files[gen].cached[d]
    BY <1>1, <1>7, AtWork DEF Handles
  <2> QED
    BY <1>1, <1>2, <1>7, <1>9, <1>11, <2>2, <2>3 DEF IInv, PartOK, handle
<1>18. ProofOK'
  <2>1. DigestOK'
    BY <1>1, <1>2 DEF IInv, ProofOK, DigestOK, Allowed, Recorded100, handle
  <2> QED
    BY <1>1, <1>2, <1>7, <1>9, <1>11, <2>1 DEF IInv, ProofOK, handle
<1> QED
  BY <1>1, <1>12, <1>13, <1>14, <1>15, <1>16, <1>17, <1>18 DEF IInv, Shapes

\* Somebody else puts a file at a free destination.
LEMMA ForeignerStep == IInv /\ Foreigner => IInv'
<1> SUFFICES ASSUME IInv, Foreigner PROVE IInv'
  OBVIOUS
<1>1. /\ names.dest \in {Free, Foreign}
      /\ record' = record /\ files' = files /\ metas' = metas /\ session' = session
      /\ budget' \in Budgets /\ budget'.damage = budget.damage
  BY SpendStep DEF Foreigner, IInv, Shapes, DiskOK
<1>2. gen' = gen /\ job' = job
  BY <1>1 DEF gen, job
<1>3. PICK d \in {Free, Foreign} : Renamed([names EXCEPT !.dest = d])
  BY DEF Foreigner
<1>4. /\ names' \in Entries /\ names'.dest = d /\ past' = past \cup {names'}
      /\ names'.part = names.part /\ names'.meta = names.meta
  <2>1. PICK n : n = [names EXCEPT !.dest = d]
    OBVIOUS
  <2>2. n \in Entries /\ n.dest = d /\ n.part = names.part /\ n.meta = names.meta
    BY <2>1 DEF IInv, Shapes, DiskOK, Entries
  <2> QED
    BY <1>3, <2>1, <2>2 DEF Renamed
<1>5. names.dest \notin Generations /\ d \notin Generations /\ names.dest # gen
  BY <1>1, Values, AtWork, ZenonT(60)
<1>6. DiskOK'
  BY <1>1, <1>4 DEF IInv, Shapes, DiskOK
<1>7. RecordOK'
  BY <1>1, <1>2 DEF IInv, RecordOK
<1>8. DestOK'
  BY <1>4, <1>5 DEF IInv, DestOK
<1>9. KeptOK'
  <2>1. HoldsAll'
    <3>1. HoldsAll /\ names \in past
      BY DEF IInv, KeptOK, Shapes, DiskOK
    <3> QED
      BY <1>1, <1>2, <1>4, <1>5, <3>1 DEF HoldsAll, Holds
  <2> QED
    BY <1>1, <1>2, <2>1 DEF IInv, KeptOK, HasBlock
<1>10. StateOK'
  BY <1>1, <1>2 DEF IInv, StateOK
<1>11. PartOK'
  <2>1. names \in past
    BY DEF IInv, Shapes, DiskOK
  <2> QED
    BY <1>1, <1>2, <1>4, <2>1 DEF IInv, PartOK, handle, Writing
<1>12. ProofOK'
  <2>1. DigestOK'
    BY <1>1, <1>2 DEF IInv, ProofOK, DigestOK, Allowed, Recorded100, handle
  <2> QED
    BY <1>1, <1>2, <1>4, <1>5, <2>1 DEF IInv, ProofOK, handle
<1> QED
  BY <1>1, <1>6, <1>7, <1>8, <1>9, <1>10, <1>11, <1>12 DEF IInv, Shapes

-----------------------------------------------------------------------------
(***************************************************************************)
(* The invariant and what follows from it.                                 *)
(***************************************************************************)

\* A new job, with nothing on the disk.
LEMMA PublishInit == Init => IInv
<1> SUFFICES ASSUME Init PROVE IInv
  OBVIOUS
<1>1. /\ record.job = NewJob /\ record.extents = None /\ record.intent = NoIntent
      /\ record \in [job : {record.job}, extents : {record.extents}, intent : {record.intent},
                     expected : {record.expected}]
  BY DEF Init
<1>2. JobOK(NewJob) /\ NewJob.generation = 1
  <2>1. PICK p, u : p = NoStop /\ u \in BOOLEAN /\ u = FALSE
    OBVIOUS
  <2>2. 1 \in Generations
    BY PublishAssumption DEF Generations
  <2>3. p.kind = "None" /\ ~u
    BY <2>1 DEF NoStop, Target
  <2>4. NewJob = [state |-> "Queued", generation |-> 1, reason |-> NoReason,
                  retry_at |-> NoTick, stop |-> p, replace_on_drain |-> u, attempts |-> 0,
                  validator |-> NoValidator, segments |-> NoMap]
    BY <2>1 DEF NewJob
  <2>5. /\ NewJob \in [state : States, generation : Generations, reason : {NewJob.reason},
            retry_at : {NewJob.retry_at}, stop : {NewJob.stop}, replace_on_drain : BOOLEAN,
            attempts : {NewJob.attempts}, validator : {NewJob.validator},
            segments : {NewJob.segments}]
        /\ NewJob.stop = p /\ NewJob.state = "Queued" /\ NewJob.generation = 1
    BY <2>1, <2>2, <2>4 DEF States
  <2>6. ~NewJob.replace_on_drain
    BY Zenon DEF NewJob
  <2> QED
    BY <2>3, <2>5, <2>6 DEF JobOK
<1>3. names \in Entries /\ past = {names} /\ names.dest = Free
  BY DEF Init, Entries
<1>4. files \in Files /\ metas \in Metas
  <2>1. PICK n \in Contents : n = None
    BY Values
  <2>2. Both(None) \in [cached : Contents, stable : Contents]
    BY <2>1 DEF Both
  <2>3. Both("blank") \in [cached : Marks, stable : Marks]
    BY DEF Both, Marks
  <2> QED
    BY <2>2, <2>3 DEF Init, Files, Metas
<1>5. budget \in Budgets /\ budget.damage = MaxDamage
  BY PublishAssumption DEF Init, Budgets
<1>6. DiskOK
  BY <1>1, <1>2, <1>3, <1>4, <1>5, PublishAssumption DEF DiskOK, RowOK
<1>7. RecordOK
  <2>1. None = [b \in DOMAIN None |-> gen]
    BY DEF None
  <2>2. NoIntent.generation = 0
    BY DEF NoIntent
  <2> QED
    BY <1>1, <1>2, <2>1, <2>2, Values DEF RecordOK, gen
<1>8. DestOK
  BY <1>3, Values DEF DestOK
<1>9. KeptOK
  BY <1>1, Values DEF KeptOK, HoldsAll
<1>10. session \in Sessions /\ session.pc = "idle" /\ session.handle.verified = None
  BY IdleFields DEF Init
<1>11. StateOK /\ PartOK /\ ProofOK
  BY <1>10 DEF StateOK, PartOK, ProofOK, DigestOK, Making, Writing, Linking, Linked, Ending,
               Releasing, Dropping, handle
<1> QED
  BY <1>6, <1>7, <1>8, <1>9, <1>10, <1>11 DEF IInv, Shapes

\* Every step keeps it.
LEMMA PublishNext == IInv /\ [Next]_vars => IInv'
<1> SUFFICES ASSUME IInv, [Next]_vars PROVE IInv'
  OBVIOUS
<1>1. CASE UNCHANGED vars
  BY <1>1 DEF vars, IInv, Shapes, DiskOK, RecordOK, DestOK, StateOK, PartOK, ProofOK, KeptOK,
              DigestOK, HoldsAll, Holds, HasBlock, Proven, Recorded100, Allowed, gen, job, handle
<1>2. CASE Next
  <2>1. CASE Run \/ Start \/ Probe \/ CreatePart \/ CreateMeta \/ SetLen \/ WriteIdentity
             \/ SyncCreated \/ OpenPart
    BY <2>1, RunStep, StartStep, ProbeStep, CreatePartStep, CreateMetaStep, SetLenStep,
       WriteIdentityStep, SyncCreatedStep, OpenPartStep
  <2>2. CASE \/ \E b \in Blocks : WriteAt(b)
             \/ Checkpoint \/ CommitExtents \/ TransferDone \/ Drain
    BY <2>2, WriteAtStep, CheckpointStep, CommitExtentsStep, TransferDoneStep, DrainStep
  <2>3. CASE Sync \/ SyncFails \/ Verify \/ RecordIntent \/ Passed \/ Attempt
    BY <2>3, SyncStep, SyncFailsStep, VerifyStep, RecordIntentStep, PassedStep, AttemptStep
  <2>4. CASE Publish \/ Seal \/ SealSync \/ Stage \/ Prove \/ Link \/ Unstage \/ SyncInode
             \/ SyncDirectories
    BY <2>4, PublishStep, SealStep, SealSyncStep, StageStep, ProveStep, LinkStep, UnstageStep,
       SyncInodeStep, SyncDirectoriesStep
  <2>5. CASE PublishCommitted \/ Release \/ Discard \/ DiscardMeta \/ Cleanup \/ Recover
    BY <2>5, PublishCommittedStep, ReleaseStep, DiscardStep, DiscardMetaStep, CleanupStep,
       RecoverStep
  <2>6. CASE \E name \in {"Pause", "Resume", "Cancel", "ReplaceRepresentation"} : Order(name)
    BY <2>6, OrderStep
  <2>7. CASE \/ Restart \/ PowerCut \/ Foreigner
             \/ \E b \in Blocks : Damage(b)
    BY <2>7, RestartStep, PowerCutStep, DamageStep, ForeignerStep
  <2> QED
    BY <1>2, <2>1, <2>2, <2>3, <2>4, <2>5, <2>6, <2>7 DEF Next
<1> QED
  BY <1>1, <1>2

\* The invariant holds in every state of every behaviour.
LEMMA PublishInvariant == Spec => []IInv
BY PublishInit, PublishNext, PTL DEF Spec

\* Whatever a session, a crash, a loss of power or somebody else's write left behind, the
\* file at the destination is the whole representation on the disk, the one that was asked
\* for, and sealed (FilePart::publish, resume_publish and recover).
THEOREM PublishesOnlyProven == Spec => []PublishedIsProven
<1>1. IInv => PublishedIsProven
  BY Values DEF IInv, DestOK, Proven, PublishedIsProven
<1> QED
  BY <1>1, PublishInvariant, PTL

\* Where directory changes reach the disk in order, a recorded byte is never lost while the
\* job lives: the part or the destination has it, whatever a loss of power brings back.
THEOREM RecordedBytesStay ==
  ASSUME Journalled
  PROVE  Spec => []BytesAreKept
<1>1. IInv => BytesAreKept
  <2> SUFFICES ASSUME IInv, job.state \notin {"Cancelling", "Cancelled"},
                      record.extents # None
               PROVE  /\ \A s \in past : Holds(s)
                      /\ budget.damage = MaxDamage => \A b \in DOMAIN record.extents :
                           files[gen].stable[b] = record.extents[b]
    BY DEF BytesAreKept
  <2>1. \A s \in past : Holds(s)
    BY DEF IInv, KeptOK, HoldsAll
  <2>2. ASSUME budget.damage = MaxDamage, NEW b \in DOMAIN record.extents
        PROVE  files[gen].stable[b] = record.extents[b]
    <3>1. record.extents[b] = gen
      BY <2>2 DEF IInv, RecordOK
    <3> QED
      BY <2>2, <3>1 DEF IInv, KeptOK
  <2> QED
    BY <2>1, <2>2
<1> QED
  BY <1>1, PublishInvariant, PTL

-----------------------------------------------------------------------------
(***************************************************************************)
(* Publish implements Publication.                                         *)
(***************************************************************************)

\* Nothing happens that whoever owns the folder sees.
Unseen == EndKept /\ names'.dest = names.dest

\* A step in which the job goes on, or fails, and one with a new record of it.
LEMMA HaltsUnseen ==
  ASSUME IInv, names'.dest = names.dest, NEW pc, NEW reason,
         Failing(pc) \/ Blocked(reason) \/ GiveUp({record})
  PROVE  Unseen
BY FailingHalts, BlockedHalts, GiveUpHalts DEF IInv, Halts, Unseen

\* A step that leaves record and destination alone shows nothing.
LEMMA StillUnseen ==
  ASSUME UNCHANGED record, names'.dest = names.dest
  PROVE  Unseen
BY DEF Unseen, EndKept

\* Nor does one whose job stays short of its end, or at it.
LEMMA StepUnseen ==
  ASSUME IInv, UNCHANGED names, NEW c, NEW next,
         c.name \in Ordinary \ {"PublishCommitted", "CleanupFinished"}, Step(c, next)
  PROVE  Unseen
BY QuietStep DEF IInv, Unseen

\* Entries of the private directory.
LEMMA PrivateEntries ==
  ASSUME IInv, NEW S
  PROVE  /\ [names EXCEPT !.part = S].dest = names.dest
         /\ [names EXCEPT !.meta = S].dest = names.dest
         /\ [names EXCEPT !.staged = S].dest = names.dest
BY DEF IInv, Shapes, DiskOK, Entries

\* The actions up to the attempt.
LEMMA EarlyUnseen ==
  ASSUME IInv,
         \/ Run \/ Start \/ Probe \/ CreatePart \/ CreateMeta \/ SetLen \/ WriteIdentity
         \/ SyncCreated \/ OpenPart
         \/ \E b \in Blocks : WriteAt(b)
         \/ Checkpoint \/ CommitExtents \/ TransferDone \/ Drain
         \/ Sync \/ SyncFails \/ Verify \/ RecordIntent \/ Passed \/ Attempt
  PROVE  Unseen
<1>1. CASE Run \/ WriteIdentity \/ Checkpoint \/ Sync
  BY <1>1, StillUnseen DEF Run, WriteIdentity, Checkpoint, Sync, UnchangedDisk
<1>2. CASE Start \/ TransferDone \/ Drain \/ Passed
  BY <1>2, StepUnseen
     DEF Start, TransferDone, Drain, Passed, UnchangedDisk, Command, Ordinary
<1>3. CASE Probe
  <2>1. [Command("ProbeSucceeded") EXCEPT !.total = Total, !.validator = gen].name
          = "ProbeSucceeded"
    BY DEF Command
  <2> QED
    BY <1>3, <2>1, StepUnseen DEF Probe, UnchangedDisk, Ordinary
<1>4. CASE CreatePart
  BY <1>4, HaltsUnseen, StillUnseen, PrivateEntries DEF CreatePart, Renamed, UnchangedDisk
<1>5. CASE CreateMeta
  BY <1>5, HaltsUnseen, StillUnseen, PrivateEntries DEF CreateMeta, Renamed, UnchangedDisk
<1>6. CASE SetLen \/ SyncCreated
  BY <1>6, HaltsUnseen, StillUnseen DEF SetLen, SyncCreated
<1>7. CASE OpenPart
  BY <1>7, HaltsUnseen, StillUnseen DEF OpenPart, UnchangedDisk
<1>8. CASE \E b \in Blocks : WriteAt(b)
  <2>1. PICK b \in Blocks : WriteAt(b)
    BY <1>8
  <2>2. CASE record' = record
    BY <2>1, <2>2, StillUnseen DEF WriteAt
  <2>3. CASE Spend("faults") /\ \E k \in Execute(job, Because("Storage")) : record' = Recorded(k)
    BY <2>1, <2>3, RefusedQuiet DEF WriteAt, IInv, job, Unseen
  <2> QED
    BY <2>1, <2>2, <2>3 DEF WriteAt
<1>9. CASE CommitExtents \/ RecordIntent
  <2>1. names' = names
    BY <1>9 DEF CommitExtents, RecordIntent, UnchangedDisk
  <2>2. record'.job.state = record.job.state
    <3>1. CASE record' = record
      BY <3>1
    <3>2. ASSUME NEW e, NEW m, record' = [record EXCEPT !.extents = e, !.job.segments = m]
          PROVE  record'.job.state = record.job.state
      <4>1. record'.job = [record.job EXCEPT !.segments = m]
        BY <3>2 DEF IInv, Shapes, DiskOK, RowOK
      <4> QED
        BY <4>1 DEF IInv, Shapes, DiskOK, RowOK, JobOK
    <3>3. ASSUME NEW i, record' = [record EXCEPT !.intent = i]
          PROVE  record'.job.state = record.job.state
      BY <3>3 DEF IInv, Shapes, DiskOK, RowOK
    <3> QED
      BY <1>9, <3>1, <3>2, <3>3 DEF CommitExtents, RecordIntent, GiveUp
  <2> QED
    BY <2>1, <2>2 DEF Unseen, EndKept
<1>10. CASE SyncFails
  BY <1>10, HaltsUnseen DEF SyncFails, UnchangedDisk
<1>11. CASE Verify
  BY <1>11, HaltsUnseen, StillUnseen DEF Verify, UnchangedDisk
<1>12. CASE Attempt
  BY <1>12, HaltsUnseen, StillUnseen DEF Attempt, UnchangedDisk
<1> QED
  BY <1>1, <1>2, <1>3, <1>4, <1>5, <1>6, <1>7, <1>8, <1>9, <1>10, <1>11, <1>12

\* The actions from there on, but for the link and the two ends.
LEMMA LateUnseen ==
  ASSUME IInv,
         \/ Publish \/ Seal \/ SealSync \/ Stage \/ Prove \/ Unstage \/ SyncInode
         \/ SyncDirectories \/ Release \/ Discard \/ DiscardMeta \/ Recover \/ Restart
         \/ \E b \in Blocks : Damage(b)
         \/ \E name \in {"Pause", "Resume", "Cancel", "ReplaceRepresentation"} : Order(name)
  PROVE  Unseen
<1>1. CASE Publish
  BY <1>1, HaltsUnseen, StillUnseen DEF Publish, UnchangedDisk
<1>2. CASE Seal \/ Release \/ Restart
  BY <1>2, StillUnseen DEF Seal, Release, Restart, UnchangedDisk
<1>3. CASE SealSync \/ SyncInode \/ SyncDirectories
  BY <1>3, HaltsUnseen, StillUnseen DEF SealSync, SyncInode, SyncDirectories
<1>4. CASE Stage
  BY <1>4, HaltsUnseen, StillUnseen, PrivateEntries DEF Stage, Renamed
<1>5. CASE Prove
  BY <1>5, HaltsUnseen, StillUnseen, PrivateEntries DEF Prove, Renamed, Unstaged
<1>6. CASE Unstage
  BY <1>6, StillUnseen, PrivateEntries DEF Unstage, Renamed, Unstaged
<1>7. CASE Discard \/ DiscardMeta
  BY <1>7, StillUnseen, PrivateEntries DEF Discard, DiscardMeta, Renamed
<1>8. CASE Recover
  BY <1>8, StillUnseen, StepUnseen DEF Recover, UnchangedDisk, Command, Ordinary
<1>9. CASE \E b \in Blocks : Damage(b)
  BY <1>9, StillUnseen DEF Damage
<1>10. CASE \E name \in {"Pause", "Resume", "Cancel", "ReplaceRepresentation"} : Order(name)
  BY <1>10, OrderStep DEF Order, UnchangedDisk, Unseen
<1> QED
  BY <1>1, <1>2, <1>3, <1>4, <1>5, <1>6, <1>7, <1>8, <1>9, <1>10

\* The entries that may come back are those that may have come back, and neither the power
\* failed nor did somebody else touch a file.
Alone ==
  /\ \A s \in past' : \E t \in past : t.dest = s.dest
  /\ budget'.power = budget.power /\ budget'.foreign = budget.foreign

\* What the engine and its user spend.
LEMMA SpendAlone ==
  ASSUME budget \in Budgets,
         \/ UNCHANGED budget
         \/ \E what \in {"runs", "faults", "crashes", "damage", "commands"} : Spend(what)
  PROVE  budget'.power = budget.power /\ budget'.foreign = budget.foreign
BY DEF Budgets, Spend

\* Renaming in the private directory and forcing either directory brings nothing new.
LEMMA PastKept ==
  ASSUME IInv, IInv', names'.dest = names.dest,
         UNCHANGED past \/ past' = past \cup {names'} \/ SyncParts \/ SyncFile
         \/ (UNCHANGED names /\ SyncDestination)
  PROVE  \A s \in past' : \E t \in past : t.dest = s.dest
<1>1. /\ names \in past /\ names \in Entries /\ names' \in Entries /\ past \subseteq Entries
  BY DEF IInv, Shapes, DiskOK
<1>2. CASE UNCHANGED past \/ past' = past \cup {names'} \/ past' = {names'}
  BY <1>1, <1>2
<1>3. CASE past' = {[names' EXCEPT !.dest = s.dest] : s \in past}
  <2>1. \A s \in past : [names' EXCEPT !.dest = s.dest].dest = s.dest
    BY <1>1 DEF Entries
  <2> TAKE s \in past'
  <2>2. PICK t \in past : s = [names' EXCEPT !.dest = t.dest]
    BY <1>3
  <2>3. t.dest = s.dest
    BY <2>1, <2>2
  <2> QED
    BY <2>3
<1>4. CASE past' = {[s EXCEPT !.dest = names.dest] : s \in past}
  <2>1. \A s \in past : [s EXCEPT !.dest = names.dest].dest = names.dest
    BY <1>1 DEF Entries
  <2> TAKE s \in past'
  <2>2. PICK t \in past : s = [t EXCEPT !.dest = names.dest]
    BY <1>4
  <2>3. s.dest = names.dest
    BY <2>1, <2>2
  <2> QED
    BY <1>1, <2>3
<1> QED
  BY <1>2, <1>3, <1>4 DEF SyncParts, SyncFile, SyncDestination

\* Blocked, failing and giving up spend a fault at most.
LEMMA FaultsAlone ==
  ASSUME IInv, NEW pc, NEW reason, NEW outcomes, NEW c, NEW next,
         Failing(pc) \/ Blocked(reason) \/ GiveUp(outcomes) \/ Step(c, next) \/ UNCHANGED budget
  PROVE  budget'.power = budget.power /\ budget'.foreign = budget.foreign
<1>1. budget \in Budgets
  BY DEF IInv, Shapes, DiskOK
<1>2. UNCHANGED budget \/ Spend("faults")
  BY DEF Failing, Blocked, GiveUp, Step
<1> QED
  BY <1>1, <1>2, SpendAlone

\* The actions up to the attempt.
LEMMA EarlyAlone ==
  ASSUME IInv, IInv', names'.dest = names.dest,
         \/ Run \/ Start \/ Probe \/ CreatePart \/ CreateMeta \/ SetLen \/ WriteIdentity
         \/ SyncCreated \/ OpenPart
         \/ \E b \in Blocks : WriteAt(b)
         \/ Checkpoint \/ CommitExtents \/ TransferDone \/ Drain
         \/ Sync \/ SyncFails \/ Verify \/ RecordIntent \/ Passed \/ Attempt
  PROVE  Alone
<1>1. budget \in Budgets
  BY DEF IInv, Shapes, DiskOK
<1>2. CASE Run
  BY <1>1, <1>2, SpendAlone, PastKept DEF Run, UnchangedDisk, Alone
<1>3. CASE WriteIdentity \/ Checkpoint \/ Sync
  BY <1>3, PastKept DEF WriteIdentity, Checkpoint, Sync, Alone
<1>4. CASE Start \/ Probe \/ TransferDone \/ Drain \/ Passed
  BY <1>4, FaultsAlone, PastKept
     DEF Start, Probe, TransferDone, Drain, Passed, UnchangedDisk, Alone
<1>5. CASE CreatePart \/ CreateMeta
  BY <1>5, FaultsAlone, PastKept DEF CreatePart, CreateMeta, Renamed, UnchangedDisk, Alone
<1>6. CASE SetLen \/ SyncCreated
  BY <1>6, FaultsAlone, PastKept DEF SetLen, SyncCreated, Alone
<1>7. CASE \E b \in Blocks : WriteAt(b)
  BY <1>1, <1>7, SpendAlone, PastKept DEF WriteAt, Alone
<1>8. CASE CommitExtents \/ RecordIntent
  BY <1>8, FaultsAlone, PastKept DEF CommitExtents, RecordIntent, UnchangedDisk, Alone
<1>9. CASE OpenPart \/ SyncFails \/ Verify \/ Attempt
  BY <1>9, FaultsAlone, PastKept DEF OpenPart, SyncFails, Verify, Attempt, UnchangedDisk, Alone
<1> QED
  BY <1>2, <1>3, <1>4, <1>5, <1>6, <1>7, <1>8, <1>9

\* The actions from there on.
LEMMA LateAlone ==
  ASSUME IInv, IInv', names'.dest = names.dest,
         \/ Publish \/ Seal \/ SealSync \/ Stage \/ Prove \/ Unstage \/ SyncInode
         \/ SyncDirectories \/ Release \/ Discard \/ DiscardMeta \/ Recover \/ Restart
         \/ Link \/ PublishCommitted \/ Cleanup
         \/ \E b \in Blocks : Damage(b)
         \/ \E name \in {"Pause", "Resume", "Cancel", "ReplaceRepresentation"} : Order(name)
  PROVE  Alone
<1>1. budget \in Budgets
  BY DEF IInv, Shapes, DiskOK
<1>2. CASE Publish \/ PublishCommitted \/ Cleanup \/ Recover
  BY <1>2, FaultsAlone, PastKept
     DEF Publish, PublishCommitted, Cleanup, Recover, UnchangedDisk, Alone
<1>3. CASE Seal \/ Unstage \/ Discard
  BY <1>3, PastKept DEF Seal, Unstage, Discard, Renamed, Alone
<1>4. CASE SealSync \/ SyncInode \/ SyncDirectories
  BY <1>4, FaultsAlone, PastKept DEF SealSync, SyncInode, SyncDirectories, Alone
<1>5. CASE Stage \/ Prove \/ Link
  BY <1>5, FaultsAlone, PastKept DEF Stage, Prove, Link, Renamed, Alone
<1>6. CASE Release \/ DiscardMeta
  BY <1>1, <1>6, SpendAlone, PastKept DEF Release, DiscardMeta, UnchangedDisk, Alone
<1>7. CASE Restart \/ \E name \in {"Pause", "Resume", "Cancel", "ReplaceRepresentation"} : Order(name)
  BY <1>1, <1>7, SpendAlone, PastKept DEF Restart, Order, UnchangedDisk, Alone
<1>8. CASE \E b \in Blocks : Damage(b)
  BY <1>1, <1>8, SpendAlone, PastKept DEF Damage, Alone
<1> QED
  BY <1>2, <1>3, <1>4, <1>5, <1>6, <1>7, <1>8

\* A published file is whole, so that the name shows what it is.
Shown == IF names.dest \in Generations /\ files[names.dest].cached # Filled(names.dest)
           THEN -2 ELSE names.dest

Ends == CASE record.job.state = "Completed" -> "completed"
          [] record.job.state = "Cancelled" -> "cancelled"
          [] OTHER -> "open"

Was     == {s.dest : s \in past}
Losses  == MaxPowerCuts - budget.power
Touched == MaxForeign - budget.foreign

\* What the promise shows of the disk is the destination.
LEMMA ShownIsDest ==
  ASSUME IInv
  PROVE  Shown = names.dest
BY Values DEF IInv, DestOK, Proven, Shown

\* The steps of the promise, in the terms of this module.
LEMMA PromiseMoves ==
  LET Open == Shown' \in Was' /\ Was' \subseteq Was \cup {Shown'}
      Calm == Losses' = Losses /\ Touched' = Touched
  IN  /\ Open /\ Calm /\ Shown' = Shown /\ Ends' = Ends => Promise!Next
      /\ Open /\ Calm /\ Shown = Free /\ Shown' \in Generations /\ Ends = "open" /\ Ends' = "open"
         => Promise!Next
      /\ Open /\ Calm /\ Shown' = Shown /\ Shown \in Generations /\ Ends = "open"
         /\ Ends' = "completed" => Promise!Next
      /\ Open /\ Calm /\ Shown' = Shown /\ Ends = "open" /\ Ends' = "cancelled" => Promise!Next
      /\ Open /\ Touched' = Touched + 1 /\ Losses' = Losses /\ Ends' = Ends
         /\ <<Shown, Shown'>> \in {<<Free, Foreign>>, <<Foreign, Free>>} => Promise!Next
      /\ Losses' = Losses + 1 /\ Touched' = Touched /\ Ends' = Ends
         /\ Shown' \in Was /\ Was' = {Shown'} => Promise!Next
BY DEF Promise!Next, Promise!Appear, Promise!Force, Promise!Complete, Promise!GiveUp, Promise!Others,
       Promise!Revert, Promise!Engine, Promise!Seen, Shown, Ends, Was, Losses, Touched, job

\* Every step is one that Publication allows.
LEMMA PromiseStep ==
  ASSUME IInv, IInv', [Next]_vars
  PROVE  [Promise!Next]_(Promise!vars)
<1>1. Shown = names.dest /\ Shown' = names'.dest
  <2>1. Shown = names.dest
    BY ShownIsDest
  <2>2. Shown' = names'.dest
    BY Values DEF IInv, DestOK, Proven, Shown
  <2> QED
    BY <2>1, <2>2
<1>2. /\ names \in past /\ names' \in past' /\ Shown \in Was /\ Shown' \in Was'
      /\ names \in Entries /\ past \subseteq Entries
      /\ budget \in Budgets /\ MaxPowerCuts \in Int /\ MaxForeign \in Int
  <2>1. names \in past /\ names' \in past'
    BY DEF IInv, Shapes, DiskOK
  <2> QED
    BY <1>1, <2>1, PublishAssumption DEF Was, IInv, Shapes, DiskOK
<1>3. ASSUME Alone
      PROVE  Losses' = Losses /\ Touched' = Touched /\ Was' \subseteq Was
  BY <1>3 DEF Alone, Losses, Touched, Was
<1>4. CASE Alone /\ Unseen
  <2>1. Ends' = Ends
    BY <1>4 DEF Unseen, EndKept, Ends
  <2>2. Shown' = Shown
    BY <1>1, <1>4 DEF Unseen
  <2> QED
    BY <1>2, <1>3, <1>4, <2>1, <2>2, PromiseMoves
<1>5. CASE UNCHANGED vars
  BY <1>5, <1>4 DEF vars, Unseen, EndKept, Alone
<1>6. CASE Link
  <2>1. CASE Failing("link") /\ Renamed(Unstaged)
    <3>1. names'.dest = names.dest /\ Unseen
      BY <2>1, HaltsUnseen, PrivateEntries DEF Renamed, Unstaged
    <3> QED
      BY <1>4, <1>6, <3>1, LateAlone
  <2>2. CASE Blocked("Destination") /\ Renamed(Unstaged)
    <3>1. names'.dest = names.dest /\ Unseen
      BY <2>2, HaltsUnseen, PrivateEntries DEF Renamed, Unstaged
    <3> QED
      BY <1>4, <1>6, <3>1, LateAlone
  <2>3. CASE /\ names.dest = Free /\ Renamed([names EXCEPT !.dest = gen])
             /\ UNCHANGED <<record, budget>>
    <3>1. names'.dest \in Generations
      BY <2>3, AtWork DEF Renamed, IInv, Shapes, DiskOK, Entries
    <3>2. Ends = "open" /\ Ends' = "open"
      BY <1>6, <2>3 DEF Link, Ends, IInv, StateOK, Ending, Linking, job
    <3>3. Was' \subseteq Was \cup {Shown'}
      BY <1>1, <2>3 DEF Renamed, Was
    <3>4. Losses' = Losses /\ Touched' = Touched
      BY <2>3 DEF Losses, Touched
    <3> QED
      BY <1>1, <1>2, <2>3, <3>1, <3>2, <3>3, <3>4, PromiseMoves
  <2> QED
    BY <1>6, <2>1, <2>2, <2>3 DEF Link
<1>7. CASE PublishCommitted
  <2>1. /\ names' = names /\ session.pc = "committed"
        /\ Step(Command("PublishCommitted"), At("release"))
        /\ Command("PublishCommitted").name = "PublishCommitted"
    BY <1>7 DEF PublishCommitted, UnchangedDisk, Command
  <2>2. \/ EndKept
        \/ record.job.state = "Publishing" /\ record'.job.state = "Completed"
    BY <2>1, QuietStep DEF IInv, Ordinary
  <2>3. Alone
    BY <1>7, <2>1, LateAlone
  <2>4. CASE EndKept
    BY <1>4, <2>1, <2>3, <2>4 DEF Unseen
  <2>5. CASE record.job.state = "Publishing" /\ record'.job.state = "Completed"
    <3>1. names.dest \in Generations
      BY <2>1, AtWork DEF IInv, ProofOK, Linked
    <3>2. Ends = "open" /\ Ends' = "completed"
      BY <2>5 DEF Ends
    <3> QED
      BY <1>1, <1>2, <1>3, <2>1, <2>3, <3>1, <3>2, PromiseMoves
  <2> QED
    BY <2>2, <2>4, <2>5
<1>8. CASE Cleanup
  <2>1. /\ names' = names
        /\ Step(Command("CleanupFinished"), Idle)
        /\ Command("CleanupFinished").name = "CleanupFinished"
    BY <1>8 DEF Cleanup, UnchangedDisk, Command
  <2>2. \/ EndKept
        \/ /\ record.job.state \notin {"Completed", "Cancelled"}
           /\ record'.job.state = "Cancelled"
    BY <2>1, QuietStep DEF IInv, Ordinary
  <2>3. Alone
    BY <1>8, <2>1, LateAlone
  <2>4. CASE EndKept
    BY <1>4, <2>1, <2>3, <2>4 DEF Unseen
  <2>5. CASE record.job.state \notin {"Completed", "Cancelled"} /\ record'.job.state = "Cancelled"
    <3>1. Ends = "open" /\ Ends' = "cancelled"
      BY <2>5 DEF Ends
    <3> QED
      BY <1>1, <1>2, <1>3, <2>1, <2>3, <3>1, PromiseMoves
  <2> QED
    BY <2>2, <2>4, <2>5
<1>9. CASE PowerCut
  <2>1. PICK s, t \in past : names' = [s EXCEPT !.dest = t.dest] /\ past' = {names'}
    BY <1>9 DEF PowerCut
  <2>2. names'.dest = t.dest
    BY <1>2, <2>1 DEF Entries
  <2>3. Shown' \in Was /\ Was' = {Shown'}
    BY <1>1, <2>1, <2>2 DEF Was
  <2>4. Ends' = Ends
    BY <1>9 DEF PowerCut, Ends
  <2>5. Losses' = Losses + 1 /\ Touched' = Touched
    BY <1>2, <1>9 DEF PowerCut, Spend, Budgets, Losses, Touched
  <2> QED
    BY <2>3, <2>4, <2>5, PromiseMoves
<1>10. CASE Foreigner
  <2>1. /\ names.dest \in {Free, Foreign} /\ record' = record
        /\ names' = [names EXCEPT !.dest = IF @ = Free THEN Foreign ELSE Free]
        /\ past' = past \cup {names'}
    BY <1>10 DEF Foreigner, Renamed
  <2>2. names'.dest = IF names.dest = Free THEN Foreign ELSE Free
    BY <1>2, <2>1 DEF Entries
  <2>3. Ends' = Ends
    BY <2>1 DEF Ends
  <2>4. Was' \subseteq Was \cup {Shown'}
    BY <1>1, <2>1 DEF Was
  <2>5. Touched' = Touched + 1 /\ Losses' = Losses
    BY <1>2, <1>10 DEF Foreigner, Spend, Budgets, Losses, Touched
  <2>6. <<Shown, Shown'>> \in {<<Free, Foreign>>, <<Foreign, Free>>}
    BY <1>1, <2>1, <2>2
  <2> QED
    BY <1>2, <2>3, <2>4, <2>5, <2>6, PromiseMoves
<1>11. ASSUME Unseen, names'.dest = names.dest => Alone
       PROVE  [Promise!Next]_(Promise!vars)
  BY <1>4, <1>11 DEF Unseen
<1> QED
  BY <1>5, <1>6, <1>7, <1>8, <1>9, <1>10, <1>11, EarlyUnseen, LateUnseen, EarlyAlone, LateAlone
     DEF Next

\* Publishing implements Publication: only a free name is taken, at once and whole, no step
\* of the engine touches what stands there, whoever put it there, and a job completes only
\* while its bytes stand there; what a loss of power brings back was there since the
\* directory was last forced.
THEOREM PublishingKeepsPromise == Spec => KeepsPromise
<1>1. Init => Promise!Init
  <2> HAVE Init
  <2>1. names.dest = Free /\ Free \notin Generations /\ past = {names}
    BY Values DEF Init
  <2>2. Was = {Free} /\ Shown = Free
    BY <2>1 DEF Was, Shown
  <2>3. Losses = 0 /\ Touched = 0
    BY PublishAssumption DEF Init, Losses, Touched
  <2>4. Ends = "open"
    BY DEF Init, NewJob, Ends
  <2> QED
    BY <2>2, <2>3, <2>4 DEF Promise!Init, Was, Shown, Losses, Touched, Ends, job
<1>2. IInv /\ IInv' /\ [Next]_vars => [Promise!Next]_(Promise!vars)
  BY PromiseStep
<1> QED
  BY <1>1, <1>2, PublishInvariant, PTL DEF Spec, KeepsPromise, Promise!Spec
=============================================================================
