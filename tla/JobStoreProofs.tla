--------------------------- MODULE JobStoreProofs ---------------------------
(***************************************************************************)
(* The job and its record, for any number of owners, any commands, sizes,  *)
(* attempts, generations and versions.                                     *)
(*                                                                         *)
(* The argument is in two halves.  JobStep is about one job: whatever      *)
(* Job::execute makes of a consistent job is consistent, and stands to it  *)
(* as StepOf says (which generation, which plan, which bytes, which stop   *)
(* target).  The inductive invariant IInv then says what each place where  *)
(* a decision may be knows of the others: a copy is never ahead of the     *)
(* record, a decision that is not yet committed stands to the copy it was  *)
(* made from as StepOf says even when segment work went on since, and one  *)
(* that was confirmed is the record's, until another owner overtakes it.   *)
(* None of the properties is inductive without these.                      *)
(***************************************************************************)
EXTENDS JobStore, TLAPS

States == {"Queued", "Probing", "Transferring", "Stopping", "Paused", "RetryWait", "NeedsAction",
           "Failed", "Verifying", "Publishing", "Completed", "Cancelling", "Cancelled"}

Reasons == {NoReason} \cup {c.reason : c \in Commands}

Stops == [kind : {"None"} \cup DOMAIN Rank, at_tick : Nat \cup {NoTick}, reason : Reasons]

Maps == {NoMap} \cup UNION {ProgressOf(t) : t \in 0 .. MaxBytes}

JobsOf ==
  [state : States, generation : Nat, reason : Reasons, retry_at : Nat \cup {NoTick},
   stop : Stops, replace_on_drain : BOOLEAN, attempts : Nat, validator : Nat,
   segments : Maps]

DecidedOf ==
  [state : States, generation : Nat, reason : Reasons, retry_at : Nat \cup {NoTick},
   stop : Stops, replace_on_drain : BOOLEAN, attempts : Nat, validator : Nat]

\* What Job::restore asks of the decided part, and what a stop target must carry for the
\* state it leads to.
Consistent(d) ==
  /\ (d.stop # NoStop) = (d.state = "Stopping")
  /\ (d.stop.kind = "None") = (d.state # "Stopping")
  /\ d.replace_on_drain => d.state = "Stopping"
  /\ (d.retry_at # NoTick) = (d.state = "RetryWait")
  /\ d.state \in {"NeedsAction", "Failed"} => d.reason # NoReason
  /\ d.stop.kind = "RetryWait" => d.stop.at_tick # NoTick
  /\ (d.stop.reason # NoReason) = (d.stop.kind \in {"NeedsAction", "Failed"})
  /\ d.stop.kind = "Verifying" => ~d.replace_on_drain

\* The decided part claims that every byte is durable.
ClaimsAll(d) == d.state \in NeedsAllBytes \/ d.stop.kind = "Verifying"

Drained(j) ==
  /\ j.state \notin SegmentStates \cup {"Cancelled"} => Quiescent(j) /\ ~HasUnsynced(j.segments)
  /\ j.state = "Cancelled" => Quiescent(j)

JobOK(j) ==
  /\ j \in JobsOf
  /\ Consistent(j)
  /\ j.state \in NeedsPlan => j.segments # NoMap
  /\ ClaimsAll(j) => Complete(j)
  /\ Drained(j)

\* The plan of the job that the decision d of command c on job j leads to.
TotalAfter(j, c, d) ==
  IF d.generation # j.generation THEN NoMap.total
  ELSE IF c.name = "ProbeSucceeded" /\ j.segments = NoMap THEN c.total
  ELSE j.segments.total

Severity(a, d) ==
  IF d.state = "Stopping"
    THEN \/ d.stop.kind = a.kind /\ d.stop.at_tick >= a.at_tick /\ d.stop.reason = a.reason
         \/ Rank[d.stop.kind] > Rank[a.kind]
         \/ a.kind = "Paused" /\ d.stop.kind \in {"Queued", "Verifying"}
    ELSE d.state \in {a.kind, "Cancelling"}

\* How a decision stands to the job it is made from.
StepOf(j, c, d) ==
  /\ Consistent(d)
  /\ d.generation \in {j.generation, j.generation + 1}
  /\ d.state \in NeedsPlan => TotalAfter(j, c, d) # NoMap.total
  /\ TotalAfter(j, c, d) <= MaxBytes
  /\ ClaimsAll(d) => Complete(j) /\ TotalAfter(j, c, d) = j.segments.total
                     /\ d.generation = j.generation
  /\ j.state \notin {"Completed", "Cancelled"}
  /\ j.state = "Stopping" => Severity(j.stop, d)

-----------------------------------------------------------------------------
(***************************************************************************)
(* The inductive invariant.                                                *)
(***************************************************************************)
RowOK ==
  /\ row \in [present : BOOLEAN, version : Nat, total : Int, extents : SUBSET Int,
              decided : DecidedOf]
  /\ row.total = NoMap.total \/ row.total \in Nat
  /\ Consistent(row.decided)
  /\ Restorable
  /\ ClaimsAll(row.decided) => Planned /\ row.extents = Bytes(row.total)

\* A decision that waits for its commit is about the copy it was made from.
Waiting(o) ==
  LET e == event[o]
      j == copy[o].job
  IN  /\ e.version = copy[o].version + 1
      /\ e.from = j.state /\ e.generation = j.generation
      /\ e.command \in Commands
      /\ Decided(e.outcome) \in DecidedOf
      /\ StepOf(j, e.command, Decided(e.outcome))

\* One that was confirmed is the record's until another owner's is.
Confirmed(o) ==
  LET e == event[o]
      j == copy[o].job
  IN  /\ e.command \in Commands
      /\ e.version \in Nat /\ Decided(e.outcome).generation \in Nat
      /\ e.version <= row.version
      /\ Decided(e.outcome).generation <= row.decided.generation
      /\ e.version = row.version =>
           /\ row.decided = Decided(e.outcome)
           /\ row.total = TotalAfter(j, e.command, Decided(e.outcome))

\* A batch of extents that was confirmed is in the record, unless it was replaced.
Recorded(o) ==
  LET j == copy[o].job IN
  /\ j.generation = row.decided.generation => j.segments.frozen \subseteq row.extents
  /\ j.segments # NoMap
  /\ event[o] = NoEvent

\* CopyMatchesRecord, of one owner.
Matches(o) ==
  /\ copy[o].version = row.version =>
       /\ Decided(Projection(copy[o].job)) = row.decided
       /\ copy[o].job.segments.total = row.total
  /\ copy[o].job.generation = row.decided.generation =>
       copy[o].job.segments.durable \subseteq row.extents

OwnerOK(o) ==
  /\ JobOK(copy[o].job)
  /\ copy[o].version <= row.version
  /\ copy[o].job.generation <= row.decided.generation
  /\ answer[o] = "None" /\ event[o] # NoEvent => Waiting(o)
  /\ answer[o] = "Transition" => Confirmed(o)
  /\ answer[o] = "Extents" => Recorded(o)
  /\ Matches(o)

Shapes ==
  /\ copy \in [Owners -> [job : JobsOf, version : Nat]]
  /\ DOMAIN event = Owners
  /\ answer \in [Owners -> {"None", "Transition", "Extents"}]

IInv == RowOK /\ Shapes /\ \A o \in Owners : OwnerOK(o)

-----------------------------------------------------------------------------
(***************************************************************************)
(* One job.                                                                *)
(***************************************************************************)

\* A job without a plan: no byte in any state.
LEMMA NoMapFields ==
  /\ NoMap.total = -1 /\ NoMap.leased = {} /\ NoMap.written = {} /\ NoMap.durable = {}
  /\ NoMap.frozen = {} /\ NoMap.ckpt = NoCheckpoint
BY DEF NoMap, Fresh

\* A map is the absent one or has a size within the limit, and its total tells which.
LEMMA MapFields ==
  ASSUME NEW p \in Maps
  PROVE  /\ p.total \in Int
         /\ (p = NoMap) = (p.total = -1)
         /\ p # NoMap => p.total \in 0 .. MaxBytes /\ p \in ProgressOf(p.total)
BY NoMapFields, JobAssumption DEF Maps, ProgressOf

\* A new map and a restored one are maps.
LEMMA RestoredIsMap ==
  ASSUME NEW t \in 0 .. MaxBytes, NEW D \in SUBSET Bytes(t)
  PROVE  /\ Restored(t, D) \in Maps /\ Restored(t, D) # NoMap
         /\ Restored(t, D).total = t /\ Restored(t, D).durable = D
         /\ Restored(t, D).leased = {} /\ Restored(t, D).written = {}
         /\ Restored(t, D).ckpt = NoCheckpoint
         /\ Fresh(t) \in Maps /\ Fresh(t) # NoMap
         /\ Fresh(t).total = t /\ Fresh(t).durable = {} /\ Fresh(t).leased = {}
         /\ Fresh(t).written = {} /\ Fresh(t).ckpt = NoCheckpoint
<1>1. Fresh(t) \in ProgressOf(t) /\ Restored(t, D) \in ProgressOf(t)
  BY DEF Fresh, Restored, ProgressOf
<1>2. Fresh(t).total = t /\ Restored(t, D).total = t
  BY DEF Fresh, Restored
<1>3. t # -1
  BY JobAssumption
<1> QED
  BY <1>1, <1>2, <1>3, NoMapFields DEF Fresh, Restored, Maps

\* The stop target of a cause, and what Raise makes of two targets.
LEMMA CauseTarget ==
  ASSUME NEW c \in Commands, c.name \in DOMAIN CauseKind
  PROVE  LET t == Cause(c) IN
         /\ t \in Stops /\ t.kind \in {"Paused", "Queued", "RetryWait", "NeedsAction", "Failed"}
         /\ t # NoStop
         /\ t.kind = "RetryWait" => t.at_tick # NoTick
         /\ (t.reason # NoReason) = (t.kind \in {"NeedsAction", "Failed"})
<1>1. IsCommand(c)
  BY StoreAssumption
<1>2. c.reason \in Reasons
  BY DEF Reasons
<1>3. /\ Cause(c).kind = CauseKind[c.name] /\ Cause(c).at_tick = c.at_tick
      /\ Cause(c).reason = c.reason
  BY DEF Cause, Target
<1>4. Cause(c) \in Stops
  BY <1>1, <1>2 DEF Cause, Target, Stops, CauseKind, Rank, IsCommand, NoTick
<1>5. NoStop.kind = "None"
  BY DEF NoStop, Target
<1> QED
  BY <1>1, <1>3, <1>4, <1>5 DEF CauseKind, IsCommand

\* The targets without a reason.
LEMMA SimpleTarget ==
  ASSUME NEW kind \in {"Verifying", "Queued"}
  PROVE  /\ Simple(kind) \in Stops /\ Simple(kind) # NoStop
         /\ Simple(kind).kind = kind /\ Simple(kind).reason = NoReason
         /\ NoStop \in Stops /\ NoStop.kind = "None" /\ NoStop.reason = NoReason
BY DEF Simple, Target, Stops, NoStop, Reasons, Rank, NoTick

\* Of two targets the harder one stays, and never a softer one.
LEMMA RaiseTarget ==
  ASSUME NEW a \in Stops, NEW b \in Stops, a.kind # "None", b.kind \notin {"None", "Verifying"},
         (a.reason # NoReason) = (a.kind \in {"NeedsAction", "Failed"}),
         (b.reason # NoReason) = (b.kind \in {"NeedsAction", "Failed"})
  PROVE  LET t == Raise(a, b) IN
         /\ t \in {a, b}
         /\ t.kind # "Verifying"
         /\ \/ t.kind = a.kind /\ t.at_tick >= a.at_tick /\ t.reason = a.reason
            \/ Rank[t.kind] > Rank[a.kind]
<1>1. /\ a.kind \in DOMAIN Rank /\ b.kind \in DOMAIN Rank
      /\ a.at_tick \in Int /\ b.at_tick \in Int
  BY DEF Stops, NoTick
<1>2. Rank["Verifying"] = 0 /\ Rank[b.kind] > 0
  BY <1>1 DEF Rank
<1>3. CASE a.kind = "RetryWait" /\ b.kind = "RetryWait"
  BY <1>1, <1>3 DEF Raise
<1>4. CASE ~(a.kind = "RetryWait" /\ b.kind = "RetryWait") /\ Rank[b.kind] > Rank[a.kind]
  BY <1>1, <1>4 DEF Raise
<1>5. CASE ~(a.kind = "RetryWait" /\ b.kind = "RetryWait") /\ ~(Rank[b.kind] > Rank[a.kind])
  <2>1. Raise(a, b) = a
    BY <1>5 DEF Raise
  <2> QED
    BY <2>1, <1>1, <1>2, <1>5
<1> QED
  BY <1>3, <1>4, <1>5
\* Job::execute by its arms.
Arms(j, c, k) ==
  LET s == j.state
      n == c.name
  IN
  \/ s = "Queued" /\ n = "Start" /\ k = [j EXCEPT !.state = "Probing", !.attempts = Bump(@)]
  \/ s = "Probing" /\ n = "ProbeSucceeded" /\ k \in Probed(j, c)
  \/ s \in Running /\ n \in DOMAIN CauseKind /\ k = Begin(j, Cause(c))
  \/ s \in Running /\ n = "RepresentationChanged"
     /\ k = [Begin(j, Simple("Queued")) EXCEPT !.replace_on_drain = TRUE]
  \/ s = "Transferring" /\ n = "AllSegmentsDurable"
     /\ k \in Only(Complete(j), Begin(j, Simple("Verifying")))
  \/ s = "Stopping" /\ n = "Resume" /\ k = ResumeStopping(j)
  \/ s = "Stopping" /\ n = "RepresentationChanged"
     /\ k = IF j.replace_on_drain THEN j ELSE Replacing(j)
  \/ s = "Stopping" /\ n \in DOMAIN CauseKind /\ k = [j EXCEPT !.stop = Raise(@, Cause(c))]
  \/ s = "Stopping" /\ n = "WorkersDrained" /\ k \in WorkersDrained(j)
  \/ s \in {"Queued", "Verifying"} /\ n = "Pause" /\ k = [j EXCEPT !.state = "Paused"]
  \/ s = "RetryWait" /\ n = "Pause"
     /\ k = [[j EXCEPT !.state = "Paused"] EXCEPT !.retry_at = NoTick]
  \/ s \in Resumable /\ n = "Resume"
     /\ k \in Only(~(s = "NeedsAction" /\ j.reason \in {"SourceChanged", "Integrity"}),
                   Resumed(j))
  \/ s = "RetryWait" /\ n = "RetryDue"
     /\ k \in Only(c.at_tick >= j.retry_at,
                   [[j EXCEPT !.state = "Queued"] EXCEPT !.retry_at = NoTick])
  \/ s \in {"Verifying", "Publishing"} /\ n = "RequireAction"
     /\ k = [[j EXCEPT !.state = "NeedsAction"] EXCEPT !.reason = c.reason]
  \/ s = "Verifying" /\ n = "Fail"
     /\ k = [[j EXCEPT !.state = "Failed"] EXCEPT !.reason = c.reason]
  \/ s = "Verifying" /\ n = "VerificationPassed" /\ k = [j EXCEPT !.state = "Publishing"]
  \/ s = "Publishing" /\ n = "PublishCommitted" /\ k = [j EXCEPT !.state = "Completed"]
  \/ s \in Running \cup Resumable \cup {"Queued", "Stopping", "Verifying"} /\ n = "Cancel"
     /\ k = Cancelled(j)
  \/ s = "Cancelling" /\ n = "CleanupFinished"
     /\ k \in Only(Quiescent(j), [j EXCEPT !.state = "Cancelled"])
  \/ s \in {"NeedsAction", "Paused", "Failed"} /\ n = "ReplaceRepresentation"
     /\ k \in Only(j.generation < LastGeneration, Replaced(j))
  \/ k = j

\* What Execute holds comes from one of its arms.
LEMMA ExecuteArms ==
  ASSUME NEW j, NEW c, NEW k \in Execute(j, c)
  PROVE  Arms(j, c, k)
BY DEF Execute, Arms
\* What Execute leaves, and how it stands to what was there.
Result(j, c, k) ==
  /\ JobOK(k)
  /\ StepOf(j, c, k)
  /\ k.segments.total = TotalAfter(j, c, k)
  /\ k.segments.durable \subseteq j.segments.durable
  /\ k.generation # j.generation => k.segments.durable = {}

\* The arms that leave the segment map and the generation alone.
LEMMA KeepsPlan ==
  ASSUME NEW j, NEW c, NEW k \in JobsOf, JobOK(j),
         c.name = "ProbeSucceeded" => j.segments # NoMap,
         k.segments = j.segments, k.generation = j.generation,
         Consistent(k), Drained(k),
         k.state \in NeedsPlan => j.segments # NoMap,
         ClaimsAll(k) => Complete(j),
         j.state \notin {"Completed", "Cancelled"},
         j.state = "Stopping" => Severity(j.stop, k)
  PROVE  Result(j, c, k)
<1>1. j \in JobsOf /\ j.segments \in Maps
  BY DEF JobOK, JobsOf
<1>2. TotalAfter(j, c, k) = j.segments.total
  BY DEF TotalAfter
<1>3. j.segments.total <= MaxBytes /\ (j.segments # NoMap => j.segments.total # NoMap.total)
  BY <1>1, MapFields, NoMapFields, JobAssumption
<1>4. Complete(k) = Complete(j)
  BY DEF Complete
<1>5. StepOf(j, c, k)
  BY <1>2, <1>3 DEF StepOf, JobsOf
<1>6. JobOK(k)
  BY <1>4 DEF JobOK
<1> QED
  BY <1>2, <1>5, <1>6 DEF Result

\* The arms that start a new generation.
LEMMA StartsOver ==
  ASSUME NEW j, NEW c, NEW k \in JobsOf, JobOK(j),
         k.segments = NoMap, k.generation = j.generation + 1,
         Consistent(k),
         k.state \notin NeedsPlan, ~ClaimsAll(k),
         j.state \notin {"Completed", "Cancelled"},
         j.state = "Stopping" => Severity(j.stop, k)
  PROVE  Result(j, c, k)
<1>1. j \in JobsOf /\ j.generation \in Nat
  BY DEF JobOK, JobsOf
<1>2. TotalAfter(j, c, k) = NoMap.total
  BY <1>1 DEF TotalAfter
<1>3. Drained(k)
  BY NoMapFields
     DEF Drained, Quiescent, HasActiveLeases, HasPendingCheckpoint, HasUnsynced
<1>4. StepOf(j, c, k)
  BY <1>2, NoMapFields, JobAssumption DEF StepOf
<1>5. JobOK(k)
  BY <1>3 DEF JobOK
<1> QED
  BY <1>2, <1>4, <1>5, NoMapFields DEF Result
\* The facts about a consistent job that the arms use.
LEMMA JobFacts ==
  ASSUME NEW j, JobOK(j)
  PROVE  /\ j \in JobsOf /\ j.segments \in Maps /\ j.stop \in Stops
         /\ j.generation \in Nat /\ j.attempts \in Nat
         /\ j.state # "Stopping" => j.stop = NoStop /\ j.stop.kind = "None"
                                    /\ ~j.replace_on_drain /\ j.stop.reason = NoReason
         /\ j.state = "Stopping" => j.stop.kind \in DOMAIN Rank /\ j.stop # NoStop
         /\ (j.retry_at # NoTick) = (j.state = "RetryWait")
BY DEF JobOK, JobsOf, Consistent, Stops

\* A new generation starts without plan and validator.
LEMMA NextGenerationFields ==
  ASSUME NEW j \in JobsOf
  PROVE  LET k == NextGeneration(j) IN
         /\ k \in JobsOf
         /\ k.generation = j.generation + 1 /\ k.segments = NoMap /\ k.validator = NoValidator
         /\ k.state = j.state /\ k.stop = j.stop /\ k.retry_at = j.retry_at
         /\ k.reason = j.reason /\ k.replace_on_drain = j.replace_on_drain
<1>1. PICK g \in Nat : g = j.generation + 1
  BY DEF JobsOf
<1>2. NextGeneration(j) = [j EXCEPT !.generation = g, !.segments = NoMap, !.validator = NoValidator]
  BY <1>1 DEF NextGeneration
<1>3. NoMap \in Maps /\ NoValidator \in Nat
  BY DEF Maps, NoValidator
<1> QED
  BY <1>1, <1>2, <1>3 DEF JobsOf

\* WorkersDrained: the job lands where its stop target says.
LEMMA DrainedStep ==
  ASSUME NEW j, NEW c, JobOK(j), j.state = "Stopping", c.name = "WorkersDrained",
         NEW k \in WorkersDrained(j)
  PROVE  Result(j, c, k)
<1> DEFINE r == j.replace_on_drain
           b == IF r THEN NextGeneration([j EXCEPT !.replace_on_drain = FALSE]) ELSE j
<1>1. /\ Settled(j) /\ k = Land(b, j.stop)
  BY DEF WorkersDrained, Only
<1>2. /\ j \in JobsOf /\ j.segments \in Maps /\ j.stop \in Stops /\ j.generation \in Nat
      /\ j.stop.kind \in DOMAIN Rank /\ j.retry_at = NoTick
      /\ j.stop.kind = "RetryWait" => j.stop.at_tick # NoTick
      /\ j.stop.kind \in {"NeedsAction", "Failed"} => j.stop.reason # NoReason
      /\ j.stop.kind = "Verifying" => ~r /\ Complete(j)
  BY JobFacts DEF JobOK, Consistent, ClaimsAll
<1>3. NoMap \in Maps /\ NoStop \in Stops /\ NoValidator \in Nat /\ NoStop.kind = "None"
      /\ NoStop.reason = NoReason
  BY SimpleTarget DEF Maps, NoValidator
<1>4. /\ b \in JobsOf /\ ~b.replace_on_drain /\ b.state = "Stopping" /\ b.retry_at = NoTick
      /\ b.stop = j.stop
      /\ ~r => b = j
      /\ r => b.segments = NoMap /\ b.generation = j.generation + 1
  <2>1. CASE r
    <3> DEFINE i == [j EXCEPT !.replace_on_drain = FALSE]
    <3>1. /\ i \in JobsOf /\ i.replace_on_drain = FALSE /\ i.state = "Stopping"
          /\ i.retry_at = NoTick /\ i.stop = j.stop /\ i.generation = j.generation
      BY <1>2 DEF JobsOf
    <3> HIDE DEF i
    <3>2. b = NextGeneration(i)
      BY <2>1 DEF i
    <3> HIDE DEF b
    <3> QED
      BY <2>1, <3>1, <3>2, NextGenerationFields
  <2>2. CASE ~r
    BY <1>2, <2>2
  <2> QED
    BY <2>1, <2>2
<1> DEFINE m == [b EXCEPT !.stop = NoStop]
<1>5. /\ m \in JobsOf /\ ~m.replace_on_drain /\ m.retry_at = NoTick /\ m.stop = NoStop
      /\ m.segments = b.segments /\ m.generation = b.generation /\ m.reason = b.reason
  BY <1>3, <1>4 DEF JobsOf
<1>6. Complete(m) = Complete(b) /\ (~r => Complete(b) = Complete(j))
  BY <1>4, <1>5 DEF Complete
<1> HIDE DEF b, m
<1>7. /\ k \in JobsOf /\ k.state = j.stop.kind /\ k.stop = NoStop /\ ~k.replace_on_drain
      /\ k.segments = b.segments /\ k.generation = b.generation
      /\ (k.retry_at # NoTick) = (k.state = "RetryWait")
      /\ k.state \in {"NeedsAction", "Failed"} => k.reason # NoReason
  <2>1. k = CASE j.stop.kind = "Verifying" -> [m EXCEPT !.state = IF Complete(m) THEN "Verifying" ELSE "Paused"]
              [] j.stop.kind \in {"Queued", "Paused"} -> [m EXCEPT !.state = j.stop.kind]
              [] j.stop.kind = "RetryWait" -> [m EXCEPT !.state = "RetryWait",
                                                        !.retry_at = j.stop.at_tick]
              [] j.stop.kind \in {"NeedsAction", "Failed"} ->
                   [m EXCEPT !.state = j.stop.kind, !.reason = j.stop.reason]
    BY <1>1 DEF Land, m, b
  <2>2. j.stop.kind \in {"Verifying", "Queued", "Paused", "RetryWait", "NeedsAction", "Failed"}
    BY <1>2 DEF Rank
  <2>3. j.stop.at_tick \in Nat \cup {NoTick} /\ j.stop.reason \in Reasons
    BY <1>2 DEF Stops
  <2>4. CASE j.stop.kind = "Verifying"
    <3>1. Complete(m)
      BY <1>2, <1>6, <2>4, <1>4
    <3>2. k = [m EXCEPT !.state = "Verifying"]
      BY <2>1, <2>4, <3>1
    <3> QED
      BY <3>2, <1>5, <2>4 DEF JobsOf, States
  <2>5. CASE j.stop.kind \in {"Queued", "Paused"}
    <3>1. k = [m EXCEPT !.state = j.stop.kind]
      BY <2>1, <2>5
    <3> QED
      BY <3>1, <1>5, <2>5 DEF JobsOf, States
  <2>6. CASE j.stop.kind = "RetryWait"
    <3>1. k = [m EXCEPT !.state = "RetryWait", !.retry_at = j.stop.at_tick]
      BY <2>1, <2>6
    <3> QED
      BY <3>1, <1>2, <1>5, <2>3, <2>6 DEF JobsOf, States
  <2>7. CASE j.stop.kind \in {"NeedsAction", "Failed"}
    <3>1. k = [m EXCEPT !.state = j.stop.kind, !.reason = j.stop.reason]
      BY <2>1, <2>7
    <3> QED
      BY <3>1, <1>2, <1>5, <2>3, <2>7 DEF JobsOf, States
  <2> QED
    BY <2>2, <2>4, <2>5, <2>6, <2>7
<1>8. Consistent(k)
  BY <1>2, <1>3, <1>7 DEF Consistent, Rank
<1>9. Severity(j.stop, k) /\ j.state \notin {"Completed", "Cancelled"}
  BY <1>2, <1>7 DEF Severity, Rank
<1>10. k.state \in {"Verifying", "Queued", "Paused", "RetryWait", "NeedsAction", "Failed"}
  BY <1>2, <1>7 DEF Rank
<1>11. CASE r
  <2>1. k.state \notin NeedsPlan /\ ~ClaimsAll(k)
    BY <1>2, <1>3, <1>7, <1>10, <1>11 DEF NeedsPlan, ClaimsAll, NeedsAllBytes
  <2> QED
    BY <1>4, <1>7, <1>8, <1>9, <1>11, <2>1, StartsOver
<1>12. CASE ~r
  <2>1. k.segments = j.segments /\ k.generation = j.generation
    BY <1>4, <1>7, <1>12
  <2>2. Quiescent(j) /\ ~HasUnsynced(j.segments)
    BY <1>1, <1>12 DEF Settled
  <2>3. Drained(k)
    BY <2>1, <2>2, <1>10 DEF Drained, Quiescent
  <2>4. /\ ClaimsAll(k) => Complete(j)
        /\ k.state \in NeedsPlan => j.segments # NoMap
    BY <1>2, <1>3, <1>7, <1>10 DEF ClaimsAll, NeedsAllBytes, NeedsPlan, Complete
  <2> QED
    BY <1>7, <1>8, <1>9, <2>1, <2>3, <2>4, KeepsPlan
<1> QED
  BY <1>11, <1>12
\* A command that changes nothing but the state, the reason, the deadline or the attempts
\* of a job that does not stop.
LEMMA SettledStep ==
  ASSUME NEW j, NEW c, NEW k \in JobsOf, JobOK(j), c.name # "ProbeSucceeded",
         j.state \notin {"Stopping", "Completed", "Cancelled"},
         k.segments = j.segments, k.generation = j.generation, k.stop = j.stop,
         k.replace_on_drain = j.replace_on_drain,
         k.state # "Stopping",
         (k.retry_at # NoTick) = (k.state = "RetryWait"),
         k.state \in {"NeedsAction", "Failed"} => k.reason # NoReason,
         k.state \in NeedsAllBytes => Complete(j),
         k.state \in NeedsPlan => j.segments # NoMap,
         k.state \in SegmentStates \cup {"Cancelled"} \/ j.state \notin SegmentStates,
         k.state = "Cancelled" => Quiescent(j)
  PROVE  Result(j, c, k)
<1>1. /\ j.stop = NoStop /\ ~j.replace_on_drain /\ j.stop.kind = "None"
      /\ j.stop.reason = NoReason
  BY JobFacts
<1>2. Consistent(k)
  BY <1>1 DEF Consistent
<1>3. Drained(k)
  BY DEF Drained, JobOK, Quiescent
<1>4. ClaimsAll(k) => Complete(j)
  BY <1>1 DEF ClaimsAll
<1> QED
  BY <1>2, <1>3, <1>4, KeepsPlan

\* A command that stops a running job.
LEMMA BeginStep ==
  ASSUME NEW j, NEW c, NEW k \in JobsOf, JobOK(j), c.name # "ProbeSucceeded",
         j.state \in Running, k.state = "Stopping",
         k.segments = j.segments, k.generation = j.generation, k.retry_at = j.retry_at,
         k.stop # NoStop, k.stop.kind # "None",
         k.stop.kind = "RetryWait" => k.stop.at_tick # NoTick,
         (k.stop.reason # NoReason) = (k.stop.kind \in {"NeedsAction", "Failed"}),
         k.stop.kind = "Verifying" => Complete(j) /\ ~k.replace_on_drain
  PROVE  Result(j, c, k)
<1>1. j.retry_at = NoTick
  BY JobFacts DEF Running
<1>2. Consistent(k)
  BY <1>1 DEF Consistent
<1>3. Drained(k)
  BY DEF Drained, SegmentStates
<1>4. /\ ClaimsAll(k) => Complete(j)
      /\ k.state \notin NeedsPlan
  BY DEF ClaimsAll, NeedsAllBytes, NeedsPlan
<1> QED
  BY <1>2, <1>3, <1>4, KeepsPlan DEF Running

\* A command that moves the target of a job that stops.
LEMMA TargetStep ==
  ASSUME NEW j, NEW c, NEW k \in JobsOf, JobOK(j), c.name # "ProbeSucceeded",
         j.state = "Stopping", k.state = "Stopping",
         k.segments = j.segments, k.generation = j.generation, k.retry_at = j.retry_at,
         k.stop # NoStop, k.stop.kind # "None",
         k.stop.kind = "RetryWait" => k.stop.at_tick # NoTick,
         (k.stop.reason # NoReason) = (k.stop.kind \in {"NeedsAction", "Failed"}),
         k.stop.kind = "Verifying" => Complete(j) /\ ~k.replace_on_drain,
         Severity(j.stop, k)
  PROVE  Result(j, c, k)
<1>1. j.retry_at = NoTick
  BY JobFacts
<1>2. Consistent(k)
  BY <1>1 DEF Consistent
<1>3. Drained(k)
  BY DEF Drained, SegmentStates
<1>4. /\ ClaimsAll(k) => Complete(j)
      /\ k.state \notin NeedsPlan
  BY DEF ClaimsAll, NeedsAllBytes, NeedsPlan
<1> QED
  BY <1>2, <1>3, <1>4, KeepsPlan

\* ProbeSucceeded.
LEMMA ProbedStep ==
  ASSUME NEW j, NEW c \in Commands, JobOK(j), j.state = "Probing", c.name = "ProbeSucceeded",
         NEW k \in Probed(j, c)
  PROVE  Result(j, c, k)
<1>1. j \in JobsOf /\ j.stop = NoStop /\ j.stop.kind = "None" /\ ~j.replace_on_drain
      /\ j.stop.reason = NoReason /\ j.retry_at = NoTick
  BY JobFacts
<1>2. IsCommand(c)
  BY StoreAssumption
<1>3. CASE j.segments = NoMap
  <2>1. /\ c.total \in 0 .. MaxBytes
        /\ k = [j EXCEPT !.state = "Transferring", !.validator = c.validator,
                         !.segments = Fresh(c.total)]
    BY <1>2, <1>3, JobAssumption DEF Probed, Only, IsCommand
  <2>2. /\ Fresh(c.total) \in Maps /\ Fresh(c.total) # NoMap /\ Fresh(c.total).total = c.total
        /\ Fresh(c.total).durable = {}
    BY <2>1, RestoredIsMap
  <2>3. /\ k \in JobsOf /\ k.state = "Transferring" /\ k.segments = Fresh(c.total)
        /\ k.generation = j.generation /\ k.stop = j.stop
        /\ k.replace_on_drain = j.replace_on_drain /\ k.retry_at = j.retry_at
    BY <1>1, <1>2, <2>1, <2>2 DEF JobsOf, States, IsCommand
  <2>4. Consistent(k) /\ ~ClaimsAll(k)
    BY <1>1, <2>3 DEF Consistent, ClaimsAll, NeedsAllBytes
  <2>5. Drained(k)
    BY <2>3 DEF Drained, SegmentStates
  <2>6. JobOK(k)
    BY <2>2, <2>3, <2>4, <2>5 DEF JobOK
  <2>7. TotalAfter(j, c, k) = c.total
    BY <1>3, <2>3 DEF TotalAfter
  <2>8. StepOf(j, c, k)
    BY <2>1, <2>3, <2>4, <2>7, NoMapFields, JobAssumption DEF StepOf
  <2> QED
    BY <2>2, <2>3, <2>6, <2>7, <2>8 DEF Result
<1>4. CASE j.segments # NoMap
  <2>1. k = [j EXCEPT !.state = "Transferring"]
    BY <1>4 DEF Probed, Only
  <2>2. /\ k \in JobsOf /\ k.state = "Transferring" /\ k.segments = j.segments
        /\ k.generation = j.generation /\ k.stop = j.stop
        /\ k.replace_on_drain = j.replace_on_drain /\ k.retry_at = j.retry_at
    BY <1>1, <2>1 DEF JobsOf, States
  <2>3. Consistent(k) /\ ~ClaimsAll(k)
    BY <1>1, <2>2 DEF Consistent, ClaimsAll, NeedsAllBytes
  <2>4. Drained(k)
    BY <2>2 DEF Drained, SegmentStates
  <2> QED
    BY <1>4, <2>2, <2>3, <2>4, KeepsPlan
<1> QED
  BY <1>3, <1>4
\* Cancel, from wherever the job is.
LEMMA CancelStep ==
  ASSUME NEW j, NEW c, JobOK(j), c.name = "Cancel",
         j.state \in Running \cup Resumable \cup {"Queued", "Stopping", "Verifying"}
  PROVE  Result(j, c, Cancelled(j))
<1>1. PICK k : k = Cancelled(j)
  OBVIOUS
<1>2. j \in JobsOf /\ NoStop \in Stops /\ NoStop.kind = "None" /\ NoStop.reason = NoReason
  BY JobFacts, SimpleTarget
<1>3. /\ k \in JobsOf /\ k.state = "Cancelling" /\ k.stop = NoStop /\ k.replace_on_drain = FALSE
      /\ k.retry_at = NoTick /\ k.segments = j.segments /\ k.generation = j.generation
  BY <1>1, <1>2 DEF Cancelled, JobsOf, States, NoTick
<1>4. Consistent(k) /\ ~ClaimsAll(k) /\ k.state \notin NeedsPlan
  BY <1>2, <1>3 DEF Consistent, ClaimsAll, NeedsAllBytes, NeedsPlan
<1>5. Drained(k)
  BY <1>3 DEF Drained, SegmentStates
<1>6. Severity(j.stop, k)
  BY <1>3 DEF Severity
<1>7. j.state \notin {"Completed", "Cancelled"}
  BY DEF Running, Resumable
<1> QED
  BY <1>1, <1>3, <1>4, <1>5, <1>6, <1>7, KeepsPlan

\* ReplaceRepresentation of a job at rest.
LEMMA ReplacedStep ==
  ASSUME NEW j, NEW c, JobOK(j), j.state \in {"NeedsAction", "Paused", "Failed"}
  PROVE  Result(j, c, Replaced(j))
<1>1. PICK k : k = Replaced(j)
  OBVIOUS
<1>2. PICK m : m = NextGeneration(j)
  OBVIOUS
<1>3. /\ j \in JobsOf /\ j.stop = NoStop /\ ~j.replace_on_drain /\ j.stop.kind = "None"
      /\ j.stop.reason = NoReason
  BY JobFacts
<1>4. /\ m \in JobsOf /\ m.generation = j.generation + 1 /\ m.segments = NoMap
      /\ m.stop = j.stop /\ m.replace_on_drain = j.replace_on_drain
  BY <1>2, <1>3, NextGenerationFields
<1>5. k = [m EXCEPT !.reason = NoReason, !.retry_at = NoTick, !.attempts = 0, !.state = "Queued"]
  BY <1>1, <1>2 DEF Replaced
<1>6. /\ k \in JobsOf /\ k.state = "Queued" /\ k.retry_at = NoTick /\ k.stop = m.stop
      /\ k.replace_on_drain = m.replace_on_drain /\ k.segments = m.segments
      /\ k.generation = m.generation
  BY <1>4, <1>5 DEF JobsOf, States, Reasons
<1>7. Consistent(k) /\ ~ClaimsAll(k) /\ k.state \notin NeedsPlan
  BY <1>3, <1>4, <1>6 DEF Consistent, ClaimsAll, NeedsAllBytes, NeedsPlan
<1> QED
  BY <1>1, <1>4, <1>6, <1>7, StartsOver

\* What Job::execute makes of a consistent job is consistent, and stands to it as StepOf says.
LEMMA JobStep ==
  ASSUME NEW j, NEW c \in Commands, JobOK(j), NEW k \in Execute(j, c) \ {j}
  PROVE  Result(j, c, k)
<1>1. /\ j \in JobsOf /\ j.segments \in Maps /\ j.stop \in Stops
      /\ j.generation \in Nat /\ j.attempts \in Nat
      /\ (j.retry_at # NoTick) = (j.state = "RetryWait")
      /\ j.state # "Stopping" => ~j.replace_on_drain
      /\ j.state = "Stopping" => j.stop.kind \in DOMAIN Rank /\ j.stop # NoStop
  BY JobFacts
<1>2. IsCommand(c) /\ c.reason \in Reasons /\ NoReason \in Reasons
  BY StoreAssumption DEF Reasons
<1>3. /\ ClaimsAll(j) => Complete(j)
      /\ j.state \in NeedsPlan => j.segments # NoMap
      /\ Complete(j) => j.segments # NoMap
      /\ j.stop.kind = "RetryWait" => j.stop.at_tick # NoTick
      /\ (j.stop.reason # NoReason) = (j.stop.kind \in {"NeedsAction", "Failed"})
      /\ j.stop.kind = "Verifying" => ~j.replace_on_drain
  BY DEF JobOK, Consistent, Complete
<1>4. CASE j.state = "Queued" /\ c.name = "Start"
           /\ k = [j EXCEPT !.state = "Probing", !.attempts = Bump(@)]
  <2>1. Bump(j.attempts) \in Nat
    BY <1>1, JobAssumption DEF Bump
  <2>2. /\ k \in JobsOf /\ k.state = "Probing" /\ k.segments = j.segments
        /\ k.generation = j.generation /\ k.stop = j.stop
        /\ k.replace_on_drain = j.replace_on_drain /\ k.retry_at = j.retry_at
    BY <1>1, <1>4, <2>1 DEF JobsOf, States
  <2> QED
    BY <1>1, <1>4, <2>2, SettledStep DEF NeedsAllBytes, NeedsPlan, SegmentStates
<1>5. CASE j.state = "Probing" /\ c.name = "ProbeSucceeded" /\ k \in Probed(j, c)
  BY <1>5, ProbedStep
<1>6. CASE j.state \in Running /\ c.name \in DOMAIN CauseKind /\ k = Begin(j, Cause(c))
  <2>1. /\ Cause(c) \in Stops
        /\ Cause(c).kind \in {"Paused", "Queued", "RetryWait", "NeedsAction", "Failed"}
        /\ Cause(c) # NoStop
        /\ Cause(c).kind = "RetryWait" => Cause(c).at_tick # NoTick
        /\ (Cause(c).reason # NoReason) = (Cause(c).kind \in {"NeedsAction", "Failed"})
    BY <1>6, CauseTarget
  <2>2. /\ k \in JobsOf /\ k.state = "Stopping" /\ k.segments = j.segments /\ k.stop = Cause(c)
        /\ k.generation = j.generation /\ k.retry_at = j.retry_at
    BY <1>1, <1>6, <2>1 DEF Begin, JobsOf, States
  <2>3. c.name # "ProbeSucceeded"
    BY <1>6 DEF CauseKind
  <2> QED
    BY <1>6, <2>1, <2>2, <2>3, BeginStep
<1>7. CASE j.state \in Running /\ c.name = "RepresentationChanged"
           /\ k = [Begin(j, Simple("Queued")) EXCEPT !.replace_on_drain = TRUE]
  <2>1. /\ Simple("Queued") \in Stops /\ Simple("Queued") # NoStop
        /\ Simple("Queued").kind = "Queued" /\ Simple("Queued").reason = NoReason
    BY SimpleTarget
  <2>2. /\ k \in JobsOf /\ k.state = "Stopping" /\ k.segments = j.segments
        /\ k.stop = Simple("Queued")
        /\ k.generation = j.generation /\ k.retry_at = j.retry_at
    BY <1>1, <1>7, <2>1 DEF Begin, JobsOf, States
  <2>3. j.state \in Running /\ c.name # "ProbeSucceeded"
    BY <1>7
  <2> QED
    BY <2>1, <2>2, <2>3, BeginStep
<1>8. CASE j.state = "Transferring" /\ c.name = "AllSegmentsDurable"
           /\ k \in Only(Complete(j), Begin(j, Simple("Verifying")))
  <2>1. /\ Simple("Verifying") \in Stops /\ Simple("Verifying") # NoStop
        /\ Simple("Verifying").kind = "Verifying" /\ Simple("Verifying").reason = NoReason
    BY SimpleTarget
  <2>2. Complete(j) /\ k = Begin(j, Simple("Verifying"))
    BY <1>8 DEF Only
  <2>3. /\ k \in JobsOf /\ k.state = "Stopping" /\ k.segments = j.segments
        /\ k.stop = Simple("Verifying") /\ k.replace_on_drain = j.replace_on_drain
        /\ k.generation = j.generation /\ k.retry_at = j.retry_at
    BY <1>1, <2>1, <2>2 DEF Begin, JobsOf, States
  <2> QED
    BY <1>1, <1>8, <2>1, <2>2, <2>3, BeginStep DEF Running
<1>9. CASE j.state = "Stopping" /\ c.name = "Resume" /\ k = ResumeStopping(j)
  <2> DEFINE to == IF Complete(j) /\ ~j.replace_on_drain THEN "Verifying" ELSE "Queued"
  <2>1. j.stop.kind = "Paused" /\ k = [j EXCEPT !.attempts = 0, !.stop = Simple(to)]
    BY <1>9 DEF ResumeStopping
  <2>2. /\ to \in {"Verifying", "Queued"}
        /\ to = "Verifying" => Complete(j) /\ ~j.replace_on_drain
    OBVIOUS
  <2> HIDE DEF to
  <2>3. /\ Simple(to) \in Stops /\ Simple(to) # NoStop
        /\ Simple(to).kind = to /\ Simple(to).reason = NoReason
    BY <2>2, SimpleTarget
  <2>4. /\ k \in JobsOf /\ k.state = "Stopping" /\ k.segments = j.segments
        /\ k.stop = Simple(to) /\ k.replace_on_drain = j.replace_on_drain
        /\ k.generation = j.generation /\ k.retry_at = j.retry_at
    <3>1. PICK t \in Stops : t = Simple(to)
      BY <2>3
    <3>2. k = [j EXCEPT !.attempts = 0, !.stop = t] /\ j.state = "Stopping"
      BY <1>9, <2>1, <3>1
    <3> QED
      BY <1>1, <3>1, <3>2 DEF JobsOf
  <2>5. Severity(j.stop, k)
    BY <2>1, <2>2, <2>3, <2>4 DEF Severity
  <2> QED
    BY <1>9, <2>2, <2>3, <2>4, <2>5, TargetStep
<1>10. CASE j.state = "Stopping" /\ c.name = "RepresentationChanged"
            /\ k = IF j.replace_on_drain THEN j ELSE Replacing(j)
  <2> DEFINE t == Raise(j.stop, Simple("Queued"))
  <2>1. /\ Simple("Queued") \in Stops /\ Simple("Queued") # NoStop
        /\ Simple("Queued").kind = "Queued" /\ Simple("Queued").reason = NoReason
        /\ NoStop.kind = "None"
    BY SimpleTarget
  <2>2. j.stop.kind # "None"
    BY <1>1, <1>10 DEF Rank
  <2>3. /\ t \in {j.stop, Simple("Queued")}
        /\ t.kind # "Verifying"
        /\ \/ t.kind = j.stop.kind /\ t.at_tick >= j.stop.at_tick /\ t.reason = j.stop.reason
           \/ Rank[t.kind] > Rank[j.stop.kind]
    BY <1>1, <1>3, <2>1, <2>2, RaiseTarget
  <2>4. k = [j EXCEPT !.replace_on_drain = TRUE, !.stop = t]
    BY <1>10 DEF Replacing
  <2> HIDE DEF t
  <2>5. /\ k \in JobsOf /\ k.state = "Stopping" /\ k.segments = j.segments /\ k.stop = t
        /\ k.generation = j.generation /\ k.retry_at = j.retry_at
    BY <1>1, <1>10, <2>1, <2>3, <2>4, ZenonT(60) DEF JobsOf
  <2>6. Severity(j.stop, k)
    BY <2>3, <2>5 DEF Severity
  <2> QED
    BY <1>1, <1>3, <1>10, <2>1, <2>2, <2>3, <2>5, <2>6, TargetStep
<1>11. CASE j.state = "Stopping" /\ c.name \in DOMAIN CauseKind
            /\ k = [j EXCEPT !.stop = Raise(@, Cause(c))]
  <2> DEFINE t == Raise(j.stop, Cause(c))
  <2>1. /\ Cause(c) \in Stops
        /\ Cause(c).kind \in {"Paused", "Queued", "RetryWait", "NeedsAction", "Failed"}
        /\ Cause(c) # NoStop
        /\ Cause(c).kind = "RetryWait" => Cause(c).at_tick # NoTick
        /\ (Cause(c).reason # NoReason) = (Cause(c).kind \in {"NeedsAction", "Failed"})
    BY <1>11, CauseTarget
  <2>2. j.stop.kind # "None"
    BY <1>1, <1>11 DEF Rank
  <2>3. /\ t \in {j.stop, Cause(c)}
        /\ t.kind # "Verifying"
        /\ \/ t.kind = j.stop.kind /\ t.at_tick >= j.stop.at_tick /\ t.reason = j.stop.reason
           \/ Rank[t.kind] > Rank[j.stop.kind]
    BY <1>1, <1>3, <2>1, <2>2, RaiseTarget
  <2>4. k = [j EXCEPT !.stop = t]
    BY <1>11
  <2> HIDE DEF t
  <2>5. /\ k \in JobsOf /\ k.state = "Stopping" /\ k.segments = j.segments /\ k.stop = t
        /\ k.generation = j.generation /\ k.retry_at = j.retry_at
    BY <1>1, <1>11, <2>1, <2>3, <2>4 DEF JobsOf
  <2>6. Severity(j.stop, k)
    BY <2>3, <2>5 DEF Severity
  <2>7. c.name # "ProbeSucceeded"
    BY <1>11 DEF CauseKind
  <2> QED
    BY <1>1, <1>3, <1>11, <2>1, <2>2, <2>3, <2>5, <2>6, <2>7, TargetStep
<1>12. CASE j.state = "Stopping" /\ c.name = "WorkersDrained" /\ k \in WorkersDrained(j)
  BY <1>12, DrainedStep
<1>13. CASE j.state \in {"Queued", "Verifying"} /\ c.name = "Pause" /\ k = [j EXCEPT !.state = "Paused"]
  <2>1. /\ k \in JobsOf /\ k.state = "Paused" /\ k.segments = j.segments
        /\ k.generation = j.generation /\ k.stop = j.stop
        /\ k.replace_on_drain = j.replace_on_drain /\ k.retry_at = j.retry_at
    BY <1>1, <1>2, <1>13 DEF JobsOf, States, NoTick
  <2> QED
    BY <1>1, <1>2, <1>3, <1>13, <2>1, SettledStep
       DEF NeedsAllBytes, NeedsPlan, SegmentStates, ClaimsAll, IsCommand
<1>14. CASE j.state = "RetryWait" /\ c.name = "Pause"
            /\ k = [[j EXCEPT !.state = "Paused"] EXCEPT !.retry_at = NoTick]
  <2>1. /\ k \in JobsOf /\ k.state = "Paused" /\ k.segments = j.segments
        /\ k.generation = j.generation /\ k.stop = j.stop
        /\ k.replace_on_drain = j.replace_on_drain /\ k.retry_at = NoTick
    BY <1>1, <1>2, <1>14 DEF JobsOf, States, NoTick
  <2> QED
    BY <1>1, <1>2, <1>3, <1>14, <2>1, SettledStep
       DEF NeedsAllBytes, NeedsPlan, SegmentStates, ClaimsAll, IsCommand
<1>15. CASE j.state \in Resumable /\ c.name = "Resume"
            /\ k \in Only(~(j.state = "NeedsAction" /\ j.reason \in {"SourceChanged", "Integrity"}),
                          Resumed(j))
  <2> DEFINE to == IF j.state # "RetryWait" /\ Complete(j) THEN "Verifying" ELSE "Queued"
             why == IF j.state \in {"NeedsAction", "Failed"} THEN NoReason ELSE j.reason
             due == IF j.state = "RetryWait" THEN NoTick ELSE j.retry_at
  <2>1. k = [j EXCEPT !.state = to, !.reason = why, !.retry_at = due, !.attempts = 0]
    BY <1>15 DEF Only, Resumed
  <2>2. /\ to \in {"Verifying", "Queued"} /\ (to = "Verifying" => Complete(j))
        /\ why \in Reasons /\ due = NoTick /\ NoTick \in Nat \cup {NoTick}
    BY <1>1, <1>2 DEF JobsOf
  <2> HIDE DEF to, why, due
  <2>3. /\ k \in JobsOf /\ k.state = to /\ k.segments = j.segments
        /\ k.generation = j.generation /\ k.stop = j.stop
        /\ k.replace_on_drain = j.replace_on_drain /\ k.retry_at = NoTick
    BY <1>1, <2>1, <2>2 DEF JobsOf, States
  <2> QED
    BY <1>3, <1>15, <2>2, <2>3, SettledStep
       DEF NeedsAllBytes, NeedsPlan, SegmentStates, Resumable
<1>16. CASE j.state = "RetryWait" /\ c.name = "RetryDue"
            /\ k \in Only(c.at_tick >= j.retry_at,
                          [[j EXCEPT !.state = "Queued"] EXCEPT !.retry_at = NoTick])
  <2>1. k = [[j EXCEPT !.state = "Queued"] EXCEPT !.retry_at = NoTick]
    BY <1>16 DEF Only
  <2>2. /\ k \in JobsOf /\ k.state = "Queued" /\ k.segments = j.segments
        /\ k.generation = j.generation /\ k.stop = j.stop
        /\ k.replace_on_drain = j.replace_on_drain /\ k.retry_at = NoTick
    BY <1>1, <1>2, <1>16, <2>1 DEF JobsOf, States, NoTick
  <2> QED
    BY <1>1, <1>2, <1>3, <1>16, <2>1, <2>2, SettledStep
       DEF NeedsAllBytes, NeedsPlan, SegmentStates, ClaimsAll, IsCommand
<1>17. CASE j.state \in {"Verifying", "Publishing"} /\ c.name = "RequireAction"
            /\ k = [[j EXCEPT !.state = "NeedsAction"] EXCEPT !.reason = c.reason]
  <2>1. /\ k \in JobsOf /\ k.state = "NeedsAction" /\ k.segments = j.segments
        /\ k.generation = j.generation /\ k.stop = j.stop
        /\ k.replace_on_drain = j.replace_on_drain /\ k.retry_at = j.retry_at /\ k.reason = c.reason
    BY <1>1, <1>2, <1>17 DEF JobsOf, States, NoTick
  <2> QED
    BY <1>1, <1>2, <1>3, <1>17, <2>1, SettledStep
       DEF NeedsAllBytes, NeedsPlan, SegmentStates, ClaimsAll, IsCommand
<1>18. CASE j.state = "Verifying" /\ c.name = "Fail"
            /\ k = [[j EXCEPT !.state = "Failed"] EXCEPT !.reason = c.reason]
  <2>1. /\ k \in JobsOf /\ k.state = "Failed" /\ k.segments = j.segments
        /\ k.generation = j.generation /\ k.stop = j.stop
        /\ k.replace_on_drain = j.replace_on_drain /\ k.retry_at = j.retry_at /\ k.reason = c.reason
    BY <1>1, <1>2, <1>18 DEF JobsOf, States, NoTick
  <2> QED
    BY <1>1, <1>2, <1>3, <1>18, <2>1, SettledStep
       DEF NeedsAllBytes, NeedsPlan, SegmentStates, ClaimsAll, IsCommand
<1>19. CASE j.state = "Verifying" /\ c.name = "VerificationPassed" /\ k = [j EXCEPT !.state = "Publishing"]
  <2>1. /\ k \in JobsOf /\ k.state = "Publishing" /\ k.segments = j.segments
        /\ k.generation = j.generation /\ k.stop = j.stop
        /\ k.replace_on_drain = j.replace_on_drain /\ k.retry_at = j.retry_at
    BY <1>1, <1>2, <1>19 DEF JobsOf, States, NoTick
  <2> QED
    BY <1>1, <1>2, <1>3, <1>19, <2>1, SettledStep
       DEF NeedsAllBytes, NeedsPlan, SegmentStates, ClaimsAll, IsCommand
<1>20. CASE j.state = "Publishing" /\ c.name = "PublishCommitted" /\ k = [j EXCEPT !.state = "Completed"]
  <2>1. /\ k \in JobsOf /\ k.state = "Completed" /\ k.segments = j.segments
        /\ k.generation = j.generation /\ k.stop = j.stop
        /\ k.replace_on_drain = j.replace_on_drain /\ k.retry_at = j.retry_at
    BY <1>1, <1>2, <1>20 DEF JobsOf, States, NoTick
  <2> QED
    BY <1>1, <1>2, <1>3, <1>20, <2>1, SettledStep
       DEF NeedsAllBytes, NeedsPlan, SegmentStates, ClaimsAll, IsCommand
<1>21. CASE j.state \in Running \cup Resumable \cup {"Queued", "Stopping", "Verifying"}
            /\ c.name = "Cancel" /\ k = Cancelled(j)
  BY <1>21, CancelStep
<1>22. CASE j.state = "Cancelling" /\ c.name = "CleanupFinished"
            /\ k \in Only(Quiescent(j), [j EXCEPT !.state = "Cancelled"])
  <2>1. Quiescent(j) /\ k = [j EXCEPT !.state = "Cancelled"]
    BY <1>22 DEF Only
  <2>2. /\ k \in JobsOf /\ k.state = "Cancelled" /\ k.segments = j.segments
        /\ k.generation = j.generation /\ k.stop = j.stop
        /\ k.replace_on_drain = j.replace_on_drain /\ k.retry_at = j.retry_at
    BY <1>1, <1>2, <1>22, <2>1 DEF JobsOf, States, NoTick
  <2> QED
    BY <1>1, <1>2, <1>3, <1>22, <2>1, <2>2, SettledStep
       DEF NeedsAllBytes, NeedsPlan, SegmentStates, ClaimsAll, IsCommand
<1>23. CASE j.state \in {"NeedsAction", "Paused", "Failed"} /\ c.name = "ReplaceRepresentation"
            /\ k \in Only(j.generation < LastGeneration, Replaced(j))
  BY <1>23, ReplacedStep DEF Only
<1>24. Arms(j, c, k) /\ k # j
  BY ExecuteArms
<1> QED
  BY <1>24, <1>4, <1>5, <1>6, <1>7, <1>8, <1>9, <1>10, <1>11, <1>12, <1>13, <1>14, <1>15, <1>16, <1>17,
     <1>18, <1>19, <1>20, <1>21, <1>22, <1>23 DEF Arms
\* What an event records of a job: its decided part.
LEMMA DecidedFields ==
  ASSUME NEW k \in JobsOf
  PROVE  LET d == Decided(Projection(k)) IN
         /\ d \in DecidedOf
         /\ d.state = k.state /\ d.generation = k.generation /\ d.reason = k.reason
         /\ d.retry_at = k.retry_at /\ d.stop = k.stop /\ d.attempts = k.attempts
         /\ d.replace_on_drain = k.replace_on_drain /\ d.validator = k.validator
<1>1. PICK x : x = Projection(k)
  OBVIOUS
<1>2. /\ x.state = k.state /\ x.generation = k.generation /\ x.reason = k.reason
      /\ x.retry_at = k.retry_at /\ x.stop = k.stop /\ x.attempts = k.attempts
      /\ x.replace_on_drain = k.replace_on_drain /\ x.validator = k.validator
      /\ DOMAIN x = {"state", "generation", "reason", "retry_at", "stop", "replace_on_drain",
                     "attempts", "validator", "durable_bytes"}
  BY <1>1 DEF Projection
<1>3. PICK d : d = Decided(x)
  OBVIOUS
<1>4. /\ d.state = x.state /\ d.generation = x.generation /\ d.reason = x.reason
      /\ d.retry_at = x.retry_at /\ d.stop = x.stop /\ d.attempts = x.attempts
      /\ d.replace_on_drain = x.replace_on_drain /\ d.validator = x.validator
  BY <1>2, <1>3 DEF Decided
<1>5. d = [state |-> k.state, generation |-> k.generation, reason |-> k.reason,
           retry_at |-> k.retry_at, stop |-> k.stop, replace_on_drain |-> k.replace_on_drain,
           attempts |-> k.attempts, validator |-> k.validator]
  BY <1>2, <1>3, <1>4 DEF Decided
<1>6. d \in DecidedOf
  BY <1>5 DEF DecidedOf, JobsOf
<1> QED
  BY <1>1, <1>2, <1>3, <1>4, <1>6

\* Two decided parts with equal fields are equal.
LEMMA DecidedEqual ==
  ASSUME NEW a \in DecidedOf, NEW b \in DecidedOf,
         a.state = b.state, a.generation = b.generation, a.reason = b.reason,
         a.retry_at = b.retry_at, a.stop = b.stop, a.attempts = b.attempts,
         a.replace_on_drain = b.replace_on_drain, a.validator = b.validator
  PROVE  a = b
BY DEF DecidedOf

\* The decision stands to the job as the job it leads to does.
LEMMA DecisionOf ==
  ASSUME NEW j, NEW c, NEW k, Result(j, c, k)
  PROVE  LET d == Decided(Projection(k)) IN
         /\ d \in DecidedOf /\ StepOf(j, c, d)
         /\ TotalAfter(j, c, d) = TotalAfter(j, c, k)
<1>1. PICK d : d = Decided(Projection(k))
  OBVIOUS
<1>2. k \in JobsOf
  BY DEF Result, JobOK
<1>3. /\ d \in DecidedOf
      /\ d.state = k.state /\ d.generation = k.generation /\ d.reason = k.reason
      /\ d.retry_at = k.retry_at /\ d.stop = k.stop
      /\ d.replace_on_drain = k.replace_on_drain
  BY <1>1, <1>2, DecidedFields
<1>4. TotalAfter(j, c, d) = TotalAfter(j, c, k)
  BY <1>3 DEF TotalAfter
<1>5. Consistent(d) = Consistent(k) /\ ClaimsAll(d) = ClaimsAll(k)
  BY <1>3 DEF Consistent, ClaimsAll
<1>6. Severity(j.stop, d) = Severity(j.stop, k)
  BY <1>3 DEF Severity
<1>7. StepOf(j, c, d)
  BY <1>3, <1>4, <1>5, <1>6 DEF StepOf, Result
<1> QED
  BY <1>1, <1>3, <1>4, <1>7

\* The segment operations change neither the plan nor the durable bytes.
LEMMA SegmentStepMap ==
  ASSUME NEW j, JobOK(j), NEW p \in SegmentSteps(j)
  PROVE  /\ p \in Maps /\ p # NoMap /\ j.segments # NoMap /\ j.state \in SegmentStates
         /\ p.total = j.segments.total /\ p.durable = j.segments.durable
<1> DEFINE q == j.segments
<1>1. q # NoMap /\ j.state \in SegmentStates
  BY DEF SegmentSteps
<1>2. q.total \in 0 .. MaxBytes /\ q \in ProgressOf(q.total) /\ NoMap.total = -1
  BY <1>1, JobFacts, MapFields, NoMapFields
<1>3. \/ \E B \in SUBSET Bytes(q.total) : p = LeaseBytes(q, B)
      \/ \E B \in q.leased : p = MarkWritten(q, B)
      \/ \E B \in q.leased : p = ReleaseBytes(q, B)
      \/ p = PrepareSync(q)
      \/ p = AcknowledgeSync(q)
      \/ p = DiscardCheckpoint(q)
      \/ p = DiscardUnsynced(q)
  BY DEF SegmentSteps, Only, CanLease, PendingBytes
<1> HIDE DEF q
<1>4. p \in ProgressOf(q.total) /\ p.durable = q.durable /\ p.total = q.total
  <2>1. CASE \E B \in SUBSET Bytes(q.total) : p = LeaseBytes(q, B)
    BY <1>2, <2>1 DEF LeaseBytes, ProgressOf
  <2>2. CASE \E B \in q.leased : p = MarkWritten(q, B)
    <3>1. PICK B \in q.leased : p = MarkWritten(q, B)
      BY <2>2
    <3>2. PICK L, W : L = q.leased \ {B} /\ W = q.written \cup B
      OBVIOUS
    <3>3. L \in SUBSET SUBSET Bytes(q.total) /\ W \in SUBSET Bytes(q.total)
      BY <1>2, <3>1, <3>2 DEF ProgressOf
    <3>4. p = [q EXCEPT !.leased = L, !.written = W]
      BY <3>1, <3>2 DEF MarkWritten
    <3> QED
      BY <1>2, <3>3, <3>4 DEF ProgressOf
  <2>3. CASE \E B \in q.leased : p = ReleaseBytes(q, B)
    BY <1>2, <2>3 DEF ReleaseBytes, ProgressOf
  <2>4. CASE p = PrepareSync(q)
    BY <1>2, <2>4 DEF PrepareSync, ProgressOf
  <2>5. CASE p = AcknowledgeSync(q)
    BY <1>2, <2>5 DEF AcknowledgeSync, ProgressOf
  <2>6. CASE p = DiscardCheckpoint(q)
    BY <1>2, <2>6 DEF DiscardCheckpoint, ProgressOf
  <2>7. CASE p = DiscardUnsynced(q)
    BY <1>2, <2>7 DEF DiscardUnsynced, ProgressOf
  <2> QED
    BY <1>3, <2>1, <2>2, <2>3, <2>4, <2>5, <2>6, <2>7
<1>5. p \in Maps
  BY <1>2, <1>4 DEF Maps
<1>6. p # NoMap
  BY <1>2, <1>4, JobAssumption
<1> QED
  BY <1>1, <1>4, <1>5, <1>6 DEF q

\* A copy whose map moved on is consistent, and a decision stands to it as before.
LEMMA MapMoves ==
  ASSUME NEW j, JobOK(j), NEW p \in Maps, NEW k, k = [j EXCEPT !.segments = p],
         p # NoMap, j.segments # NoMap, p.total = j.segments.total,
         j.segments.durable \subseteq p.durable, p.durable \subseteq Bytes(p.total),
         \/ j.state \in SegmentStates
         \/ p.leased = j.segments.leased /\ p.written \subseteq j.segments.written
            /\ p.ckpt = NoCheckpoint
  PROVE  /\ JobOK(k)
         /\ k.segments = p /\ k.state = j.state /\ k.generation = j.generation
         /\ Decided(Projection(k)) = Decided(Projection(j))
         /\ \A c, d : /\ TotalAfter(k, c, d) = TotalAfter(j, c, d)
                      /\ StepOf(j, c, d) => StepOf(k, c, d)
<1>1. j \in JobsOf
  BY DEF JobOK
<1>2. /\ k \in JobsOf /\ k.segments = p /\ k.state = j.state /\ k.generation = j.generation
      /\ k.reason = j.reason /\ k.retry_at = j.retry_at /\ k.stop = j.stop
      /\ k.replace_on_drain = j.replace_on_drain /\ k.attempts = j.attempts
      /\ k.validator = j.validator
  BY <1>1 DEF JobsOf
<1>3. Complete(j) => Complete(k)
  BY <1>2 DEF Complete, AllDurable
<1>4. Consistent(k) = Consistent(j) /\ ClaimsAll(k) = ClaimsAll(j)
  BY <1>2 DEF Consistent, ClaimsAll
<1>5. Drained(k)
  BY <1>2 DEF JobOK, Drained, Quiescent, HasActiveLeases, HasPendingCheckpoint, HasUnsynced,
              SegmentStates
<1>6. JobOK(k)
  BY <1>2, <1>3, <1>4, <1>5 DEF JobOK
<1>7. Decided(Projection(k)) = Decided(Projection(j))
  <2>1. PICK a, b : a = Decided(Projection(k)) /\ b = Decided(Projection(j))
    OBVIOUS
  <2>2. /\ a \in DecidedOf /\ b \in DecidedOf
        /\ a.state = b.state /\ a.generation = b.generation /\ a.reason = b.reason
        /\ a.retry_at = b.retry_at /\ a.stop = b.stop /\ a.attempts = b.attempts
        /\ a.replace_on_drain = b.replace_on_drain /\ a.validator = b.validator
    BY <1>1, <1>2, <2>1, DecidedFields
  <2> QED
    BY <2>1, <2>2, DecidedEqual
<1>8. ASSUME NEW c, NEW d
      PROVE  /\ TotalAfter(k, c, d) = TotalAfter(j, c, d)
             /\ StepOf(j, c, d) => StepOf(k, c, d)
  <2>1. TotalAfter(k, c, d) = TotalAfter(j, c, d)
    BY <1>2 DEF TotalAfter
  <2> QED
    BY <1>2, <1>3, <2>1 DEF StepOf
<1> QED
  BY <1>2, <1>6, <1>7, <1>8
-----------------------------------------------------------------------------
(***************************************************************************)
(* The steps of the owners.                                                *)
(***************************************************************************)

\* A step of one owner that leaves the record alone disturbs no other owner.
LEMMA OwnerMoves ==
  ASSUME IInv, NEW o \in Owners, row' = row, Shapes', OwnerOK(o)',
         \A u \in Owners \ {o} : copy'[u] = copy[u] /\ event'[u] = event[u]
                                 /\ answer'[u] = answer[u]
  PROVE  IInv'
<1>1. RowOK'
  BY DEF IInv, RowOK, Restorable, Planned
<1>2. ASSUME NEW u \in Owners, u # o
      PROVE  OwnerOK(u)'
  <2>1. copy'[u] = copy[u] /\ event'[u] = event[u] /\ answer'[u] = answer[u]
    BY <1>2
  <2>2. OwnerOK(u)
    BY DEF IInv
  <2> QED
    BY <2>1, <2>2 DEF OwnerOK, Waiting, Confirmed, Recorded, Matches
<1> QED
  BY <1>1, <1>2 DEF IInv

\* An owner whose copy, event and answer stay is not disturbed by a record that only gains
\* extents, or that moves to a later version and forgets extents only with the generation.
LEMMA RecordMoves ==
  ASSUME IInv, RowOK', NEW u \in Owners,
         copy'[u] = copy[u], event'[u] = event[u], answer'[u] = answer[u],
         \/ row'.version = row.version /\ row'.decided = row.decided /\ row'.total = row.total
         \/ row'.version > row.version,
         row'.decided.generation >= row.decided.generation,
         row'.decided.generation = row.decided.generation => row.extents \subseteq row'.extents
  PROVE  OwnerOK(u)'
<1>1. OwnerOK(u) /\ copy[u].version \in Nat /\ copy[u].job.generation \in Nat
  BY DEF IInv, Shapes, JobsOf
<1>2. /\ row.version \in Nat /\ row'.version \in Nat
      /\ row.decided.generation \in Nat /\ row'.decided.generation \in Nat
  BY DEF IInv, RowOK, DecidedOf
<1>3. copy[u].version <= row'.version /\ copy[u].job.generation <= row'.decided.generation
  BY <1>1, <1>2 DEF OwnerOK
<1>4. Waiting(u) => Waiting(u)'
  BY DEF Waiting
<1>5. Recorded(u) => Recorded(u)'
  BY <1>1, <1>2 DEF Recorded, OwnerOK
<1>6. Matches(u)'
  BY <1>1, <1>2 DEF Matches, OwnerOK
<1>7. answer[u] = "Transition" => Confirmed(u)'
  <2>1. SUFFICES ASSUME answer[u] = "Transition" PROVE Confirmed(u)'
    OBVIOUS
  <2>2. Confirmed(u) /\ JobOK(copy[u].job)
    BY <1>1, <2>1 DEF OwnerOK
  <2>3. PICK e : e = event[u]
    OBVIOUS
  <2>4. /\ e.command \in Commands
        /\ e.version <= row.version
        /\ Decided(e.outcome).generation <= row.decided.generation
        /\ e.version \in Nat /\ Decided(e.outcome).generation \in Nat
    BY <2>2, <2>3 DEF Confirmed
  <2> QED
    BY <1>1, <1>2, <2>2, <2>3, <2>4 DEF Confirmed
<1> QED
  BY <1>1, <1>3, <1>4, <1>5, <1>6, <1>7 DEF OwnerOK
\* The initial state.
LEMMA JobStoreInit == Init => IInv
<1> SUFFICES ASSUME Init PROVE IInv
  OBVIOUS
<1>1. /\ NoStop \in Stops /\ NoStop.kind = "None" /\ NoStop.reason = NoReason
      /\ NoMap \in Maps /\ NoReason \in Reasons
  BY SimpleTarget DEF Maps, Reasons
<1>2. /\ NewJob \in JobsOf /\ NewJob.state = "Queued" /\ NewJob.stop = NoStop
      /\ NewJob.replace_on_drain = FALSE /\ NewJob.retry_at = NoTick
      /\ NewJob.segments = NoMap /\ NewJob.generation = 1 /\ NewJob.validator = NoValidator
  BY <1>1 DEF NewJob, JobsOf, States, NoValidator
<1>3. Consistent(NewJob) /\ ~ClaimsAll(NewJob)
  BY <1>1, <1>2 DEF Consistent, ClaimsAll, NeedsAllBytes
<1>4. Drained(NewJob)
  BY <1>2, NoMapFields
     DEF Drained, Quiescent, HasActiveLeases, HasPendingCheckpoint, HasUnsynced
<1>5. JobOK(NewJob)
  BY <1>2, <1>3, <1>4 DEF JobOK, NeedsPlan
<1>6. PICK d : d = Decided(Projection(NewJob))
  OBVIOUS
<1>7. /\ d \in DecidedOf /\ d.state = "Queued" /\ d.stop = NoStop /\ d.replace_on_drain = FALSE
      /\ d.retry_at = NoTick /\ d.generation = 1 /\ d.validator = NoValidator
  BY <1>2, <1>6, DecidedFields
<1>8. Consistent(d) /\ ~ClaimsAll(d)
  BY <1>1, <1>7 DEF Consistent, ClaimsAll, NeedsAllBytes
<1>9. /\ row.present = TRUE /\ row.version = 0 /\ row.total = -1 /\ row.extents = {}
      /\ row.decided = d
      /\ row \in [present : BOOLEAN, version : Nat, total : Int, extents : SUBSET Int,
                  decided : DecidedOf]
  BY <1>6, <1>7, NoMapFields DEF Init
<1>10. Restorable
  BY <1>7, <1>8, <1>9, NoMapFields DEF Restorable, Consistent, Planned, NeedsPlan, NeedsAllBytes
<1>11. RowOK
  BY <1>8, <1>9, <1>10, NoMapFields DEF RowOK
<1>12. Shapes
  BY <1>2 DEF Init, Shapes
<1>13. ASSUME NEW o \in Owners PROVE OwnerOK(o)
  <2>1. /\ copy[o].job = NewJob /\ copy[o].version = 0 /\ event[o] = NoEvent
        /\ answer[o] = "None"
    BY DEF Init
  <2>2. Matches(o)
    BY <1>2, <1>6, <1>9, <2>1, NoMapFields DEF Matches
  <2> QED
    BY <1>2, <1>5, <1>7, <1>9, <2>1, <2>2 DEF OwnerOK
<1> QED
  BY <1>11, <1>12, <1>13 DEF IInv

\* Load: what is restored is the record.
LEMMA LoadStep ==
  ASSUME IInv, NEW o \in Owners, Load(o)
  PROVE  IInv'
<1>1. /\ row \in [present : BOOLEAN, version : Nat, total : Int, extents : SUBSET Int,
                  decided : DecidedOf]
      /\ row.total = NoMap.total \/ row.total \in Nat
      /\ Consistent(row.decided)
      /\ ClaimsAll(row.decided) => Planned /\ row.extents = Bytes(row.total)
      /\ Restorable
  BY DEF IInv, RowOK
<1>2. PICK k, d, p : /\ k = RestoredJob /\ d = row.decided
                     /\ p = IF Planned THEN Restored(row.total, row.extents) ELSE NoMap
  OBVIOUS
<1>3. /\ p \in Maps /\ p.total = row.total /\ p.durable = row.extents
      /\ p.leased = {} /\ p.written = {} /\ p.ckpt = NoCheckpoint
      /\ (p # NoMap) = Planned
  <2>1. CASE Planned
    <3>1. row.total \in 0 .. MaxBytes /\ row.extents \in SUBSET Bytes(row.total)
      BY <1>1, <2>1, NoMapFields, JobAssumption DEF Planned, Restorable
    <3>2. p = Restored(row.total, row.extents)
      BY <1>2, <2>1
    <3>3. /\ p \in Maps /\ p # NoMap /\ p.total = row.total /\ p.durable = row.extents
          /\ p.leased = {} /\ p.written = {} /\ p.ckpt = NoCheckpoint
      BY <3>1, <3>2, RestoredIsMap
    <3> QED
      BY <2>1, <3>3
  <2>2. CASE ~Planned
    BY <1>1, <1>2, <2>2, NoMapFields DEF Planned, Maps, Restorable
  <2> QED
    BY <2>1, <2>2
<1>4. k = [state |-> d.state, generation |-> d.generation, reason |-> d.reason,
           retry_at |-> d.retry_at, stop |-> d.stop, replace_on_drain |-> d.replace_on_drain,
           attempts |-> d.attempts, validator |-> d.validator, segments |-> p]
  BY <1>2 DEF RestoredJob, NewJob
<1>5. /\ k \in JobsOf /\ k.state = d.state /\ k.generation = d.generation /\ k.reason = d.reason
      /\ k.retry_at = d.retry_at /\ k.stop = d.stop /\ k.attempts = d.attempts
      /\ k.replace_on_drain = d.replace_on_drain /\ k.validator = d.validator
      /\ k.segments = p
  BY <1>1, <1>2, <1>3, <1>4 DEF JobsOf, DecidedOf
<1>6. Consistent(k) /\ ClaimsAll(k) = ClaimsAll(d)
  BY <1>1, <1>2, <1>5 DEF Consistent, ClaimsAll
<1>7. ClaimsAll(k) => Complete(k)
  BY <1>1, <1>2, <1>3, <1>5, <1>6 DEF Complete, AllDurable
<1>8. Drained(k)
  BY <1>3, <1>5 DEF Drained, Quiescent, HasActiveLeases, HasPendingCheckpoint, HasUnsynced
<1>9. JobOK(k)
  BY <1>1, <1>2, <1>3, <1>5, <1>6, <1>7, <1>8 DEF JobOK, Restorable
<1>10. Decided(Projection(k)) = d
  <2>1. PICK a : a = Decided(Projection(k))
    OBVIOUS
  <2>2. /\ a \in DecidedOf /\ d \in DecidedOf
        /\ a.state = d.state /\ a.generation = d.generation /\ a.reason = d.reason
        /\ a.retry_at = d.retry_at /\ a.stop = d.stop /\ a.attempts = d.attempts
        /\ a.replace_on_drain = d.replace_on_drain /\ a.validator = d.validator
    BY <1>1, <1>2, <1>5, <2>1, DecidedFields
  <2> QED
    BY <2>1, <2>2, DecidedEqual
<1>11. /\ copy' = [copy EXCEPT ![o] = [job |-> k, version |-> row.version]]
       /\ event' = [event EXCEPT ![o] = NoEvent] /\ answer' = [answer EXCEPT ![o] = "None"]
       /\ row' = row
  BY <1>2 DEF Load
<1>12. Shapes'
  BY <1>1, <1>5, <1>11 DEF IInv, Shapes
<1>13. /\ copy'[o].job = k /\ copy'[o].version = row.version /\ event'[o] = NoEvent
       /\ answer'[o] = "None"
       /\ \A u \in Owners \ {o} : copy'[u] = copy[u] /\ event'[u] = event[u]
                                  /\ answer'[u] = answer[u]
  BY <1>11 DEF IInv, Shapes
<1>14. Matches(o)'
  BY <1>2, <1>3, <1>5, <1>10, <1>11, <1>13 DEF Matches
<1>15. row.version \in Nat /\ row.decided.generation \in Nat
  BY <1>1 DEF DecidedOf
<1>16. OwnerOK(o)'
  BY <1>2, <1>5, <1>9, <1>11, <1>13, <1>14, <1>15 DEF OwnerOK
<1> QED
  BY <1>11, <1>12, <1>13, <1>16, OwnerMoves

\* Decide.
LEMMA DecideStep ==
  ASSUME IInv, NEW o \in Owners, NEW c \in Commands, Decide(o, c)
  PROVE  IInv'
<1> DEFINE j == copy[o].job
<1>1. OwnerOK(o) /\ JobOK(j) /\ copy[o].version \in Nat /\ Shapes
  BY DEF IInv, OwnerOK, Shapes
<1>2. PICK k \in Execute(j, c) \ {j} :
        event' = [event EXCEPT ![o] =
                   [version |-> copy[o].version + 1, from |-> j.state,
                    to |-> k.state, generation |-> j.generation,
                    command |-> c, outcome |-> Projection(k)]]
  BY DEF Decide
<1>3. Result(j, c, k)
  BY <1>1, JobStep
<1>4. /\ Decided(Projection(k)) \in DecidedOf /\ StepOf(j, c, Decided(Projection(k)))
  BY <1>3, DecisionOf
<1>5. copy' = copy /\ row' = row /\ answer' = answer /\ answer[o] = "None"
  BY DEF Decide
<1>6. PICK e : e = event'[o]
  OBVIOUS
<1>7. /\ e.version = copy[o].version + 1 /\ e.from = j.state /\ e.generation = j.generation
      /\ e.command = c /\ e.outcome = Projection(k)
  BY <1>1, <1>2, <1>6 DEF Shapes
<1>8. /\ DOMAIN event' = Owners
      /\ \A u \in Owners \ {o} : event'[u] = event[u]
  BY <1>1, <1>2 DEF Shapes
<1>9. Waiting(o)'
  BY <1>4, <1>5, <1>6, <1>7 DEF Waiting
<1>10. Matches(o)'
  BY <1>1, <1>5 DEF Matches, OwnerOK
<1>11. OwnerOK(o)'
  BY <1>1, <1>5, <1>9, <1>10 DEF OwnerOK
<1>12. Shapes'
  BY <1>1, <1>5, <1>8 DEF Shapes
<1> QED
  BY <1>5, <1>8, <1>11, <1>12, OwnerMoves

\* Refuse.
LEMMA RefuseStep ==
  ASSUME IInv, NEW o \in Owners, Refuse(o)
  PROVE  IInv'
<1>1. OwnerOK(o) /\ Shapes
  BY DEF IInv
<1>2. /\ event' = [event EXCEPT ![o] = NoEvent] /\ answer[o] = "None"
      /\ copy' = copy /\ row' = row /\ answer' = answer
  BY DEF Refuse
<1>3. /\ DOMAIN event' = Owners /\ event'[o] = NoEvent
      /\ \A u \in Owners \ {o} : event'[u] = event[u]
  BY <1>1, <1>2 DEF Shapes
<1>4. Matches(o)'
  BY <1>1, <1>2 DEF Matches, OwnerOK
<1>5. OwnerOK(o)'
  BY <1>1, <1>2, <1>3, <1>4 DEF OwnerOK
<1>6. Shapes'
  BY <1>1, <1>2, <1>3 DEF Shapes
<1> QED
  BY <1>2, <1>3, <1>5, <1>6, OwnerMoves

\* Apply: the replay is the job that the record holds, or the copy is left as it was.
LEMMA ApplyStep ==
  ASSUME IInv, NEW o \in Owners, Apply(o)
  PROVE  IInv'
<1> DEFINE j == copy[o].job
<1>1. OwnerOK(o) /\ JobOK(j) /\ Shapes /\ Confirmed(o) /\ answer[o] = "Transition"
  BY DEF IInv, OwnerOK, Apply
<1>2. /\ event' = [event EXCEPT ![o] = NoEvent] /\ answer' = [answer EXCEPT ![o] = "None"]
      /\ row' = row
  BY DEF Apply
<1>3. /\ DOMAIN event' = Owners /\ event'[o] = NoEvent /\ answer'[o] = "None"
      /\ answer' \in [Owners -> {"None", "Transition", "Extents"}]
      /\ \A u \in Owners \ {o} : event'[u] = event[u] /\ answer'[u] = answer[u]
  BY <1>1, <1>2 DEF Shapes
<1>4. CASE Replayed(o, event[o]) = {}
  <2>1. copy' = copy
    BY <1>1, <1>4 DEF Apply, Shapes
  <2>2. Matches(o)'
    BY <1>1, <1>2, <2>1 DEF Matches, OwnerOK
  <2>3. OwnerOK(o)'
    BY <1>1, <1>2, <1>3, <2>1, <2>2 DEF OwnerOK
  <2>4. Shapes'
    BY <1>1, <1>3, <2>1 DEF Shapes
  <2> QED
    BY <1>2, <1>3, <2>1, <2>3, <2>4, OwnerMoves
<1>5. CASE Replayed(o, event[o]) # {}
  <2>1. PICK e : e = event[o]
    OBVIOUS
  <2>2. PICK k \in Replayed(o, e) : copy' = [copy EXCEPT ![o] = [job |-> k, version |-> e.version]]
    BY <1>5, <2>1 DEF Apply
  <2>3. /\ k \in Execute(j, e.command) \ {j} /\ Projection(k) = e.outcome
        /\ e.version = copy[o].version + 1
    BY <2>2 DEF Replayed
  <2>4. /\ e.command \in Commands /\ e.version \in Nat /\ e.version <= row.version
        /\ Decided(e.outcome).generation <= row.decided.generation
        /\ e.version = row.version =>
             /\ row.decided = Decided(e.outcome)
             /\ row.total = TotalAfter(j, e.command, Decided(e.outcome))
    BY <1>1, <2>1 DEF Confirmed
  <2>5. Result(j, e.command, k)
    BY <1>1, <2>3, <2>4, JobStep
  <2>6. TotalAfter(j, e.command, Decided(e.outcome)) = k.segments.total
    BY <2>3, <2>5, DecisionOf DEF Result
  <2>7. /\ JobOK(k) /\ k \in JobsOf /\ k.generation = Decided(e.outcome).generation
        /\ k.segments.durable \subseteq j.segments.durable
        /\ k.generation # j.generation => k.segments.durable = {}
    BY <2>3, <2>5, DecidedFields DEF Result, JobOK
  <2>8. /\ copy'[o].job = k /\ copy'[o].version = e.version
        /\ \A u \in Owners \ {o} : copy'[u] = copy[u]
        /\ copy' \in [Owners -> [job : JobsOf, version : Nat]]
    BY <1>1, <2>2, <2>4, <2>7 DEF Shapes
  <2>9. Matches(o)'
    BY <1>1, <1>2, <2>3, <2>4, <2>6, <2>7, <2>8 DEF Matches, OwnerOK
  <2>10. OwnerOK(o)'
    BY <1>2, <1>3, <2>4, <2>7, <2>8, <2>9 DEF OwnerOK
  <2>11. Shapes'
    BY <1>3, <2>8 DEF Shapes
  <2> QED
    BY <1>2, <1>3, <2>8, <2>10, <2>11, OwnerMoves
<1> QED
  BY <1>4, <1>5
\* A segment operation of a copy.
LEMMA SegmentMoves ==
  ASSUME IInv, NEW o \in Owners, SegmentStep(o)
  PROVE  IInv'
<1> DEFINE j == copy[o].job
<1>1. OwnerOK(o) /\ JobOK(j) /\ Shapes
  BY DEF IInv, OwnerOK
<1>2. PICK p \in SegmentSteps(j) : copy' = [copy EXCEPT ![o].job.segments = p]
  BY DEF SegmentStep
<1>3. row' = row /\ event' = event /\ answer' = answer /\ answer[o] # "Extents"
  BY DEF SegmentStep
<1>4. PICK k : k = [j EXCEPT !.segments = p]
  OBVIOUS
<1>5. /\ p \in Maps /\ p # NoMap /\ j.segments # NoMap /\ j.state \in SegmentStates
      /\ p.total = j.segments.total /\ p.durable = j.segments.durable
  BY <1>1, SegmentStepMap
<1>6. p.durable \subseteq Bytes(p.total)
  BY <1>5, MapFields DEF ProgressOf
<1>7. /\ JobOK(k) /\ k.segments = p /\ k.state = j.state /\ k.generation = j.generation
      /\ Decided(Projection(k)) = Decided(Projection(j))
      /\ \A c, d : /\ TotalAfter(k, c, d) = TotalAfter(j, c, d)
                   /\ StepOf(j, c, d) => StepOf(k, c, d)
  BY <1>1, <1>4, <1>5, <1>6, MapMoves
<1>8. /\ copy'[o].job = k /\ copy'[o].version = copy[o].version
      /\ \A u \in Owners \ {o} : copy'[u] = copy[u]
      /\ copy' \in [Owners -> [job : JobsOf, version : Nat]]
  BY <1>1, <1>2, <1>4, <1>7 DEF Shapes, JobOK
<1>9. Shapes'
  BY <1>1, <1>3, <1>8 DEF Shapes
<1>10. Matches(o)'
  BY <1>1, <1>3, <1>5, <1>7, <1>8 DEF Matches, OwnerOK
<1>11. Waiting(o) => Waiting(o)'
  BY <1>3, <1>7, <1>8 DEF Waiting
<1>12. Confirmed(o) => Confirmed(o)'
  BY <1>3, <1>7, <1>8 DEF Confirmed
<1>13. OwnerOK(o)'
  BY <1>1, <1>3, <1>7, <1>8, <1>10, <1>11, <1>12 DEF OwnerOK
<1> QED
  BY <1>3, <1>8, <1>9, <1>13, OwnerMoves

\* Extents: the record gains bytes of the generation it has.
LEMMA CommitExtentsStep ==
  ASSUME IInv, NEW o \in Owners, CommitExtents(o)
  PROVE  IInv'
<1> DEFINE j == copy[o].job
<1>1. OwnerOK(o) /\ JobOK(j) /\ Shapes /\ RowOK
  BY DEF IInv, OwnerOK
<1>2. /\ Planned /\ j.generation = row.decided.generation
      /\ row.decided.state \in SegmentStates
      /\ j.segments.frozen \subseteq Bytes(row.total)
      /\ j.segments.ckpt = Synced /\ answer[o] = "None" /\ event[o] = NoEvent
      /\ row' = [row EXCEPT !.extents = @ \cup j.segments.frozen]
      /\ answer' \in {answer, [answer EXCEPT ![o] = "Extents"]}
      /\ copy' = copy /\ event' = event
  BY DEF CommitExtents
<1>3. PICK X : X = row.extents \cup j.segments.frozen
  OBVIOUS
<1>4. row.extents \subseteq Bytes(row.total) /\ X \subseteq Bytes(row.total) /\ row.total \in Nat
      /\ X \in SUBSET Int
  BY <1>1, <1>2, <1>3 DEF RowOK, Restorable, Planned, Bytes
<1>5. /\ row'.version = row.version /\ row'.decided = row.decided /\ row'.total = row.total
      /\ row'.extents = X /\ row'.present = row.present
      /\ row' \in [present : BOOLEAN, version : Nat, total : Int, extents : SUBSET Int,
                   decided : DecidedOf]
  BY <1>1, <1>2, <1>3, <1>4 DEF RowOK
<1>6. RowOK'
  BY <1>1, <1>2, <1>3, <1>4, <1>5 DEF RowOK, Restorable, Planned
<1>7. row.decided.generation \in Nat
  BY <1>1 DEF RowOK, DecidedOf
<1>8. ASSUME NEW u \in Owners, answer'[u] = answer[u] PROVE OwnerOK(u)'
  BY <1>2, <1>3, <1>5, <1>6, <1>7, <1>8, RecordMoves
<1>9. ASSUME answer'[o] = "Extents" PROVE OwnerOK(o)'
  <2>1. j.segments # NoMap
    BY <1>2, NoMapFields DEF Synced, NoCheckpoint
  <2>2. Recorded(o)'
    BY <1>2, <1>3, <1>5, <2>1 DEF Recorded
  <2>3. Matches(o)'
    BY <1>1, <1>2, <1>3, <1>5 DEF Matches, OwnerOK
  <2> QED
    BY <1>1, <1>2, <1>5, <1>9, <2>2, <2>3 DEF OwnerOK
<1>10. Shapes'
  BY <1>1, <1>2 DEF Shapes
<1>11. \A u \in Owners : answer'[u] = answer[u] \/ (u = o /\ answer'[u] = "Extents")
  BY <1>1, <1>2 DEF Shapes
<1> QED
  BY <1>6, <1>8, <1>9, <1>10, <1>11 DEF IInv

\* What acknowledge_commit makes durable is in the record already.
LEMMA AcknowledgeExtentsStep ==
  ASSUME IInv, NEW o \in Owners, AcknowledgeExtents(o)
  PROVE  IInv'
<1> DEFINE j == copy[o].job
           q == j.segments
<1>1. OwnerOK(o) /\ JobOK(j) /\ Shapes /\ Recorded(o)
  BY DEF IInv, OwnerOK, AcknowledgeExtents
<1>2. /\ row' = row /\ event' = event /\ answer' = [answer EXCEPT ![o] = "None"]
      /\ copy' = [copy EXCEPT ![o].job.segments = AcknowledgeCommit(@)]
  BY DEF AcknowledgeExtents
<1>3. q # NoMap /\ q \in Maps /\ q.total \in 0 .. MaxBytes /\ q \in ProgressOf(q.total)
  BY <1>1, JobFacts, MapFields DEF Recorded
<1>4. PICK p : p = AcknowledgeCommit(q)
  OBVIOUS
<1>5. /\ p \in ProgressOf(q.total) /\ p.total = q.total /\ p.leased = q.leased
      /\ p.durable = q.durable \cup q.frozen /\ p.written \subseteq q.written
      /\ p.ckpt = NoCheckpoint
  <2>1. PICK W, D : W = q.written \ q.frozen /\ D = q.durable \cup q.frozen
    OBVIOUS
  <2>2. W \in SUBSET Bytes(q.total) /\ D \in SUBSET Bytes(q.total)
    BY <1>3, <2>1 DEF ProgressOf
  <2>3. p = [q EXCEPT !.written = W, !.durable = D, !.frozen = {}, !.ckpt = NoCheckpoint]
    BY <1>4, <2>1 DEF AcknowledgeCommit
  <2> HIDE DEF q
  <2> QED
    BY <1>3, <2>1, <2>2, <2>3 DEF ProgressOf
<1>6. /\ p \in Maps /\ p # NoMap /\ p.durable \subseteq Bytes(p.total)
  BY <1>3, <1>5, NoMapFields, JobAssumption DEF Maps, ProgressOf
<1>7. PICK k : k = [j EXCEPT !.segments = p]
  OBVIOUS
<1>8. /\ JobOK(k) /\ k.segments = p /\ k.state = j.state /\ k.generation = j.generation
      /\ Decided(Projection(k)) = Decided(Projection(j))
  BY <1>1, <1>3, <1>5, <1>6, <1>7, MapMoves
<1>9. /\ copy'[o].job = k /\ copy'[o].version = copy[o].version
      /\ \A u \in Owners \ {o} : copy'[u] = copy[u]
      /\ copy' \in [Owners -> [job : JobsOf, version : Nat]]
  BY <1>1, <1>2, <1>4, <1>7, <1>8 DEF Shapes, JobOK
<1>10. /\ event'[o] = NoEvent /\ answer'[o] = "None"
       /\ \A u \in Owners \ {o} : answer'[u] = answer[u]
  BY <1>1, <1>2 DEF Shapes, Recorded
<1>11. Shapes'
  BY <1>1, <1>2, <1>9 DEF Shapes
<1>12. Matches(o)'
  BY <1>1, <1>2, <1>5, <1>8, <1>9 DEF Matches, OwnerOK, Recorded
<1>13. OwnerOK(o)'
  BY <1>1, <1>2, <1>8, <1>9, <1>10, <1>12 DEF OwnerOK
<1> QED
  BY <1>2, <1>9, <1>10, <1>11, <1>13, OwnerMoves

\* Remove.
LEMMA RemoveStep ==
  ASSUME IInv, NEW o \in Owners, Remove(o)
  PROVE  IInv'
<1>1. Shapes /\ RowOK
  BY DEF IInv
<1>2. /\ row' = [row EXCEPT !.present = FALSE]
      /\ copy' = copy /\ event' = event /\ answer' = answer
  BY DEF Remove
<1>3. /\ row'.version = row.version /\ row'.decided = row.decided /\ row'.total = row.total
      /\ row'.extents = row.extents
      /\ row' \in [present : BOOLEAN, version : Nat, total : Int, extents : SUBSET Int,
                   decided : DecidedOf]
  BY <1>1, <1>2 DEF RowOK
<1>4. RowOK'
  BY <1>1, <1>3 DEF RowOK, Restorable, Planned
<1>5. row.decided.generation \in Nat
  BY <1>1 DEF RowOK, DecidedOf
<1>6. ASSUME NEW u \in Owners PROVE OwnerOK(u)'
  BY <1>2, <1>3, <1>4, <1>5, RecordMoves
<1> QED
  BY <1>1, <1>2, <1>4, <1>6 DEF IInv, Shapes
\* The decided part of an event has the fields the repository compares.
LEMMA OutcomeFields ==
  ASSUME NEW x, Decided(x) \in DecidedOf
  PROVE  /\ Decided(x).generation = x.generation /\ Decided(x).state = x.state
         /\ Decided(x).validator = x.validator
<1>1. /\ DOMAIN Decided(x) = DOMAIN x \ {"durable_bytes"}
      /\ \A f \in DOMAIN x \ {"durable_bytes"} : Decided(x)[f] = x[f]
  BY DEF Decided
<1>2. {"generation", "state", "validator"} \subseteq DOMAIN Decided(x)
  BY DEF DecidedOf
<1> QED
  BY <1>1, <1>2

\* A transition that the repository accepts was decided on a copy of its own record, and
\* the record becomes what was decided.
LEMMA CommitFacts ==
  ASSUME IInv, NEW o \in Owners, CommitTransition(o)
  PROVE  LET e == event[o]
             j == copy[o].job
             d == Decided(e.outcome)
         IN
         /\ row.present /\ Waiting(o) /\ e.version = row.version + 1
         /\ Decided(Projection(j)) = row.decided /\ JobOK(j)
         /\ row'.version = e.version /\ row'.decided = d /\ row'.present = row.present
         /\ row'.total = TotalAfter(j, e.command, d)
         /\ d.generation = row.decided.generation =>
              /\ row'.extents = row.extents
              /\ Planned => row'.total = row.total /\ d.validator = row.decided.validator
         /\ d.generation # row.decided.generation =>
              row'.extents = {} /\ row'.total = NoMap.total
         /\ RowOK'
<1>1. PICK e, j, d : e = event[o] /\ j = copy[o].job /\ d = Decided(e.outcome)
  OBVIOUS
<1>2. /\ OwnerOK(o) /\ Shapes /\ RowOK /\ Waiting(o) /\ JobOK(j) /\ j \in JobsOf
  BY <1>1 DEF IInv, OwnerOK, CommitTransition, JobOK
<1>3. /\ Accepts(e)
      /\ row' = [row EXCEPT !.version = e.version, !.total = PlanAfter(e),
                            !.extents = ExtentsAfter(e), !.decided = d]
  BY <1>1 DEF CommitTransition
<1>4. /\ e.version = copy[o].version + 1 /\ e.from = j.state /\ e.generation = j.generation
      /\ e.command \in Commands /\ d \in DecidedOf /\ StepOf(j, e.command, d)
  BY <1>1, <1>2 DEF Waiting
<1>5. d.generation = e.outcome.generation /\ d.state = e.outcome.state
      /\ d.validator = e.outcome.validator
  BY <1>1, <1>4, OutcomeFields
<1>6. /\ row \in [present : BOOLEAN, version : Nat, total : Int, extents : SUBSET Int,
                  decided : DecidedOf]
      /\ row.total = NoMap.total \/ row.total \in Nat
      /\ Restorable
  BY <1>2 DEF RowOK
<1>7. copy[o].version = row.version /\ e.version \in Nat /\ e.version = row.version + 1
      /\ row.present
  BY <1>2, <1>3, <1>4, <1>6 DEF Accepts, Shapes
<1>8. /\ Decided(Projection(j)) = row.decided /\ j.segments.total = row.total
      /\ j.generation = row.decided.generation /\ j.segments.durable \subseteq row.extents
  <2>1. Decided(Projection(j)) = row.decided /\ j.segments.total = row.total
    BY <1>1, <1>2, <1>7 DEF OwnerOK, Matches
  <2>2. j.generation = row.decided.generation
    BY <1>2, <2>1, DecidedFields
  <2> QED
    BY <1>1, <1>2, <2>1, <2>2 DEF OwnerOK, Matches
<1>9. /\ j.segments \in Maps /\ (j.segments = NoMap) = ~Planned
      /\ j.segments # NoMap => j.segments.total \in 0 .. MaxBytes
  BY <1>2, <1>8, MapFields, NoMapFields DEF Planned, JobsOf
<1>10. IsCommand(e.command)
  BY <1>4, StoreAssumption
<1>11. /\ Replaces(e) = (d.generation # row.decided.generation)
       /\ IsProbe(e) = (e.command.name = "ProbeSucceeded")
  BY <1>5 DEF Replaces, IsProbe
<1>12. PlanAfter(e) = TotalAfter(j, e.command, d)
  <2>1. CASE Replaces(e)
    BY <1>8, <1>11, <2>1 DEF PlanAfter, TotalAfter
  <2>2. CASE ~Replaces(e) /\ IsProbe(e) /\ ~Planned
    BY <1>8, <1>9, <1>11, <2>2 DEF PlanAfter, TotalAfter
  <2>3. CASE ~Replaces(e) /\ ~(IsProbe(e) /\ ~Planned)
    BY <1>8, <1>9, <1>11, <2>3 DEF PlanAfter, TotalAfter
  <2> QED
    BY <2>1, <2>2, <2>3
<1>13. PICK t, X : t = PlanAfter(e) /\ X = ExtentsAfter(e)
  OBVIOUS
<1>14. /\ t = NoMap.total \/ t \in Nat
       /\ t \in Int
       /\ X \in SUBSET Int
       /\ X = IF Replaces(e) THEN {} ELSE row.extents
  BY <1>6, <1>9, <1>10, <1>12, <1>13, <1>8, NoMapFields DEF TotalAfter, ExtentsAfter, IsCommand
<1>15. /\ row'.version = e.version /\ row'.decided = d /\ row'.present = row.present
       /\ row'.total = t /\ row'.extents = X
       /\ row' \in [present : BOOLEAN, version : Nat, total : Int, extents : SUBSET Int,
                    decided : DecidedOf]
  BY <1>3, <1>4, <1>6, <1>7, <1>13, <1>14
<1>16. /\ ~Replaces(e) /\ Planned => t = row.total /\ d.validator = row.decided.validator
       /\ Replaces(e) => t = NoMap.total /\ d.validator = NoValidator
       /\ ~Planned /\ t = NoMap.total => d.validator = NoValidator
  <2>1. d.validator = ValidatorAfter(e)
    BY <1>3, <1>5 DEF Accepts
  <2>2. CASE Replaces(e)
    BY <1>13, <2>1, <2>2 DEF PlanAfter, ValidatorAfter
  <2>3. CASE ~Replaces(e) /\ Planned
    BY <1>13, <2>1, <2>3 DEF PlanAfter, ValidatorAfter
  <2>4. CASE ~Replaces(e) /\ ~Planned /\ IsProbe(e)
    <3>1. t = e.command.total /\ t # NoMap.total
      BY <1>10, <1>13, <2>4, NoMapFields DEF PlanAfter, IsCommand
    <3> QED
      BY <2>4, <3>1
  <2>5. CASE ~Replaces(e) /\ ~Planned /\ ~IsProbe(e)
    BY <1>6, <1>13, <2>1, <2>5 DEF PlanAfter, ValidatorAfter, Restorable
  <2> QED
    BY <2>2, <2>3, <2>4, <2>5
<1>17. t <= MaxBytes /\ (d.state \in NeedsPlan => t # NoMap.total) /\ Consistent(d)
  BY <1>4, <1>12, <1>13 DEF StepOf
<1>18. t # NoMap.total => X \subseteq Bytes(t)
  BY <1>6, <1>14, <1>16 DEF Restorable
<1>19. t = NoMap.total => X = {} /\ d.validator = NoValidator
  BY <1>6, <1>14, <1>16 DEF Restorable, Planned
<1>20. ClaimsAll(d) => t # NoMap.total /\ X = Bytes(t)
  <2>1. SUFFICES ASSUME ClaimsAll(d) PROVE t # NoMap.total /\ X = Bytes(t)
    OBVIOUS
  <2>2. Complete(j) /\ t = j.segments.total /\ d.generation = j.generation
    BY <1>4, <1>12, <1>13, <2>1 DEF StepOf
  <2>3. j.segments # NoMap /\ j.segments.durable = Bytes(t)
    BY <2>2 DEF Complete, AllDurable
  <2>4. X = row.extents
    BY <1>8, <1>11, <1>14, <2>2
  <2>5. t # NoMap.total
    BY <1>8, <1>9, <2>2, <2>3 DEF Planned
  <2> QED
    BY <1>8, <1>18, <2>3, <2>4, <2>5
<1>21. Restorable'
  <2>1. Planned' = (t # NoMap.total)
    BY <1>15 DEF Planned
  <2>2. d.state \in NeedsAllBytes => ClaimsAll(d)
    BY DEF ClaimsAll
  <2> QED
    BY <1>15, <1>17, <1>18, <1>19, <1>20, <2>1, <2>2 DEF Restorable, Consistent
<1>22. RowOK'
  BY <1>14, <1>15, <1>17, <1>20, <1>21 DEF RowOK, Planned
<1> QED
  BY <1>1, <1>2, <1>7, <1>8, <1>11, <1>12, <1>13, <1>14, <1>15, <1>16, <1>22

\* CommitTransition.
LEMMA CommitTransitionStep ==
  ASSUME IInv, NEW o \in Owners, CommitTransition(o)
  PROVE  IInv'
<1>1. PICK e, j, d : e = event[o] /\ j = copy[o].job /\ d = Decided(e.outcome)
  OBVIOUS
<1>2. /\ Waiting(o) /\ e.version = row.version + 1
      /\ Decided(Projection(j)) = row.decided /\ JobOK(j)
      /\ row'.version = e.version /\ row'.decided = d
      /\ row'.total = TotalAfter(j, e.command, d)
      /\ d.generation = row.decided.generation => row'.extents = row.extents
      /\ RowOK'
  BY <1>1, CommitFacts
<1>3. OwnerOK(o) /\ Shapes /\ RowOK
  BY DEF IInv
<1>4. /\ e.command \in Commands /\ d \in DecidedOf /\ StepOf(j, e.command, d)
  BY <1>1, <1>2 DEF Waiting
<1>5. /\ row.version \in Nat /\ row.decided.generation \in Nat /\ d.generation \in Nat
      /\ j.generation = row.decided.generation
  BY <1>2, <1>3, <1>4, DecidedFields DEF RowOK, DecidedOf, JobOK
<1>6. d.generation >= row.decided.generation
  BY <1>4, <1>5 DEF StepOf
<1>7. /\ copy' = copy /\ answer[o] = "None" /\ event[o] # NoEvent
      /\ \/ answer' = [answer EXCEPT ![o] = "Transition"] /\ event' = event
         \/ event' = [event EXCEPT ![o] = NoEvent] /\ answer' = answer
  BY DEF CommitTransition
<1>8. Shapes' /\ \A u \in Owners \ {o} : event'[u] = event[u] /\ answer'[u] = answer[u]
  BY <1>3, <1>7 DEF Shapes
<1>9. ASSUME NEW u \in Owners, u # o PROVE OwnerOK(u)'
  BY <1>2, <1>5, <1>6, <1>7, <1>8, <1>9, RecordMoves
<1>10. /\ copy[o].version < row'.version /\ copy[o].job.generation <= row'.decided.generation
       /\ copy[o].version \in Nat /\ copy[o].version <= row'.version
  BY <1>1, <1>2, <1>3, <1>5, <1>6 DEF OwnerOK, Shapes
<1>11. Matches(o)'
  BY <1>1, <1>2, <1>3, <1>5, <1>7, <1>10 DEF Matches, OwnerOK
<1>12. OwnerOK(o)'
  <2>1. CASE answer' = [answer EXCEPT ![o] = "Transition"] /\ event' = event
    <3>1. answer'[o] = "Transition"
      BY <1>3, <2>1 DEF Shapes
    <3>2. Confirmed(o)'
      BY <1>1, <1>2, <1>4, <1>5, <1>7, <2>1 DEF Confirmed
    <3> QED
      BY <1>3, <1>7, <1>10, <1>11, <3>1, <3>2 DEF OwnerOK
  <2>2. CASE event' = [event EXCEPT ![o] = NoEvent] /\ answer' = answer
    <3>1. event'[o] = NoEvent /\ answer'[o] = "None"
      BY <1>3, <1>7, <2>2 DEF Shapes
    <3> QED
      BY <1>3, <1>7, <1>10, <1>11, <3>1 DEF OwnerOK
  <2> QED
    BY <1>7, <2>1, <2>2
<1> QED
  BY <1>2, <1>8, <1>9, <1>12 DEF IInv
\* Every step of every owner.
LEMMA JobStoreStep == IInv /\ [Next]_vars => IInv'
<1> SUFFICES ASSUME IInv, [Next]_vars PROVE IInv'
  OBVIOUS
<1>1. CASE UNCHANGED vars
  BY <1>1 DEF vars, IInv, RowOK, Restorable, Planned, Shapes, OwnerOK, Waiting, Confirmed,
              Recorded, Matches
<1>2. ASSUME NEW o \in Owners, Load(o) PROVE IInv'
  BY <1>2, LoadStep
<1>3. ASSUME NEW o \in Owners, NEW c \in Commands, Decide(o, c) PROVE IInv'
  BY <1>3, DecideStep
<1>4. ASSUME NEW o \in Owners, CommitTransition(o) PROVE IInv'
  BY <1>4, CommitTransitionStep
<1>5. ASSUME NEW o \in Owners, Refuse(o) PROVE IInv'
  BY <1>5, RefuseStep
<1>6. ASSUME NEW o \in Owners, Apply(o) PROVE IInv'
  BY <1>6, ApplyStep
<1>7. ASSUME NEW o \in Owners, SegmentStep(o) PROVE IInv'
  BY <1>7, SegmentMoves
<1>8. ASSUME NEW o \in Owners, CommitExtents(o) PROVE IInv'
  BY <1>8, CommitExtentsStep
<1>9. ASSUME NEW o \in Owners, AcknowledgeExtents(o) PROVE IInv'
  BY <1>9, AcknowledgeExtentsStep
<1>10. ASSUME NEW o \in Owners, Remove(o) PROVE IInv'
  BY <1>10, RemoveStep
<1> QED
  BY <1>1, <1>2, <1>3, <1>4, <1>5, <1>6, <1>7, <1>8, <1>9, <1>10 DEF Next

\* The inductive invariant holds throughout.
LEMMA JobStoreInvariant == Spec => []IInv
BY JobStoreInit, JobStoreStep, PTL DEF Spec

-----------------------------------------------------------------------------
(***************************************************************************)
(* The theorems.                                                           *)
(***************************************************************************)

\* decide, commit, apply: a copy with the record's version is the record, whoever decided,
\* lost an answer or moved segments in between, and no copy believes in bytes that the
\* record of its generation does not have.
THEOREM VersionNamesTheDecision == Spec => []CopyMatchesRecord
<1>1. IInv => CopyMatchesRecord
  BY DEF IInv, OwnerOK, Matches, CopyMatchesRecord
<1> QED
  BY <1>1, JobStoreInvariant, PTL

\* Job::restore accepts the record after every commit.
THEOREM AlwaysRestorable == Spec => []RecordRestorable
<1>1. IInv => RecordRestorable
  BY DEF IInv, RowOK, RecordRestorable
<1> QED
  BY <1>1, JobStoreInvariant, PTL

\* Job::execute: a stop that leads to verification has every byte until it lands.
THEOREM VerifiesOnlyWhole == Spec => []VerifyingStopIsComplete
<1>1. IInv => VerifyingStopIsComplete
  BY DEF IInv, OwnerOK, JobOK, Consistent, ClaimsAll, VerifyingStopIsComplete
<1> QED
  BY <1>1, JobStoreInvariant, PTL

\* Job::execute: a job comes to rest only when its workers and checkpoints are gone.
THEOREM RestsDrained == Spec => []RestIsDrained
<1>1. IInv => RestIsDrained
  BY DEF IInv, OwnerOK, JobOK, Drained, RestIsDrained
<1> QED
  BY <1>1, JobStoreInvariant, PTL

\* A step that changes the decided part of the record is a commit of a transition.
LEMMA DecidedChanges ==
  ASSUME IInv, [Next]_vars, row' # row
  PROVE  \/ \E o \in Owners : CommitTransition(o)
         \/ /\ row.present
            /\ row'.decided = row.decided /\ row'.total = row.total
            /\ row.extents \subseteq row'.extents
<1>1. ASSUME NEW o \in Owners, CommitExtents(o) \/ Remove(o)
      PROVE  /\ row.present
             /\ row'.decided = row.decided /\ row'.total = row.total
             /\ row.extents \subseteq row'.extents
  BY <1>1 DEF CommitExtents, Remove, IInv, RowOK
<1> QED
  BY <1>1 DEF Next, vars, Load, Decide, Refuse, Apply, SegmentStep, AcknowledgeExtents

\* Raise and its callers: no later cause lowers the severity of a recorded stop.
THEOREM StopsOnlyHarden == Spec => SeverityNeverLowers
<1> DEFINE A == row.decided.state = "Stopping" => Severity(row.decided.stop, row'.decided)
<1>1. IInv /\ [Next]_vars => [A]_vars
  <2> SUFFICES ASSUME IInv, [Next]_vars PROVE A
    OBVIOUS
  <2>1. ASSUME NEW o \in Owners, CommitTransition(o) PROVE A
    <3>1. PICK j, d : j = copy[o].job /\ d = Decided(event[o].outcome)
      OBVIOUS
    <3>2. /\ Waiting(o) /\ Decided(Projection(j)) = row.decided /\ JobOK(j)
          /\ row'.decided = d
      BY <2>1, <3>1, CommitFacts
    <3>3. j.state = row.decided.state /\ j.stop = row.decided.stop
      BY <3>2, DecidedFields DEF JobOK
    <3>4. StepOf(j, event[o].command, d)
      BY <3>1, <3>2 DEF Waiting
    <3> QED
      BY <3>2, <3>3, <3>4 DEF StepOf
  <2>2. CASE row'.decided = row.decided
    <3>1. row.decided \in DecidedOf
      BY DEF IInv, RowOK
    <3>2. row.decided.stop.at_tick \in Int
      BY <3>1 DEF DecidedOf, Stops, NoTick
    <3> QED
      BY <2>2, <3>2 DEF Severity
  <2> QED
    BY <2>1, <2>2, DecidedChanges
<1>2. [A]_vars => [row.decided.state = "Stopping" =>
         LET a == row.decided.stop
             b == row.decided'.stop
         IN  IF row.decided'.state = "Stopping"
               THEN \/ b.kind = a.kind /\ b.at_tick >= a.at_tick /\ b.reason = a.reason
                    \/ Rank[b.kind] > Rank[a.kind]
                    \/ a.kind = "Paused" /\ b.kind \in {"Queued", "Verifying"}
               ELSE row.decided'.state \in {a.kind, "Cancelling"}]_vars
  BY DEF Severity
<1> QED
  BY <1>1, <1>2, JobStoreInvariant, PTL DEF Spec, SeverityNeverLowers

\* transition and durable: bytes of two representations never share a generation.
THEOREM OneRepresentationPerGeneration == Spec => OneRepresentation
<1> DEFINE A == IF row.decided'.generation = row.decided.generation
                  THEN /\ row.extents \subseteq row.extents'
                       /\ Planned => /\ row.total' = row.total
                                     /\ row.decided'.validator = row.decided.validator
                  ELSE /\ row.decided'.generation = row.decided.generation + 1
                       /\ row.extents' = {} /\ ~Planned'
<1>1. IInv /\ [Next]_vars => A
  <2> SUFFICES ASSUME IInv, [Next]_vars PROVE A
    OBVIOUS
  <2>1. ASSUME NEW o \in Owners, CommitTransition(o) PROVE A
    <3>1. PICK j, d : j = copy[o].job /\ d = Decided(event[o].outcome)
      OBVIOUS
    <3>2. /\ Waiting(o) /\ Decided(Projection(j)) = row.decided /\ JobOK(j)
          /\ row'.decided = d
          /\ d.generation = row.decided.generation =>
               /\ row'.extents = row.extents
               /\ Planned => row'.total = row.total /\ d.validator = row.decided.validator
          /\ d.generation # row.decided.generation =>
               row'.extents = {} /\ row'.total = NoMap.total
      BY <2>1, <3>1, CommitFacts
    <3>3. j.generation = row.decided.generation
      BY <3>2, DecidedFields DEF JobOK
    <3>4. StepOf(j, event[o].command, d)
      BY <3>1, <3>2 DEF Waiting
    <3> QED
      BY <3>2, <3>3, <3>4 DEF StepOf, Planned
  <2>2. CASE row' = row
    BY <2>2
  <2> QED
    BY <2>1, <2>2, DecidedChanges
<1> QED
  BY <1>1, JobStoreInvariant, PTL DEF Spec, OneRepresentation

\* transition and remove: a removed job is never written again, and a completed or
\* cancelled one never changes.
THEOREM FinalIsFinal == Spec => FinalStatesAreFinal
<1> DEFINE A == /\ ~row.present => row' = row
                /\ row.decided.state \in {"Completed", "Cancelled"} => row.decided' = row.decided
<1>1. IInv /\ [Next]_vars => A
  <2> SUFFICES ASSUME IInv, [Next]_vars PROVE A
    OBVIOUS
  <2>1. ASSUME NEW o \in Owners, CommitTransition(o) PROVE A
    <3>1. PICK j : j = copy[o].job
      OBVIOUS
    <3>2. /\ Waiting(o) /\ Decided(Projection(j)) = row.decided /\ JobOK(j) /\ row.present
      BY <2>1, <3>1, CommitFacts
    <3>3. j.state = row.decided.state
      BY <3>2, DecidedFields DEF JobOK
    <3>4. StepOf(j, event[o].command, Decided(event[o].outcome))
      BY <3>1, <3>2 DEF Waiting
    <3> QED
      BY <3>2, <3>3, <3>4 DEF StepOf
  <2>2. CASE row' = row
    BY <2>2
  <2> QED
    BY <2>1, <2>2, DecidedChanges
<1> QED
  BY <1>1, JobStoreInvariant, PTL DEF Spec, FinalStatesAreFinal
=============================================================================
