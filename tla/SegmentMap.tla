----------------------------- MODULE SegmentMap -----------------------------
(***************************************************************************)
(* crates/domain/src/segments.rs: the segment map of one job, together     *)
(* with the two parties that hold its tokens: the workers, who keep the    *)
(* leases they were given (a Lease is Copy, so any lease ever issued may   *)
(* be presented again), and the coordinator, who holds sync tickets and    *)
(* commit batches, stores the extents of a batch in the repository and     *)
(* rebuilds the map from the repository after a crash or an error.         *)
(*                                                                         *)
(* The vector of segments is a function from segment ids; its order is the *)
(* order of the ranges.  An operation that the code refuses leaves the map *)
(* as it is, so a refusal is not an action.  The job identifier carried by *)
(* tokens is left out: there is one map per job.                           *)
(***************************************************************************)
EXTENDS Integers, FiniteSets

CONSTANTS
  Totals,         \* sizes of the representations a probe may find
  Maximums,       \* values of the plan's max_segments
  Workers,        \* worker numbers
  Minimums,       \* arguments of steal_largest_pending
  MaxId,          \* the largest segment id          (u64::MAX in the code)
  MaxAttempt,     \* the largest attempt number      (u64::MAX in the code)
  MaxCheckpoint,  \* the largest checkpoint sequence (u64::MAX in the code)
  MaxGeneration   \* the largest generation          (u64::MAX in the code)

ASSUME ConstantsAssumption ==
  /\ Totals \subseteq Nat
  /\ Maximums \subseteq Nat \ {0}
  /\ Workers \subseteq Nat \ {0}
  /\ Minimums \subseteq Nat \ {0}
  /\ {MaxId, MaxAttempt, MaxCheckpoint, MaxGeneration} \subseteq Nat

VARIABLES
  maximum,                                \* most segments the map may have
  total, generation,                      \* of the current representation
  segs,                                   \* segment id -> segment
  next_id, next_attempt, next_checkpoint,
  checkpoint,                             \* the pending checkpoint, if any
  leases,                                 \* every lease issued in this process
  tickets, batches,                       \* issued and not yet consumed
  persisted                               \* ranges of the generation's extents

vars == <<maximum, total, generation, segs, next_id, next_attempt, next_checkpoint,
          checkpoint, leases, tickets, batches, persisted>>

-----------------------------------------------------------------------------
SegmentState == {"Pending", "InFlight", "Written", "Durable"}

\* Only a segment in flight has a worker (0 is none).
Segment == {s \in [lo: Nat, hi: Nat, state: SegmentState, worker: Nat, attempt: Nat] :
              s.state # "InFlight" => s.worker = 0}
Lease   == [generation: Nat, id: Nat, lo: Nat, hi: Nat, worker: Nat, attempt: Nat]
Pick    == [id: Nat, lo: Nat, hi: Nat, attempt: Nat]
Ticket  == [generation: Nat, sequence: Nat, selection: SUBSET Pick]

\* A segment nobody works on, and the absent checkpoint (sequences start at 1).
Idle(lo, hi, state) ==
  [lo |-> lo, hi |-> hi, state |-> state, worker |-> 0, attempt |-> 0]
NoCheckpoint == [sequence |-> 0, selection |-> {}, synced |-> FALSE]

InState(s)     == {i \in DOMAIN segs : segs[i].state = s}
RangeBytes(r)  == r.lo .. (r.hi - 1)
RangesOf(S)    == {[lo |-> k.lo, hi |-> k.hi] : k \in S}
Covered(S)     == UNION {RangeBytes(r) : r \in S}
BytesIn(s)     == UNION {RangeBytes(segs[i]) : i \in InState(s)}

-----------------------------------------------------------------------------
(***************************************************************************)
(* SegmentMap::new: one pending segment, or none for an empty file.        *)
(***************************************************************************)
NewSegs(t) == [i \in {j \in {1} : t > 0} |-> Idle(0, t, "Pending")]

Init ==
  /\ maximum \in Maximums
  /\ total \in Totals
  /\ generation = 1
  /\ segs = NewSegs(total)
  /\ next_id = 2 /\ next_attempt = 1 /\ next_checkpoint = 1
  /\ checkpoint = NoCheckpoint
  /\ leases = {} /\ tickets = {} /\ batches = {} /\ persisted = {}

(***************************************************************************)
(* split_pending: only idle pending work is cut, strictly inside its range.*)
(***************************************************************************)
\* Mutant: the limit compared after the new segment is in.
HasRoomForOneMore == Cardinality(DOMAIN segs) # maximum + 1
HasRoom           == Cardinality(DOMAIN segs) # maximum

\* Mutant: the second half takes the id after the one handed out.
CutWithLaterId(id, at) ==
  [i \in DOMAIN segs \cup {next_id + 1} |->
     CASE i = id          -> [segs[id] EXCEPT !.hi = at]
       [] i = next_id + 1 -> Idle(at, segs[id].hi, "Pending")
       [] OTHER           -> segs[i]]

\* Mutant: the first half keeps its old end.
CutWithoutShortening(id, at) ==
  [i \in DOMAIN segs \cup {next_id} |->
     IF i = next_id THEN Idle(at, segs[id].hi, "Pending") ELSE segs[i]]

Cut(id, at) ==
  [i \in DOMAIN segs \cup {next_id} |->
     CASE i = id      -> [segs[id] EXCEPT !.hi = at]
       [] i = next_id -> Idle(at, segs[id].hi, "Pending")
       [] OTHER       -> segs[i]]

SplitPending(id, at) ==
  /\ id \in InState("Pending")
  /\ HasRoom
  /\ segs[id].lo < at /\ at < segs[id].hi
  /\ next_id < MaxId
  /\ segs' = Cut(id, at)
  /\ next_id' = next_id + 1
  /\ UNCHANGED <<maximum, total, generation, next_attempt, next_checkpoint, checkpoint,
                 leases, tickets, batches, persisted>>

\* steal_largest_pending: halve the last of the longest pending segments of at
\* least twice the minimum.
StealLargestPending(minimum) ==
  LET Length(i)  == segs[i].hi - segs[i].lo
      Candidates == {i \in InState("Pending") : Length(i) >= 2 * minimum}
  IN  \E i \in Candidates :
        /\ \A j \in Candidates : \/ Length(j) < Length(i)
                                 \/ Length(j) = Length(i) /\ segs[j].lo <= segs[i].lo
        /\ SplitPending(i, segs[i].lo + Length(i) \div 2)

LeaseSegment(id, worker) ==
  /\ id \in InState("Pending")
  /\ next_attempt < MaxAttempt
  /\ segs' = [segs EXCEPT ![id].state   = "InFlight",
                          ![id].worker  = worker,
                          ![id].attempt = next_attempt]
  /\ next_attempt' = next_attempt + 1
  /\ leases' = leases \cup
       {[generation |-> generation, id |-> id, lo |-> segs[id].lo, hi |-> segs[id].hi,
         worker |-> worker, attempt |-> next_attempt]}
  /\ UNCHANGED <<maximum, total, generation, next_id, next_checkpoint, checkpoint,
                 tickets, batches, persisted>>

\* Mutant: any lease of this worker on this segment will do.
CurrentUnderAnyAttempt(l) ==
  /\ l.generation = generation
  /\ l.id \in InState("InFlight")
  /\ segs[l.id].worker = l.worker

\* lease_index: the lease is the one its segment is in flight under.
Current(l) ==
  /\ l.generation = generation
  /\ l.id \in DOMAIN segs
  /\ segs[l.id] = [lo |-> l.lo, hi |-> l.hi, state |-> "InFlight",
                   worker |-> l.worker, attempt |-> l.attempt]

MarkWritten(l) ==
  /\ Current(l)
  /\ segs' = [segs EXCEPT ![l.id].state = "Written", ![l.id].worker = 0]
  /\ UNCHANGED <<maximum, total, generation, next_id, next_attempt, next_checkpoint,
                 checkpoint, leases, tickets, batches, persisted>>

Release(l) ==
  /\ Current(l)
  /\ segs' = [segs EXCEPT ![l.id] = Idle(l.lo, l.hi, "Pending")]
  /\ UNCHANGED <<maximum, total, generation, next_id, next_attempt, next_checkpoint,
                 checkpoint, leases, tickets, batches, persisted>>

(***************************************************************************)
(* The checkpoint protocol.                                                *)
(***************************************************************************)
Selection ==
  {[id |-> i, lo |-> segs[i].lo, hi |-> segs[i].hi, attempt |-> segs[i].attempt] :
     i \in InState("Written")}

PrepareSync ==
  /\ checkpoint = NoCheckpoint
  /\ InState("Written") # {}
  /\ next_checkpoint < MaxCheckpoint
  /\ next_checkpoint' = next_checkpoint + 1
  /\ checkpoint' = [sequence |-> next_checkpoint, selection |-> Selection, synced |-> FALSE]
  /\ tickets' = tickets \cup
       {[generation |-> generation, sequence |-> next_checkpoint, selection |-> Selection]}
  /\ UNCHANGED <<maximum, total, generation, segs, next_id, next_attempt,
                 leases, batches, persisted>>

\* The token names this map's pending checkpoint.
Matches(t) ==
  /\ checkpoint # NoCheckpoint
  /\ t.generation = generation
  /\ t.sequence   = checkpoint.sequence
  /\ t.selection  = checkpoint.selection

AcknowledgeSync(t) ==
  /\ Matches(t)
  /\ ~checkpoint.synced
  /\ checkpoint' = [checkpoint EXCEPT !.synced = TRUE]
  /\ tickets' = tickets \ {t}
  /\ batches' = batches \cup {t}
  /\ UNCHANGED <<maximum, total, generation, segs, next_id, next_attempt, next_checkpoint,
                 leases, persisted>>

(***************************************************************************)
(* The repository stores the extents of a batch.  It refuses an extent     *)
(* beyond the file, an overlap other than a retry of the same extent       *)
(* (admit), and a set of extents that restore would need more segments     *)
(* for than the plan has (restored_segments).  A restored segment starts   *)
(* where the recorded bytes start or stop.                                 *)
(***************************************************************************)
Starts(t, D) == {b \in 0 .. (t - 1) : b = 0 \/ ((b \in D) # ((b - 1) \in D))}

Admits(new) ==
  /\ \A r \in new : r.hi <= total
  /\ \A r \in new, q \in persisted \cup new : r = q \/ r.hi <= q.lo \/ q.hi <= r.lo
  /\ Cardinality(Starts(total, Covered(persisted \cup new))) <= maximum

CommitExtents(b) ==
  /\ Matches(b)
  /\ checkpoint.synced
  /\ Admits(RangesOf(b.selection))
  /\ persisted' = persisted \cup RangesOf(b.selection)
  /\ UNCHANGED <<maximum, total, generation, segs, next_id, next_attempt,
                 next_checkpoint, checkpoint, leases, tickets, batches>>

\* Mutant: everything written by now becomes durable.
CommittedAllWritten(sel) ==
  [i \in DOMAIN segs |->
     IF segs[i].state = "Written" THEN Idle(segs[i].lo, segs[i].hi, "Durable") ELSE segs[i]]

Committed(sel) ==
  [i \in DOMAIN segs |->
     IF \E k \in sel : k.id = i THEN Idle(segs[i].lo, segs[i].hi, "Durable") ELSE segs[i]]

\* acknowledge_commit, called once the repository answered that it has them.
\* The code looks at every picked segment before it changes one.
AcknowledgeCommit(b) ==
  /\ RangesOf(b.selection) \subseteq persisted
  /\ Matches(b)
  /\ checkpoint.synced
  /\ \A k \in checkpoint.selection : k.id \in InState("Written")
  /\ segs' = Committed(checkpoint.selection)
  /\ checkpoint' = NoCheckpoint
  /\ batches' = batches \ {b}
  /\ UNCHANGED <<maximum, total, generation, next_id, next_attempt, next_checkpoint,
                 leases, tickets, persisted>>

\* Mutant: the checkpoint is dropped, and the session goes on, after a commit whose
\* answer was lost.
DiscardCheckpointAfterCommit ==
  /\ checkpoint # NoCheckpoint
  /\ checkpoint' = NoCheckpoint
  /\ UNCHANGED <<maximum, total, generation, segs, next_id, next_attempt, next_checkpoint,
                 leases, tickets, batches, persisted>>

\* discard_checkpoint, as the coordinator may call it and go on: the sync or the
\* hashing failed, so the batch never reached the repository.  After a failed or
\* unanswered commit it gives the map up instead: that is Reload.
DiscardCheckpoint ==
  /\ checkpoint # NoCheckpoint
  /\ RangesOf(checkpoint.selection) \cap persisted = {}
  /\ checkpoint' = NoCheckpoint
  /\ UNCHANGED <<maximum, total, generation, segs, next_id, next_attempt, next_checkpoint,
                 leases, tickets, batches, persisted>>

Unwritten ==
  [i \in DOMAIN segs |->
     IF segs[i].state = "Written" THEN Idle(segs[i].lo, segs[i].hi, "Pending") ELSE segs[i]]

\* Mutant: the pending checkpoint is not looked at.
DiscardUnsyncedAnytime ==
  /\ segs' = Unwritten
  /\ UNCHANGED <<maximum, total, generation, next_id, next_attempt, next_checkpoint,
                 checkpoint, leases, tickets, batches, persisted>>

DiscardUnsynced ==
  /\ checkpoint = NoCheckpoint
  /\ segs' = Unwritten
  /\ UNCHANGED <<maximum, total, generation, next_id, next_attempt, next_checkpoint,
                 checkpoint, leases, tickets, batches, persisted>>

(***************************************************************************)
(* SegmentMap::restore: touching extents merge, the gaps are pending.  A   *)
(* restored segment is named after its first byte (names are only          *)
(* compared).                                                              *)
(***************************************************************************)
NextStart(t, D, b) ==
  CHOOSE e \in Starts(t, D) \cup {t} :
    /\ b < e
    /\ \A f \in Starts(t, D) \cup {t} : b < f => e <= f

RestoredSegs(t, D) ==
  [i \in {b + 1 : b \in Starts(t, D)} |->
     Idle(i - 1, NextStart(t, D, i - 1), IF (i - 1) \in D THEN "Durable" ELSE "Pending")]

\* What restore insists on: extents inside the file that do not overlap, and no
\* more segments than the plan allows.
RestoreAccepts ==
  /\ \A r \in persisted : r.hi <= total
  /\ \A r, q \in persisted : r = q \/ r.hi <= q.lo \/ q.hi <= r.lo
  /\ Cardinality(Starts(total, Covered(persisted))) <= maximum

\* The process crashed, or the session ended in an error: workers and tokens are
\* gone and the job is loaded again from the repository.
Reload ==
  /\ RestoreAccepts
  /\ segs' = RestoredSegs(total, Covered(persisted))
  /\ next_id' = total + 1 /\ next_attempt' = 1 /\ next_checkpoint' = 1
  /\ checkpoint' = NoCheckpoint
  /\ leases' = {} /\ tickets' = {} /\ batches' = {}
  /\ UNCHANGED <<maximum, total, generation, persisted>>

(***************************************************************************)
(* replace_generation: the repository drops the extents with it.  Leases   *)
(* stay with their workers; tickets and batches are locals of the          *)
(* coordinator's checkpoint, which has returned.                           *)
(***************************************************************************)
ReplaceGeneration ==
  /\ checkpoint = NoCheckpoint
  /\ InState("InFlight") = {}
  /\ generation < MaxGeneration
  /\ generation' = generation + 1
  /\ total' \in Totals
  /\ segs' = NewSegs(total')
  /\ next_id' = 2 /\ next_attempt' = 1 /\ next_checkpoint' = 1
  /\ tickets' = {} /\ batches' = {} /\ persisted' = {}
  /\ UNCHANGED <<maximum, checkpoint, leases>>

-----------------------------------------------------------------------------
Next ==
  \/ \E id \in DOMAIN segs, at \in 0 .. total : SplitPending(id, at)
  \/ \E minimum \in Minimums : StealLargestPending(minimum)
  \/ \E id \in DOMAIN segs, worker \in Workers : LeaseSegment(id, worker)
  \/ \E l \in leases : MarkWritten(l) \/ Release(l)
  \/ PrepareSync
  \/ \E t \in tickets : AcknowledgeSync(t)
  \/ \E b \in batches : CommitExtents(b) \/ AcknowledgeCommit(b)
  \/ DiscardCheckpoint
  \/ DiscardUnsynced
  \/ Reload
  \/ ReplaceGeneration

Spec == Init /\ [][Next]_vars

-----------------------------------------------------------------------------
(***************************************************************************)
(* Properties.                                                             *)
(***************************************************************************)
\* Identifiers, attempts and sequences are below the counters they are taken from: those
\* of segments, of the pending checkpoint, of tickets and batches, and of the leases of
\* this generation.  Leases of an earlier one were numbered by counters that are gone.
Below(S, id, attempt) == \A k \in S : k.id \in 1 .. (id - 1) /\ k.attempt < attempt

HandedOut ==
  /\ \A i \in DOMAIN segs : segs[i].attempt < next_attempt
  /\ \A l \in leases : /\ l.generation <= generation
                       /\ l.generation = generation => Below({l}, next_id, next_attempt)
  /\ Below(checkpoint.selection, next_id, next_attempt)
  /\ checkpoint.sequence < next_checkpoint
  /\ \A t \in tickets \cup batches : /\ t.generation = generation
                                     /\ t.sequence < next_checkpoint
                                     /\ Below(t.selection, next_id, next_attempt)

\* The variables hold what the structures of segments.rs can hold; segments, selections,
\* tokens and the leases of this generation only carry identifiers, attempts and
\* sequences that were handed out.
TypeOK ==
  /\ maximum \in Nat \ {0} /\ total \in Nat /\ generation \in Nat \ {0}
  /\ next_id \in Nat \ {0} /\ next_attempt \in Nat \ {0} /\ next_checkpoint \in Nat \ {0}
  /\ segs \in [DOMAIN segs -> Segment]
  /\ DOMAIN segs \subseteq 1 .. (next_id - 1)
  /\ checkpoint \in [sequence: Nat, selection: SUBSET Pick, synced: BOOLEAN]
  /\ leases \subseteq Lease
  /\ tickets \subseteq Ticket
  /\ batches \subseteq Ticket
  /\ persisted \subseteq [lo: Nat, hi: Nat]
  /\ HandedOut

\* The segments are non-empty ranges that cover the file without overlapping, and
\* there are never more than the plan allows: splits, leases, releases, checkpoints
\* and restores in any order neither lose a byte nor assign one twice.
Partition ==
  /\ \A i \in DOMAIN segs : segs[i].lo < segs[i].hi /\ segs[i].hi <= total
  /\ \A i, j \in DOMAIN segs : i # j => segs[i].hi <= segs[j].lo \/ segs[j].hi <= segs[i].lo
  /\ \A b \in 0 .. (total - 1) : \E i \in DOMAIN segs : segs[i].lo <= b /\ b < segs[i].hi
  /\ Cardinality(DOMAIN segs) <= maximum

\* While a checkpoint is pending, every segment it picked is still the written
\* segment it picked: same range, same attempt.  So what is synced, hashed and
\* stored is what acknowledge_commit will mark durable, and that call cannot fail
\* once the repository has the extents.
CheckpointFrozen ==
  \A k \in checkpoint.selection :
    /\ k.id \in DOMAIN segs
    /\ segs[k.id] = [lo |-> k.lo, hi |-> k.hi, state |-> "Written",
                     worker |-> 0, attempt |-> k.attempt]

\* The repository has every byte the map calls durable, and beyond those at most the
\* bytes of the synced checkpoint whose commit is not acknowledged yet.
RepositoryAhead ==
  /\ BytesIn("Durable") \subseteq Covered(persisted)
  /\ Covered(persisted) \subseteq
       BytesIn("Durable") \cup
       (IF checkpoint.synced THEN Covered(RangesOf(checkpoint.selection)) ELSE {})

\* At every moment a restart finds a record the domain accepts, and the repository
\* never refuses the batch of a synced checkpoint, nor its retry: the limit it keeps
\* on the extents cannot trip over extents that the map, under its own limit, chose.
Restorable ==
  /\ RestoreAccepts
  /\ checkpoint.synced => Admits(RangesOf(checkpoint.selection))

\* A lease that is no longer accepted is never accepted again, whatever is leased,
\* released, split or replaced afterwards: a late worker cannot settle the segment
\* of its successor, even under a later generation with the same numbers.  (A reload
\* is a new process or session: the leases of the one before are gone with it.)
StaleLeaseStaysStale ==
  [][\A l \in leases : ~Current(l) => ~Current(l)']_vars

\* The map implements the byte-level specification: each byte is in one state, only
\* the frozen bytes of a synced checkpoint become durable, and a durable byte stays
\* durable for the rest of its generation, across restarts.
Abstract == INSTANCE ByteProgress WITH
  progress <- [total   |-> total,
               leased  |-> {RangeBytes(segs[i]) : i \in InState("InFlight")},
               written |-> BytesIn("Written"),
               durable |-> BytesIn("Durable"),
               frozen  |-> Covered(RangesOf(checkpoint.selection)),
               ckpt    |-> IF checkpoint = NoCheckpoint THEN "NoCheckpoint"
                           ELSE IF checkpoint.synced THEN "Synced" ELSE "Prepared"]

ImplementsByteProgress == Abstract!Spec
=============================================================================
