-------------------------- MODULE SegmentMapProofs --------------------------
(***************************************************************************)
(* Proofs about SegmentMap, for files of any size, any number of segments, *)
(* workers, leases and checkpoints, and restarts at any point.             *)
(*                                                                         *)
(* The type invariant is inductive by itself, with the bounds on what the  *)
(* map handed out.  These also keep stale leases stale: no lease carries   *)
(* an attempt that is still to be handed out in its generation.  Partition *)
(* is inductive relative to the type invariant, and so is                  *)
(* CheckpointFrozen.  RepositoryAhead is not: dropping a checkpoint needs  *)
(* to know that every stored extent outside the checkpoint lies within the *)
(* durable bytes, which Stored says and which is inductive relative to the *)
(* type invariant and CheckpointFrozen.                                    *)
(*                                                                         *)
(* Restorable is a counting argument: the stored extents, with or without  *)
(* those of the pending checkpoint, are whole segments of the map, so that *)
(* a restored map needs no more segments than this one, which keeps to the *)
(* limit.  It needs Recorded: the extents are non-empty and apart, and     *)
(* those of a checkpoint were stored all or none.  The same fact carries   *)
(* the refinement of ByteProgress through a restart.                       *)
(***************************************************************************)
EXTENDS SegmentMap, FiniteSetTheorems, WellFoundedInduction, TLAPS

-----------------------------------------------------------------------------
(***************************************************************************)
(* What restore builds.                                                    *)
(***************************************************************************)

\* A non-empty set of naturals has a least element.
LEMMA Minimum ==
  ASSUME NEW S, S \subseteq Nat, S # {}
  PROVE  \E m \in S : \A n \in S : m <= n
<1> DEFINE R == OpToRel(<, Nat)
<1>1. \E x \in S : \A y \in S : ~(<<y, x>> \in R)
  <2>1. IsWellFoundedOn(R, Nat)
    BY NatLessThanWellFounded
  <2> HIDE DEF R
  <2> QED BY <2>1, WFMin
<1>2. \A x, y \in Nat : <<y, x>> \in R <=> y < x
  BY DEF OpToRel
<1>3. PICK x \in S : \A y \in S : ~(<<y, x>> \in R)
  BY <1>1
<1>4. \A y \in S : ~(y < x)
  BY <1>2, <1>3
<1> QED BY <1>4

\* A non-empty bounded set of naturals has a greatest element.
LEMMA Maximum ==
  ASSUME NEW t \in Nat, NEW S, S \subseteq 0 .. t, S # {}
  PROVE  \E m \in S : \A n \in S : n <= m
<1> DEFINE T == {k \in Nat : (t - k) \in S}
<1>1. \A n \in S : t - n \in Nat /\ t - (t - n) = n
  OBVIOUS
<1>2. \A n \in S : (t - n) \in T
  BY <1>1
<1>3. T \subseteq Nat /\ T # {}
  BY <1>2
<1>4. PICK k \in T : \A l \in T : k <= l
  <2> HIDE DEF T
  <2> QED BY <1>3, Minimum
<1>5. \A n \in S : k <= t - n
  BY <1>2, <1>4
<1>6. \A n \in S : n <= t - k
  BY <1>5
<1> QED BY <1>4, <1>6

\* The choice in NextStart succeeds: a restored segment ends at the next start, or at
\* the end of the file.
LEMMA NextStartType ==
  ASSUME NEW t \in Nat, NEW D, NEW b \in Starts(t, D)
  PROVE  /\ NextStart(t, D, b) \in Starts(t, D) \cup {t}
         /\ b < NextStart(t, D, b)
         /\ NextStart(t, D, b) <= t
         /\ \A f \in Starts(t, D) \cup {t} : b < f => NextStart(t, D, b) <= f
<1> DEFINE S == {e \in Starts(t, D) \cup {t} : b < e}
<1>1. Starts(t, D) \subseteq 0 .. (t - 1)
  BY DEF Starts
<1>2. S \subseteq Nat /\ t \in S
  BY <1>1
<1>3. \E m \in S : \A n \in S : m <= n
  <2> HIDE DEF S
  <2> QED BY <1>2, Minimum
<1>4. \E e \in Starts(t, D) \cup {t} :
        /\ b < e
        /\ \A f \in Starts(t, D) \cup {t} : b < f => e <= f
  BY <1>3
<1>5. /\ NextStart(t, D, b) \in Starts(t, D) \cup {t}
      /\ b < NextStart(t, D, b)
      /\ \A f \in Starts(t, D) \cup {t} : b < f => NextStart(t, D, b) <= f
  BY <1>4 DEF NextStart
<1> QED BY <1>1, <1>5

\* Every byte lies in the restored segment of the last start before it, and is recorded
\* exactly when that start is: no recorded byte is restored as pending or the reverse.
LEMMA LastStart ==
  ASSUME NEW t \in Nat, NEW D, NEW b \in 0 .. (t - 1)
  PROVE  \E s \in Starts(t, D) :
           /\ s <= b /\ b < NextStart(t, D, s)
           /\ (s \in D) <=> (b \in D)
<1> DEFINE S == {s \in Starts(t, D) : s <= b}
<1>1. S \subseteq 0 .. t /\ 0 \in S
  BY DEF Starts
<1>2. PICK s \in S : \A n \in S : n <= s
  <2> HIDE DEF S
  <2> QED BY <1>1, Maximum
<1>3. b < NextStart(t, D, s)
  <2>1. NextStart(t, D, s) \in Starts(t, D) \cup {t} /\ s < NextStart(t, D, s)
    BY <1>2, NextStartType
  <2>2. Starts(t, D) \subseteq 0 .. (t - 1)
    BY DEF Starts
  <2> QED BY <1>2, <2>1, <2>2
<1>4. (s \in D) <=> (b \in D)
  <2> SUFFICES ASSUME ~((s \in D) <=> (b \in D)) PROVE FALSE
    OBVIOUS
  <2> DEFINE U == {c \in s .. b : ~((s \in D) <=> (c \in D))}
  <2>1. s \in 0 .. b
    BY <1>1, <1>2
  <2>2. U \subseteq Nat /\ b \in U
    BY <2>1
  <2>3. PICK m \in U : \A n \in U : m <= n
    <3> HIDE DEF U
    <3> QED BY <2>2, Minimum
  <2>4. m - 1 \in s .. b /\ m - 1 \notin U
    BY <2>1, <2>3
  <2>5. (m \in D) # ((m - 1) \in D)
    BY <2>3, <2>4
  <2>6. m \in S
    BY <2>1, <2>3, <2>5 DEF Starts
  <2> QED BY <1>2, <2>1, <2>3, <2>4, <2>6
<1> QED BY <1>2, <1>3, <1>4

\* restore builds one segment per start, the number that restored_segments counts.
LEMMA RestoredCount ==
  ASSUME NEW t \in Nat, NEW D
  PROVE  Cardinality(DOMAIN RestoredSegs(t, D)) = Cardinality(Starts(t, D))
<1> DEFINE S == Starts(t, D)
           T == {b + 1 : b \in S}
           f == [b \in S |-> b + 1]
<1>1. S \subseteq 0 .. (t - 1)
  BY DEF Starts
<1>2. IsFiniteSet(S)
  BY <1>1, FS_Interval, FS_Subset, 0 \in Int, t - 1 \in Int
<1>3. ExistsBijection(S, T)
  <2>1. f \in [S -> T]
    OBVIOUS
  <2>2. \A a, b \in S : f[a] = f[b] => a = b
    BY <1>1
  <2>3. \A c \in T : \E b \in S : f[b] = c
    OBVIOUS
  <2>4. f \in Bijection(S, T)
    BY <2>1, <2>2, <2>3 DEF Bijection, Injection, Surjection, IsInjective
  <2> QED BY <2>4 DEF ExistsBijection
<1>4. DOMAIN RestoredSegs(t, D) = T
  BY DEF RestoredSegs
<1> HIDE DEF S, T
<1>5. Cardinality(T) = Cardinality(S)
  BY <1>2, <1>3, FS_Bijection
<1> QED BY <1>4, <1>5 DEF S

\* The restored segments are non-empty, disjoint and cover the file; the durable ones
\* hold exactly the recorded bytes.
LEMMA RestoredPartition ==
  ASSUME NEW t \in Nat, NEW D
  PROVE  LET R == RestoredSegs(t, D) IN
         /\ DOMAIN R \subseteq 1 .. t
         /\ R \in [DOMAIN R -> Segment]
         /\ \A i \in DOMAIN R : /\ R[i].lo < R[i].hi /\ R[i].hi <= t
                                /\ R[i].state \in {"Pending", "Durable"}
         /\ \A i, j \in DOMAIN R : i # j => R[i].hi <= R[j].lo \/ R[j].hi <= R[i].lo
         /\ \A b \in 0 .. (t - 1) : \E i \in DOMAIN R : R[i].lo <= b /\ b < R[i].hi
         /\ \A i \in DOMAIN R : \A b \in R[i].lo .. (R[i].hi - 1) :
              (R[i].state = "Durable") <=> (b \in D)
<1> DEFINE S == Starts(t, D)
           R == RestoredSegs(t, D)
<1>1. S \subseteq 0 .. (t - 1)
  BY DEF Starts
<1>2. DOMAIN R = {b + 1 : b \in S}
  BY DEF RestoredSegs
<1>3. DOMAIN R \subseteq 1 .. t
  BY <1>1, <1>2
<1>4. \A i \in DOMAIN R :
        /\ i - 1 \in S
        /\ R[i] = Idle(i - 1, NextStart(t, D, i - 1),
                      IF (i - 1) \in D THEN "Durable" ELSE "Pending")
  BY <1>1, <1>2 DEF RestoredSegs
<1>5. \A b \in S : b + 1 \in DOMAIN R
  BY <1>2
<1>6. \A i \in DOMAIN R :
        /\ R[i].lo = i - 1 /\ R[i].hi = NextStart(t, D, i - 1)
        /\ R[i].state = IF (i - 1) \in D THEN "Durable" ELSE "Pending"
        /\ R[i].worker = 0 /\ R[i].attempt = 0
  BY <1>4 DEF Idle
<1>7. \A i \in DOMAIN R : /\ NextStart(t, D, i - 1) \in Nat
                          /\ i - 1 < NextStart(t, D, i - 1)
                          /\ NextStart(t, D, i - 1) <= t
                          /\ \A f \in S : i - 1 < f => NextStart(t, D, i - 1) <= f
  BY <1>1, <1>4, NextStartType
<1>8. \A i \in DOMAIN R : R[i] \in Segment
  <2> TAKE i \in DOMAIN R
  <2>1. i - 1 \in Nat
    BY <1>1, <1>4
  <2> QED BY <2>1, <1>4, <1>7 DEF Idle, Segment, SegmentState
<1>9. R \in [DOMAIN R -> Segment]
  BY <1>8 DEF RestoredSegs
<1>10. \A i, j \in DOMAIN R : i # j => R[i].hi <= R[j].lo \/ R[j].hi <= R[i].lo
  <2>1. \A i, j \in DOMAIN R : i < j => R[i].hi <= R[j].lo
    <3> TAKE i, j \in DOMAIN R
    <3> HAVE i < j
    <3>1. i \in Int /\ j \in Int
      BY <1>3
    <3>2. j - 1 \in S /\ i - 1 < j - 1
      BY <1>4, <3>1
    <3> QED BY <1>6, <1>7, <3>2
  <2>2. \A i, j \in DOMAIN R : i # j => i < j \/ j < i
    BY <1>3
  <2> QED BY <2>1, <2>2
<1>11. \A b \in 0 .. (t - 1) :
         \E i \in DOMAIN R : /\ R[i].lo <= b /\ b < R[i].hi
                             /\ (R[i].state = "Durable") <=> (b \in D)
  <2> TAKE b \in 0 .. (t - 1)
  <2>1. PICK s \in S : /\ s <= b /\ b < NextStart(t, D, s)
                       /\ (s \in D) <=> (b \in D)
    BY LastStart
  <2>2. s + 1 \in DOMAIN R /\ (s + 1) - 1 = s
    BY <1>1, <1>5
  <2> QED BY <2>1, <2>2, <1>6
<1> HIDE DEF R
<1>12. \A i \in DOMAIN R : /\ R[i].lo < R[i].hi /\ R[i].hi <= t
                           /\ R[i].state \in {"Pending", "Durable"}
  BY <1>6, <1>7
<1>13. \A i \in DOMAIN R : \A b \in R[i].lo .. (R[i].hi - 1) :
         (R[i].state = "Durable") <=> (b \in D)
  <2> SUFFICES ASSUME NEW i \in DOMAIN R, NEW b \in R[i].lo .. (R[i].hi - 1)
               PROVE  (R[i].state = "Durable") <=> (b \in D)
    OBVIOUS
  <2>1. \A j \in DOMAIN R : R[j].lo \in Nat /\ R[j].hi \in Nat
    BY <1>8 DEF Segment
  <2>2. b \in 0 .. (t - 1)
    BY <1>12, <2>1
  <2>3. PICK j \in DOMAIN R : /\ R[j].lo <= b /\ b < R[j].hi
                              /\ (R[j].state = "Durable") <=> (b \in D)
    BY <1>11, <2>2
  <2>4. i = j
    BY <1>10, <2>1, <2>3
  <2> QED BY <2>3, <2>4
<1>14. \A b \in 0 .. (t - 1) : \E i \in DOMAIN R : R[i].lo <= b /\ b < R[i].hi
  BY <1>11
<1> QED BY <1>3, <1>9, <1>10, <1>12, <1>13, <1>14 DEF R

\* SegmentMap::new covers the file with one pending segment, or none for an empty file.
LEMMA NewPartition ==
  ASSUME NEW t \in Nat
  PROVE  LET N == NewSegs(t) IN
         /\ DOMAIN N \subseteq {1}
         /\ N \in [DOMAIN N -> Segment]
         /\ \A i \in DOMAIN N : /\ i = 1 /\ N[i].lo < N[i].hi /\ N[i].hi <= t
                                /\ N[i].state = "Pending"
         /\ \A b \in 0 .. (t - 1) : \E i \in DOMAIN N : N[i].lo <= b /\ b < N[i].hi
<1> DEFINE N == NewSegs(t)
<1>1. DOMAIN N = {j \in {1} : t > 0}
  BY DEF NewSegs
<1>2. \A i \in DOMAIN N : N[i] = Idle(0, t, "Pending")
  BY DEF NewSegs
<1>3. Idle(0, t, "Pending") \in Segment
  BY DEF Idle, Segment, SegmentState
<1>4. N \in [DOMAIN N -> Segment]
  BY <1>2, <1>3 DEF NewSegs
<1>5. /\ Idle(0, t, "Pending").lo = 0 /\ Idle(0, t, "Pending").hi = t
      /\ Idle(0, t, "Pending").state = "Pending"
  BY DEF Idle
<1>6. \A i \in DOMAIN N : /\ i = 1 /\ N[i].lo < N[i].hi /\ N[i].hi <= t
                          /\ N[i].state = "Pending"
  BY <1>1, <1>2, <1>5
<1>7. \A b \in 0 .. (t - 1) : \E i \in DOMAIN N : N[i].lo <= b /\ b < N[i].hi
  <2> TAKE b \in 0 .. (t - 1)
  <2>1. 1 \in DOMAIN N
    BY <1>1
  <2> QED BY <2>1, <1>2, <1>5
<1> HIDE DEF N
<1> QED BY <1>1, <1>4, <1>6, <1>7 DEF N

-----------------------------------------------------------------------------
\* prepare_sync picks well-formed segments.
LEMMA SelectionType ==
  ASSUME TypeOK
  PROVE  Selection \in SUBSET Pick
BY DEF TypeOK, Selection, InState, Segment, Pick

\* Stealing is a split at some point.
LEMMA StealSplits ==
  ASSUME TypeOK, NEW minimum \in Minimums, StealLargestPending(minimum)
  PROVE  \E id \in DOMAIN segs, at \in Int : SplitPending(id, at)
<1>1. PICK id \in DOMAIN segs :
        SplitPending(id, segs[id].lo + (segs[id].hi - segs[id].lo) \div 2)
  BY DEF StealLargestPending, InState
<1>2. segs[id].lo + (segs[id].hi - segs[id].lo) \div 2 \in Int
  BY DEF TypeOK, Segment
<1> QED BY <1>1, <1>2

\* A restored map and a new one have no attempt in use.
LEMMA NoAttempts ==
  ASSUME NEW t, NEW D
  PROVE  /\ \A i \in DOMAIN RestoredSegs(t, D) : RestoredSegs(t, D)[i].attempt = 0
         /\ \A i \in DOMAIN NewSegs(t) : NewSegs(t)[i].attempt = 0
BY DEF RestoredSegs, NewSegs, Idle

\* What was handed out stays so when the counters grow.
LEMMA BelowGrows ==
  ASSUME NEW S, S \subseteq Pick \/ S \subseteq Lease, NEW i \in Nat, NEW a \in Nat,
         NEW j \in Nat, NEW c \in Nat, i <= j, a <= c, Below(S, i, a)
  PROVE  Below(S, j, c)
<1>1. \A k \in S : k.id \in Nat /\ k.attempt \in Nat
  BY DEF Pick, Lease
<1> QED BY <1>1 DEF Below

\* Every operation takes its numbers from the counters, and a counter starts again only
\* when all that was numbered from it is gone or belongs to an earlier generation.
LEMMA HandedStep == TypeOK /\ [Next]_vars => HandedOut'
<1> SUFFICES ASSUME TypeOK, [Next]_vars PROVE HandedOut'
  OBVIOUS
<1> DEFINE SegsBelow == \A i \in DOMAIN segs : segs[i].attempt < next_attempt
<1>1. /\ next_id \in Nat \ {0} /\ next_attempt \in Nat \ {0} /\ next_checkpoint \in Nat \ {0}
      /\ generation \in Nat \ {0} /\ DOMAIN segs \subseteq 1 .. (next_id - 1)
      /\ leases \subseteq Lease /\ tickets \subseteq Ticket /\ batches \subseteq Ticket
      /\ checkpoint.selection \subseteq Pick /\ checkpoint.sequence \in Nat
      /\ \A i \in DOMAIN segs : segs[i].attempt \in Nat
  BY DEF TypeOK, Segment
<1>2. HandedOut
  BY DEF TypeOK
<1>3. ASSUME SegsBelow', UNCHANGED generation, leases' \subseteq leases,
             tickets' \cup batches' \subseteq tickets \cup batches, UNCHANGED next_checkpoint,
             next_attempt' \in {next_attempt, next_attempt + 1},
             next_id' \in {next_id, next_id + 1},
             checkpoint'.selection \subseteq checkpoint.selection,
             checkpoint'.sequence \in {0, checkpoint.sequence}
      PROVE  HandedOut'
  <2>1. /\ next_id \in Nat /\ next_id' \in Nat /\ next_id <= next_id'
        /\ next_attempt \in Nat /\ next_attempt' \in Nat /\ next_attempt <= next_attempt'
    BY <1>3, <1>1
  <2>2. Below(checkpoint'.selection, next_id, next_attempt) /\ checkpoint'.selection \subseteq Pick
    BY <1>3, <1>1, <1>2 DEF HandedOut, Below
  <2>3. \A t \in tickets \cup batches :
          t.selection \subseteq Pick /\ Below(t.selection, next_id, next_attempt)
    BY <1>1, <1>2 DEF HandedOut, Ticket
  <2>4. \A l \in leases : /\ {l} \subseteq Lease
                          /\ l.generation = generation => Below({l}, next_id, next_attempt)
    BY <1>1, <1>2 DEF HandedOut
  <2>5. Below(checkpoint'.selection, next_id', next_attempt')
    BY <2>1, <2>2, BelowGrows
  <2>6. \A t \in tickets \cup batches : Below(t.selection, next_id', next_attempt')
    BY <2>1, <2>3, BelowGrows
  <2>7. \A l \in leases : l.generation = generation => Below({l}, next_id', next_attempt')
    BY <2>1, <2>4, BelowGrows
  <2>8. checkpoint'.sequence < next_checkpoint'
    BY <1>1, <1>2, <1>3 DEF HandedOut
  <2> QED BY <1>3, <1>2, <2>5, <2>6, <2>7, <2>8 DEF HandedOut
<1>4. ASSUME NEW id \in DOMAIN segs, NEW at \in Int, SplitPending(id, at)
      PROVE  HandedOut'
  <2>1. SegsBelow'
    BY <1>4, <1>1, <1>2 DEF HandedOut, SplitPending, Cut, Idle, TypeOK, Segment
  <2> QED BY <1>3, <1>4, <2>1 DEF SplitPending
<1>5. ASSUME NEW id \in DOMAIN segs, NEW worker \in Workers, LeaseSegment(id, worker)
      PROVE  HandedOut'
  <2> DEFINE l == [generation |-> generation, id |-> id, lo |-> segs[id].lo,
                   hi |-> segs[id].hi, worker |-> worker, attempt |-> next_attempt]
  <2>1. SegsBelow'
    BY <1>5, <1>1, <1>2 DEF HandedOut, LeaseSegment, TypeOK, Segment
  <2>2. /\ next_attempt \in Nat /\ next_attempt + 1 \in Nat /\ next_attempt <= next_attempt + 1
        /\ next_id \in Nat /\ next_id <= next_id
    BY <1>1
  <2>3. \A m \in leases : m.generation = generation => Below({m}, next_id, next_attempt + 1)
    <3>1. \A m \in leases : {m} \subseteq Lease
      BY <1>1
    <3> QED BY <1>2, <2>2, <3>1, BelowGrows DEF HandedOut
  <2>4. \A t \in tickets \cup batches : Below(t.selection, next_id, next_attempt + 1)
    <3>1. \A t \in tickets \cup batches : t.selection \subseteq Pick
      BY <1>1 DEF Ticket
    <3> QED BY <1>2, <2>2, <3>1, BelowGrows DEF HandedOut
  <2>5. Below(checkpoint.selection, next_id, next_attempt + 1)
    BY <1>1, <1>2, <2>2, BelowGrows DEF HandedOut
  <2>6. l.generation = generation /\ Below({l}, next_id, next_attempt + 1)
    BY <1>1, <1>5 DEF Below
  <2> HIDE DEF l
  <2>7. leases' = leases \cup {l}
    BY <1>5 DEF LeaseSegment, l
  <2>8. \A m \in leases' : /\ m.generation <= generation
                           /\ m.generation = generation => Below({m}, next_id, next_attempt + 1)
    <3>1. \A m \in leases : m.generation <= generation
      BY <1>2 DEF HandedOut
    <3>2. generation <= generation
      BY <1>1
    <3> QED BY <2>3, <2>6, <2>7, <3>1, <3>2
  <2>9. /\ next_attempt' = next_attempt + 1
        /\ UNCHANGED <<generation, next_id, next_checkpoint, checkpoint, tickets, batches>>
    BY <1>5 DEF LeaseSegment
  <2> QED BY <1>2, <2>1, <2>4, <2>5, <2>8, <2>9 DEF HandedOut
<1>6. ASSUME NEW l \in leases, MarkWritten(l) \/ Release(l)
      PROVE  HandedOut'
  <2>1. SegsBelow'
    BY <1>6, <1>1, <1>2 DEF HandedOut, MarkWritten, Release, Idle, TypeOK, Segment
  <2> QED BY <1>3, <1>6, <2>1 DEF MarkWritten, Release
<1>7. ASSUME PrepareSync
      PROVE  HandedOut'
  <2>1. Below(Selection, next_id, next_attempt)
    BY <1>1, <1>2 DEF HandedOut, Below, Selection, InState
  <2>2. /\ UNCHANGED <<generation, segs, next_id, next_attempt, leases, batches>>
        /\ next_checkpoint' = next_checkpoint + 1
        /\ checkpoint'.selection = Selection /\ checkpoint'.sequence = next_checkpoint
        /\ \A t \in tickets' : \/ t \in tickets
                               \/ /\ t.generation = generation /\ t.sequence = next_checkpoint
                                  /\ t.selection = Selection
    BY <1>7 DEF PrepareSync
  <2>3. \A t \in tickets' \cup batches' : /\ t.generation = generation
                                          /\ t.sequence < next_checkpoint'
                                          /\ Below(t.selection, next_id, next_attempt)
    <3>1. \A t \in tickets \cup batches : t.sequence \in Nat
      BY <1>1 DEF Ticket
    <3> QED BY <1>1, <1>2, <2>1, <2>2, <3>1 DEF HandedOut
  <2> QED BY <1>1, <1>2, <2>1, <2>2, <2>3 DEF HandedOut
<1>8. ASSUME NEW t \in tickets, AcknowledgeSync(t)
      PROVE  HandedOut'
  <2>1. /\ tickets' \cup batches' \subseteq tickets \cup batches
        /\ checkpoint'.selection = checkpoint.selection
        /\ checkpoint'.sequence = checkpoint.sequence
    BY <1>8 DEF AcknowledgeSync, TypeOK
  <2> QED BY <1>2, <1>3, <1>8, <2>1 DEF AcknowledgeSync, HandedOut
<1>9. ASSUME NEW b \in batches, CommitExtents(b)
      PROVE  HandedOut'
  BY <1>2, <1>3, <1>9 DEF CommitExtents, HandedOut
<1>10. ASSUME NEW b \in batches, AcknowledgeCommit(b)
       PROVE  HandedOut'
  <2>1. SegsBelow'
    BY <1>10, <1>1, <1>2 DEF HandedOut, AcknowledgeCommit, Committed, Idle
  <2> QED BY <1>3, <1>10, <2>1 DEF AcknowledgeCommit, NoCheckpoint
<1>11. ASSUME DiscardCheckpoint
       PROVE  HandedOut'
  BY <1>2, <1>3, <1>11 DEF DiscardCheckpoint, NoCheckpoint, HandedOut
<1>12. ASSUME DiscardUnsynced
       PROVE  HandedOut'
  <2>1. SegsBelow'
    BY <1>12, <1>1, <1>2 DEF HandedOut, DiscardUnsynced, Unwritten, Idle
  <2> QED BY <1>3, <1>12, <2>1 DEF DiscardUnsynced
<1>13. ASSUME Reload
       PROVE  HandedOut'
  <2>1. \A i \in DOMAIN segs' : segs'[i].attempt = 0
    BY <1>13, NoAttempts DEF Reload
  <2> QED BY <1>13, <2>1 DEF Reload, HandedOut, Below, NoCheckpoint
<1>14. ASSUME ReplaceGeneration
       PROVE  HandedOut'
  <2>1. \A i \in DOMAIN segs' : segs'[i].attempt = 0
    BY <1>14, NoAttempts DEF ReplaceGeneration
  <2>2. generation \in Nat /\ generation' = generation + 1
    BY <1>1, <1>14 DEF ReplaceGeneration
  <2>3. \A l \in leases : l.generation <= generation' /\ l.generation # generation'
    <3> TAKE l \in leases
    <3>1. l.generation \in Nat
      BY <1>1 DEF Lease
    <3>2. l.generation <= generation
      BY <1>2 DEF HandedOut
    <3> QED BY <2>2, <3>1, <3>2
  <2> QED BY <1>14, <2>1, <2>3 DEF ReplaceGeneration, HandedOut, Below, NoCheckpoint
<1>15. ASSUME UNCHANGED vars
       PROVE  HandedOut'
  BY <1>2, <1>15 DEF HandedOut, vars
<1>16. 0 .. total \subseteq Int
  BY DEF TypeOK
<1> QED
  BY <1>4, <1>5, <1>6, <1>7, <1>8, <1>9, <1>10, <1>11, <1>12, <1>13, <1>14, <1>15, <1>16,
     StealSplits DEF Next

\* A new map is well formed.
LEMMA TypeInit == Init => TypeOK
<1> HAVE Init
<1>1. total \in Nat /\ maximum \in Nat \ {0}
  BY ConstantsAssumption DEF Init
<1>2. /\ DOMAIN segs \subseteq {1}
      /\ segs \in [DOMAIN segs -> Segment]
  BY <1>1, NewPartition DEF Init
<1>3. \A i \in DOMAIN segs : segs[i].attempt = 0
  BY NoAttempts DEF Init
<1>4. HandedOut
  BY <1>3 DEF Init, HandedOut, Below, NoCheckpoint
<1> QED BY <1>1, <1>2, <1>4 DEF Init, TypeOK, NoCheckpoint

\* Every operation of the map, its tokens and its repository keeps it well formed.
LEMMA TypeStep == TypeOK /\ [Next]_vars => TypeOK'
<1> SUFFICES ASSUME TypeOK, [Next]_vars PROVE TypeOK'
  OBVIOUS
<1>0. HandedOut'
  BY HandedStep
<1>1. ASSUME NEW id \in DOMAIN segs, NEW at \in Int, SplitPending(id, at)
      PROVE  TypeOK'
  <2>1. at \in Nat
    BY <1>1 DEF SplitPending, TypeOK, Segment
  <2>2. Idle(at, segs[id].hi, "Pending") \in Segment
    BY <2>1 DEF TypeOK, Idle, Segment, SegmentState
  <2>3. [segs[id] EXCEPT !.hi = at] \in Segment
    BY <2>1 DEF TypeOK, Segment
  <2>4. /\ segs' \in [DOMAIN segs' -> Segment]
        /\ DOMAIN segs' = DOMAIN segs \cup {next_id}
    BY <1>1, <2>2, <2>3 DEF TypeOK, SplitPending, Cut
  <2> QED BY <1>0, <1>1, <2>4 DEF TypeOK, SplitPending
<1>2. ASSUME NEW id \in DOMAIN segs, NEW worker \in Workers, LeaseSegment(id, worker)
      PROVE  TypeOK'
  <2>1. worker \in Nat
    BY ConstantsAssumption
  <2>2. /\ segs' \in [DOMAIN segs' -> Segment]
        /\ DOMAIN segs' = DOMAIN segs
    BY <1>2, <2>1 DEF TypeOK, LeaseSegment, Segment, SegmentState
  <2>3. leases' \subseteq Lease
    BY <1>2, <2>1 DEF TypeOK, LeaseSegment, Lease, Segment
  <2> QED BY <1>0, <1>2, <2>2, <2>3 DEF TypeOK, LeaseSegment
<1>3. ASSUME NEW l \in leases, MarkWritten(l)
      PROVE  TypeOK'
  <2>1. /\ segs' \in [DOMAIN segs' -> Segment]
        /\ DOMAIN segs' = DOMAIN segs
    BY <1>3 DEF TypeOK, MarkWritten, Current, Segment, SegmentState
  <2> QED BY <1>0, <1>3, <2>1 DEF TypeOK, MarkWritten
<1>4. ASSUME NEW l \in leases, Release(l)
      PROVE  TypeOK'
  <2>1. Idle(l.lo, l.hi, "Pending") \in Segment
    BY DEF TypeOK, Idle, Lease, Segment, SegmentState
  <2>2. /\ segs' \in [DOMAIN segs' -> Segment]
        /\ DOMAIN segs' = DOMAIN segs
    BY <1>4, <2>1 DEF TypeOK, Release, Current
  <2> QED BY <1>0, <1>4, <2>2 DEF TypeOK, Release
<1>5. ASSUME PrepareSync
      PROVE  TypeOK'
  <2>1. Selection \in SUBSET Pick
    BY SelectionType
  <2>2. checkpoint' \in [sequence: Nat, selection: SUBSET Pick, synced: BOOLEAN]
    BY <1>5, <2>1 DEF TypeOK, PrepareSync
  <2>3. tickets' \subseteq Ticket
    BY <1>5, <2>1 DEF TypeOK, PrepareSync, Ticket
  <2> QED BY <1>0, <1>5, <2>2, <2>3 DEF TypeOK, PrepareSync
<1>6. ASSUME NEW t \in tickets, AcknowledgeSync(t)
      PROVE  TypeOK'
  BY <1>0, <1>6 DEF TypeOK, AcknowledgeSync
<1>7. ASSUME NEW b \in batches, CommitExtents(b)
      PROVE  TypeOK'
  <2>1. RangesOf(b.selection) \subseteq [lo: Nat, hi: Nat]
    BY DEF TypeOK, RangesOf, Ticket, Pick
  <2> QED BY <1>0, <1>7, <2>1 DEF TypeOK, CommitExtents
<1>8. ASSUME NEW b \in batches, AcknowledgeCommit(b)
      PROVE  TypeOK'
  <2>1. \A i \in DOMAIN segs : Idle(segs[i].lo, segs[i].hi, "Durable") \in Segment
    BY DEF TypeOK, Idle, Segment, SegmentState
  <2>2. /\ segs' \in [DOMAIN segs' -> Segment]
        /\ DOMAIN segs' = DOMAIN segs
    BY <1>8, <2>1 DEF TypeOK, AcknowledgeCommit, Committed
  <2> QED BY <1>0, <1>8, <2>2 DEF TypeOK, AcknowledgeCommit, NoCheckpoint
<1>9. ASSUME DiscardCheckpoint
      PROVE  TypeOK'
  BY <1>0, <1>9 DEF TypeOK, DiscardCheckpoint, NoCheckpoint
<1>10. ASSUME DiscardUnsynced
       PROVE  TypeOK'
  <2>1. \A i \in DOMAIN segs : Idle(segs[i].lo, segs[i].hi, "Pending") \in Segment
    BY DEF TypeOK, Idle, Segment, SegmentState
  <2>2. /\ segs' \in [DOMAIN segs' -> Segment]
        /\ DOMAIN segs' = DOMAIN segs
    BY <1>10, <2>1 DEF TypeOK, DiscardUnsynced, Unwritten
  <2> QED BY <1>0, <1>10, <2>2 DEF TypeOK, DiscardUnsynced
<1>11. ASSUME Reload
       PROVE  TypeOK'
  <2>1. /\ segs' \in [DOMAIN segs' -> Segment]
        /\ DOMAIN segs' \subseteq 1 .. total
    BY <1>11, RestoredPartition DEF TypeOK, Reload
  <2> QED BY <1>0, <1>11, <2>1 DEF TypeOK, Reload, NoCheckpoint
<1>12. ASSUME ReplaceGeneration
       PROVE  TypeOK'
  <2>1. total' \in Nat
    BY <1>12, ConstantsAssumption DEF ReplaceGeneration
  <2>2. /\ segs' \in [DOMAIN segs' -> Segment]
        /\ DOMAIN segs' \subseteq {1}
    BY <1>12, <2>1, NewPartition DEF ReplaceGeneration
  <2> QED BY <1>0, <1>12, <2>1, <2>2 DEF TypeOK, ReplaceGeneration, NoCheckpoint
<1>13. ASSUME UNCHANGED vars
       PROVE  TypeOK'
  BY <1>0, <1>13 DEF TypeOK, vars
<1>14. 0 .. total \subseteq Int
  BY DEF TypeOK
<1> QED
  BY <1>1, <1>2, <1>3, <1>4, <1>5, <1>6, <1>7, <1>8, <1>9, <1>10, <1>11, <1>12, <1>13,
     <1>14, StealSplits DEF Next

\* The structures of segments.rs always hold what their types allow, and segments,
\* checkpoints, tickets, batches and the leases of the generation carry only the
\* identifiers, attempts and sequences that the map handed out.
THEOREM TypeCorrect == Spec => []TypeOK
BY TypeInit, TypeStep, PTL DEF Spec

-----------------------------------------------------------------------------
\* A step that keeps the ranges of all segments keeps the partition.
LEMMA SameRanges ==
  ASSUME Partition, DOMAIN segs' = DOMAIN segs,
         \A i \in DOMAIN segs : segs'[i].lo = segs[i].lo /\ segs'[i].hi = segs[i].hi,
         total' = total, maximum' = maximum
  PROVE  Partition'
BY DEF Partition

\* A map made by new has at most one segment.
LEMMA AtMostOne ==
  ASSUME NEW S, S \subseteq {1}
  PROVE  Cardinality(S) \in Nat /\ Cardinality(S) <= 1
<1>1. IsFiniteSet({1}) /\ Cardinality({1}) = 1
  BY FS_Singleton
<1>2. S \in SUBSET {1}
  OBVIOUS
<1>3. IsFiniteSet(S) /\ Cardinality(S) <= Cardinality({1})
  BY <1>1, <1>2, FS_Subset
<1>4. Cardinality(S) \in Nat
  BY <1>3, FS_CardinalityType
<1> QED BY <1>1, <1>3, <1>4

\* A new map partitions the file.
LEMMA PartitionInit == Init => Partition
<1> HAVE Init
<1>1. total \in Nat /\ maximum \in Nat \ {0} /\ segs = NewSegs(total)
  BY ConstantsAssumption DEF Init
<1>2. DOMAIN segs \subseteq {1}
  BY <1>1, NewPartition
<1>3. Cardinality(DOMAIN segs) \in Nat /\ Cardinality(DOMAIN segs) <= 1
  BY <1>2, AtMostOne
<1>4. /\ \A i \in DOMAIN segs : i = 1 /\ segs[i].lo < segs[i].hi /\ segs[i].hi <= total
      /\ \A b \in 0 .. (total - 1) : \E i \in DOMAIN segs : segs[i].lo <= b /\ b < segs[i].hi
  BY <1>1, NewPartition
<1> QED BY <1>1, <1>3, <1>4 DEF Partition

\* Only splitting changes ranges, and it cuts one range in two under the plan's limit;
\* restore and replace_generation build partitions of their own.
LEMMA PartitionStep == TypeOK /\ Partition /\ [Next]_vars => Partition'
<1> SUFFICES ASSUME TypeOK, Partition, [Next]_vars PROVE Partition'
  OBVIOUS
<1>1. ASSUME NEW id \in DOMAIN segs, NEW at \in Int, SplitPending(id, at)
      PROVE  Partition'
  <2>1. /\ DOMAIN segs' = DOMAIN segs \cup {next_id}
        /\ next_id \notin DOMAIN segs
        /\ total' = total /\ maximum' = maximum
    BY <1>1 DEF TypeOK, SplitPending, Cut
  <2>2. segs[id].lo < at /\ at < segs[id].hi
    BY <1>1 DEF SplitPending
  <2>3. segs'[id].lo = segs[id].lo /\ segs'[id].hi = at
    BY <1>1, <2>1 DEF TypeOK, SplitPending, Cut, Segment
  <2>4. segs'[next_id].lo = at /\ segs'[next_id].hi = segs[id].hi
    BY <1>1, <2>1 DEF SplitPending, Cut, Idle
  <2>5. \A i \in DOMAIN segs \ {id} : segs'[i] = segs[i]
    BY <1>1, <2>1 DEF SplitPending, Cut
  <2>6. \A i \in DOMAIN segs : segs[i].lo \in Nat /\ segs[i].hi \in Nat
    BY DEF TypeOK, Segment
  <2>7. \A i \in DOMAIN segs' : segs'[i].lo < segs'[i].hi /\ segs'[i].hi <= total
    BY <2>1, <2>2, <2>3, <2>4, <2>5, <2>6 DEF Partition, TypeOK
  <2>8. \A i, j \in DOMAIN segs' :
          i # j => segs'[i].hi <= segs'[j].lo \/ segs'[j].hi <= segs'[i].lo
    <3>1. \A i \in DOMAIN segs \ {id} :
            /\ segs'[i].hi <= segs'[id].lo \/ segs'[id].hi <= segs'[i].lo
            /\ segs'[i].hi <= segs'[next_id].lo \/ segs'[next_id].hi <= segs'[i].lo
      BY <2>2, <2>3, <2>4, <2>5, <2>6 DEF Partition
    <3>2. \A i, j \in DOMAIN segs \ {id} :
            i # j => segs'[i].hi <= segs'[j].lo \/ segs'[j].hi <= segs'[i].lo
      BY <2>5 DEF Partition
    <3>3. segs'[id].hi <= segs'[next_id].lo
      BY <2>3, <2>4
    <3> QED BY <2>1, <3>1, <3>2, <3>3
  <2>9. \A b \in 0 .. (total - 1) :
          \E i \in DOMAIN segs' : segs'[i].lo <= b /\ b < segs'[i].hi
    <3> TAKE b \in 0 .. (total - 1)
    <3>1. PICK i \in DOMAIN segs : segs[i].lo <= b /\ b < segs[i].hi
      BY DEF Partition
    <3>2. CASE i # id
      BY <3>1, <3>2, <2>1, <2>5
    <3>3. CASE i = id /\ b < at
      BY <3>1, <3>3, <2>1, <2>3
    <3>4. CASE i = id /\ ~(b < at)
      BY <3>1, <3>4, <2>1, <2>4
    <3> QED BY <3>2, <3>3, <3>4
  <2>10. Cardinality(DOMAIN segs') <= maximum
    <3>1. IsFiniteSet(DOMAIN segs)
      BY FS_Interval, FS_Subset, 1 \in Int, next_id - 1 \in Int DEF TypeOK
    <3>2. Cardinality(DOMAIN segs) \in Nat
      BY <3>1, FS_CardinalityType
    <3>3. Cardinality(DOMAIN segs) # maximum /\ Cardinality(DOMAIN segs) <= maximum
      BY <1>1 DEF SplitPending, HasRoom, Partition
    <3>4. Cardinality(DOMAIN segs \cup {next_id}) = Cardinality(DOMAIN segs) + 1
      BY <2>1, <3>1, FS_AddElement
    <3> QED BY <2>1, <3>2, <3>3, <3>4 DEF TypeOK
  <2> QED BY <2>1, <2>7, <2>8, <2>9, <2>10 DEF Partition
<1>2. ASSUME NEW id \in DOMAIN segs, NEW worker \in Workers, LeaseSegment(id, worker)
      PROVE  Partition'
  <2>1. \A i \in DOMAIN segs : segs'[i].lo = segs[i].lo /\ segs'[i].hi = segs[i].hi
    BY <1>2 DEF LeaseSegment, TypeOK, Segment
  <2> QED BY <1>2, <2>1, SameRanges DEF LeaseSegment, TypeOK
<1>3. ASSUME NEW l \in leases, MarkWritten(l)
      PROVE  Partition'
  <2>1. \A i \in DOMAIN segs : segs'[i].lo = segs[i].lo /\ segs'[i].hi = segs[i].hi
    BY <1>3 DEF MarkWritten, TypeOK, Segment
  <2> QED BY <1>3, <2>1, SameRanges DEF MarkWritten, TypeOK
<1>4. ASSUME NEW l \in leases, Release(l)
      PROVE  Partition'
  <2>1. \A i \in DOMAIN segs : segs'[i].lo = segs[i].lo /\ segs'[i].hi = segs[i].hi
    BY <1>4 DEF Release, Current, Idle, TypeOK
  <2> QED BY <1>4, <2>1, SameRanges DEF Release, TypeOK
<1>5. ASSUME NEW b \in batches, AcknowledgeCommit(b)
      PROVE  Partition'
  <2>1. \A i \in DOMAIN segs : segs'[i].lo = segs[i].lo /\ segs'[i].hi = segs[i].hi
    BY <1>5 DEF AcknowledgeCommit, Committed, Idle
  <2>2. DOMAIN segs' = DOMAIN segs
    BY <1>5 DEF AcknowledgeCommit, Committed
  <2> QED BY <1>5, <2>1, <2>2, SameRanges DEF AcknowledgeCommit
<1>6. ASSUME DiscardUnsynced
      PROVE  Partition'
  <2>1. \A i \in DOMAIN segs : segs'[i].lo = segs[i].lo /\ segs'[i].hi = segs[i].hi
    BY <1>6 DEF DiscardUnsynced, Unwritten, Idle
  <2>2. DOMAIN segs' = DOMAIN segs
    BY <1>6 DEF DiscardUnsynced, Unwritten
  <2> QED BY <1>6, <2>1, <2>2, SameRanges DEF DiscardUnsynced
<1>7. ASSUME Reload
      PROVE  Partition'
  <2> DEFINE R == RestoredSegs(total, Covered(persisted))
  <2>1. segs' = R /\ total' = total /\ maximum' = maximum /\ total \in Nat
    BY <1>7 DEF Reload, TypeOK
  <2>2. Cardinality(DOMAIN R) <= maximum
    BY <1>7, <2>1, RestoredCount DEF Reload, RestoreAccepts
  <2>3. /\ \A i \in DOMAIN R : R[i].lo < R[i].hi /\ R[i].hi <= total
        /\ \A i, j \in DOMAIN R : i # j => R[i].hi <= R[j].lo \/ R[j].hi <= R[i].lo
        /\ \A b \in 0 .. (total - 1) : \E i \in DOMAIN R : R[i].lo <= b /\ b < R[i].hi
    BY <2>1, RestoredPartition
  <2> HIDE DEF R
  <2>4. \A b \in 0 .. (total - 1) :
          \E i \in DOMAIN segs' : segs'[i].lo <= b /\ b < segs'[i].hi
    BY <2>1, <2>3
  <2>5. /\ \A i \in DOMAIN segs' : segs'[i].lo < segs'[i].hi /\ segs'[i].hi <= total'
        /\ \A i, j \in DOMAIN segs' :
             i # j => segs'[i].hi <= segs'[j].lo \/ segs'[j].hi <= segs'[i].lo
        /\ Cardinality(DOMAIN segs') <= maximum'
    BY <2>1, <2>2, <2>3
  <2> QED BY <2>1, <2>4, <2>5 DEF Partition
<1>8. ASSUME ReplaceGeneration
      PROVE  Partition'
  <2> DEFINE N == NewSegs(total')
  <2>1. segs' = N /\ total' \in Nat /\ maximum' = maximum /\ maximum \in Nat \ {0}
    BY <1>8, ConstantsAssumption DEF ReplaceGeneration, TypeOK
  <2>2. DOMAIN N \subseteq {1}
    BY <2>1, NewPartition
  <2>3. Cardinality(DOMAIN N) <= 1 /\ Cardinality(DOMAIN N) \in Nat
    BY <2>2, AtMostOne
  <2>4. /\ \A i \in DOMAIN N : i = 1 /\ N[i].lo < N[i].hi /\ N[i].hi <= total'
        /\ \A b \in 0 .. (total' - 1) : \E i \in DOMAIN N : N[i].lo <= b /\ b < N[i].hi
    BY <2>1, NewPartition
  <2> HIDE DEF N
  <2>5. Cardinality(DOMAIN N) <= maximum
    BY <2>1, <2>3
  <2>6. \A i, j \in DOMAIN N : i = j
    BY <2>4
  <2> QED BY <2>1, <2>4, <2>5, <2>6 DEF Partition
<1>9. ASSUME UNCHANGED <<segs, total, maximum>>
      PROVE  Partition'
  BY <1>9 DEF Partition
<1>10. 0 .. total \subseteq Int
  BY DEF TypeOK
<1>11. \/ PrepareSync \/ DiscardCheckpoint \/ UNCHANGED vars
       \/ \E t \in tickets : AcknowledgeSync(t)
       \/ \E b \in batches : CommitExtents(b)
       => UNCHANGED <<segs, total, maximum>>
  BY DEF PrepareSync, DiscardCheckpoint, AcknowledgeSync, CommitExtents, vars
<1> QED
  BY <1>1, <1>2, <1>3, <1>4, <1>5, <1>6, <1>7, <1>8, <1>9, <1>10, <1>11,
     StealSplits DEF Next

\* Splits, leases, releases, checkpoints, restores and replacements, in any order, never
\* lose a byte of the file, assign one twice or exceed the plan's number of segments.
THEOREM Partitioned == Spec => []Partition
BY TypeCorrect, PartitionInit, PartitionStep, PTL DEF Spec

-----------------------------------------------------------------------------
\* A new map has no checkpoint.
LEMMA FrozenInit == Init => CheckpointFrozen
BY DEF Init, CheckpointFrozen, NoCheckpoint

\* A step that keeps the checkpoint and the written segments keeps it frozen.
LEMMA SameWritten ==
  ASSUME CheckpointFrozen, checkpoint' = checkpoint,
         \A i \in InState("Written") : i \in DOMAIN segs' /\ segs'[i] = segs[i]
  PROVE  CheckpointFrozen'
<1>1. \A k \in checkpoint.selection : k.id \in InState("Written")
  <2> TAKE k \in checkpoint.selection
  <2>1. /\ k.id \in DOMAIN segs
        /\ segs[k.id] = [lo |-> k.lo, hi |-> k.hi, state |-> "Written",
                         worker |-> 0, attempt |-> k.attempt]
    BY DEF CheckpointFrozen
  <2>2. segs[k.id].state = "Written"
    BY <2>1
  <2> QED BY <2>1, <2>2 DEF InState
<1> QED BY <1>1 DEF CheckpointFrozen

\* While a checkpoint is pending no operation touches a written segment: splits and leases
\* need a pending one, a lease settles one in flight, discard_unsynced refuses.
LEMMA FrozenStep == TypeOK /\ CheckpointFrozen /\ [Next]_vars => CheckpointFrozen'
<1> SUFFICES ASSUME TypeOK, CheckpointFrozen, [Next]_vars PROVE CheckpointFrozen'
  OBVIOUS
<1>1. ASSUME NEW id \in DOMAIN segs, NEW at \in Int, SplitPending(id, at)
      PROVE  CheckpointFrozen'
  <2>1. \A i \in InState("Written") : i # id /\ i # next_id /\ i \in DOMAIN segs
    BY <1>1 DEF SplitPending, InState, TypeOK
  <2>2. \A i \in InState("Written") : i \in DOMAIN segs' /\ segs'[i] = segs[i]
    BY <1>1, <2>1 DEF SplitPending, Cut
  <2> QED BY <1>1, <2>2, SameWritten DEF SplitPending
<1>2. ASSUME NEW id \in DOMAIN segs, NEW worker \in Workers, LeaseSegment(id, worker)
      PROVE  CheckpointFrozen'
  <2>1. \A i \in InState("Written") : i # id /\ i \in DOMAIN segs
    BY <1>2 DEF LeaseSegment, InState
  <2>2. \A i \in InState("Written") : i \in DOMAIN segs' /\ segs'[i] = segs[i]
    BY <1>2, <2>1 DEF LeaseSegment, TypeOK
  <2> QED BY <1>2, <2>2, SameWritten DEF LeaseSegment
<1>3. ASSUME NEW l \in leases, MarkWritten(l)
      PROVE  CheckpointFrozen'
  <2>1. \A i \in InState("Written") : i # l.id /\ i \in DOMAIN segs
    BY <1>3 DEF MarkWritten, Current, InState
  <2>2. \A i \in InState("Written") : i \in DOMAIN segs' /\ segs'[i] = segs[i]
    BY <1>3, <2>1 DEF MarkWritten, TypeOK
  <2> QED BY <1>3, <2>2, SameWritten DEF MarkWritten
<1>4. ASSUME NEW l \in leases, Release(l)
      PROVE  CheckpointFrozen'
  <2>1. \A i \in InState("Written") : i # l.id /\ i \in DOMAIN segs
    BY <1>4 DEF Release, Current, InState
  <2>2. \A i \in InState("Written") : i \in DOMAIN segs' /\ segs'[i] = segs[i]
    BY <1>4, <2>1 DEF Release, TypeOK
  <2> QED BY <1>4, <2>2, SameWritten DEF Release
<1>5. ASSUME PrepareSync
      PROVE  CheckpointFrozen'
  <2>1. checkpoint'.selection = Selection /\ segs' = segs
    BY <1>5 DEF PrepareSync
  <2>2. \A i \in InState("Written") :
          segs[i] = [lo |-> segs[i].lo, hi |-> segs[i].hi, state |-> "Written",
                     worker |-> 0, attempt |-> segs[i].attempt]
    BY DEF InState, TypeOK, Segment
  <2>3. \A i \in InState("Written") : i \in DOMAIN segs
    BY DEF InState
  <2>4. \A k \in Selection :
          /\ k.id \in DOMAIN segs
          /\ segs[k.id] = [lo |-> k.lo, hi |-> k.hi, state |-> "Written",
                           worker |-> 0, attempt |-> k.attempt]
    <3> TAKE k \in Selection
    <3>1. PICK i \in InState("Written") :
            k = [id |-> i, lo |-> segs[i].lo, hi |-> segs[i].hi, attempt |-> segs[i].attempt]
      BY DEF Selection
    <3>2. k.id = i /\ k.lo = segs[i].lo /\ k.hi = segs[i].hi /\ k.attempt = segs[i].attempt
      BY <3>1
    <3> QED BY <2>2, <2>3, <3>2
  <2> QED BY <2>1, <2>4 DEF CheckpointFrozen
<1>6. ASSUME checkpoint' = NoCheckpoint
      PROVE  CheckpointFrozen'
  BY <1>6 DEF CheckpointFrozen, NoCheckpoint
<1>7. ASSUME NEW t \in tickets, AcknowledgeSync(t)
      PROVE  CheckpointFrozen'
  BY <1>7 DEF AcknowledgeSync, CheckpointFrozen, TypeOK
<1>8. ASSUME UNCHANGED <<checkpoint, segs>>
      PROVE  CheckpointFrozen'
  BY <1>8 DEF CheckpointFrozen
<1>9. /\ \A b \in batches : AcknowledgeCommit(b) => checkpoint' = NoCheckpoint
      /\ DiscardCheckpoint \/ DiscardUnsynced \/ Reload \/ ReplaceGeneration
           => checkpoint' = NoCheckpoint
      /\ (\E b \in batches : CommitExtents(b)) \/ UNCHANGED vars
           => UNCHANGED <<checkpoint, segs>>
  BY DEF AcknowledgeCommit, DiscardCheckpoint, DiscardUnsynced, Reload, ReplaceGeneration,
         CommitExtents, vars
<1>10. 0 .. total \subseteq Int
  BY DEF TypeOK
<1> QED
  BY <1>1, <1>2, <1>3, <1>4, <1>5, <1>6, <1>7, <1>8, <1>9, <1>10, StealSplits DEF Next

\* The segments a checkpoint picked keep their ranges and attempts until it is
\* acknowledged or dropped, so acknowledge_commit never fails after the commit.
THEOREM Frozen == Spec => []CheckpointFrozen
BY TypeCorrect, FrozenInit, FrozenStep, PTL DEF Spec

-----------------------------------------------------------------------------
\* The strengthening of RepositoryAhead: each stored extent lies within the durable bytes,
\* or is an extent of the synced checkpoint.
Stored ==
  /\ BytesIn("Durable") \subseteq Covered(persisted)
  /\ \A r \in persisted :
       \/ RangeBytes(r) \subseteq BytesIn("Durable")
       \/ checkpoint.synced /\ r \in RangesOf(checkpoint.selection)

\* Stored implies the property.
LEMMA StoredSuffices == Stored => RepositoryAhead
BY DEF Stored, RepositoryAhead, Covered

\* The bytes of the durable segments depend on those segments only.
LEMMA SameDurable ==
  ASSUME InState("Durable")' = InState("Durable"),
         \A i \in InState("Durable") : segs'[i] = segs[i]
  PROVE  BytesIn("Durable")' = BytesIn("Durable")
BY DEF BytesIn, RangeBytes

\* A step that keeps the repository, the checkpoint and the durable bytes keeps Stored.
LEMMA SameStored ==
  ASSUME Stored, UNCHANGED <<persisted, checkpoint>>,
         BytesIn("Durable")' = BytesIn("Durable")
  PROVE  Stored'
BY DEF Stored, Covered

\* A new map has nothing durable and nothing stored.
LEMMA StoredInit == Init => Stored
<1> HAVE Init
<1>1. \A i \in DOMAIN segs : segs[i].state = "Pending"
  BY NewPartition, ConstantsAssumption DEF Init
<1>2. InState("Durable") = {}
  BY <1>1 DEF InState
<1> QED BY <1>2 DEF Init, Stored, BytesIn

\* Bytes become durable only by acknowledge_commit, after their extents were stored; a
\* checkpoint is dropped only when none of its extents were; restore marks durable what
\* the repository has.
LEMMA StoredStep == TypeOK /\ CheckpointFrozen /\ Stored /\ [Next]_vars => Stored'
<1> SUFFICES ASSUME TypeOK, CheckpointFrozen, Stored, [Next]_vars PROVE Stored'
  OBVIOUS
<1>1. ASSUME NEW id \in DOMAIN segs, NEW at \in Int, SplitPending(id, at)
      PROVE  Stored'
  <2>1. /\ DOMAIN segs' = DOMAIN segs \cup {next_id} /\ next_id \notin DOMAIN segs
        /\ \A i \in DOMAIN segs \ {id} : segs'[i] = segs[i]
        /\ segs[id].state = "Pending"
        /\ segs'[id].state = "Pending"
        /\ segs'[next_id].state = "Pending"
    BY <1>1 DEF TypeOK, SplitPending, Cut, Idle, InState, Segment
  <2>2. InState("Durable")' = InState("Durable")
    BY <2>1 DEF InState
  <2>3. \A i \in InState("Durable") : segs'[i] = segs[i]
    BY <2>1 DEF InState
  <2> QED BY <1>1, <2>2, <2>3, SameDurable, SameStored DEF SplitPending
<1>2. ASSUME NEW id \in DOMAIN segs, NEW worker \in Workers, LeaseSegment(id, worker)
      PROVE  Stored'
  <2>1. /\ DOMAIN segs' = DOMAIN segs
        /\ \A i \in DOMAIN segs \ {id} : segs'[i] = segs[i]
        /\ segs[id].state = "Pending" /\ segs'[id].state = "InFlight"
    BY <1>2 DEF TypeOK, LeaseSegment, InState, Segment
  <2>2. InState("Durable")' = InState("Durable")
    BY <2>1 DEF InState
  <2>3. \A i \in InState("Durable") : segs'[i] = segs[i]
    BY <2>1 DEF InState
  <2> QED BY <1>2, <2>2, <2>3, SameDurable, SameStored DEF LeaseSegment
<1>3. ASSUME NEW l \in leases, MarkWritten(l)
      PROVE  Stored'
  <2>1. /\ DOMAIN segs' = DOMAIN segs /\ l.id \in DOMAIN segs
        /\ \A i \in DOMAIN segs \ {l.id} : segs'[i] = segs[i]
        /\ segs[l.id].state = "InFlight" /\ segs'[l.id].state = "Written"
    BY <1>3 DEF TypeOK, MarkWritten, Current, Segment
  <2>2. InState("Durable")' = InState("Durable")
    BY <2>1 DEF InState
  <2>3. \A i \in InState("Durable") : segs'[i] = segs[i]
    BY <2>1 DEF InState
  <2> QED BY <1>3, <2>2, <2>3, SameDurable, SameStored DEF MarkWritten
<1>4. ASSUME NEW l \in leases, Release(l)
      PROVE  Stored'
  <2>1. /\ DOMAIN segs' = DOMAIN segs /\ l.id \in DOMAIN segs
        /\ \A i \in DOMAIN segs \ {l.id} : segs'[i] = segs[i]
        /\ segs[l.id].state = "InFlight" /\ segs'[l.id].state = "Pending"
    BY <1>4 DEF TypeOK, Release, Current, Idle, Segment
  <2>2. InState("Durable")' = InState("Durable")
    BY <2>1 DEF InState
  <2>3. \A i \in InState("Durable") : segs'[i] = segs[i]
    BY <2>1 DEF InState
  <2> QED BY <1>4, <2>2, <2>3, SameDurable, SameStored DEF Release
<1>5. ASSUME PrepareSync \/ DiscardCheckpoint \/ \E t \in tickets : AcknowledgeSync(t)
      PROVE  Stored'
  <2>1. UNCHANGED <<segs, persisted>>
    BY <1>5 DEF PrepareSync, DiscardCheckpoint, AcknowledgeSync
  <2>2. BytesIn("Durable")' = BytesIn("Durable")
    BY <2>1 DEF BytesIn, InState
  <2>3. \/ ~checkpoint.synced
        \/ RangesOf(checkpoint.selection) \cap persisted = {}
    BY <1>5 DEF PrepareSync, DiscardCheckpoint, AcknowledgeSync, NoCheckpoint
  <2>4. \A r \in persisted : RangeBytes(r) \subseteq BytesIn("Durable")
    BY <2>3 DEF Stored
  <2> QED BY <2>1, <2>2, <2>4 DEF Stored, Covered
<1>6. ASSUME NEW b \in batches, CommitExtents(b)
      PROVE  Stored'
  <2>1. /\ UNCHANGED <<segs, checkpoint>> /\ checkpoint.synced
        /\ persisted' = persisted \cup RangesOf(checkpoint.selection)
    BY <1>6 DEF CommitExtents, Matches
  <2>2. BytesIn("Durable")' = BytesIn("Durable")
    BY <2>1 DEF BytesIn, InState
  <2>3. Covered(persisted) \subseteq Covered(persisted')
    BY <2>1 DEF Covered
  <2> QED BY <2>1, <2>2, <2>3 DEF Stored, Covered
<1>7. ASSUME NEW b \in batches, AcknowledgeCommit(b)
      PROVE  Stored'
  <2> DEFINE Sel == checkpoint.selection
  <2>1. /\ persisted' = persisted /\ RangesOf(Sel) \subseteq persisted
        /\ segs' = Committed(Sel)
        /\ checkpoint' = NoCheckpoint
    BY <1>7 DEF AcknowledgeCommit, Matches
  <2>2. \A k \in Sel : k.id \in DOMAIN segs /\ segs[k.id].lo = k.lo /\ segs[k.id].hi = k.hi
    <3> TAKE k \in Sel
    <3>1. /\ k.id \in DOMAIN segs
          /\ segs[k.id] = [lo |-> k.lo, hi |-> k.hi, state |-> "Written",
                           worker |-> 0, attempt |-> k.attempt]
      BY DEF CheckpointFrozen
    <3> QED BY <3>1
  <2>3. /\ DOMAIN segs' = DOMAIN segs
        /\ \A i \in DOMAIN segs : segs'[i].lo = segs[i].lo /\ segs'[i].hi = segs[i].hi
        /\ \A i \in DOMAIN segs : (\E k \in Sel : k.id = i) => segs'[i].state = "Durable"
        /\ \A i \in DOMAIN segs : ~(\E k \in Sel : k.id = i) => segs'[i] = segs[i]
    BY <2>1 DEF Committed, Idle
  <2>4. BytesIn("Durable")' = BytesIn("Durable") \cup Covered(RangesOf(Sel))
    <3>1. ASSUME NEW x \in BytesIn("Durable")
          PROVE  x \in BytesIn("Durable")'
      <4>1. PICK i \in DOMAIN segs : segs[i].state = "Durable" /\ x \in RangeBytes(segs[i])
        BY <3>1 DEF BytesIn, InState
      <4>2. segs'[i].state = "Durable" /\ x \in RangeBytes(segs'[i])
        BY <4>1, <2>3 DEF RangeBytes
      <4> QED BY <4>2, <2>3 DEF BytesIn, InState
    <3>2. ASSUME NEW x \in Covered(RangesOf(Sel))
          PROVE  x \in BytesIn("Durable")'
      <4>1. PICK k \in Sel : x \in k.lo .. (k.hi - 1)
        BY <3>2 DEF Covered, RangesOf, RangeBytes
      <4>2. k.id \in DOMAIN segs' /\ segs'[k.id].state = "Durable"
        BY <4>1, <2>2, <2>3
      <4>3. x \in RangeBytes(segs'[k.id])
        BY <4>1, <2>2, <2>3 DEF RangeBytes
      <4> QED BY <4>2, <4>3 DEF BytesIn, InState
    <3>3. ASSUME NEW x \in BytesIn("Durable")'
          PROVE  x \in BytesIn("Durable") \cup Covered(RangesOf(Sel))
      <4>1. PICK i \in DOMAIN segs' : segs'[i].state = "Durable" /\ x \in RangeBytes(segs'[i])
        BY <3>3 DEF BytesIn, InState
      <4>2. CASE \E k \in Sel : k.id = i
        <5>1. PICK k \in Sel : k.id = i
          BY <4>2
        <5>2. x \in k.lo .. (k.hi - 1)
          BY <5>1, <4>1, <2>2, <2>3 DEF RangeBytes
        <5> DEFINE r == [lo |-> k.lo, hi |-> k.hi]
        <5>3. r \in RangesOf(Sel) /\ x \in RangeBytes(r)
          BY <5>2 DEF RangesOf, RangeBytes
        <5> HIDE DEF r
        <5> QED BY <5>3 DEF Covered
      <4>3. CASE ~\E k \in Sel : k.id = i
        <5>1. i \in DOMAIN segs /\ segs[i].state = "Durable" /\ x \in RangeBytes(segs[i])
          BY <4>1, <4>3, <2>3
        <5> QED BY <5>1 DEF BytesIn, InState
      <4> QED BY <4>2, <4>3
    <3> QED BY <3>1, <3>2, <3>3
  <2>5. Covered(RangesOf(Sel)) \subseteq Covered(persisted)
    BY <2>1 DEF Covered
  <2>6. \A r \in RangesOf(Sel) : RangeBytes(r) \subseteq Covered(RangesOf(Sel))
    BY DEF Covered
  <2> QED BY <2>1, <2>4, <2>5, <2>6 DEF Stored, Covered
<1>8. ASSUME DiscardUnsynced
      PROVE  Stored'
  <2>1. /\ DOMAIN segs' = DOMAIN segs
        /\ \A i \in DOMAIN segs : segs[i].state = "Durable" => segs'[i] = segs[i]
        /\ \A i \in DOMAIN segs : segs'[i].state = "Durable" => segs[i].state = "Durable"
    BY <1>8 DEF DiscardUnsynced, Unwritten, Idle
  <2>2. InState("Durable")' = InState("Durable")
    BY <2>1 DEF InState
  <2>3. \A i \in InState("Durable") : segs'[i] = segs[i]
    BY <2>1 DEF InState
  <2> QED BY <1>8, <2>2, <2>3, SameDurable, SameStored DEF DiscardUnsynced
<1>9. ASSUME Reload
      PROVE  Stored'
  <2> DEFINE D == Covered(persisted)
             R == RestoredSegs(total, D)
  <2>1. segs' = R /\ persisted' = persisted /\ total \in Nat
    BY <1>9 DEF Reload, TypeOK
  <2>2. /\ R \in [DOMAIN R -> Segment]
        /\ \A b \in 0 .. (total - 1) : \E i \in DOMAIN R : R[i].lo <= b /\ b < R[i].hi
        /\ \A i \in DOMAIN R : \A b \in R[i].lo .. (R[i].hi - 1) :
             (R[i].state = "Durable") <=> (b \in D)
    BY <2>1, RestoredPartition
  <2>3. \A b \in D : b \in 0 .. (total - 1)
    BY <1>9, <2>1 DEF Reload, RestoreAccepts, Covered, RangeBytes, TypeOK
  <2> HIDE DEF R
  <2>4. ASSUME NEW b \in BytesIn("Durable")'
        PROVE  b \in D
    <3>1. PICK i \in DOMAIN R : R[i].state = "Durable" /\ b \in R[i].lo .. (R[i].hi - 1)
      BY <2>1, <2>4 DEF BytesIn, InState, RangeBytes
    <3> QED BY <2>2, <3>1
  <2>5. ASSUME NEW b \in D
        PROVE  b \in BytesIn("Durable")'
    <3>1. PICK i \in DOMAIN R : R[i].lo <= b /\ b < R[i].hi
      BY <2>2, <2>3
    <3>2. R[i].lo \in Nat /\ R[i].hi \in Nat /\ b \in Nat
      BY <2>2, <2>3 DEF Segment
    <3>3. b \in R[i].lo .. (R[i].hi - 1)
      BY <3>1, <3>2
    <3>4. R[i].state = "Durable"
      BY <2>2, <3>3
    <3> QED BY <2>1, <3>3, <3>4 DEF BytesIn, InState, RangeBytes
  <2>6. BytesIn("Durable")' = D
    BY <2>4, <2>5
  <2>7. \A r \in persisted : RangeBytes(r) \subseteq D
    BY DEF Covered
  <2> QED BY <2>1, <2>6, <2>7 DEF Stored, Covered
<1>10. ASSUME ReplaceGeneration
       PROVE  Stored'
  <2>1. /\ persisted' = {} /\ segs' = NewSegs(total') /\ total' \in Nat
    BY <1>10, ConstantsAssumption DEF ReplaceGeneration
  <2>2. \A i \in DOMAIN segs' : segs'[i].state = "Pending"
    BY <2>1, NewPartition
  <2>3. BytesIn("Durable")' = {}
    BY <2>2 DEF BytesIn, InState
  <2> QED BY <2>1, <2>3 DEF Stored
<1>11. ASSUME UNCHANGED vars
       PROVE  Stored'
  BY <1>11 DEF Stored, vars, BytesIn, InState
<1>12. 0 .. total \subseteq Int
  BY DEF TypeOK
<1> QED
  BY <1>1, <1>2, <1>3, <1>4, <1>5, <1>6, <1>7, <1>8, <1>9, <1>10, <1>11, <1>12,
     StealSplits DEF Next

\* The map never calls a byte durable that the repository does not have, and the
\* repository is ahead by at most the extents of the synced checkpoint.
THEOREM MemoryBehindRepository == Spec => []RepositoryAhead
BY TypeCorrect, Frozen, StoredInit, StoredStep, StoredSuffices, PTL DEF Spec

-----------------------------------------------------------------------------
\* Only lease() puts a segment in flight, and under an attempt no older lease has.
LEMMA StaleStep ==
  TypeOK /\ [Next]_vars => [\A l \in leases : ~Current(l) => ~Current(l)']_vars
<1> SUFFICES ASSUME TypeOK, [Next]_vars, NEW l \in leases, ~Current(l), Current(l)'
             PROVE  FALSE
  BY DEF vars
<1>1. /\ l.generation = generation' /\ l.id \in DOMAIN segs'
      /\ segs'[l.id] = [lo |-> l.lo, hi |-> l.hi, state |-> "InFlight",
                        worker |-> l.worker, attempt |-> l.attempt]
  BY DEF Current
<1>2. segs'[l.id].state = "InFlight" /\ segs'[l.id].attempt = l.attempt
  BY <1>1
<1>3. ~(generation' = generation /\ l.id \in DOMAIN segs /\ segs'[l.id] = segs[l.id])
  BY <1>1 DEF Current
<1>4. ASSUME NEW id \in DOMAIN segs, NEW at \in Int, SplitPending(id, at)
      PROVE  FALSE
  <2>1. /\ generation' = generation /\ DOMAIN segs' = DOMAIN segs \cup {next_id}
        /\ \A i \in DOMAIN segs \ {id} : i # next_id => segs'[i] = segs[i]
        /\ segs'[next_id].state = "Pending"
        /\ id # next_id => segs'[id].state = "Pending"
    BY <1>4 DEF SplitPending, Cut, Idle, InState, TypeOK, Segment
  <2> QED BY <1>1, <1>2, <1>3, <2>1
<1>5. ASSUME NEW id \in DOMAIN segs, NEW worker \in Workers, LeaseSegment(id, worker)
      PROVE  FALSE
  <2>1. /\ generation' = generation /\ DOMAIN segs' = DOMAIN segs
        /\ \A i \in DOMAIN segs \ {id} : segs'[i] = segs[i]
        /\ segs'[id].attempt = next_attempt
    BY <1>5 DEF LeaseSegment, TypeOK, Segment
  <2>2. l.id = id
    BY <1>1, <1>3, <2>1
  <2>3. l.attempt < next_attempt
    BY <1>1, <2>1 DEF TypeOK, HandedOut, Below
  <2> QED BY <1>2, <2>1, <2>2, <2>3 DEF TypeOK
<1>6. ASSUME NEW m \in leases, MarkWritten(m) \/ Release(m)
      PROVE  FALSE
  <2>1. /\ generation' = generation /\ DOMAIN segs' = DOMAIN segs
        /\ \A i \in DOMAIN segs \ {m.id} : segs'[i] = segs[i]
        /\ segs'[m.id].state # "InFlight"
    BY <1>6 DEF MarkWritten, Release, Current, Idle, TypeOK, Segment
  <2> QED BY <1>1, <1>2, <1>3, <2>1
<1>7. ASSUME NEW b \in batches, AcknowledgeCommit(b)
      PROVE  FALSE
  <2>1. /\ generation' = generation /\ DOMAIN segs' = DOMAIN segs
        /\ \A i \in DOMAIN segs : segs'[i] = segs[i] \/ segs'[i].state = "Durable"
    BY <1>7 DEF AcknowledgeCommit, Committed, Idle
  <2> QED BY <1>1, <1>2, <1>3, <2>1
<1>8. ASSUME DiscardUnsynced
      PROVE  FALSE
  <2>1. /\ generation' = generation /\ DOMAIN segs' = DOMAIN segs
        /\ \A i \in DOMAIN segs : segs'[i] = segs[i] \/ segs'[i].state = "Pending"
    BY <1>8 DEF DiscardUnsynced, Unwritten, Idle
  <2> QED BY <1>1, <1>2, <1>3, <2>1
<1>9. ASSUME Reload
      PROVE  FALSE
  <2>1. \A i \in DOMAIN segs' : segs'[i].state \in {"Pending", "Durable"}
    BY <1>9, RestoredPartition DEF Reload, TypeOK
  <2> QED BY <1>1, <1>2, <2>1
<1>10. ASSUME ReplaceGeneration
       PROVE  FALSE
  <2>1. \A i \in DOMAIN segs' : segs'[i].state = "Pending"
    BY <1>10, NewPartition, ConstantsAssumption DEF ReplaceGeneration
  <2> QED BY <1>1, <1>2, <2>1
<1>11. ASSUME UNCHANGED <<generation, segs>>
       PROVE  FALSE
  BY <1>1, <1>3, <1>11
<1>12. ASSUME \/ PrepareSync \/ DiscardCheckpoint \/ UNCHANGED vars
              \/ \E t \in tickets : AcknowledgeSync(t)
              \/ \E b \in batches : CommitExtents(b)
       PROVE  FALSE
  BY <1>11, <1>12 DEF PrepareSync, DiscardCheckpoint, AcknowledgeSync, CommitExtents, vars
<1>13. 0 .. total \subseteq Int
  BY DEF TypeOK
<1> QED
  BY <1>4, <1>5, <1>6, <1>7, <1>8, <1>9, <1>10, <1>12, <1>13, StealSplits DEF Next

\* A lease that lease_index once rejects is rejected for good: the late answer of a worker
\* cannot settle a segment that was leased again.
THEOREM StaleLeases == Spec => StaleLeaseStaysStale
BY TypeCorrect, StaleStep, PTL DEF Spec, StaleLeaseStaysStale

-----------------------------------------------------------------------------
(***************************************************************************)
(* The record can be restored.                                             *)
(***************************************************************************)
\* What Restorable needs of the repository: its extents are non-empty and apart, and it
\* has all extents of the pending checkpoint or none of them.
Recorded ==
  /\ \A r \in persisted : r.lo < r.hi
  /\ \A r, q \in persisted : r = q \/ r.hi <= q.lo \/ q.hi <= r.lo
  /\ \/ RangesOf(checkpoint.selection) \subseteq persisted
     \/ RangesOf(checkpoint.selection) \cap persisted = {}

\* A byte lies in one segment only.
LEMMA OneSegment ==
  ASSUME TypeOK, Partition, NEW i \in DOMAIN segs, NEW j \in DOMAIN segs, NEW x,
         x \in RangeBytes(segs[i]), x \in RangeBytes(segs[j])
  PROVE  i = j
<1>1. /\ segs[i].lo \in Nat /\ segs[i].hi \in Nat
      /\ segs[j].lo \in Nat /\ segs[j].hi \in Nat
  BY DEF TypeOK, Segment
<1>2. i # j => segs[i].hi <= segs[j].lo \/ segs[j].hi <= segs[i].lo
  BY DEF Partition
<1> QED BY <1>1, <1>2 DEF RangeBytes

\* When recorded bytes are whole segments of the map, restore needs no more segments for
\* them than the map has: a restored segment starts where one of the map's does.
LEMMA FewStarts ==
  ASSUME TypeOK, Partition, NEW D,
         \A i \in DOMAIN segs : \/ RangeBytes(segs[i]) \subseteq D
                                \/ RangeBytes(segs[i]) \cap D = {}
  PROVE  Cardinality(Starts(total, D)) <= maximum
<1> DEFINE I == DOMAIN segs
           f == [i \in I |-> segs[i].lo]
           L == {segs[i].lo : i \in I}
<1>1. IsFiniteSet(I) /\ Cardinality(I) <= maximum /\ maximum \in Nat
  <2>1. next_id - 1 \in Int /\ 1 \in Int /\ I \subseteq 1 .. (next_id - 1)
    BY DEF TypeOK
  <2>2. IsFiniteSet(1 .. (next_id - 1))
    BY <2>1, FS_Interval
  <2>3. IsFiniteSet(I)
    BY <2>1, <2>2, FS_Subset
  <2> QED BY <2>3 DEF TypeOK, Partition
<1>2. IsFiniteSet(L) /\ Cardinality(L) <= Cardinality(I)
  <2>1. f \in Surjection(I, L)
    BY DEF Surjection
  <2> HIDE DEF I, L, f
  <2> QED BY <1>1, <2>1, FS_Surjection
<1>3. Starts(total, D) \subseteq L
  <2> SUFFICES ASSUME NEW b \in Starts(total, D) PROVE b \in L
    OBVIOUS
  <2>1. b \in 0 .. (total - 1) /\ (b = 0 \/ ((b \in D) # ((b - 1) \in D)))
    BY DEF Starts
  <2>2. PICK i \in I : segs[i].lo <= b /\ b < segs[i].hi
    BY <2>1 DEF Partition
  <2>3. segs[i].lo \in Nat /\ segs[i].hi \in Nat /\ b \in Nat
    BY <2>1, <2>2 DEF TypeOK, Segment
  <2>4. ~(segs[i].lo < b)
    <3> SUFFICES ASSUME segs[i].lo < b PROVE FALSE
      OBVIOUS
    <3>1. b \in RangeBytes(segs[i]) /\ b - 1 \in RangeBytes(segs[i])
      BY <2>2, <2>3 DEF RangeBytes
    <3>2. (b \in D) <=> ((b - 1) \in D)
      BY <3>1, <2>2
    <3> QED BY <2>1, <2>3, <3>2
  <2>5. b = segs[i].lo
    BY <2>2, <2>3, <2>4
  <2> QED BY <2>2, <2>5
<1>4. /\ Cardinality(Starts(total, D)) <= Cardinality(L)
      /\ Cardinality(Starts(total, D)) \in Nat
      /\ Cardinality(L) \in Nat /\ Cardinality(I) \in Nat
  <2> HIDE DEF L, I
  <2>1. IsFiniteSet(Starts(total, D)) /\ Cardinality(Starts(total, D)) <= Cardinality(L)
    BY <1>2, <1>3, FS_Subset
  <2> QED BY <1>1, <1>2, <2>1, FS_CardinalityType
<1> HIDE DEF L, I
<1> QED BY <1>1, <1>2, <1>4

\* The picked segments of a checkpoint are written segments of the map.
LEMMA Picked ==
  ASSUME TypeOK, Partition, CheckpointFrozen, NEW r \in RangesOf(checkpoint.selection)
  PROVE  \E i \in DOMAIN segs :
           /\ segs[i].state = "Written" /\ r.lo = segs[i].lo /\ r.hi = segs[i].hi
           /\ RangeBytes(r) = RangeBytes(segs[i])
           /\ r.lo \in Nat /\ r.hi \in Nat /\ r.lo < r.hi /\ r.hi <= total
<1>1. PICK k \in checkpoint.selection : r = [lo |-> k.lo, hi |-> k.hi]
  BY DEF RangesOf
<1>2. /\ k.id \in DOMAIN segs
      /\ segs[k.id] = [lo |-> k.lo, hi |-> k.hi, state |-> "Written",
                       worker |-> 0, attempt |-> k.attempt]
  BY DEF CheckpointFrozen
<1>3. segs[k.id].state = "Written" /\ r.lo = segs[k.id].lo /\ r.hi = segs[k.id].hi
  BY <1>1, <1>2
<1>4. segs[k.id].lo \in Nat /\ segs[k.id].hi \in Nat
  BY <1>2 DEF TypeOK, Segment
<1>5. segs[k.id].lo < segs[k.id].hi /\ segs[k.id].hi <= total
  BY <1>2 DEF Partition
<1> QED BY <1>2, <1>3, <1>4, <1>5 DEF RangeBytes

\* A written segment has no byte in common with a stored extent that lies in durable bytes.
LEMMA WrittenApart ==
  ASSUME TypeOK, Partition, NEW i \in DOMAIN segs, segs[i].state # "Durable",
         NEW x \in BytesIn("Durable")
  PROVE  x \notin RangeBytes(segs[i])
<1>1. PICK j \in DOMAIN segs : segs[j].state = "Durable" /\ x \in RangeBytes(segs[j])
  BY DEF BytesIn, InState
<1> QED BY <1>1, OneSegment

\* Ranges without a common byte do not overlap.
LEMMA Apart ==
  ASSUME NEW r, NEW q, r.lo \in Nat, r.hi \in Nat, q.lo \in Nat, q.hi \in Nat,
         r.lo < r.hi, q.lo < q.hi, RangeBytes(r) \cap RangeBytes(q) = {}
  PROVE  r.hi <= q.lo \/ q.hi <= r.lo
<1>1. r.lo <= q.lo => r.hi <= q.lo
  <2> SUFFICES ASSUME r.lo <= q.lo, q.lo < r.hi PROVE FALSE
    OBVIOUS
  <2>1. q.lo \in RangeBytes(r) /\ q.lo \in RangeBytes(q)
    BY DEF RangeBytes
  <2> QED BY <2>1
<1>2. q.lo <= r.lo => q.hi <= r.lo
  <2> SUFFICES ASSUME q.lo <= r.lo, r.lo < q.hi PROVE FALSE
    OBVIOUS
  <2>1. r.lo \in RangeBytes(r) /\ r.lo \in RangeBytes(q)
    BY DEF RangeBytes
  <2> QED BY <2>1
<1> QED BY <1>1, <1>2

\* The invariant gives Restorable: the stored extents, with or without those of the
\* pending checkpoint, are whole segments of a map that keeps to the limit.
LEMMA RecordedSuffices ==
  TypeOK /\ Partition /\ CheckpointFrozen /\ Stored /\ Recorded => Restorable
<1> SUFFICES ASSUME TypeOK, Partition, CheckpointFrozen, Stored, Recorded PROVE Restorable
  OBVIOUS
<1> DEFINE New == RangesOf(checkpoint.selection)
<1>1. \A r \in persisted : r.lo \in Nat /\ r.hi \in Nat /\ r.lo < r.hi
  BY DEF TypeOK, Recorded
<1>2. \A r \in New : /\ r.lo \in Nat /\ r.hi \in Nat /\ r.lo < r.hi /\ r.hi <= total
                     /\ \E i \in DOMAIN segs : /\ segs[i].state = "Written"
                                               /\ r.lo = segs[i].lo /\ r.hi = segs[i].hi
                                               /\ RangeBytes(r) = RangeBytes(segs[i])
  BY Picked
<1>3. ASSUME NEW r \in New, NEW x \in BytesIn("Durable")
      PROVE  x \notin RangeBytes(r)
  <2>1. PICK i \in DOMAIN segs : segs[i].state = "Written" /\ RangeBytes(r) = RangeBytes(segs[i])
    BY <1>2
  <2> QED BY <2>1, WrittenApart
<1>4. ASSUME NEW r \in New, NEW q \in New
      PROVE  r = q \/ r.hi <= q.lo \/ q.hi <= r.lo
  <2>1. PICK k \in checkpoint.selection : r = [lo |-> k.lo, hi |-> k.hi]
    BY DEF RangesOf
  <2>2. PICK l \in checkpoint.selection : q = [lo |-> l.lo, hi |-> l.hi]
    BY DEF RangesOf
  <2>3. PICK i \in DOMAIN segs : r.lo = segs[i].lo /\ r.hi = segs[i].hi
    BY <1>2
  <2>4. PICK j \in DOMAIN segs : q.lo = segs[j].lo /\ q.hi = segs[j].hi
    BY <1>2
  <2>5. CASE i = j
    <3>1. r = [lo |-> r.lo, hi |-> r.hi] /\ q = [lo |-> q.lo, hi |-> q.hi]
      BY <2>1, <2>2
    <3>2. r.lo = q.lo /\ r.hi = q.hi
      BY <2>3, <2>4, <2>5
    <3> QED BY <3>1, <3>2
  <2>6. CASE i # j
    BY <2>3, <2>4, <2>6 DEF Partition
  <2> QED BY <2>5, <2>6
<1>5. ASSUME NEW r \in New, NEW q \in persisted, q \notin New
      PROVE  r.hi <= q.lo \/ q.hi <= r.lo
  <2>1. RangeBytes(q) \subseteq BytesIn("Durable")
    BY <1>5 DEF Stored
  <2>2. RangeBytes(r) \cap RangeBytes(q) = {}
    BY <2>1, <1>3
  <2> QED BY <1>1, <1>2, <2>2, Apart
<1>6. \A r \in persisted : r.hi <= total
  <2> SUFFICES ASSUME NEW r \in persisted PROVE r.hi <= total
    OBVIOUS
  <2>1. CASE r \in New
    BY <2>1, <1>2
  <2>2. CASE r \notin New
    <3>1. RangeBytes(r) \subseteq BytesIn("Durable")
      BY <2>2 DEF Stored
    <3>2. r.hi - 1 \in RangeBytes(r)
      BY <1>1 DEF RangeBytes
    <3>3. PICK i \in DOMAIN segs : r.hi - 1 \in RangeBytes(segs[i])
      BY <3>1, <3>2 DEF BytesIn, InState
    <3>4. segs[i].lo \in Nat /\ segs[i].hi \in Nat /\ segs[i].hi <= total /\ total \in Nat
      BY DEF TypeOK, Segment, Partition
    <3> QED BY <1>1, <3>3, <3>4 DEF RangeBytes
  <2> QED BY <2>1, <2>2
<1>7. ASSUME NEW i \in DOMAIN segs
      PROVE  \/ RangeBytes(segs[i]) \subseteq Covered(persisted)
             \/ RangeBytes(segs[i]) \cap Covered(persisted) = {}
  <2>1. CASE segs[i].state = "Durable"
    <3>1. RangeBytes(segs[i]) \subseteq BytesIn("Durable")
      BY <2>1 DEF BytesIn, InState
    <3> QED BY <3>1 DEF Stored
  <2>2. CASE segs[i].state # "Durable"
    <3> SUFFICES ASSUME NEW x \in RangeBytes(segs[i]), x \in Covered(persisted)
                 PROVE  RangeBytes(segs[i]) \subseteq Covered(persisted)
      OBVIOUS
    <3>1. PICK r \in persisted : x \in RangeBytes(r)
      BY DEF Covered
    <3>2. r \in New
      BY <3>1, <2>2, WrittenApart DEF Stored
    <3>3. PICK j \in DOMAIN segs : RangeBytes(r) = RangeBytes(segs[j])
      BY <3>2, <1>2
    <3>4. i = j
      BY <3>1, <3>3, OneSegment
    <3> QED BY <3>1, <3>3, <3>4 DEF Covered
  <2> QED BY <2>1, <2>2
<1>8. RestoreAccepts
  <2>1. Cardinality(Starts(total, Covered(persisted))) <= maximum
    BY <1>7, FewStarts
  <2> QED BY <1>6, <2>1 DEF RestoreAccepts, Recorded
<1>9. ASSUME checkpoint.synced
      PROVE  Admits(New)
  <2>1. \A r \in New : r.hi <= total
    BY <1>2
  <2>2. \A r \in New, q \in persisted \cup New : r = q \/ r.hi <= q.lo \/ q.hi <= r.lo
    BY <1>4, <1>5
  <2>3. ASSUME NEW i \in DOMAIN segs
        PROVE  \/ RangeBytes(segs[i]) \subseteq Covered(persisted \cup New)
               \/ RangeBytes(segs[i]) \cap Covered(persisted \cup New) = {}
    <3>1. Covered(persisted \cup New) = Covered(persisted) \cup Covered(New)
      BY DEF Covered
    <3>2. CASE \E x \in RangeBytes(segs[i]) : x \in Covered(New)
      <4>1. PICK x \in RangeBytes(segs[i]) : x \in Covered(New)
        BY <3>2
      <4>2. PICK r \in New : x \in RangeBytes(r)
        BY <4>1 DEF Covered
      <4>3. PICK j \in DOMAIN segs : RangeBytes(r) = RangeBytes(segs[j])
        BY <1>2
      <4>4. i = j
        BY <4>1, <4>2, <4>3, OneSegment
      <4>5. RangeBytes(segs[i]) \subseteq Covered(New)
        BY <4>3, <4>4 DEF Covered
      <4> QED BY <3>1, <4>5
    <3>3. CASE ~\E x \in RangeBytes(segs[i]) : x \in Covered(New)
      BY <1>7, <3>1, <3>3
    <3> QED BY <3>2, <3>3
  <2>4. Cardinality(Starts(total, Covered(persisted \cup New))) <= maximum
    BY <2>3, FewStarts
  <2> QED BY <2>1, <2>2, <2>4 DEF Admits
<1> QED BY <1>8, <1>9 DEF Restorable

\* A new map has nothing recorded.
LEMMA RecordedInit == Init => Recorded
BY DEF Init, Recorded, NoCheckpoint, RangesOf

\* The repository checks a batch for overlaps and stores all of it or nothing; a written
\* segment was not stored before its checkpoint.
LEMMA RecordedStep ==
  TypeOK /\ Partition /\ CheckpointFrozen /\ Stored /\ Recorded /\ [Next]_vars => Recorded'
<1> SUFFICES ASSUME TypeOK, Partition, CheckpointFrozen, Stored, Recorded, [Next]_vars
             PROVE  Recorded'
  OBVIOUS
<1>1. ASSUME UNCHANGED <<persisted, checkpoint>>
      PROVE  Recorded'
  BY <1>1 DEF Recorded, RangesOf
<1>2. ASSUME persisted' = persisted, checkpoint' = NoCheckpoint
      PROVE  Recorded'
  <2>1. RangesOf(checkpoint'.selection) = {}
    BY <1>2 DEF RangesOf, NoCheckpoint
  <2> QED BY <1>2, <2>1 DEF Recorded
<1>3. ASSUME PrepareSync
      PROVE  Recorded'
  <2>1. /\ persisted' = persisted /\ checkpoint'.selection = Selection
        /\ ~checkpoint.synced
    BY <1>3 DEF PrepareSync, NoCheckpoint
  <2>2. ASSUME NEW r \in RangesOf(Selection), r \in persisted
        PROVE  FALSE
    <3>1. PICK k \in Selection : r = [lo |-> k.lo, hi |-> k.hi]
      BY <2>2 DEF RangesOf
    <3>2. PICK i \in DOMAIN segs : /\ segs[i].state = "Written"
                                   /\ k.lo = segs[i].lo /\ k.hi = segs[i].hi
      BY <3>1 DEF Selection, InState
    <3>3. r.lo \in Nat /\ r.hi \in Nat /\ r.lo < r.hi
      BY <2>2 DEF TypeOK, Recorded
    <3>4. r.lo \in RangeBytes(r) /\ r.lo \in RangeBytes(segs[i])
      BY <3>1, <3>2, <3>3 DEF RangeBytes
    <3>5. r.lo \in BytesIn("Durable")
      BY <2>1, <2>2, <3>4 DEF Stored
    <3> QED BY <3>2, <3>4, <3>5, WrittenApart
  <2>3. RangesOf(Selection) \cap persisted = {}
    BY <2>2
  <2> QED BY <2>1, <2>3 DEF Recorded
<1>4. ASSUME NEW t \in tickets, AcknowledgeSync(t)
      PROVE  Recorded'
  <2>1. persisted' = persisted /\ checkpoint'.selection = checkpoint.selection
    BY <1>4 DEF AcknowledgeSync, TypeOK
  <2> QED BY <2>1 DEF Recorded
<1>5. ASSUME NEW b \in batches, CommitExtents(b)
      PROVE  Recorded'
  <2> DEFINE New == RangesOf(checkpoint.selection)
  <2>1. /\ checkpoint' = checkpoint /\ persisted' = persisted \cup New
        /\ Admits(New)
    BY <1>5 DEF CommitExtents, Matches
  <2>2. \A r \in New : r.lo < r.hi
    BY Picked
  <2>3. \A r \in New, q \in persisted \cup New : r = q \/ r.hi <= q.lo \/ q.hi <= r.lo
    BY <2>1 DEF Admits
  <2> HIDE DEF New
  <2>4. \A r, q \in persisted \cup New : r = q \/ r.hi <= q.lo \/ q.hi <= r.lo
    BY <2>3 DEF Recorded
  <2>5. RangesOf(checkpoint'.selection) = New
    BY <2>1 DEF New
  <2> QED BY <2>1, <2>2, <2>4, <2>5 DEF Recorded
<1>6. ASSUME ReplaceGeneration
      PROVE  Recorded'
  <2>1. persisted' = {}
    BY <1>6 DEF ReplaceGeneration
  <2> QED BY <2>1 DEF Recorded
<1>7. ASSUME \/ \E b \in batches : AcknowledgeCommit(b)
             \/ DiscardCheckpoint \/ Reload
      PROVE  persisted' = persisted /\ checkpoint' = NoCheckpoint
  BY <1>7 DEF AcknowledgeCommit, DiscardCheckpoint, Reload
<1>8. ASSUME \/ \E id \in DOMAIN segs, at \in Int : SplitPending(id, at)
             \/ \E id \in DOMAIN segs, worker \in Workers : LeaseSegment(id, worker)
             \/ \E l \in leases : MarkWritten(l) \/ Release(l)
             \/ DiscardUnsynced \/ UNCHANGED vars
      PROVE  UNCHANGED <<persisted, checkpoint>>
  BY <1>8 DEF SplitPending, LeaseSegment, MarkWritten, Release, DiscardUnsynced, vars
<1>9. 0 .. total \subseteq Int
  BY DEF TypeOK
<1> QED
  BY <1>1, <1>2, <1>3, <1>4, <1>5, <1>6, <1>7, <1>8, <1>9, StealSplits DEF Next

\* At every moment a restart finds a record that SegmentMap::restore accepts, and the
\* repository takes the batch of a synced checkpoint, and takes it again on a retry.
THEOREM AlwaysRestores == Spec => []Restorable
<1>1. Spec => [](TypeOK /\ Partition /\ CheckpointFrozen /\ Stored)
  BY TypeCorrect, Partitioned, Frozen, StoredInit, StoredStep, PTL DEF Spec
<1> QED BY <1>1, RecordedInit, RecordedStep, RecordedSuffices, PTL DEF Spec

-----------------------------------------------------------------------------
(***************************************************************************)
(* The map implements ByteProgress.                                        *)
(***************************************************************************)
\* The parts of the refinement mapping.
Leased == {RangeBytes(segs[i]) : i \in InState("InFlight")}
FrozenBytes == Covered(RangesOf(checkpoint.selection))
Stage ==
  IF checkpoint = NoCheckpoint THEN "NoCheckpoint"
  ELSE IF checkpoint.synced THEN "Synced" ELSE "Prepared"

\* A progress record by its fields, and the set with only that record.
Record(t, l, w, d, f, c) ==
  [total |-> t, leased |-> l, written |-> w, durable |-> d, frozen |-> f, ckpt |-> c]
Only(t, l, w, d, f, c) ==
  [total : {t}, leased : {l}, written : {w}, durable : {d}, frozen : {f}, ckpt : {c}]

\* The record the map is mapped to.
Bar == Record(total, Leased, BytesIn("Written"), BytesIn("Durable"), FrozenBytes, Stage)

\* It is the only one.
LEMMA OnlyRecord ==
  ASSUME NEW t, NEW l, NEW w, NEW d, NEW f, NEW c
  PROVE  /\ Record(t, l, w, d, f, c) \in Only(t, l, w, d, f, c)
         /\ \A p \in Only(t, l, w, d, f, c) : p = Record(t, l, w, d, f, c)
<1>1. Record(t, l, w, d, f, c) \in Only(t, l, w, d, f, c)
  BY DEF Record, Only
<1>2. ASSUME NEW p \in Only(t, l, w, d, f, c)
      PROVE  p = Record(t, l, w, d, f, c)
  BY DEF Record, Only
<1> QED BY <1>1, <1>2

\* A new record and a restored one, by fields.
LEMMA StartFields ==
  ASSUME NEW t, NEW d
  PROVE  /\ Abstract!Fresh(t) = Record(t, {}, {}, {}, {}, "NoCheckpoint")
         /\ Abstract!Restored(t, d) = Record(t, {}, {}, d, {}, "NoCheckpoint")
<1>1. Abstract!Fresh(t) = Record(t, {}, {}, {}, {}, "NoCheckpoint")
  BY DEF Record, Abstract!Fresh, Abstract!NoCheckpoint
<1>2. Abstract!Fresh(t) \in Only(t, {}, {}, {}, {}, "NoCheckpoint")
  BY <1>1, OnlyRecord
<1>3. Abstract!Restored(t, d) \in Only(t, {}, {}, d, {}, "NoCheckpoint")
  BY <1>2 DEF Only, Abstract!Restored
<1> QED BY <1>1, <1>3, OnlyRecord

\* What the operations of Progress do to the mapped record, by fields.
LEMMA BarMoves ==
  ASSUME NEW B
  PROVE  LET W == BytesIn("Written")
             D == BytesIn("Durable")
             F == FrozenBytes
         IN  /\ Abstract!LeaseBytes(Bar, B) = Record(total, Leased \cup {B}, W, D, F, Stage)
             /\ Abstract!MarkWritten(Bar, B) = Record(total, Leased \ {B}, W \cup B, D, F, Stage)
             /\ Abstract!ReleaseBytes(Bar, B) = Record(total, Leased \ {B}, W, D, F, Stage)
             /\ Abstract!PrepareSync(Bar) = Record(total, Leased, W, D, W, "Prepared")
             /\ Abstract!AcknowledgeSync(Bar) = Record(total, Leased, W, D, F, "Synced")
             /\ Abstract!AcknowledgeCommit(Bar) =
                  Record(total, Leased, W \ F, D \cup F, {}, "NoCheckpoint")
             /\ Abstract!DiscardCheckpoint(Bar) = Record(total, Leased, W, D, {}, "NoCheckpoint")
             /\ Abstract!DiscardUnsynced(Bar) = Record(total, Leased, {}, D, F, Stage)
             /\ Bar' = Record(total', Leased', W', D', F', Stage')
<1> DEFINE W == BytesIn("Written")
           D == BytesIn("Durable")
           F == FrozenBytes
<1>1. Bar' = Record(total', Leased', W', D', F', Stage')
  BY DEF Bar
<1>2. Bar = Record(total, Leased, W, D, F, Stage)
  BY DEF Bar
<1> HIDE DEF W, D, F
<1>3. Bar \in Only(total, Leased, W, D, F, Stage)
  BY <1>2, OnlyRecord
<1>4. Abstract!LeaseBytes(Bar, B) \in Only(total, Leased \cup {B}, W, D, F, Stage)
  BY <1>3 DEF Only, Abstract!LeaseBytes
<1>5. Abstract!MarkWritten(Bar, B) \in Only(total, Leased \ {B}, W \cup B, D, F, Stage)
  BY <1>3 DEF Only, Abstract!MarkWritten
<1>6. Abstract!ReleaseBytes(Bar, B) \in Only(total, Leased \ {B}, W, D, F, Stage)
  BY <1>3 DEF Only, Abstract!ReleaseBytes
<1>7. Abstract!PrepareSync(Bar) \in Only(total, Leased, W, D, W, "Prepared")
  BY <1>3 DEF Only, Abstract!PrepareSync, Abstract!Prepared
<1>8. Abstract!AcknowledgeSync(Bar) \in Only(total, Leased, W, D, F, "Synced")
  BY <1>3 DEF Only, Abstract!AcknowledgeSync, Abstract!Synced
<1>9. Abstract!AcknowledgeCommit(Bar) \in
        Only(total, Leased, W \ F, D \cup F, {}, "NoCheckpoint")
  BY <1>3 DEF Only, Abstract!AcknowledgeCommit, Abstract!NoCheckpoint
<1>10. Abstract!DiscardCheckpoint(Bar) \in Only(total, Leased, W, D, {}, "NoCheckpoint")
  BY <1>3 DEF Only, Abstract!DiscardCheckpoint, Abstract!NoCheckpoint
<1>11. Abstract!DiscardUnsynced(Bar) \in Only(total, Leased, {}, D, F, Stage)
  BY <1>3 DEF Only, Abstract!DiscardUnsynced
<1>12. /\ Abstract!LeaseBytes(Bar, B) = Record(total, Leased \cup {B}, W, D, F, Stage)
       /\ Abstract!MarkWritten(Bar, B) = Record(total, Leased \ {B}, W \cup B, D, F, Stage)
       /\ Abstract!ReleaseBytes(Bar, B) = Record(total, Leased \ {B}, W, D, F, Stage)
       /\ Abstract!PrepareSync(Bar) = Record(total, Leased, W, D, W, "Prepared")
       /\ Abstract!AcknowledgeSync(Bar) = Record(total, Leased, W, D, F, "Synced")
       /\ Abstract!AcknowledgeCommit(Bar) =
            Record(total, Leased, W \ F, D \cup F, {}, "NoCheckpoint")
       /\ Abstract!DiscardCheckpoint(Bar) = Record(total, Leased, W, D, {}, "NoCheckpoint")
       /\ Abstract!DiscardUnsynced(Bar) = Record(total, Leased, {}, D, F, Stage)
  BY <1>4, <1>5, <1>6, <1>7, <1>8, <1>9, <1>10, <1>11, OnlyRecord
<1> QED BY <1>1, <1>12 DEF W, D, F

\* The steps of the abstract specification, as ways from one progress record to another.
LEMMA AbstractSteps ==
  ASSUME generation' = generation
  PROVE  /\ \A lo, hi \in 0 .. Bar.total :
              /\ Abstract!CanLease(Bar, lo .. (hi - 1))
              /\ Bar' = Abstract!LeaseBytes(Bar, lo .. (hi - 1))
              => Abstract!Next
         /\ \A B \in Bar.leased :
              Bar' \in {Abstract!MarkWritten(Bar, B), Abstract!ReleaseBytes(Bar, B)}
              => Abstract!Next
         /\ Abstract!CanPrepareSync(Bar) /\ Bar' = Abstract!PrepareSync(Bar) => Abstract!Next
         /\ Bar.ckpt = "Prepared" /\ Bar' = Abstract!AcknowledgeSync(Bar) => Abstract!Next
         /\ Bar.ckpt = "Synced" /\ Bar' = Abstract!AcknowledgeCommit(Bar) => Abstract!Next
         /\ Bar' = Abstract!DiscardCheckpoint(Bar) => Abstract!Next
         /\ Abstract!CanDiscardUnsynced(Bar) /\ Bar' = Abstract!DiscardUnsynced(Bar)
              => Abstract!Next
         /\ Bar' = Abstract!Restored(Bar.total, Bar.durable) => Abstract!Next
         /\ Bar.ckpt = "Synced" /\ Bar' = Abstract!Restored(Bar.total, Bar.durable \cup Bar.frozen)
              => Abstract!Next
         /\ Bar' = Bar => UNCHANGED Abstract!vars
<1> USE DEF Bar, Record, Leased, FrozenBytes, Stage
<1>1. \A lo, hi \in 0 .. Bar.total :
              /\ Abstract!CanLease(Bar, lo .. (hi - 1))
              /\ Bar' = Abstract!LeaseBytes(Bar, lo .. (hi - 1))
              => Abstract!Operate
  BY DEF Abstract!Operate
<1>2. \A B \in Bar.leased :
              Bar' \in {Abstract!MarkWritten(Bar, B), Abstract!ReleaseBytes(Bar, B)}
              => Abstract!Operate
  BY DEF Abstract!Operate
<1>3. Abstract!CanPrepareSync(Bar) /\ Bar' = Abstract!PrepareSync(Bar) => Abstract!Operate
  BY DEF Abstract!Operate
<1>4. Bar.ckpt = "Prepared" /\ Bar' = Abstract!AcknowledgeSync(Bar) => Abstract!Operate
  BY DEF Abstract!Operate, Abstract!Prepared
<1>5. Bar.ckpt = "Synced" /\ Bar' = Abstract!AcknowledgeCommit(Bar) => Abstract!Operate
  BY DEF Abstract!Operate, Abstract!Synced
<1>6. Bar' = Abstract!DiscardCheckpoint(Bar) => Abstract!Operate
  BY DEF Abstract!Operate
<1>7. Abstract!CanDiscardUnsynced(Bar) /\ Bar' = Abstract!DiscardUnsynced(Bar) => Abstract!Operate
  BY DEF Abstract!Operate
<1>8. Bar' = Abstract!Restored(Bar.total, Bar.durable) => Abstract!Reload
  BY DEF Abstract!Reload
<1>9. Bar.ckpt = "Synced" /\ Bar' = Abstract!Restored(Bar.total, Bar.durable \cup Bar.frozen)
              => Abstract!Reload
  BY DEF Abstract!Reload, Abstract!Synced
<1>10. Bar' = Bar => UNCHANGED Abstract!vars
  BY DEF Abstract!vars
<1> QED BY <1>1, <1>2, <1>3, <1>4, <1>5, <1>6, <1>7, <1>8, <1>9, <1>10 DEF Abstract!Next

\* The bytes of the segments in a state depend on those segments only.
LEMMA SameBytes ==
  ASSUME NEW s, InState(s)' = InState(s),
         \A i \in InState(s) : segs'[i].lo = segs[i].lo /\ segs'[i].hi = segs[i].hi
  PROVE  /\ BytesIn(s)' = BytesIn(s)
         /\ s = "InFlight" => Leased' = Leased
BY DEF BytesIn, RangeBytes, Leased

\* A step that changes one segment leaves the states alone that the segment neither
\* leaves nor enters.
LEMMA OtherStates ==
  ASSUME NEW j \in DOMAIN segs, DOMAIN segs' = DOMAIN segs,
         \A i \in DOMAIN segs \ {j} : segs'[i] = segs[i],
         NEW s, segs[j].state # s, segs'[j].state # s
  PROVE  /\ BytesIn(s)' = BytesIn(s)
         /\ s = "InFlight" => Leased' = Leased
<1>1. InState(s)' = InState(s)
  BY DEF InState
<1>2. \A i \in InState(s) : segs'[i].lo = segs[i].lo /\ segs'[i].hi = segs[i].hi
  BY DEF InState
<1> QED BY <1>1, <1>2, SameBytes

\* The mapped checkpoint depends on the checkpoint only.
LEMMA SameCheckpoint ==
  ASSUME checkpoint' = checkpoint
  PROVE  FrozenBytes' = FrozenBytes /\ Stage' = Stage
BY DEF FrozenBytes, Stage

\* Without a checkpoint nothing is frozen.
LEMMA NothingFrozen ==
  /\ checkpoint = NoCheckpoint => FrozenBytes = {} /\ Stage = "NoCheckpoint"
  /\ checkpoint' = NoCheckpoint => FrozenBytes' = {} /\ Stage' = "NoCheckpoint"
BY DEF FrozenBytes, Stage, NoCheckpoint, RangesOf, Covered

\* What a lease does to the segments in flight.
LEMMA LeaseBar ==
  ASSUME TypeOK, Partition, NEW id \in DOMAIN segs, NEW worker \in Workers,
         LeaseSegment(id, worker)
  PROVE  Abstract!Next
<1> DEFINE B == RangeBytes(segs[id])
<1>1. /\ DOMAIN segs' = DOMAIN segs
      /\ \A i \in DOMAIN segs \ {id} : segs'[i] = segs[i]
      /\ segs[id].state = "Pending" /\ segs'[id].state = "InFlight"
      /\ segs'[id].lo = segs[id].lo /\ segs'[id].hi = segs[id].hi
      /\ UNCHANGED <<checkpoint, total, generation>>
  BY DEF TypeOK, LeaseSegment, InState, Segment
<1>2. /\ segs[id].lo \in Nat /\ segs[id].hi \in Nat /\ total \in Nat
      /\ segs[id].lo < segs[id].hi /\ segs[id].hi <= total
  BY DEF TypeOK, Segment, Partition
<1>3. /\ BytesIn("Written")' = BytesIn("Written")
      /\ BytesIn("Durable")' = BytesIn("Durable")
      /\ FrozenBytes' = FrozenBytes /\ Stage' = Stage
  BY <1>1, OtherStates, SameCheckpoint
<1>4. Leased' = Leased \cup {B}
  <2>1. InState("InFlight")' = InState("InFlight") \cup {id}
    BY <1>1 DEF InState
  <2>2. \A i \in InState("InFlight") : segs'[i] = segs[i]
    BY <1>1 DEF InState
  <2>3. RangeBytes(segs'[id]) = B
    BY <1>1 DEF RangeBytes
  <2> QED BY <2>1, <2>2, <2>3 DEF Leased
<1>5. Bar' = Abstract!LeaseBytes(Bar, B)
  BY <1>1, <1>3, <1>4, BarMoves
<1>6. Abstract!CanLease(Bar, B)
  <2>1. B # {} /\ B \subseteq 0 .. (total - 1)
    BY <1>2 DEF RangeBytes
  <2>2. ASSUME NEW x \in B, NEW i \in DOMAIN segs, segs[i].state # "Pending",
               x \in RangeBytes(segs[i])
        PROVE  FALSE
    BY <1>1, <2>2, OneSegment
  <2>3. B \cap UNION Leased = {}
    BY <2>2 DEF Leased, InState
  <2>4. B \cap BytesIn("Written") = {} /\ B \cap BytesIn("Durable") = {}
    BY <2>2 DEF BytesIn, InState
  <2>5. /\ Bar.total = total /\ Bar.leased = Leased
        /\ Bar.written = BytesIn("Written") /\ Bar.durable = BytesIn("Durable")
    BY DEF Bar, Record
  <2> QED
    BY <2>1, <2>3, <2>4, <2>5 DEF Abstract!CanLease, Abstract!PendingBytes, Abstract!Bytes
<1>7. /\ segs[id].lo \in 0 .. Bar.total /\ segs[id].hi \in 0 .. Bar.total
      /\ B = segs[id].lo .. (segs[id].hi - 1)
  BY <1>2 DEF Bar, Record, RangeBytes
<1> HIDE DEF B
<1> QED BY <1>1, <1>5, <1>6, <1>7, AbstractSteps

\* What settling a lease does to the segments in flight: its range goes, and no other
\* lease has the same.
LEMMA SettleBar ==
  ASSUME TypeOK, Partition, NEW id \in DOMAIN segs, DOMAIN segs' = DOMAIN segs,
         \A i \in DOMAIN segs \ {id} : segs'[i] = segs[i],
         segs[id].state = "InFlight", segs'[id].state # "InFlight"
  PROVE  RangeBytes(segs[id]) \in Leased /\ Leased' = Leased \ {RangeBytes(segs[id])}
<1> DEFINE B == RangeBytes(segs[id])
<1>1. InState("InFlight")' = InState("InFlight") \ {id} /\ id \in InState("InFlight")
  BY DEF InState
<1>2. \A i \in InState("InFlight") \ {id} : segs'[i] = segs[i] /\ i \in DOMAIN segs
  BY DEF InState
<1>3. \A i \in InState("InFlight") \ {id} : RangeBytes(segs[i]) # B
  <2> TAKE i \in InState("InFlight") \ {id}
  <2>1. segs[id].lo \in Nat /\ segs[id].hi \in Nat /\ segs[id].lo < segs[id].hi
    BY DEF TypeOK, Segment, Partition
  <2>2. segs[id].lo \in B
    BY <2>1 DEF RangeBytes
  <2> QED BY <1>2, <2>2, OneSegment
<1> HIDE DEF B
<1>4. Leased' = {RangeBytes(segs[i]) : i \in InState("InFlight") \ {id}}
  BY <1>1, <1>2 DEF Leased
<1>5. Leased = {RangeBytes(segs[i]) : i \in InState("InFlight") \ {id}} \cup {B}
  BY <1>1 DEF Leased, B
<1>6. B \notin Leased'
  BY <1>3, <1>4
<1> QED BY <1>4, <1>5, <1>6 DEF B

\* mark_written moves the range of its lease from the leased bytes to the written ones.
LEMMA WrittenBar ==
  ASSUME TypeOK, Partition, NEW l \in leases, MarkWritten(l)
  PROVE  Abstract!Next
<1> DEFINE id == l.id
           B  == RangeBytes(segs[id])
<1>1. /\ DOMAIN segs' = DOMAIN segs /\ id \in DOMAIN segs
      /\ \A i \in DOMAIN segs \ {id} : segs'[i] = segs[i]
      /\ segs[id].state = "InFlight" /\ segs'[id].state = "Written"
      /\ segs'[id].lo = segs[id].lo /\ segs'[id].hi = segs[id].hi
      /\ UNCHANGED <<checkpoint, total, generation>>
  BY DEF TypeOK, MarkWritten, Current, Segment
<1> HIDE DEF id
<1>2. /\ BytesIn("Durable")' = BytesIn("Durable")
      /\ FrozenBytes' = FrozenBytes /\ Stage' = Stage
  BY <1>1, OtherStates, SameCheckpoint
<1>3. B \in Leased /\ Leased' = Leased \ {B}
  BY <1>1, SettleBar
<1>4. BytesIn("Written")' = BytesIn("Written") \cup B
  <2>1. InState("Written")' = InState("Written") \cup {id}
    BY <1>1 DEF InState
  <2>2. \A i \in InState("Written") : segs'[i] = segs[i]
    BY <1>1 DEF InState
  <2>3. RangeBytes(segs'[id]) = B
    BY <1>1 DEF RangeBytes
  <2> QED BY <2>1, <2>2, <2>3 DEF BytesIn
<1> HIDE DEF B
<1>5. Bar' = Abstract!MarkWritten(Bar, B)
  BY <1>1, <1>2, <1>3, <1>4, BarMoves
<1>6. B \in Bar.leased
  BY <1>3 DEF Bar, Record
<1> QED BY <1>1, <1>5, <1>6, AbstractSteps

\* release gives the range of its lease back.
LEMMA ReleaseBar ==
  ASSUME TypeOK, Partition, NEW l \in leases, Release(l)
  PROVE  Abstract!Next
<1> DEFINE id == l.id
           B  == RangeBytes(segs[id])
<1>1. /\ DOMAIN segs' = DOMAIN segs /\ id \in DOMAIN segs
      /\ \A i \in DOMAIN segs \ {id} : segs'[i] = segs[i]
      /\ segs[id].state = "InFlight" /\ segs'[id].state = "Pending"
      /\ UNCHANGED <<checkpoint, total, generation>>
  BY DEF TypeOK, Release, Current, Idle, Segment
<1> HIDE DEF id
<1>2. /\ BytesIn("Durable")' = BytesIn("Durable")
      /\ BytesIn("Written")' = BytesIn("Written")
      /\ FrozenBytes' = FrozenBytes /\ Stage' = Stage
  BY <1>1, OtherStates, SameCheckpoint
<1>3. B \in Leased /\ Leased' = Leased \ {B}
  BY <1>1, SettleBar
<1> HIDE DEF B
<1>4. Bar' = Abstract!ReleaseBytes(Bar, B)
  BY <1>1, <1>2, <1>3, BarMoves
<1>5. B \in Bar.leased
  BY <1>3 DEF Bar, Record
<1> QED BY <1>1, <1>4, <1>5, AbstractSteps

\* A map with nothing but pending and durable segments has no lease and nothing written.
LEMMA AtRest ==
  ASSUME \A i \in DOMAIN segs' : segs'[i].state \in {"Pending", "Durable"}
  PROVE  Leased' = {} /\ BytesIn("Written")' = {}
BY DEF Leased, BytesIn, InState

\* prepare_sync freezes the written bytes.
LEMMA PrepareBar ==
  ASSUME TypeOK, Partition, PrepareSync
  PROVE  Abstract!Next
<1>1. /\ UNCHANGED <<segs, total, generation>> /\ checkpoint = NoCheckpoint
      /\ checkpoint'.selection = Selection /\ ~checkpoint'.synced
      /\ checkpoint'.sequence = next_checkpoint /\ next_checkpoint \in Nat \ {0}
  BY DEF PrepareSync, TypeOK
<1>2. checkpoint' # NoCheckpoint
  BY <1>1 DEF NoCheckpoint
<1>3. Stage' = "Prepared" /\ Stage = "NoCheckpoint"
  BY <1>1, <1>2 DEF Stage
<1>4. /\ BytesIn("Written")' = BytesIn("Written") /\ BytesIn("Durable")' = BytesIn("Durable")
      /\ Leased' = Leased
  BY <1>1 DEF BytesIn, InState, Leased
<1>5. FrozenBytes' = BytesIn("Written")
  <2>1. Covered(RangesOf(Selection)) = BytesIn("Written")
    <3>1. ASSUME NEW x \in Covered(RangesOf(Selection))
          PROVE  x \in BytesIn("Written")
      <4>1. PICK k \in Selection : x \in k.lo .. (k.hi - 1)
        BY <3>1 DEF Covered, RangesOf, RangeBytes
      <4>2. PICK i \in InState("Written") : k.lo = segs[i].lo /\ k.hi = segs[i].hi
        BY DEF Selection
      <4> QED BY <4>1, <4>2 DEF BytesIn, RangeBytes
    <3>2. ASSUME NEW x \in BytesIn("Written")
          PROVE  x \in Covered(RangesOf(Selection))
      <4>1. PICK i \in InState("Written") : x \in segs[i].lo .. (segs[i].hi - 1)
        BY <3>2 DEF BytesIn, RangeBytes
      <4> DEFINE k == [id |-> i, lo |-> segs[i].lo, hi |-> segs[i].hi, attempt |-> segs[i].attempt]
                 r == [lo |-> k.lo, hi |-> k.hi]
      <4>2. k \in Selection
        BY DEF Selection
      <4>3. x \in RangeBytes(r)
        BY <4>1 DEF RangeBytes
      <4>4. r \in RangesOf(Selection)
        <5> HIDE DEF k
        <5> QED BY <4>2 DEF RangesOf
      <4> HIDE DEF r
      <4> QED BY <4>3, <4>4 DEF Covered
    <3> QED BY <3>1, <3>2
  <2>2. FrozenBytes' = Covered(RangesOf(checkpoint'.selection))
    BY DEF FrozenBytes, Covered, RangesOf, RangeBytes
  <2> QED BY <1>1, <2>1, <2>2
<1>6. BytesIn("Written") # {}
  <2>1. PICK i \in DOMAIN segs : segs[i].state = "Written"
    BY DEF PrepareSync, InState
  <2>2. segs[i].lo \in Nat /\ segs[i].hi \in Nat /\ segs[i].lo < segs[i].hi
    BY DEF TypeOK, Segment, Partition
  <2>3. segs[i].lo \in RangeBytes(segs[i])
    BY <2>2 DEF RangeBytes
  <2> QED BY <2>1, <2>3 DEF BytesIn, InState
<1>7. Abstract!CanPrepareSync(Bar)
  BY <1>3, <1>6 DEF Bar, Record, Abstract!CanPrepareSync, Abstract!HasPendingCheckpoint,
                    Abstract!HasUnsynced, Abstract!NoCheckpoint
<1>8. Bar' = Abstract!PrepareSync(Bar)
  BY <1>1, <1>3, <1>4, <1>5, BarMoves
<1> QED BY <1>1, <1>7, <1>8, AbstractSteps

\* acknowledge_sync only moves the checkpoint on.
LEMMA SyncedBar ==
  ASSUME TypeOK, NEW t \in tickets, AcknowledgeSync(t)
  PROVE  Abstract!Next
<1>1. /\ UNCHANGED <<segs, total, generation>>
      /\ checkpoint # NoCheckpoint /\ ~checkpoint.synced
      /\ checkpoint'.selection = checkpoint.selection /\ checkpoint'.synced
  BY DEF AcknowledgeSync, Matches, TypeOK
<1>2. checkpoint' # NoCheckpoint
  BY <1>1 DEF NoCheckpoint
<1>3. Stage = "Prepared" /\ Stage' = "Synced"
  BY <1>1, <1>2 DEF Stage
<1>4. /\ BytesIn("Written")' = BytesIn("Written") /\ BytesIn("Durable")' = BytesIn("Durable")
      /\ Leased' = Leased
  BY <1>1 DEF BytesIn, InState, Leased
<1>5. FrozenBytes' = FrozenBytes
  BY <1>1 DEF FrozenBytes
<1>6. Bar' = Abstract!AcknowledgeSync(Bar)
  BY <1>1, <1>3, <1>4, <1>5, BarMoves
<1>7. Bar.ckpt = "Prepared"
  BY <1>3 DEF Bar, Record
<1> QED BY <1>1, <1>6, <1>7, AbstractSteps

\* acknowledge_commit turns the frozen bytes, and no other, from written to durable.
LEMMA CommittedBar ==
  ASSUME TypeOK, Partition, CheckpointFrozen, NEW b \in batches, AcknowledgeCommit(b)
  PROVE  Abstract!Next
<1> DEFINE Sel == checkpoint.selection
<1>1. /\ UNCHANGED <<total, generation>>
      /\ checkpoint # NoCheckpoint /\ checkpoint.synced
      /\ checkpoint' = NoCheckpoint /\ segs' = Committed(Sel)
  BY DEF AcknowledgeCommit, Matches
<1>2. \A k \in Sel : /\ k.id \in DOMAIN segs /\ segs[k.id].state = "Written"
                     /\ segs[k.id].lo = k.lo /\ segs[k.id].hi = k.hi
  <2> TAKE k \in Sel
  <2>1. /\ k.id \in DOMAIN segs
        /\ segs[k.id] = [lo |-> k.lo, hi |-> k.hi, state |-> "Written",
                         worker |-> 0, attempt |-> k.attempt]
    BY DEF CheckpointFrozen
  <2> QED BY <2>1
<1>3. /\ DOMAIN segs' = DOMAIN segs
      /\ \A i \in DOMAIN segs : segs'[i].lo = segs[i].lo /\ segs'[i].hi = segs[i].hi
      /\ \A i \in DOMAIN segs : (\E k \in Sel : k.id = i) => segs'[i].state = "Durable"
      /\ \A i \in DOMAIN segs : ~(\E k \in Sel : k.id = i) => segs'[i] = segs[i]
  BY <1>1 DEF Committed, Idle
<1>4. \A x : x \in FrozenBytes <=> \E k \in Sel : x \in RangeBytes(segs[k.id])
  <2> TAKE x
  <2>1. x \in FrozenBytes <=> \E k \in Sel : x \in k.lo .. (k.hi - 1)
    <3>1. x \in FrozenBytes <=> \E r \in RangesOf(Sel) : x \in RangeBytes(r)
      BY DEF FrozenBytes, Covered
    <3>2. \A k \in Sel : RangeBytes([lo |-> k.lo, hi |-> k.hi]) = k.lo .. (k.hi - 1)
      BY DEF RangeBytes
    <3> QED BY <3>1, <3>2 DEF RangesOf
  <2> QED BY <1>2, <2>1 DEF RangeBytes
<1>5. \A i \in DOMAIN segs : RangeBytes(segs'[i]) = RangeBytes(segs[i])
  BY <1>3 DEF RangeBytes
<1>6. Leased' = Leased
  <2>1. InState("InFlight")' = InState("InFlight")
    BY <1>2, <1>3 DEF InState
  <2>2. \A i \in InState("InFlight") : segs'[i].lo = segs[i].lo /\ segs'[i].hi = segs[i].hi
    BY <1>3 DEF InState
  <2> QED BY <2>1, <2>2, SameBytes
<1>7. BytesIn("Durable")' = BytesIn("Durable") \cup FrozenBytes
  <2>1. ASSUME NEW x \in BytesIn("Durable")'
        PROVE  x \in BytesIn("Durable") \cup FrozenBytes
    <3>1. PICK i \in DOMAIN segs : segs'[i].state = "Durable" /\ x \in RangeBytes(segs[i])
      BY <2>1, <1>3, <1>5 DEF BytesIn, InState
    <3>2. CASE \E k \in Sel : k.id = i
      BY <3>1, <3>2, <1>4
    <3>3. CASE ~\E k \in Sel : k.id = i
      BY <3>1, <3>3, <1>3 DEF BytesIn, InState
    <3> QED BY <3>2, <3>3
  <2>2. ASSUME NEW x \in BytesIn("Durable")
        PROVE  x \in BytesIn("Durable")'
    <3>1. PICK i \in DOMAIN segs : segs[i].state = "Durable" /\ x \in RangeBytes(segs[i])
      BY <2>2 DEF BytesIn, InState
    <3>2. segs'[i].state = "Durable" /\ x \in RangeBytes(segs'[i])
      BY <3>1, <1>3, <1>5
    <3> QED BY <3>2, <1>3 DEF BytesIn, InState
  <2>3. ASSUME NEW x \in FrozenBytes
        PROVE  x \in BytesIn("Durable")'
    <3>1. PICK k \in Sel : x \in RangeBytes(segs[k.id])
      BY <2>3, <1>4
    <3>2. k.id \in DOMAIN segs' /\ segs'[k.id].state = "Durable" /\ x \in RangeBytes(segs'[k.id])
      BY <3>1, <1>2, <1>3, <1>5
    <3> QED BY <3>2 DEF BytesIn, InState
  <2> QED BY <2>1, <2>2, <2>3
<1>8. BytesIn("Written")' = BytesIn("Written") \ FrozenBytes
  <2>1. ASSUME NEW x \in BytesIn("Written")'
        PROVE  x \in BytesIn("Written") /\ x \notin FrozenBytes
    <3>1. PICK i \in DOMAIN segs : segs'[i].state = "Written" /\ x \in RangeBytes(segs[i])
      BY <2>1, <1>3, <1>5 DEF BytesIn, InState
    <3>2. ~(\E k \in Sel : k.id = i) /\ segs[i].state = "Written"
      BY <3>1, <1>3
    <3>3. x \notin FrozenBytes
      BY <3>1, <3>2, <1>2, <1>4, OneSegment
    <3> QED BY <3>1, <3>2, <3>3 DEF BytesIn, InState
  <2>2. ASSUME NEW x \in BytesIn("Written"), x \notin FrozenBytes
        PROVE  x \in BytesIn("Written")'
    <3>1. PICK i \in DOMAIN segs : segs[i].state = "Written" /\ x \in RangeBytes(segs[i])
      BY <2>2 DEF BytesIn, InState
    <3>2. ~(\E k \in Sel : k.id = i)
      BY <2>2, <3>1, <1>4
    <3>3. segs'[i] = segs[i]
      BY <3>2, <1>3
    <3> QED BY <3>1, <3>3, <1>3 DEF BytesIn, InState
  <2> QED BY <2>1, <2>2
<1>9. FrozenBytes' = {} /\ Stage' = "NoCheckpoint" /\ Stage = "Synced"
  <2>1. FrozenBytes' = {} /\ Stage' = "NoCheckpoint"
    BY <1>1, NothingFrozen
  <2> QED BY <1>1, <2>1 DEF Stage
<1>10. Bar' = Abstract!AcknowledgeCommit(Bar)
  BY <1>1, <1>6, <1>7, <1>8, <1>9, BarMoves
<1>11. Bar.ckpt = "Synced"
  BY <1>9 DEF Bar, Record
<1> QED BY <1>1, <1>10, <1>11, AbstractSteps

\* After a restart the durable bytes are those the repository has: the durable ones, with
\* the frozen ones when their commit had landed.
LEMMA ReloadBar ==
  ASSUME TypeOK, CheckpointFrozen, Stored, Recorded, Reload
  PROVE  Abstract!Next
<1> DEFINE D == Covered(persisted)
           R == RestoredSegs(total, D)
<1>1. /\ segs' = R /\ total \in Nat /\ UNCHANGED <<total, generation, persisted>>
      /\ checkpoint' = NoCheckpoint
  BY DEF Reload, TypeOK
<1>2. /\ R \in [DOMAIN R -> Segment]
      /\ \A i \in DOMAIN R : R[i].state \in {"Pending", "Durable"}
      /\ \A b \in 0 .. (total - 1) : \E i \in DOMAIN R : R[i].lo <= b /\ b < R[i].hi
      /\ \A i \in DOMAIN R : \A b \in R[i].lo .. (R[i].hi - 1) :
           (R[i].state = "Durable") <=> (b \in D)
  BY <1>1, RestoredPartition
<1>3. \A b \in D : b \in 0 .. (total - 1)
  BY <1>1 DEF Reload, RestoreAccepts, Covered, RangeBytes, TypeOK
<1> HIDE DEF R
<1>4. BytesIn("Durable")' = D
  <2>1. ASSUME NEW b \in BytesIn("Durable")'
        PROVE  b \in D
    <3>1. PICK i \in DOMAIN R : R[i].state = "Durable" /\ b \in R[i].lo .. (R[i].hi - 1)
      BY <1>1, <2>1 DEF BytesIn, InState, RangeBytes
    <3> QED BY <1>2, <3>1
  <2>2. ASSUME NEW b \in D
        PROVE  b \in BytesIn("Durable")'
    <3>1. PICK i \in DOMAIN R : R[i].lo <= b /\ b < R[i].hi
      BY <1>2, <1>3
    <3>2. R[i].lo \in Nat /\ R[i].hi \in Nat /\ b \in Nat
      BY <1>2, <1>3 DEF Segment
    <3>3. b \in R[i].lo .. (R[i].hi - 1)
      BY <3>1, <3>2
    <3>4. R[i].state = "Durable"
      BY <1>2, <3>3
    <3> QED BY <1>1, <3>3, <3>4 DEF BytesIn, InState, RangeBytes
  <2> QED BY <2>1, <2>2
<1>5. Leased' = {} /\ BytesIn("Written")' = {} /\ FrozenBytes' = {} /\ Stage' = "NoCheckpoint"
  BY <1>1, <1>2, AtRest, NothingFrozen
<1>6. Bar' = Record(total, {}, {}, D, {}, "NoCheckpoint")
  BY <1>1, <1>4, <1>5 DEF Bar
<1>7. Bar' = Abstract!Restored(total, D)
  BY <1>6, StartFields
<1>8. /\ Bar.total = total /\ Bar.durable = BytesIn("Durable")
      /\ Bar.frozen = FrozenBytes /\ Bar.ckpt = Stage
  BY DEF Bar, Record
<1>9. CASE checkpoint.synced /\ RangesOf(checkpoint.selection) \subseteq persisted
  <2>1. D = BytesIn("Durable") \cup FrozenBytes
    <3>1. FrozenBytes \subseteq D
      BY <1>9 DEF FrozenBytes, Covered
    <3>2. BytesIn("Durable") \subseteq D
      BY DEF Stored
    <3>3. \A r \in persisted : RangeBytes(r) \subseteq BytesIn("Durable") \cup FrozenBytes
      BY DEF Stored, FrozenBytes, Covered
    <3>4. D \subseteq BytesIn("Durable") \cup FrozenBytes
      BY <3>3 DEF Covered
    <3> QED BY <3>1, <3>2, <3>4
  <2>2. Stage = "Synced"
    BY <1>9 DEF Stage, NoCheckpoint
  <2> HIDE DEF D
  <2> QED BY <1>1, <1>7, <1>8, <2>1, <2>2, AbstractSteps
<1>10. CASE ~(checkpoint.synced /\ RangesOf(checkpoint.selection) \subseteq persisted)
  <2>1. \A r \in persisted : RangeBytes(r) \subseteq BytesIn("Durable")
    BY <1>10 DEF Stored, Recorded
  <2>2. D = BytesIn("Durable")
    BY <2>1 DEF Stored, Covered
  <2> HIDE DEF D
  <2> QED BY <1>1, <1>7, <1>8, <2>2, AbstractSteps
<1> QED BY <1>9, <1>10

\* A new representation starts from nothing.
LEMMA ReplaceBar ==
  ASSUME TypeOK, ReplaceGeneration
  PROVE  Abstract!Next
<1>1. /\ checkpoint = NoCheckpoint /\ checkpoint' = NoCheckpoint
      /\ generation' = generation + 1 /\ total' \in Totals
      /\ segs' = NewSegs(total') /\ InState("InFlight") = {}
  BY DEF ReplaceGeneration
<1>2. total' \in Nat
  BY <1>1, ConstantsAssumption
<1>3. \A i \in DOMAIN segs' : segs'[i].state = "Pending"
  BY <1>1, <1>2, NewPartition
<1>4. BytesIn("Durable")' = {}
  BY <1>3 DEF BytesIn, InState
<1>5. Leased' = {} /\ BytesIn("Written")' = {} /\ FrozenBytes' = {} /\ Stage' = "NoCheckpoint"
  BY <1>1, <1>3, AtRest, NothingFrozen
<1>6. Bar' = Abstract!Fresh(total')
  BY <1>4, <1>5, StartFields DEF Bar
<1>7. Leased = {} /\ Stage = "NoCheckpoint"
  BY <1>1, NothingFrozen DEF Leased
<1>8. ~Abstract!HasPendingCheckpoint(Bar) /\ ~Abstract!HasActiveLeases(Bar)
  BY <1>7 DEF Bar, Record, Abstract!HasPendingCheckpoint, Abstract!HasActiveLeases,
              Abstract!NoCheckpoint
<1>9. Abstract!Replace
  BY <1>1, <1>6, <1>8 DEF Abstract!Replace, Bar, Record, Leased, FrozenBytes, Stage
<1> QED BY <1>9 DEF Abstract!Next

\* A new map is an initial state of the abstract specification.
LEMMA BarInit == Init => Abstract!Init
<1> SUFFICES ASSUME Init PROVE Abstract!Init
  OBVIOUS
<1>1. /\ generation = 1 /\ total \in Totals /\ total \in Nat /\ segs = NewSegs(total)
      /\ checkpoint = NoCheckpoint
  BY ConstantsAssumption DEF Init
<1>2. \A i \in DOMAIN segs : segs[i].state = "Pending"
  BY <1>1, NewPartition
<1>3. Leased = {} /\ BytesIn("Written") = {} /\ BytesIn("Durable") = {}
  BY <1>2 DEF Leased, BytesIn, InState
<1>4. Bar = Abstract!Fresh(total)
  BY <1>1, <1>3, NothingFrozen, StartFields DEF Bar
<1> QED BY <1>1, <1>4 DEF Abstract!Init, Bar, Record, Leased, FrozenBytes, Stage

\* Every step of the map is a step of the abstract specification, or leaves its state as
\* it is: cutting a segment and storing extents do.
LEMMA BarStep ==
  TypeOK /\ Partition /\ CheckpointFrozen /\ Stored /\ Recorded /\ [Next]_vars
    => [Abstract!Next]_(Abstract!vars)
<1> SUFFICES ASSUME TypeOK, Partition, CheckpointFrozen, Stored, Recorded, [Next]_vars
             PROVE  Abstract!Next \/ UNCHANGED Abstract!vars
  OBVIOUS
<1>1. ASSUME NEW id \in DOMAIN segs, NEW at \in Int, SplitPending(id, at)
      PROVE  UNCHANGED Abstract!vars
  <2>1. /\ DOMAIN segs' = DOMAIN segs \cup {next_id} /\ next_id \notin DOMAIN segs
        /\ \A i \in DOMAIN segs \ {id} : segs'[i] = segs[i]
        /\ segs[id].state = "Pending"
        /\ segs'[id].state = "Pending"
        /\ segs'[next_id].state = "Pending"
        /\ UNCHANGED <<checkpoint, total, generation>>
    BY <1>1 DEF TypeOK, SplitPending, Cut, Idle, InState, Segment
  <2>2. ASSUME NEW s \in {"InFlight", "Written", "Durable"}
        PROVE  InState(s)' = InState(s) /\ \A i \in InState(s) : segs'[i] = segs[i]
    BY <2>1 DEF InState
  <2>3. /\ BytesIn("Written")' = BytesIn("Written") /\ BytesIn("Durable")' = BytesIn("Durable")
        /\ Leased' = Leased
    BY <2>2, SameBytes
  <2>4. Bar' = Bar
    BY <2>1, <2>3, SameCheckpoint DEF Bar
  <2> QED BY <2>1, <2>4, AbstractSteps
<1>2. ASSUME UNCHANGED <<segs, checkpoint, total, generation>>
      PROVE  UNCHANGED Abstract!vars
  <2>1. Bar' = Bar
    BY <1>2, SameCheckpoint DEF Bar, Leased, BytesIn, InState
  <2> QED BY <1>2, <2>1, AbstractSteps
<1>3. ASSUME DiscardCheckpoint
      PROVE  Abstract!Next
  <2>1. UNCHANGED <<segs, total, generation>> /\ checkpoint' = NoCheckpoint
    BY <1>3 DEF DiscardCheckpoint
  <2>2. /\ BytesIn("Written")' = BytesIn("Written") /\ BytesIn("Durable")' = BytesIn("Durable")
        /\ Leased' = Leased
    BY <2>1 DEF BytesIn, InState, Leased
  <2>3. Bar' = Abstract!DiscardCheckpoint(Bar)
    BY <2>1, <2>2, NothingFrozen, BarMoves
  <2> QED BY <2>1, <2>3, AbstractSteps
<1>4. ASSUME DiscardUnsynced
      PROVE  Abstract!Next
  <2>1. /\ UNCHANGED <<total, generation, checkpoint>> /\ checkpoint = NoCheckpoint
        /\ DOMAIN segs' = DOMAIN segs
        /\ \A i \in DOMAIN segs : segs[i].state # "Written" => segs'[i] = segs[i]
        /\ \A i \in DOMAIN segs : segs[i].state = "Written" => segs'[i].state = "Pending"
    BY <1>4 DEF DiscardUnsynced, Unwritten, Idle
  <2>2. ASSUME NEW s \in {"InFlight", "Durable"}
        PROVE  InState(s)' = InState(s) /\ \A i \in InState(s) : segs'[i] = segs[i]
    BY <2>1 DEF InState
  <2>3. BytesIn("Durable")' = BytesIn("Durable") /\ Leased' = Leased
    BY <2>2, SameBytes
  <2>4. BytesIn("Written")' = {}
    BY <2>1 DEF BytesIn, InState
  <2>5. Bar' = Abstract!DiscardUnsynced(Bar)
    BY <2>1, <2>3, <2>4, SameCheckpoint, BarMoves
  <2>6. Abstract!CanDiscardUnsynced(Bar)
    BY <2>1, NothingFrozen DEF Bar, Record, Abstract!CanDiscardUnsynced,
                               Abstract!HasPendingCheckpoint, Abstract!NoCheckpoint
  <2> QED BY <2>1, <2>5, <2>6, AbstractSteps
<1>5. ASSUME (\E b \in batches : CommitExtents(b)) \/ UNCHANGED vars
      PROVE  UNCHANGED <<segs, checkpoint, total, generation>>
  BY <1>5 DEF CommitExtents, vars
<1>6. 0 .. total \subseteq Int
  BY DEF TypeOK
<1> QED
  BY <1>1, <1>2, <1>3, <1>4, <1>5, <1>6, LeaseBar, WrittenBar, ReleaseBar, PrepareBar,
     SyncedBar, CommittedBar, ReloadBar, ReplaceBar, StealSplits DEF Next

\* The map implements the byte-level specification, whatever the size of the file and the
\* cutting into segments: only the frozen bytes of a synced checkpoint become durable, and
\* a durable byte stays durable for the rest of its generation, across restarts.
THEOREM Implements == Spec => ImplementsByteProgress
<1>1. Spec => [](TypeOK /\ Partition /\ CheckpointFrozen /\ Stored /\ Recorded)
  <2>1. Spec => [](TypeOK /\ Partition /\ CheckpointFrozen /\ Stored)
    BY TypeCorrect, Partitioned, Frozen, StoredInit, StoredStep, PTL DEF Spec
  <2> QED BY <2>1, RecordedInit, RecordedStep, PTL DEF Spec
<1> QED BY <1>1, BarInit, BarStep, PTL DEF Spec, ImplementsByteProgress, Abstract!Spec
=============================================================================
