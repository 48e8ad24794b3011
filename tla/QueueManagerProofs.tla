------------------------- MODULE QueueManagerProofs -------------------------
(***************************************************************************)
(* Proofs about QueueManager, for any requests, limits and bounds, any     *)
(* order of commands, workers, saves and crashes.                          *)
(*                                                                         *)
(* SavedOpens holds, where no link outgrows its bound (LinksFit), because  *)
(* everything that is ever saved comes from books that are in order        *)
(* (Books), what was read back gives such books again (Stored), and the    *)
(* counters of bytes stay within what the requests allow (Counted).        *)
(* AnswersAreDurable needs to know where the loop may be with unsaved      *)
(* changes (Flags), that an answer is owed only for such a change (Owed),  *)
(* and that memory and database agree otherwise (Synced).  AcceptedIsKept  *)
(* needs that no receipt is ever lost (Ahead).  The limits and             *)
(* RecoveredWaits come from Manned: the jobs at work are those that have a *)
(* worker, and every one of them was asked for.                            *)
(***************************************************************************)
EXTENDS QueueManager, FiniteSetTheorems, SequenceTheorems, TLAPS

Keys     == {r.key : r \in Requests}
Settings == {n \in Rates \cup {0} : ValidLimit(n)}
Numbers  == 1 .. MaxIds
Sound    == {r \in Requests : r.sound}
Texts    == {n \in Nat : LinksFit => ValidLink(n)}
JobSet   == [id : Numbers, req : Sound, prio : Priorities, state : States, attempts : Nat,
             rate : Settings, link : Texts, due : BOOLEAN, waiting : BOOLEAN]
SavedSet == [id : Numbers, req : Sound, prio : Priorities, state : States, attempts : Nat,
             rate : Settings, link : Texts]
Receipts == [key : Keys, req : Requests, id : Nat, removed : BOOLEAN]
Ops      == {"none", "Enqueue", "Pause", "Resume", "ResumeAll", "Forget", "SetPriority",
             "JobRate", "Refresh", "GlobalRate"}
Acks     == [op : Ops, id : Nat, ok : BOOLEAN]
Actors   == [pc : {"down", "top", "start", "select", "end"}, jobs : Seq(JobSet),
             queue : Seq(Nat), last : Nat, receipts : SUBSET Receipts, rate : Settings,
             live : SUBSET (Nat \X Settings), open : BOOLEAN, closing : BOOLEAN,
             failure : BOOLEAN, dirty : BOOLEAN, ack : Acks, asked : SUBSET Nat]
Snapshots == [jobs : Seq(SavedSet), queue : Seq(Nat), last : Nat, receipts : SUBSET Receipts,
              rate : Settings]
WorkerSet == [id : Nat, cancel : BOOLEAN]

-----------------------------------------------------------------------------
(***************************************************************************)
(* The inductive invariant, in parts.                                      *)
(***************************************************************************)
Types ==
  /\ inbox \in Seq(Requests) /\ Len(inbox) <= MaxPending
  /\ accepted \subseteq [req : Requests, id : Nat] /\ told \in Acks
  /\ budget \in [commands : Nat, faults : Nat, opens : Nat]

\* No two entries have the same id.
Distinct(jobs) == \A i, k \in DOMAIN jobs : jobs[i].id = jobs[k].id => i = k

\* One job: its attempts may go on while it may run again, only a pause waits for its
\* worker, and what is to run was asked for.
JobOK(j, last, asked) ==
  /\ j.id <= last /\ j.attempts <= MaxAttempts
  /\ j.state \in {"Queued", "RetryWaiting"} => j.attempts < MaxAttempts
  /\ j.waiting => j.state = "Pausing"
  /\ j.state \in {"Queued", "Running", "Pausing", "RetryWaiting"} => j.id \in asked

\* The queue names jobs, each once, and none that is at work or waits for its time.
Away(j) == j.state \in {"Running", "Pausing", "RetryWaiting"}
Line(jobs, queue) ==
  /\ IsInjective(queue) /\ ToSet(queue) \subseteq Ids(jobs)
  /\ \A i \in DOMAIN jobs : Away(jobs[i]) => jobs[i].id \notin ToSet(queue)

\* A request with a key has its receipt.
Keyed(jobs, receipts) ==
  \A i \in DOMAIN jobs : jobs[i].req.key # 0 =>
    \E p \in receipts : p.key = jobs[i].req.key /\ p.id = jobs[i].id /\ p.req = jobs[i].req

\* The receipts: few, one for a key and one for a job, and true about the job.
Filed(names, last, receipts) ==
  /\ IsFiniteSet(receipts) /\ Cardinality(receipts) <= MaxReceipts
  /\ \A p, q \in receipts : p.key = q.key \/ p.id = q.id => p = q
  /\ \A p \in receipts : p.removed = (p.id \notin names) /\ p.id <= last

Books(a) ==
  /\ Len(a.jobs) <= MaxJobs /\ Distinct(a.jobs) /\ Apart(a.jobs)
  /\ \A i \in DOMAIN a.jobs : JobOK(a.jobs[i], a.last, a.asked)
  /\ Line(a.jobs, a.queue) /\ Keyed(a.jobs, a.receipts)
  /\ Filed(Ids(a.jobs), a.last, a.receipts)

\* What is stored is consistent, and says enough to go on from.
Stored(s) ==
  /\ s \in Snapshots /\ Consistent(s) /\ Apart(s.jobs)
  /\ Keyed(s.jobs, s.receipts) /\ IsFiniteSet(s.receipts)
Shelf(d) == d = <<>> \/ (d = <<d[1]>> /\ Stored(d[1]))

\* The workers are those of the jobs at work, one for each, within the limits.
Crew(jobs, ws) ==
  /\ ws \subseteq WorkerSet /\ IsFiniteSet(ws)
  /\ \A v, w \in ws : v.id = w.id => v = w
  /\ \A w \in ws : \E i \in DOMAIN jobs : jobs[i].id = w.id /\ Busy(jobs[i])
  /\ \A i \in DOMAIN jobs : Busy(jobs[i]) => \E w \in ws : w.id = jobs[i].id
Spread(jobs) == \A r \in Requests : Cardinality(BusyAt(jobs, r.origin)) <= MaxPerOrigin
Manned(a, ws) == Crew(a.jobs, ws) /\ Cardinality(ws) <= MaxActive /\ Spread(a.jobs)

\* Where the loop may be.
Place(a, ws) ==
  /\ a.pc = "down" => a = Down /\ ws = {}
  /\ a.pc = "start" => ~a.closing /\ Cardinality(ws) < MaxActive
  /\ a.pc = "end" => a.closing /\ ws = {}
Flags(a) ==
  /\ a.failure => a.closing
  /\ a.dirty => a.pc = "top" \/ a.closing

\* An answer is owed at the top of the loop, for a change that is not saved.
Owed(a) ==
  /\ a.ack.ok = FALSE
  /\ a.ack # Silence => a.pc = "top" /\ a.dirty
  /\ a.ack.op = "Pause" =>
       \E i \in DOMAIN a.jobs : a.jobs[i].id = a.ack.id /\ a.jobs[i].state \in {"Paused", "Completed"}

\* Without unsaved changes the database holds what the memory holds.
Synced(a, d) ==
  a.pc # "down" /\ ~a.dirty /\ ~a.failure => d = <<Snapshot(a)>> /\ a.live = Limits(a)

\* No receipt gets lost on the way to the database, and none of an accepted request.
Keeps(old, new) == \A p \in old : \E q \in new : q.key = p.key /\ q.id = p.id /\ q.req = p.req
Ahead(a, d) == a.pc # "down" => d # <<>> /\ Keeps(d[1].receipts, a.receipts)
Kept(acc, d) ==
  \A x \in acc : d # <<>> /\ \E p \in d[1].receipts : p.key = x.req.key /\ p.id = x.id /\ p.req = x.req

\* The actor, with its workers and the database.
Good(a, ws, d) ==
  /\ a \in Actors /\ Books(a) /\ Manned(a, ws) /\ Place(a, ws) /\ Flags(a) /\ Owed(a)
  /\ Synced(a, d) /\ Ahead(a, d)

IInv ==
  /\ Types /\ Good(actor, workers, disk) /\ Shelf(disk) /\ Kept(accepted, disk)
  /\ AnswersAreDurable

-----------------------------------------------------------------------------
(***************************************************************************)
(* Sequences.                                                              *)
(***************************************************************************)
LEMMA AsSeq ==
  ASSUME NEW S, NEW n \in Nat, NEW f \in [1 .. n -> S]
  PROVE  f \in Seq(S) /\ Len(f) = n /\ DOMAIN f = 1 .. n
<1>1. f \in Seq(S)
  BY IsASeq
<1>2. DOMAIN f = 1 .. n
  OBVIOUS
<1> QED BY <1>1, <1>2, LenProperties

\* The numbers from one to n are n.
LEMMA UpTo ==
  ASSUME NEW n \in Nat
  PROVE  IsFiniteSet(1 .. n) /\ Cardinality(1 .. n) = n
<1>1. IsFiniteSet(1 .. n) /\ Cardinality(1 .. n) = IF 1 > n THEN 0 ELSE n - 1 + 1
  BY FS_Interval
<1> QED BY <1>1

\* Positions of a sequence, counted.
LEMMA Positions ==
  ASSUME NEW S, NEW s \in Seq(S), NEW I, I \subseteq DOMAIN s
  PROVE  IsFiniteSet(I) /\ Cardinality(I) \in Nat /\ Cardinality(I) <= Len(s) /\ I \subseteq Nat
<1>1. DOMAIN s = 1 .. Len(s) /\ Len(s) \in Nat
  BY LenProperties
<1> DEFINE D == 1 .. Len(s)
<1>2. IsFiniteSet(D) /\ Cardinality(D) = Len(s)
  BY <1>1, UpTo
<1>3. I \in SUBSET D
  BY <1>1
<1>4. D \subseteq Nat
  OBVIOUS
<1> HIDE DEF D
<1>5. IsFiniteSet(I) /\ Cardinality(I) <= Cardinality(D)
  BY <1>2, <1>3, FS_Subset
<1> QED BY <1>2, <1>3, <1>4, <1>5, FS_CardinalityType

\* Nth numbers the positions, each once.
LEMMA NthOf ==
  ASSUME NEW I, I \subseteq Nat, IsFiniteSet(I)
  PROVE  /\ \A k \in 1 .. Cardinality(I) : Nth(I, k) \in I
         /\ \A k, l \in 1 .. Cardinality(I) : Nth(I, k) = Nth(I, l) => k = l
         /\ \A i \in I : \E k \in 1 .. Cardinality(I) : Nth(I, k) = i
<1> DEFINE n == Cardinality(I)
           Low(i) == {j \in I : j <= i}
           f == [i \in I |-> Cardinality(Low(i))]
<1>1. n \in Nat
  BY FS_CardinalityType
<1>2. \A i \in I : IsFiniteSet(Low(i)) /\ Cardinality(Low(i)) \in 1 .. n
  <2> TAKE i \in I
  <2>1. Low(i) \in SUBSET I /\ Low(i) # {}
    OBVIOUS
  <2> HIDE DEF Low
  <2>2. IsFiniteSet(Low(i)) /\ Cardinality(Low(i)) <= n
    BY <2>1, FS_Subset
  <2>3. Cardinality(Low(i)) \in Nat /\ Cardinality(Low(i)) # 0
    BY <2>1, <2>2, FS_EmptySet, FS_CardinalityType
  <2> HIDE DEF n
  <2> QED BY <1>1, <2>2, <2>3
<1>3. \A i, k \in I : Cardinality(Low(i)) = Cardinality(Low(k)) => i = k
  <2>1. ASSUME NEW i \in I, NEW k \in I, i < k
        PROVE  Cardinality(Low(i)) # Cardinality(Low(k))
    <3>1. Low(i) \in SUBSET Low(k) /\ k \in Low(k) /\ k \notin Low(i)
      <4>1. i \in Nat /\ k \in Nat
        OBVIOUS
      <4>2. \A j \in I : j \in Nat
        OBVIOUS
      <4>3. k <= k /\ ~(k <= i)
        BY <2>1, <4>1
      <4>4. \A j \in I : j <= i => j <= k
        BY <2>1, <4>1, <4>2
      <4> QED BY <4>3, <4>4
    <3> HIDE DEF Low
    <3>2. IsFiniteSet(Low(k))
      BY <1>2
    <3>3. Cardinality(Low(k)) = Cardinality(Low(i)) => Low(k) = Low(i)
      BY <3>1, <3>2, FS_Subset
    <3> QED BY <3>1, <3>3
  <2> HIDE DEF Low
  <2>2. \A i, k \in I : i = k \/ i < k \/ k < i
    OBVIOUS
  <2> QED BY <2>1, <2>2
<1>4. /\ f \in [I -> 1 .. n] /\ \A i, k \in I : f[i] = f[k] => i = k
      /\ \A i \in I : f[i] = Cardinality(Low(i))
  <2> HIDE DEF Low, n
  <2> QED BY <1>2, <1>3
<1> HIDE DEF f
<1>5. f \in Injection(I, 1 .. n)
  BY <1>4 DEF Injection, IsInjective
<1>6. IsFiniteSet(1 .. n) /\ Cardinality(1 .. n) = n
  <2> HIDE DEF n
  <2> QED BY <1>1, UpTo
<1>7. f \in Surjection(I, 1 .. n)
  BY <1>5, <1>6, FS_Injection
<1>8. \A k \in 1 .. n : \E i \in I : f[i] = k
  BY <1>7 DEF Surjection
<1>9. \A k : Nth(I, k) = CHOOSE i \in I : f[i] = k
  <2> TAKE k
  <2>1. \A i \in I : Cardinality({j \in I : j <= i}) = f[i]
    BY <1>4
  <2> QED BY <2>1 DEF Nth
<1>10. \A k \in 1 .. n : Nth(I, k) \in I /\ f[Nth(I, k)] = k
  BY <1>8, <1>9
<1> HIDE DEF n
<1>11. \A i \in I : Nth(I, f[i]) = i /\ f[i] \in 1 .. n
  <2> TAKE i \in I
  <2>1. f[i] \in 1 .. n
    BY <1>4
  <2>2. Nth(I, f[i]) \in I /\ f[Nth(I, f[i])] = f[i]
    BY <1>10, <2>1
  <2> QED BY <1>4, <2>1, <2>2
<1> QED BY <1>10, <1>11 DEF n

\* What a filter leaves.
LEMMA AtOf ==
  ASSUME NEW S, NEW s \in Seq(S), NEW I, I \subseteq DOMAIN s
  PROVE  /\ At(s, I) \in Seq(S) /\ Len(At(s, I)) <= Len(s)
         /\ ToSet(At(s, I)) = {s[i] : i \in I}
         /\ (\A i, k \in I : s[i] = s[k] => i = k) => IsInjective(At(s, I))
<1> DEFINE n == Cardinality(I)
           t == At(s, I)
<1>1. n \in Nat /\ n <= Len(s) /\ IsFiniteSet(I) /\ I \subseteq Nat
  BY Positions
<1>2. /\ \A k \in 1 .. n : Nth(I, k) \in I
      /\ \A k, l \in 1 .. n : Nth(I, k) = Nth(I, l) => k = l
      /\ \A i \in I : \E k \in 1 .. n : Nth(I, k) = i
  BY <1>1, NthOf
<1>3. t = [k \in 1 .. n |-> s[Nth(I, k)]]
  BY DEF At
<1> HIDE DEF n
<1>4. \A i \in DOMAIN s : s[i] \in S
  OBVIOUS
<1>5. t \in [1 .. n -> S] /\ \A k \in 1 .. n : t[k] = s[Nth(I, k)]
  BY <1>2, <1>3, <1>4
<1> HIDE DEF t
<1>6. t \in Seq(S) /\ Len(t) = n /\ DOMAIN t = 1 .. n
  BY <1>1, <1>5, AsSeq
<1>7. ToSet(t) = {s[i] : i \in I}
  <2>1. ToSet(t) = {t[k] : k \in 1 .. n}
    BY <1>6 DEF ToSet
  <2>2. ASSUME NEW k \in 1 .. n
        PROVE  t[k] \in {s[i] : i \in I}
    BY <1>2, <1>5
  <2>3. ASSUME NEW i \in I
        PROVE  s[i] \in {t[k] : k \in 1 .. n}
    <3>1. PICK k \in 1 .. n : Nth(I, k) = i
      BY <1>2
    <3>2. t[k] = s[i]
      BY <1>5, <3>1
    <3> QED BY <3>2
  <2> QED BY <2>1, <2>2, <2>3
<1>8. (\A i, k \in I : s[i] = s[k] => i = k) => IsInjective(t)
  BY <1>2, <1>5, <1>6 DEF IsInjective
<1> QED BY <1>1, <1>6, <1>7, <1>8 DEF t

LEMMA WithoutOf ==
  ASSUME NEW S, NEW q \in Seq(S), NEW x
  PROVE  /\ Without(q, x) \in Seq(S) /\ Len(Without(q, x)) <= Len(q)
         /\ ToSet(Without(q, x)) = ToSet(q) \ {x}
         /\ IsInjective(q) => IsInjective(Without(q, x))
<1> DEFINE I == {i \in DOMAIN q : q[i] # x}
<1>1. I \subseteq DOMAIN q /\ Without(q, x) = At(q, I)
  BY DEF Without
<1>2. {q[i] : i \in I} = ToSet(q) \ {x}
  BY DEF ToSet
<1>3. IsInjective(q) => \A i, k \in I : q[i] = q[k] => i = k
  BY DEF IsInjective
<1> HIDE DEF I
<1> QED BY <1>1, <1>2, <1>3, AtOf

LEMMA AppendOf ==
  ASSUME NEW S, NEW q \in Seq(S), NEW x \in S
  PROVE  /\ Append(q, x) \in Seq(S) /\ ToSet(Append(q, x)) = ToSet(q) \cup {x}
         /\ IsInjective(q) /\ x \notin ToSet(q) => IsInjective(Append(q, x))
<1> DEFINE t == Append(q, x)
<1>1. /\ t \in Seq(S) /\ Len(q) \in Nat /\ DOMAIN q = 1 .. Len(q)
      /\ DOMAIN t = 1 .. Len(q) + 1 /\ t[Len(q) + 1] = x /\ \A i \in 1 .. Len(q) : t[i] = q[i]
  OBVIOUS
<1> HIDE DEF t
<1>2. ToSet(t) = ToSet(q) \cup {x}
  BY <1>1 DEF ToSet
<1>3. IsInjective(q) /\ x \notin ToSet(q) => IsInjective(t)
  BY <1>1 DEF IsInjective, ToSet
<1> QED BY <1>1, <1>2, <1>3 DEF t

LEMMA ConcatOf ==
  ASSUME NEW S, NEW q \in Seq(S), NEW r \in Seq(S)
  PROVE  /\ q \o r \in Seq(S) /\ ToSet(q \o r) = ToSet(q) \cup ToSet(r)
         /\ IsInjective(q) /\ IsInjective(r) /\ ToSet(q) \cap ToSet(r) = {} => IsInjective(q \o r)
<1> DEFINE t == q \o r
           m == Len(q)
           n == Len(r)
<1>1. /\ t \in Seq(S) /\ m \in Nat /\ n \in Nat /\ DOMAIN q = 1 .. m /\ DOMAIN r = 1 .. n
      /\ DOMAIN t = 1 .. m + n
  OBVIOUS
<1>2. /\ \A i \in 1 .. m : t[i] = q[i]
      /\ \A i \in 1 .. n : t[m + i] = r[i]
  OBVIOUS
<1>3. \A i \in m + 1 .. m + n : i - m \in 1 .. n /\ t[i] = r[i - m]
  OBVIOUS
<1> HIDE DEF t, m, n
<1>4. ToSet(t) = ToSet(q) \cup ToSet(r)
  <2>1. \A i \in 1 .. m + n : i \in 1 .. m \/ i \in m + 1 .. m + n
    BY <1>1
  <2>2. \A i \in 1 .. n : m + i \in 1 .. m + n
    BY <1>1
  <2>3. \A i \in 1 .. m : i \in 1 .. m + n
    BY <1>1
  <2>4. ASSUME NEW i \in 1 .. m + n
        PROVE  t[i] \in ToSet(q) \cup ToSet(r)
    <3>1. CASE i \in 1 .. m
      BY <1>1, <1>2, <3>1 DEF ToSet
    <3>2. CASE i \in m + 1 .. m + n
      BY <1>1, <1>3, <3>2 DEF ToSet
    <3> QED BY <2>1, <3>1, <3>2
  <2>5. ASSUME NEW i \in 1 .. m
        PROVE  q[i] \in ToSet(t)
    <3>1. t[i] = q[i] /\ i \in DOMAIN t
      BY <1>1, <1>2, <2>3
    <3> QED BY <3>1 DEF ToSet
  <2>6. ASSUME NEW i \in 1 .. n
        PROVE  r[i] \in ToSet(t)
    <3>1. t[m + i] = r[i] /\ m + i \in DOMAIN t
      BY <1>1, <1>2, <2>2
    <3> QED BY <3>1 DEF ToSet
  <2>7. /\ ToSet(t) = {t[i] : i \in 1 .. m + n} /\ ToSet(q) = {q[i] : i \in 1 .. m}
        /\ ToSet(r) = {r[i] : i \in 1 .. n}
    BY <1>1 DEF ToSet
  <2>8. ToSet(t) \subseteq ToSet(q) \cup ToSet(r)
    BY <2>4, <2>7
  <2>9. ToSet(q) \subseteq ToSet(t) /\ ToSet(r) \subseteq ToSet(t)
    BY <2>5, <2>6, <2>7
  <2> QED BY <2>8, <2>9
<1>5. ASSUME IsInjective(q), IsInjective(r), ToSet(q) \cap ToSet(r) = {}
      PROVE  IsInjective(t)
  <2>1. \A i \in 1 .. m : \A k \in 1 .. n : q[i] # r[k]
    BY <1>1, <1>5 DEF ToSet
  <2>2. \A i \in 1 .. m + n : i \in 1 .. m \/ i \in m + 1 .. m + n
    BY <1>1
  <2>3. \A i, k \in m + 1 .. m + n : i - m = k - m => i = k
    BY <1>1
  <2>4. \A i, k \in 1 .. m : t[i] = t[k] => i = k
    BY <1>1, <1>2, <1>5 DEF IsInjective
  <2>5. \A i, k \in m + 1 .. m + n : t[i] = t[k] => i = k
    BY <1>1, <1>3, <1>5, <2>3 DEF IsInjective
  <2>6. \A i \in 1 .. m : \A k \in m + 1 .. m + n : t[i] # t[k]
    BY <1>2, <1>3, <2>1
  <2> QED BY <1>1, <2>2, <2>4, <2>5, <2>6 DEF IsInjective
<1> QED BY <1>1, <1>4, <1>5 DEF t

\* A sequence without one of its entries.
LEMMA RemoveOf ==
  ASSUME NEW S, NEW q \in Seq(S), NEW p \in DOMAIN q
  PROVE  /\ RemoveAt(q, p) \in Seq(S) /\ Len(RemoveAt(q, p)) = Len(q) - 1
         /\ \A i \in 1 .. Len(q) - 1 : RemoveAt(q, p)[i] = IF i < p THEN q[i] ELSE q[i + 1]
<1>1. Len(q) \in Nat /\ p \in 1 .. Len(q) /\ p - 1 \in Nat /\ p + 1 \in Nat
  OBVIOUS
<1> DEFINE u == SubSeq(q, 1, p - 1)
           v == SubSeq(q, p + 1, Len(q))
<1>2. /\ u \in Seq(S) /\ Len(u) = p - 1
      /\ \A i \in 1 .. p - 1 : u[i] = q[i]
  <2>1. \A i \in 1 .. p - 1 : i \in 1 .. Len(q) /\ 1 + i - 1 = i
    BY <1>1
  <2> QED BY <1>1, <2>1, SubSeqProperties
<1>3. /\ v \in Seq(S) /\ Len(v) = Len(q) - p
      /\ \A i \in 1 .. Len(q) - p : v[i] = q[p + i]
  <2> DEFINE m == p + 1
             n == Len(q)
  <2>0. m \in Int /\ n \in Int /\ p \in Int /\ p <= n /\ m = p + 1 /\ \A i \in m .. n : q[i] \in S
    BY <1>1
  <2> HIDE DEF m, n
  <2>1. /\ SubSeq(q, m, n) \in Seq(S) /\ Len(SubSeq(q, m, n)) = IF m <= n THEN n - m + 1 ELSE 0
        /\ \A i \in 1 .. n - m + 1 : SubSeq(q, m, n)[i] = q[m + i - 1]
    BY <2>0, SubSeqProperties
  <2>2. Len(SubSeq(q, m, n)) = n - p
    BY <2>0, <2>1
  <2>3. ASSUME NEW i \in 1 .. n - p
        PROVE  i \in 1 .. n - m + 1 /\ m + i - 1 = p + i
    <3>1. n - m + 1 = n - p
      BY <2>0
    <3>2. i \in Int
      OBVIOUS
    <3> QED BY <2>0, <3>1, <3>2
  <2>4. \A i \in 1 .. n - p : SubSeq(q, m, n)[i] = q[p + i]
    BY <2>1, <2>3
  <2> QED BY <2>1, <2>2, <2>4 DEF m, n
<1>4. RemoveAt(q, p) = u \o v
  BY DEF RemoveAt
<1> HIDE DEF u, v
<1> DEFINE n == Len(q)
           t == u \o v
<1>5. /\ t \in Seq(S) /\ Len(t) = n - 1
      /\ \A i \in 1 .. n - 1 : t[i] = IF i < p THEN q[i] ELSE q[i + 1]
  <2>1. /\ t \in Seq(S) /\ Len(t) = Len(u) + Len(v)
        /\ \A i \in 1 .. Len(u) + Len(v) : t[i] = IF i <= Len(u) THEN u[i] ELSE v[i - Len(u)]
    BY <1>2, <1>3, ConcatProperties
  <2> HIDE DEF t, n
  <2>2. n \in Int /\ p \in Int /\ 1 <= p /\ p <= n /\ Len(u) = p - 1 /\ Len(v) = n - p
    BY <1>1, <1>2, <1>3 DEF n
  <2>3. \A i \in 1 .. n - 1 : t[i] = IF i <= p - 1 THEN u[i] ELSE v[i - (p - 1)]
    <3>1. (p - 1) + (n - p) = n - 1
      BY <2>2
    <3> QED BY <2>1, <2>2, <3>1
  <2>4. Len(t) = n - 1
    BY <2>1, <2>2
  <2>5. ASSUME NEW i \in 1 .. n - 1
        PROVE  t[i] = IF i < p THEN q[i] ELSE q[i + 1]
    <3>1. CASE i < p
      <4>1. i <= p - 1 /\ i \in 1 .. p - 1
        BY <2>2, <3>1
      <4> QED BY <1>2, <2>3, <3>1, <4>1
    <3>2. CASE ~(i < p)
      <4>1. ~(i <= p - 1) /\ i - (p - 1) \in 1 .. n - p /\ p + (i - (p - 1)) = i + 1
        BY <2>2, <3>2
      <4>2. v[i - (p - 1)] = q[i + 1]
        BY <1>3, <4>1 DEF n
      <4> QED BY <2>3, <3>2, <4>1, <4>2
    <3> QED BY <3>1, <3>2
  <2> QED BY <2>1, <2>4, <2>5
<1> QED BY <1>4, <1>5

-----------------------------------------------------------------------------
(***************************************************************************)
(* The list of the jobs.                                                   *)
(***************************************************************************)
LEMMA IdsOf ==
  ASSUME NEW jobs
  PROVE  Ids(jobs) = {jobs[i].id : i \in DOMAIN jobs}
BY DEF Ids, Names, ToSet

LEMMA DistinctNames ==
  ASSUME NEW jobs
  PROVE  IsInjective(Names(jobs)) <=> Distinct(jobs)
BY DEF IsInjective, Names, Distinct

LEMMA NamesOf ==
  ASSUME NEW T, NEW jobs \in Seq(T), \A i \in DOMAIN jobs : jobs[i].id \in Nat
  PROVE  /\ Names(jobs) \in Seq(Nat) /\ Len(Names(jobs)) = Len(jobs)
         /\ DOMAIN Names(jobs) = DOMAIN jobs
         /\ \A i \in DOMAIN jobs : Names(jobs)[i] = jobs[i].id
<1> DEFINE n == Len(jobs)
           f == Names(jobs)
<1>1. n \in Nat /\ DOMAIN jobs = 1 .. n
  OBVIOUS
<1>2. f = [i \in 1 .. n |-> jobs[i].id]
  BY <1>1 DEF Names
<1>3. f \in [1 .. n -> Nat] /\ \A i \in 1 .. n : f[i] = jobs[i].id
  <2> HIDE DEF n
  <2> QED BY <1>1, <1>2
<1> HIDE DEF n, f
<1>4. f \in Seq(Nat) /\ Len(f) = n /\ DOMAIN f = 1 .. n
  BY <1>1, <1>3, AsSeq
<1> QED BY <1>1, <1>3, <1>4 DEF f, n

\* A job is found by its id.
LEMMA PosOf ==
  ASSUME NEW jobs, Distinct(jobs), NEW i \in DOMAIN jobs
  PROVE  Pos(jobs, jobs[i].id) = i /\ Job(jobs, jobs[i].id) = jobs[i]
<1>1. \A k \in DOMAIN jobs : jobs[k].id = jobs[i].id => k = i
  BY DEF Distinct
<1>2. Pos(jobs, jobs[i].id) \in DOMAIN jobs /\ jobs[Pos(jobs, jobs[i].id)].id = jobs[i].id
  BY DEF Pos
<1> QED BY <1>1, <1>2 DEF Job

LEMMA FoundBy ==
  ASSUME NEW jobs, Distinct(jobs), NEW id \in Ids(jobs)
  PROVE  \E i \in DOMAIN jobs : jobs[i].id = id /\ Pos(jobs, id) = i /\ Job(jobs, id) = jobs[i]
<1>1. PICK i \in DOMAIN jobs : jobs[i].id = id
  BY IdsOf
<1> QED BY <1>1, PosOf

LEMMA PutOf ==
  ASSUME NEW jobs \in Seq(JobSet), Distinct(jobs), NEW p \in DOMAIN jobs,
         NEW j \in JobSet, j.id = jobs[p].id
  PROVE  /\ Put(jobs, j) \in Seq(JobSet) /\ Len(Put(jobs, j)) = Len(jobs)
         /\ DOMAIN Put(jobs, j) = DOMAIN jobs
         /\ Put(jobs, j)[p] = j /\ \A i \in DOMAIN jobs : i # p => Put(jobs, j)[i] = jobs[i]
<1>1. Put(jobs, j) = [jobs EXCEPT ![p] = j]
  BY PosOf DEF Put
<1> QED BY <1>1

\* The same jobs, whatever is said of them.
SameNames(old, new) ==
  /\ Len(new) = Len(old) /\ DOMAIN new = DOMAIN old
  /\ \A i \in DOMAIN old : new[i].id = old[i].id /\ new[i].req = old[i].req

LEMMA SameIds ==
  ASSUME NEW old, NEW new, SameNames(old, new)
  PROVE  /\ Ids(new) = Ids(old) /\ (Distinct(old) => Distinct(new))
         /\ Apart(old) => Apart(new)
<1>1. Ids(new) = Ids(old)
  <2>1. Ids(new) = {new[i].id : i \in DOMAIN old} /\ Ids(old) = {old[i].id : i \in DOMAIN old}
    BY IdsOf DEF SameNames
  <2> QED BY <2>1 DEF SameNames
<1> QED BY <1>1 DEF SameNames, Distinct, Apart

LEMMA SameTrans ==
  ASSUME NEW x, NEW y, NEW z, SameNames(x, y), SameNames(y, z)
  PROVE  SameNames(x, z)
BY DEF SameNames

LEMMA PutSame ==
  ASSUME NEW jobs \in Seq(JobSet), Distinct(jobs), NEW p \in DOMAIN jobs,
         NEW j \in JobSet, j.id = jobs[p].id, j.req = jobs[p].req
  PROVE  SameNames(jobs, Put(jobs, j))
BY PutOf DEF SameNames

\* A job changed everywhere in the same way.
LEMMA EachOf ==
  ASSUME NEW jobs \in Seq(JobSet), NEW f, f = [i \in DOMAIN jobs |-> f[i]],
         \A i \in DOMAIN jobs : f[i] \in JobSet /\ f[i].id = jobs[i].id /\ f[i].req = jobs[i].req
  PROVE  f \in Seq(JobSet) /\ SameNames(jobs, f)
<1>1. Len(jobs) \in Nat /\ DOMAIN jobs = 1 .. Len(jobs)
  OBVIOUS
<1>2. f \in [1 .. Len(jobs) -> JobSet]
  BY <1>1
<1>3. f \in Seq(JobSet) /\ Len(f) = Len(jobs) /\ DOMAIN f = 1 .. Len(jobs)
  BY <1>1, <1>2, AsSeq
<1> QED BY <1>1, <1>3 DEF SameNames

\* A queue that names jobs, each once, is not longer than their list.
LEMMA QueueShort ==
  ASSUME NEW T, NEW jobs \in Seq(T), NEW queue \in Seq(Nat), Distinct(jobs),
         IsInjective(queue), ToSet(queue) \subseteq Ids(jobs)
  PROVE  Len(queue) <= Len(jobs)
<1> DEFINE m == Len(queue)
           n == Len(jobs)
           f == [k \in 1 .. m |-> Pos(jobs, queue[k])]
<1>1. m \in Nat /\ n \in Nat /\ DOMAIN queue = 1 .. m /\ DOMAIN jobs = 1 .. n
  OBVIOUS
<1> HIDE DEF m, n
<1>2. \A k \in 1 .. m : Pos(jobs, queue[k]) \in 1 .. n /\ jobs[Pos(jobs, queue[k])].id = queue[k]
  <2> TAKE k \in 1 .. m
  <2>1. queue[k] \in Ids(jobs)
    BY <1>1 DEF ToSet
  <2> QED BY <1>1, <2>1, FoundBy
<1>3. /\ f \in [1 .. m -> 1 .. n] /\ \A k \in 1 .. m : jobs[f[k]].id = queue[k]
  BY <1>2
<1> HIDE DEF f
<1>4. \A k, l \in 1 .. m : f[k] = f[l] => k = l
  BY <1>1, <1>3 DEF IsInjective
<1>5. f \in Injection(1 .. m, 1 .. n)
  BY <1>3, <1>4 DEF Injection, IsInjective
<1>6. IsFiniteSet(1 .. n) /\ Cardinality(1 .. n) = n /\ Cardinality(1 .. m) = m
  BY <1>1, UpTo
<1>7. Cardinality(1 .. m) <= Cardinality(1 .. n)
  BY <1>5, <1>6, FS_Injection
<1> QED BY <1>6, <1>7 DEF m, n

-----------------------------------------------------------------------------
(***************************************************************************)
(* The books, as the commands change them.                                 *)
(***************************************************************************)
LEMMA JobFields ==
  ASSUME NEW j \in JobSet
  PROVE  /\ j.id \in Nat /\ j.req \in Requests /\ j.prio \in Priorities /\ j.state \in States
         /\ j.attempts \in Nat /\ j.rate \in Settings /\ j.link \in Texts
         /\ j.due \in BOOLEAN /\ j.waiting \in BOOLEAN
         /\ j.id \in Numbers /\ j.req \in Sound
<1>1. /\ j.id \in Numbers /\ j.req \in Sound /\ j.prio \in Priorities /\ j.state \in States
      /\ j.attempts \in Nat /\ j.rate \in Settings /\ j.link \in Texts
      /\ j.due \in BOOLEAN /\ j.waiting \in BOOLEAN
  BY DEF JobSet
<1>2. j.id \in Nat /\ j.req \in Requests
  BY <1>1 DEF Numbers, Sound
<1> QED BY <1>1, <1>2

LEMMA SavedJobFields ==
  ASSUME NEW x \in SavedSet
  PROVE  /\ x.id \in Nat /\ x.id \in Numbers /\ x.req \in Sound /\ x.prio \in Priorities
         /\ x.attempts \in Nat /\ x.rate \in Settings /\ x.link \in Texts
<1>1. /\ x.id \in Numbers /\ x.req \in Sound /\ x.prio \in Priorities
      /\ x.attempts \in Nat /\ x.rate \in Settings /\ x.link \in Texts
  BY DEF SavedSet
<1>2. x.id \in Nat
  BY <1>1 DEF Numbers
<1> QED BY <1>1, <1>2

LEMMA LineSame ==
  ASSUME NEW old, NEW new, NEW queue, SameNames(old, new), Line(old, queue),
         \A i \in DOMAIN old : Away(new[i]) => Away(old[i])
  PROVE  Line(new, queue)
<1>1. Ids(new) = Ids(old)
  BY SameIds
<1> QED BY <1>1 DEF Line, SameNames

\* The same jobs and the same receipts.
LEMMA BooksSame ==
  ASSUME NEW a, NEW b, Books(a), SameNames(a.jobs, b.jobs), b.last = a.last,
         b.receipts = a.receipts, Line(b.jobs, b.queue),
         \A i \in DOMAIN a.jobs : JobOK(b.jobs[i], b.last, b.asked)
  PROVE  Books(b)
<1>1. Ids(b.jobs) = Ids(a.jobs) /\ Distinct(b.jobs) /\ Apart(b.jobs)
  BY SameIds DEF Books
<1>2. Len(b.jobs) = Len(a.jobs) /\ DOMAIN b.jobs = DOMAIN a.jobs
  BY DEF SameNames
<1>3. Keyed(b.jobs, b.receipts)
  <2>1. Keyed(a.jobs, a.receipts)
    BY DEF Books
  <2> QED BY <2>1 DEF Keyed, SameNames
<1>4. Filed(Ids(b.jobs), b.last, b.receipts)
  BY <1>1 DEF Books
<1> QED BY <1>1, <1>2, <1>3, <1>4 DEF Books

\* What is left when nothing of the books is touched.
LEMMA BooksKeep ==
  ASSUME NEW a, NEW b, Books(a), b.jobs = a.jobs, b.queue = a.queue, b.last = a.last,
         b.receipts = a.receipts, b.asked = a.asked
  PROVE  Books(b)
BY DEF Books

-----------------------------------------------------------------------------
(***************************************************************************)
(* The snapshot and the queue opened from it.                              *)
(***************************************************************************)
LEMMA ActorFields ==
  ASSUME NEW a \in Actors
  PROVE  /\ a.pc \in {"down", "top", "start", "select", "end"} /\ a.jobs \in Seq(JobSet)
         /\ a.queue \in Seq(Nat) /\ a.last \in Nat /\ a.receipts \in SUBSET Receipts
         /\ a.rate \in Settings /\ a.live \in SUBSET (Nat \X Settings) /\ a.open \in BOOLEAN
         /\ a.closing \in BOOLEAN /\ a.failure \in BOOLEAN /\ a.dirty \in BOOLEAN
         /\ a.ack \in Acks /\ a.asked \in SUBSET Nat
BY DEF Actors

LEMMA SnapshotFields ==
  ASSUME NEW a
  PROVE  /\ Snapshot(a).jobs = [i \in DOMAIN a.jobs |-> SavedJob(a.jobs[i])]
         /\ Snapshot(a).queue = a.queue /\ Snapshot(a).last = a.last
         /\ Snapshot(a).receipts = a.receipts /\ Snapshot(a).rate = a.rate
BY DEF Snapshot

\* The jobs as they are saved.
LEMMA SavedJobs ==
  ASSUME NEW jobs \in Seq(JobSet), NEW f, f = [i \in DOMAIN jobs |-> SavedJob(jobs[i])]
  PROVE  f \in Seq(SavedSet) /\ SameNames(jobs, f) /\
         \A i \in DOMAIN jobs : f[i].attempts = jobs[i].attempts /\ f[i].rate = jobs[i].rate
<1>1. Len(jobs) \in Nat /\ DOMAIN jobs = 1 .. Len(jobs) /\ \A i \in DOMAIN jobs : jobs[i] \in JobSet
  OBVIOUS
<1>2. \A j \in JobSet : /\ SavedJob(j) \in SavedSet /\ SavedJob(j).id = j.id /\ SavedJob(j).req = j.req
                        /\ SavedJob(j).attempts = j.attempts /\ SavedJob(j).rate = j.rate
  BY JobFields DEF SavedJob, SavedSet
<1>3. \A i \in DOMAIN jobs : f[i] = SavedJob(jobs[i])
  OBVIOUS
<1>4. f \in [1 .. Len(jobs) -> SavedSet]
  BY <1>1, <1>2
<1>5. f \in Seq(SavedSet) /\ Len(f) = Len(jobs) /\ DOMAIN f = 1 .. Len(jobs)
  BY <1>1, <1>4, AsSeq
<1> QED BY <1>1, <1>2, <1>3, <1>5 DEF SameNames

\* Books in order give a snapshot that opens.
LEMMA SnapshotStored ==
  ASSUME NEW a \in Actors, Books(a)
  PROVE  Stored(Snapshot(a))
<1> DEFINE s == Snapshot(a)
           f == [i \in DOMAIN a.jobs |-> SavedJob(a.jobs[i])]
<1>1. s = [jobs |-> f, queue |-> a.queue, last |-> a.last, receipts |-> a.receipts, rate |-> a.rate]
  BY DEF Snapshot
<1>2. /\ f \in Seq(SavedSet) /\ SameNames(a.jobs, f)
      /\ \A i \in DOMAIN a.jobs : f[i].attempts = a.jobs[i].attempts
  BY ActorFields, SavedJobs
<1> HIDE DEF f
<1>3. s \in Snapshots
  BY <1>1, <1>2, ActorFields DEF Snapshots
<1>4. /\ s.jobs = f /\ s.queue = a.queue /\ s.last = a.last /\ s.receipts = a.receipts
  BY <1>1
<1> HIDE DEF s
<1>5. Ids(f) = Ids(a.jobs) /\ Distinct(f) /\ Apart(f)
  BY <1>2, SameIds DEF Books
<1>6. Len(f) = Len(a.jobs) /\ DOMAIN f = DOMAIN a.jobs
  BY <1>2 DEF SameNames
<1>7. Consistent(s)
  <2>1. Len(f) <= MaxJobs /\ IsInjective(Names(f))
    BY <1>5, <1>6, DistinctNames DEF Books
  <2>2. \A i \in DOMAIN f : f[i].attempts <= MaxAttempts /\ f[i].id <= a.last
    BY <1>2, <1>6 DEF Books, JobOK, SameNames
  <2>3. IsInjective(a.queue) /\ ToSet(a.queue) \subseteq Ids(f)
    BY <1>5 DEF Books, Line
  <2>4. Len(a.queue) <= Len(f)
    BY <1>2, <1>5, <2>3, QueueShort, ActorFields
  <2>5. Filed(Ids(f), a.last, a.receipts)
    BY <1>5 DEF Books
  <2> QED BY <1>4, <2>1, <2>2, <2>3, <2>4, <2>5 DEF Consistent, Filed
<1>8. Keyed(f, a.receipts)
  <2>1. Keyed(a.jobs, a.receipts)
    BY DEF Books
  <2> QED BY <1>2, <2>1 DEF Keyed, SameNames
<1>9. IsFiniteSet(a.receipts)
  BY DEF Books, Filed
<1> QED BY <1>3, <1>4, <1>5, <1>7, <1>8, <1>9 DEF Stored, s

LEMMA SavedFields ==
  ASSUME NEW s \in Snapshots
  PROVE  /\ s.jobs \in Seq(SavedSet) /\ s.queue \in Seq(Nat) /\ s.last \in Nat
         /\ s.receipts \in SUBSET Receipts /\ s.rate \in Settings
BY DEF Snapshots

\* The jobs in the order of the queue are all the jobs, each once.
LEMMA RankOf ==
  ASSUME NEW s, Stored(s)
  PROVE  /\ ByRank(s) \in Seq(Nat) /\ IsInjective(ByRank(s)) /\ ToSet(ByRank(s)) = Ids(s.jobs)
         /\ Len(ByRank(s)) <= Len(s.jobs) /\ Distinct(s.jobs)
<1> DEFINE I == Unranked(s.jobs, s.queue)
           N == Names(s.jobs)
           t == At(N, I)
<1>1. s.jobs \in Seq(SavedSet) /\ s.queue \in Seq(Nat)
  BY SavedFields DEF Stored
<1>2. \A i \in DOMAIN s.jobs : s.jobs[i].id \in Nat
  <2>1. \A i \in DOMAIN s.jobs : s.jobs[i] \in SavedSet
    BY <1>1
  <2> QED BY <2>1, SavedJobFields
<1>3. N \in Seq(Nat) /\ DOMAIN N = DOMAIN s.jobs /\ \A i \in DOMAIN s.jobs : N[i] = s.jobs[i].id
  BY <1>1, <1>2, NamesOf
<1>4. IsInjective(N) /\ Distinct(s.jobs) /\ IsInjective(s.queue) /\ ToSet(s.queue) \subseteq Ids(s.jobs)
  BY DistinctNames DEF Stored, Consistent
<1>5. I = {i \in DOMAIN s.jobs : s.jobs[i].id \notin ToSet(s.queue)}
  BY DEF Unranked
<1>6. ByRank(s) = s.queue \o t
  BY DEF ByRank
<1> HIDE DEF N
<1>7. I \subseteq DOMAIN N /\ \A i, k \in I : N[i] = N[k] => i = k
  BY <1>3, <1>4, <1>5 DEF IsInjective
<1>8. {N[i] : i \in I} = Ids(s.jobs) \ ToSet(s.queue)
  BY <1>3, <1>5, IdsOf
<1> HIDE DEF I
<1>9. t \in Seq(Nat) /\ IsInjective(t) /\ ToSet(t) = Ids(s.jobs) \ ToSet(s.queue)
  BY <1>3, <1>7, <1>8, AtOf
<1> HIDE DEF t
<1>10. /\ s.queue \o t \in Seq(Nat) /\ ToSet(s.queue \o t) = ToSet(s.queue) \cup ToSet(t)
       /\ IsInjective(s.queue \o t)
  BY <1>1, <1>4, <1>9, ConcatOf
<1>11. ToSet(s.queue \o t) = Ids(s.jobs)
  BY <1>4, <1>9, <1>10
<1>12. Len(s.queue \o t) <= Len(s.jobs)
  BY <1>1, <1>4, <1>10, <1>11, QueueShort
<1> QED BY <1>4, <1>6, <1>10, <1>11, <1>12

LEMMA ReopenedOf ==
  ASSUME NEW x \in SavedSet
  PROVE  /\ Reopened(x) \in JobSet /\ Reopened(x).id = x.id /\ Reopened(x).req = x.req
         /\ Reopened(x).attempts = x.attempts /\ Reopened(x).rate = x.rate
         /\ Reopened(x).waiting = FALSE
         /\ Reopened(x).state \in {"Completed", "Failed", "Paused"}
<1> DEFINE f == FALSE
           st == Recovered(x.state)
<1>1. f \in BOOLEAN /\ f = FALSE
  OBVIOUS
<1>2. st \in {"Completed", "Failed", "Paused"} /\ st \in States
  BY DEF Recovered, States
<1>3. /\ x.id \in Numbers /\ x.req \in Sound /\ x.prio \in Priorities /\ x.attempts \in Nat
      /\ x.rate \in Settings /\ x.link \in Texts
  BY SavedJobFields
<1>4. Reopened(x) = [id |-> x.id, req |-> x.req, prio |-> x.prio, state |-> st,
                attempts |-> x.attempts, rate |-> x.rate, link |-> x.link, due |-> f, waiting |-> f]
  BY DEF Reopened
<1> HIDE DEF f, st
<1>5. Reopened(x) \in JobSet
  BY <1>1, <1>2, <1>3, <1>4 DEF JobSet
<1> QED BY <1>1, <1>2, <1>4, <1>5

\* The limits of a list of jobs.
LEMMA LimitsOf ==
  ASSUME NEW s, Distinct(s.jobs)
  PROVE  Limits(s) = {<<0, s.rate>>} \cup {<<s.jobs[i].id, s.jobs[i].rate>> : i \in DOMAIN s.jobs}
<1> DEFINE L == {<<id, Job(s.jobs, id).rate>> : id \in Ids(s.jobs)}
           R == {<<s.jobs[i].id, s.jobs[i].rate>> : i \in DOMAIN s.jobs}
<1>1. ASSUME NEW id \in Ids(s.jobs)
      PROVE  <<id, Job(s.jobs, id).rate>> \in R
  <2>1. PICK i \in DOMAIN s.jobs : s.jobs[i].id = id /\ Job(s.jobs, id) = s.jobs[i]
    BY FoundBy
  <2> QED BY <2>1
<1>2. ASSUME NEW i \in DOMAIN s.jobs
      PROVE  <<s.jobs[i].id, s.jobs[i].rate>> \in L
  <2>1. s.jobs[i].id \in Ids(s.jobs) /\ Job(s.jobs, s.jobs[i].id) = s.jobs[i]
    BY IdsOf, PosOf
  <2> QED BY <2>1
<1>3. L \subseteq R
  BY <1>1
<1>4. R \subseteq L
  BY <1>2
<1> QED BY <1>3, <1>4 DEF Limits

\* The books are in order when the queue is opened, and no job is at work.
LEMMA LaunchedBooks ==
  ASSUME NEW s, Stored(s)
  PROVE  /\ Launched(s) \in Actors /\ Books(Launched(s))
         /\ \A i \in DOMAIN Launched(s).jobs : ~Busy(Launched(s).jobs[i])
         /\ Launched(s).pc = "top" /\ Launched(s).dirty /\ ~Launched(s).failure
         /\ Launched(s).ack = Silence /\ Launched(s).receipts = s.receipts
<1> DEFINE r == ByRank(s)
           f == [i \in DOMAIN r |-> Reopened(Job(s.jobs, r[i]))]
           l == Launched(s)
           y == TRUE
           n == FALSE
<1>1. /\ s.jobs \in Seq(SavedSet) /\ s.queue \in Seq(Nat) /\ s.last \in Nat
      /\ s.receipts \in SUBSET Receipts /\ s.rate \in Settings
  BY SavedFields DEF Stored
<1>2. /\ r \in Seq(Nat) /\ IsInjective(r) /\ ToSet(r) = Ids(s.jobs) /\ Len(r) <= Len(s.jobs)
      /\ Distinct(s.jobs)
  BY RankOf
<1>3. l = [pc |-> "top", jobs |-> f, queue |-> r, last |-> s.last, receipts |-> s.receipts,
           rate |-> s.rate, live |-> Limits(s), open |-> y, closing |-> n, failure |-> n,
           dirty |-> y, ack |-> Silence, asked |-> {}]
  <2>1. l = [Down EXCEPT !.pc = "top", !.jobs = f, !.queue = r, !.last = s.last,
               !.receipts = s.receipts, !.rate = s.rate, !.live = Limits(s), !.open = y, !.dirty = y]
    BY DEF Launched
  <2>2. Down = [pc |-> "down", jobs |-> <<>>, queue |-> <<>>, last |-> 0, receipts |-> {}, rate |-> 0,
                live |-> {}, open |-> n, closing |-> n, failure |-> n, dirty |-> n,
                ack |-> Silence, asked |-> {}]
    BY DEF Down
  <2> HIDE DEF f, r, l, y, n
  <2> QED BY <2>1, <2>2
<1> HIDE DEF r, l
<1>4. Len(r) \in Nat /\ DOMAIN r = 1 .. Len(r) /\ Len(s.jobs) \in Nat
  BY <1>1, <1>2
<1>5. \A i \in DOMAIN r : \E k \in DOMAIN s.jobs :
        s.jobs[k].id = r[i] /\ f[i] = Reopened(s.jobs[k]) /\ s.jobs[k] \in SavedSet
  <2> TAKE i \in DOMAIN r
  <2>1. r[i] \in Ids(s.jobs)
    BY <1>2 DEF ToSet
  <2>2. PICK k \in DOMAIN s.jobs : s.jobs[k].id = r[i] /\ Job(s.jobs, r[i]) = s.jobs[k]
    BY <1>2, <2>1, FoundBy
  <2>3. s.jobs[k] \in SavedSet
    BY <1>1
  <2> QED BY <2>2, <2>3
<1>6. \A i \in DOMAIN r : f[i] \in JobSet /\ f[i].id = r[i]
  <2> TAKE i \in DOMAIN r
  <2>1. PICK k \in DOMAIN s.jobs :
          s.jobs[k].id = r[i] /\ f[i] = Reopened(s.jobs[k]) /\ s.jobs[k] \in SavedSet
    BY <1>5
  <2> HIDE DEF f
  <2> QED BY <2>1, ReopenedOf
<1>7. f \in [1 .. Len(r) -> JobSet]
  BY <1>4, <1>6
<1>50. DOMAIN f = DOMAIN r
  OBVIOUS
<1> HIDE DEF f
<1>8. f \in Seq(JobSet) /\ Len(f) = Len(r)
  BY <1>4, <1>7, AsSeq
<1>9. Limits(s) \in SUBSET (Nat \X Settings)
  <2>1. \A i \in DOMAIN s.jobs : s.jobs[i].id \in Nat /\ s.jobs[i].rate \in Settings
    <3>1. \A i \in DOMAIN s.jobs : s.jobs[i] \in SavedSet
      BY <1>1
    <3> QED BY <3>1, SavedJobFields
  <2>2. 0 \in Nat
    OBVIOUS
  <2> QED BY <1>1, <1>2, <2>1, <2>2, LimitsOf
<1>10. y \in BOOLEAN /\ n \in BOOLEAN /\ y = TRUE /\ n = FALSE
  OBVIOUS
<1>11. Silence \in Acks
  <2>1. n \in BOOLEAN /\ Silence = [op |-> "none", id |-> 0, ok |-> n]
    BY DEF Silence
  <2> HIDE DEF n
  <2> QED BY <2>1 DEF Acks, Ops
<1> HIDE DEF y, n
<1>12. l \in Actors
  BY <1>1, <1>2, <1>3, <1>8, <1>9, <1>10, <1>11 DEF Actors
<1>13. /\ l.jobs = f /\ l.queue = r /\ l.last = s.last /\ l.receipts = s.receipts /\ l.asked = {}
       /\ l.pc = "top" /\ l.dirty /\ ~l.failure /\ l.ack = Silence
  BY <1>3, <1>10
<1>14. Ids(f) = Ids(s.jobs)
  <2>1. Ids(f) = {r[i] : i \in DOMAIN r}
    BY <1>6, <1>50, IdsOf
  <2> QED BY <1>2, <2>1 DEF ToSet
<1>15. Distinct(f)
  BY <1>2, <1>6, <1>50 DEF Distinct, IsInjective
<1>16. Len(f) <= MaxJobs
  <2>1. Len(s.jobs) <= MaxJobs /\ MaxJobs \in Nat
    BY QueueAssumption DEF Stored, Consistent
  <2> QED BY <1>2, <1>4, <1>8, <2>1
<1>17. \A i \in DOMAIN f : JobOK(f[i], s.last, {}) /\ ~Away(f[i]) /\ ~Busy(f[i])
  <2> TAKE i \in DOMAIN f
  <2>1. PICK k \in DOMAIN s.jobs :
          s.jobs[k].id = r[i] /\ f[i] = Reopened(s.jobs[k]) /\ s.jobs[k] \in SavedSet
    BY <1>5, <1>50
  <2>2. /\ f[i].id = s.jobs[k].id /\ f[i].attempts = s.jobs[k].attempts
        /\ f[i].waiting = FALSE /\ f[i].state \in {"Completed", "Failed", "Paused"}
    BY <2>1, ReopenedOf
  <2>3. s.jobs[k].attempts <= MaxAttempts /\ s.jobs[k].id <= s.last
    BY DEF Stored, Consistent
  <2> QED BY <2>2, <2>3 DEF JobOK, Away, Busy
<1>18. Line(f, r)
  BY <1>2, <1>14, <1>17 DEF Line
<1>19. Keyed(f, s.receipts)
  <2> SUFFICES ASSUME NEW i \in DOMAIN f, f[i].req.key # 0
               PROVE  \E p \in s.receipts : p.key = f[i].req.key /\ p.id = f[i].id /\ p.req = f[i].req
    BY DEF Keyed
  <2>1. PICK k \in DOMAIN s.jobs :
          s.jobs[k].id = r[i] /\ f[i] = Reopened(s.jobs[k]) /\ s.jobs[k] \in SavedSet
    BY <1>5, <1>50
  <2>2. f[i].id = s.jobs[k].id /\ f[i].req = s.jobs[k].req
    BY <2>1, ReopenedOf
  <2> QED BY <2>2 DEF Stored, Keyed
<1>20. Filed(Ids(f), s.last, s.receipts)
  <2>1. IsFiniteSet(s.receipts)
    BY DEF Stored
  <2> QED BY <1>14, <2>1 DEF Stored, Consistent, Filed
<1>51. Apart(f)
  <2> SUFFICES ASSUME NEW i \in DOMAIN f, NEW k \in DOMAIN f, f[i].req.dir = f[k].req.dir
               PROVE  i = k
    BY DEF Apart
  <2>1. PICK x \in DOMAIN s.jobs :
          s.jobs[x].id = r[i] /\ f[i] = Reopened(s.jobs[x]) /\ s.jobs[x] \in SavedSet
    BY <1>5, <1>50
  <2>2. PICK z \in DOMAIN s.jobs :
          s.jobs[z].id = r[k] /\ f[k] = Reopened(s.jobs[z]) /\ s.jobs[z] \in SavedSet
    BY <1>5, <1>50
  <2>3. f[i].req = s.jobs[x].req /\ f[k].req = s.jobs[z].req
    BY <2>1, <2>2, ReopenedOf
  <2>4. x = z
    BY <2>3 DEF Stored, Apart
  <2> QED BY <1>2, <1>50, <2>1, <2>2, <2>4 DEF IsInjective
<1>21. Books(l)
  BY <1>13, <1>15, <1>16, <1>17, <1>18, <1>19, <1>20, <1>51 DEF Books
<1> QED BY <1>12, <1>13, <1>17, <1>21 DEF l

-----------------------------------------------------------------------------
(***************************************************************************)
(* The jobs at work and their workers.                                     *)
(***************************************************************************)
LEMMA IdsFinite ==
  ASSUME NEW T, NEW jobs \in Seq(T)
  PROVE  IsFiniteSet(Ids(jobs))
<1> DEFINE n == Len(jobs)
           f == [i \in 1 .. n |-> jobs[i].id]
<1>1. n \in Nat /\ DOMAIN jobs = 1 .. n
  OBVIOUS
<1> HIDE DEF n
<1>2. Ids(jobs) = {jobs[i].id : i \in 1 .. n}
  BY <1>1, IdsOf
<1>3. f \in Surjection(1 .. n, Ids(jobs))
  BY <1>2 DEF Surjection
<1> HIDE DEF f
<1>4. IsFiniteSet(1 .. n)
  BY <1>1, UpTo
<1> QED BY <1>3, <1>4, FS_Surjection

LEMMA BusyAtFinite ==
  ASSUME NEW T, NEW jobs \in Seq(T), NEW o
  PROVE  IsFiniteSet(BusyAt(jobs, o)) /\ Cardinality(BusyAt(jobs, o)) \in Nat
<1>1. BusyAt(jobs, o) \in SUBSET Ids(jobs)
  BY DEF BusyAt
<1>2. IsFiniteSet(BusyAt(jobs, o))
  BY <1>1, IdsFinite, FS_Subset
<1> QED BY <1>2, FS_CardinalityType

LEMMA BusyAtOf ==
  ASSUME NEW jobs, Distinct(jobs), NEW o, NEW id
  PROVE  id \in BusyAt(jobs, o) <=>
           \E i \in DOMAIN jobs : jobs[i].id = id /\ Busy(jobs[i]) /\ jobs[i].req.origin = o
<1>1. ASSUME id \in BusyAt(jobs, o)
      PROVE  \E i \in DOMAIN jobs : jobs[i].id = id /\ Busy(jobs[i]) /\ jobs[i].req.origin = o
  <2>1. id \in Ids(jobs) /\ Busy(Job(jobs, id)) /\ Job(jobs, id).req.origin = o
    BY <1>1 DEF BusyAt
  <2> QED BY <2>1, FoundBy
<1>2. ASSUME NEW i \in DOMAIN jobs, jobs[i].id = id, Busy(jobs[i]), jobs[i].req.origin = o
      PROVE  id \in BusyAt(jobs, o)
  <2>1. id \in Ids(jobs) /\ Job(jobs, id) = jobs[i]
    BY <1>2, IdsOf, PosOf
  <2> QED BY <1>2, <2>1 DEF BusyAt
<1> QED BY <1>1, <1>2

\* Every job at work in the one list is at work in the other.
Covers(old, new) ==
  \A i \in DOMAIN old : Busy(old[i]) =>
    \E k \in DOMAIN new : new[k].id = old[i].id /\ new[k].req = old[i].req /\ Busy(new[k])

LEMMA CrewLike ==
  ASSUME NEW old, NEW new, NEW ws, Crew(old, ws), Covers(old, new), Covers(new, old)
  PROVE  Crew(new, ws)
<1>1. ASSUME NEW w \in ws
      PROVE  \E k \in DOMAIN new : new[k].id = w.id /\ Busy(new[k])
  <2>1. PICK i \in DOMAIN old : old[i].id = w.id /\ Busy(old[i])
    BY DEF Crew
  <2> QED BY <2>1 DEF Covers
<1>2. ASSUME NEW k \in DOMAIN new, Busy(new[k])
      PROVE  \E w \in ws : w.id = new[k].id
  <2>1. PICK i \in DOMAIN old : old[i].id = new[k].id /\ Busy(old[i])
    BY <1>2 DEF Covers
  <2> QED BY <2>1 DEF Crew
<1> QED BY <1>1, <1>2 DEF Crew

LEMMA SpreadFewer ==
  ASSUME NEW old \in Seq(JobSet), NEW new \in Seq(JobSet), Distinct(old), Distinct(new),
         Covers(new, old), Spread(old)
  PROVE  Spread(new)
<1> SUFFICES ASSUME NEW r \in Requests
             PROVE  Cardinality(BusyAt(new, r.origin)) <= MaxPerOrigin
  BY DEF Spread
<1> DEFINE N == BusyAt(new, r.origin)
           O == BusyAt(old, r.origin)
<1>1. N \in SUBSET O
  <2> SUFFICES ASSUME NEW id \in N PROVE id \in O
    OBVIOUS
  <2>1. PICK i \in DOMAIN new : new[i].id = id /\ Busy(new[i]) /\ new[i].req.origin = r.origin
    BY BusyAtOf
  <2>2. PICK k \in DOMAIN old : old[k].id = id /\ old[k].req = new[i].req /\ Busy(old[k])
    BY <2>1 DEF Covers
  <2> QED BY <2>1, <2>2, BusyAtOf
<1>2. IsFiniteSet(O) /\ Cardinality(O) \in Nat /\ Cardinality(N) \in Nat
  BY BusyAtFinite
<1>3. Cardinality(O) <= MaxPerOrigin
  BY DEF Spread
<1> HIDE DEF N, O
<1>4. Cardinality(N) <= Cardinality(O)
  BY <1>1, <1>2, FS_Subset
<1>5. MaxPerOrigin \in Nat
  BY QueueAssumption
<1> QED BY <1>2, <1>3, <1>4, <1>5 DEF N

\* The same jobs at work.
LEMMA CoversSame ==
  ASSUME NEW old, NEW new, SameNames(old, new), \A i \in DOMAIN old : Busy(new[i]) <=> Busy(old[i])
  PROVE  Covers(old, new) /\ Covers(new, old)
BY DEF Covers, SameNames

\* A job starts: a worker more.
LEMMA CrewMore ==
  ASSUME NEW old \in Seq(JobSet), NEW new, NEW ws, NEW p \in DOMAIN old, Distinct(old),
         Crew(old, ws), SameNames(old, new), ~Busy(old[p]), Busy(new[p]),
         \A i \in DOMAIN old : i # p => (Busy(new[i]) <=> Busy(old[i]))
  PROVE  LET v == [id |-> old[p].id, cancel |-> FALSE]
         IN  Crew(new, ws \cup {v}) /\ Cardinality(ws \cup {v}) = Cardinality(ws) + 1
<1> DEFINE f == FALSE
           v == [id |-> old[p].id, cancel |-> f]
<1>1. f \in BOOLEAN /\ old[p].id \in Nat
  BY JobFields
<1> HIDE DEF f
<1>2. v \in WorkerSet /\ v.id = old[p].id
  BY <1>1 DEF WorkerSet
<1> HIDE DEF v
<1>3. \A w \in ws : w.id # v.id
  <2> SUFFICES ASSUME NEW w \in ws, w.id = v.id PROVE FALSE
    OBVIOUS
  <2>1. PICK i \in DOMAIN old : old[i].id = w.id /\ Busy(old[i])
    BY DEF Crew
  <2> QED BY <1>2, <2>1 DEF Distinct
<1>4. v \notin ws
  BY <1>3
<1>5. IsFiniteSet(ws) /\ ws \subseteq WorkerSet
  BY DEF Crew
<1>6. IsFiniteSet(ws \cup {v}) /\ Cardinality(ws \cup {v}) = Cardinality(ws) + 1
  BY <1>4, <1>5, FS_AddElement
<1>7. ASSUME NEW w \in ws \cup {v}
      PROVE  \E i \in DOMAIN new : new[i].id = w.id /\ Busy(new[i])
  <2>1. CASE w = v
    BY <1>2, <2>1 DEF SameNames
  <2>2. CASE w \in ws
    <3>1. PICK i \in DOMAIN old : old[i].id = w.id /\ Busy(old[i])
      BY <2>2 DEF Crew
    <3> QED BY <3>1 DEF SameNames
  <2> QED BY <1>7, <2>1, <2>2
<1>8. ASSUME NEW i \in DOMAIN new, Busy(new[i])
      PROVE  \E w \in ws \cup {v} : w.id = new[i].id
  <2>1. i \in DOMAIN old /\ new[i].id = old[i].id
    BY DEF SameNames
  <2>2. CASE i = p
    BY <1>2, <2>1, <2>2
  <2>3. CASE i # p
    <3>1. PICK w \in ws : w.id = old[i].id
      BY <1>8, <2>1, <2>3 DEF Crew
    <3> QED BY <2>1, <3>1
  <2> QED BY <2>2, <2>3
<1>9. \A x, y \in ws \cup {v} : x.id = y.id => x = y
  BY <1>3 DEF Crew
<1>10. ws \cup {v} \subseteq WorkerSet
  BY <1>2, <1>5
<1>11. Crew(new, ws \cup {v})
  BY <1>6, <1>7, <1>8, <1>9, <1>10 DEF Crew
<1> QED BY <1>6, <1>11 DEF v, f

LEMMA SpreadMore ==
  ASSUME NEW old \in Seq(JobSet), NEW new \in Seq(JobSet), NEW p \in DOMAIN old,
         Distinct(old), Spread(old), SameNames(old, new),
         Cardinality(BusyAt(old, old[p].req.origin)) < MaxPerOrigin,
         \A i \in DOMAIN old : i # p => (Busy(new[i]) <=> Busy(old[i]))
  PROVE  Spread(new)
<1> SUFFICES ASSUME NEW r \in Requests
             PROVE  Cardinality(BusyAt(new, r.origin)) <= MaxPerOrigin
  BY DEF Spread
<1> DEFINE N == BusyAt(new, r.origin)
           O == BusyAt(old, r.origin)
           x == old[p].id
<1>0. Distinct(new)
  BY SameIds
<1>1. IsFiniteSet(O) /\ Cardinality(O) \in Nat /\ Cardinality(N) \in Nat
  BY BusyAtFinite
<1>2. MaxPerOrigin \in Nat /\ Cardinality(O) <= MaxPerOrigin
  BY QueueAssumption DEF Spread
<1>3. ASSUME NEW id \in N
      PROVE  id \in O \/ (id = x /\ old[p].req.origin = r.origin)
  <2>1. PICK i \in DOMAIN new : new[i].id = id /\ Busy(new[i]) /\ new[i].req.origin = r.origin
    BY <1>0, <1>3, BusyAtOf
  <2>2. i \in DOMAIN old /\ old[i].id = id /\ old[i].req.origin = r.origin
    BY <2>1 DEF SameNames
  <2>3. CASE i = p
    BY <2>2, <2>3
  <2>4. CASE i # p
    <3>1. Busy(old[i])
      BY <2>1, <2>2, <2>4
    <3> QED BY <2>2, <3>1, BusyAtOf
  <2> QED BY <2>3, <2>4
<1>4. CASE old[p].req.origin = r.origin
  <2>1. Cardinality(O) < MaxPerOrigin
    BY <1>4
  <2>2. N \in SUBSET (O \cup {x})
    BY <1>3
  <2> HIDE DEF N, O, x
  <2>6. /\ IsFiniteSet(O \cup {x})
        /\ Cardinality(O \cup {x}) = IF x \in O THEN Cardinality(O) ELSE Cardinality(O) + 1
    BY <1>1, FS_AddElement
  <2>3. Cardinality(O \cup {x}) <= Cardinality(O) + 1 /\ Cardinality(O \cup {x}) \in Nat
    BY <1>1, <2>6
  <2>4. Cardinality(N) <= Cardinality(O \cup {x})
    BY <2>2, <2>6, FS_Subset
  <2>5. Cardinality(N) <= MaxPerOrigin
    BY <1>1, <1>2, <2>1, <2>3, <2>4
  <2> QED BY <2>5 DEF N
<1>5. CASE old[p].req.origin # r.origin
  <2>1. N \in SUBSET O
    BY <1>3, <1>5
  <2> HIDE DEF N, O, x
  <2>2. Cardinality(N) <= Cardinality(O)
    BY <1>1, <2>1, FS_Subset
  <2>3. Cardinality(N) <= MaxPerOrigin
    BY <1>1, <1>2, <2>2
  <2> QED BY <2>3 DEF N
<1> QED BY <1>4, <1>5

\* A worker is joined: its job is at work no more.
LEMMA CrewLess ==
  ASSUME NEW old, NEW new, NEW ws, NEW w \in ws, NEW p \in DOMAIN old, Distinct(old),
         Crew(old, ws), SameNames(old, new), old[p].id = w.id, ~Busy(new[p]),
         \A i \in DOMAIN old : i # p => (Busy(new[i]) <=> Busy(old[i]))
  PROVE  Crew(new, ws \ {w}) /\ Cardinality(ws \ {w}) <= Cardinality(ws)
<1>1. IsFiniteSet(ws) /\ ws \ {w} \in SUBSET ws /\ ws \subseteq WorkerSet
  BY DEF Crew
<1>2. IsFiniteSet(ws \ {w}) /\ Cardinality(ws \ {w}) <= Cardinality(ws)
  BY <1>1, FS_Subset
<1>3. ASSUME NEW v \in ws \ {w}
      PROVE  \E i \in DOMAIN new : new[i].id = v.id /\ Busy(new[i])
  <2>1. PICK i \in DOMAIN old : old[i].id = v.id /\ Busy(old[i])
    BY DEF Crew
  <2>2. v.id # w.id
    BY <1>3 DEF Crew
  <2>3. i # p
    BY <2>1, <2>2
  <2> QED BY <2>1, <2>3 DEF SameNames
<1>4. ASSUME NEW i \in DOMAIN new, Busy(new[i])
      PROVE  \E v \in ws \ {w} : v.id = new[i].id
  <2>1. i \in DOMAIN old /\ new[i].id = old[i].id /\ i # p
    BY <1>4 DEF SameNames
  <2>2. PICK v \in ws : v.id = old[i].id
    BY <1>4, <2>1 DEF Crew
  <2>3. v.id # w.id
    BY <2>1, <2>2 DEF Distinct
  <2> QED BY <2>1, <2>2, <2>3
<1>5. \A x, y \in ws \ {w} : x.id = y.id => x = y
  BY DEF Crew
<1>6. Crew(new, ws \ {w})
  BY <1>1, <1>2, <1>3, <1>4, <1>5 DEF Crew
<1> QED BY <1>2, <1>6

\* Workers are told to stop.
LEMMA CrewTold ==
  ASSUME NEW jobs, NEW ws, Crew(jobs, ws), NEW g \in [ws -> BOOLEAN],
         NEW vs, vs = {[w EXCEPT !.cancel = g[w]] : w \in ws}
  PROVE  /\ Crew(jobs, vs) /\ Cardinality(vs) <= Cardinality(ws) /\ (ws = {} => vs = {})
<1> DEFINE h == [w \in ws |-> [w EXCEPT !.cancel = g[w]]]
<1>1. IsFiniteSet(ws) /\ ws \subseteq WorkerSet
  BY DEF Crew
<1>2. \A w \in ws : [w EXCEPT !.cancel = g[w]] \in WorkerSet /\ [w EXCEPT !.cancel = g[w]].id = w.id
  BY <1>1 DEF WorkerSet
<1>3. /\ h \in Surjection(ws, vs) /\ \A w \in ws : h[w] \in vs /\ h[w].id = w.id
      /\ \A v \in vs : \E w \in ws : v = h[w]
  BY <1>2 DEF Surjection
<1>4. vs \subseteq WorkerSet
  BY <1>2
<1> HIDE DEF h
<1>5. IsFiniteSet(vs) /\ Cardinality(vs) <= Cardinality(ws)
  BY <1>1, <1>3, FS_Surjection
<1>6. \A x, y \in vs : x.id = y.id => x = y
  <2> SUFFICES ASSUME NEW x \in vs, NEW y \in vs, x.id = y.id PROVE x = y
    OBVIOUS
  <2>1. PICK u \in ws : x = h[u]
    BY <1>3
  <2>2. PICK w \in ws : y = h[w]
    BY <1>3
  <2>3. u = w
    BY <1>3, <2>1, <2>2 DEF Crew
  <2> QED BY <2>1, <2>2, <2>3
<1>7. \A v \in vs : \E i \in DOMAIN jobs : jobs[i].id = v.id /\ Busy(jobs[i])
  <2> TAKE v \in vs
  <2>1. PICK w \in ws : v = h[w]
    BY <1>3
  <2>2. v.id = w.id
    BY <1>3, <2>1
  <2> QED BY <2>2 DEF Crew
<1>8. \A i \in DOMAIN jobs : Busy(jobs[i]) => \E v \in vs : v.id = jobs[i].id
  <2> SUFFICES ASSUME NEW i \in DOMAIN jobs, Busy(jobs[i]) PROVE \E v \in vs : v.id = jobs[i].id
    OBVIOUS
  <2>1. PICK w \in ws : w.id = jobs[i].id
    BY DEF Crew
  <2> QED BY <1>3, <2>1
<1>9. Crew(jobs, vs)
  BY <1>4, <1>5, <1>6, <1>7, <1>8 DEF Crew
<1> QED BY <1>5, <1>9

LEMMA CancelAllOf ==
  ASSUME NEW jobs, NEW a, Crew(jobs, workers)
  PROVE  /\ Crew(jobs, CancelAll(a)) /\ Cardinality(CancelAll(a)) <= Cardinality(workers)
         /\ workers = {} => CancelAll(a) = {}
<1> DEFINE g == [w \in workers |-> w.cancel \/ Job(a.jobs, w.id).state = "Running"]
<1>1. \A w \in workers : w.cancel \in BOOLEAN
  BY DEF Crew, WorkerSet
<1>2. g \in [workers -> BOOLEAN]
  BY <1>1
<1>3. CancelAll(a) = {[w EXCEPT !.cancel = g[w]] : w \in workers}
  BY DEF CancelAll
<1> HIDE DEF g
<1> QED BY <1>2, <1>3, CrewTold

\* The worker of one job is told to stop.
Stopping(ws, id) == {[w EXCEPT !.cancel = @ \/ w.id = id] : w \in ws}

LEMMA CancelOneOf ==
  ASSUME NEW jobs, NEW id, Crew(jobs, workers)
  PROVE  /\ Crew(jobs, Stopping(workers, id))
         /\ Cardinality(Stopping(workers, id)) <= Cardinality(workers)
<1> DEFINE g == [w \in workers |-> w.cancel \/ w.id = id]
<1>1. \A w \in workers : w.cancel \in BOOLEAN
  BY DEF Crew, WorkerSet
<1>2. g \in [workers -> BOOLEAN]
  BY <1>1
<1>3. Stopping(workers, id) = {[w EXCEPT !.cancel = g[w]] : w \in workers}
  BY DEF Stopping
<1> HIDE DEF g
<1> QED BY <1>2, <1>3, CrewTold

-----------------------------------------------------------------------------
(***************************************************************************)
(* What a step leaves behind.                                              *)
(***************************************************************************)
Budgets == [commands : Nat, faults : Nat, opens : Nat]

LEMMA SilenceType == Silence \in Acks /\ Silence.ok = FALSE /\ Silence.op = "none"
<1> DEFINE f == FALSE
           z == 0
<1>1. f \in BOOLEAN /\ z \in Nat /\ f = FALSE /\ Silence = [op |-> "none", id |-> z, ok |-> f]
  BY DEF Silence
<1> HIDE DEF f, z
<1> QED BY <1>1 DEF Acks, Ops

LEMMA Spent ==
  ASSUME Types, NEW what \in {"commands", "faults", "opens"}, Spend(what)
  PROVE  budget' \in Budgets
<1>1. budget \in Budgets
  BY DEF Types, Budgets
<1>2. budget[what] \in Nat
  BY <1>1 DEF Budgets
<1>3. budget[what] - 1 \in Nat
  BY <1>2 DEF Spend
<1>4. budget' = [budget EXCEPT ![what] = budget[what] - 1]
  BY DEF Spend
<1> QED BY <1>1, <1>3, <1>4 DEF Budgets

LEMMA Facts ==
  ASSUME IInv
  PROVE  /\ actor \in Actors /\ Books(actor) /\ Manned(actor, workers) /\ Place(actor, workers)
         /\ Flags(actor) /\ Owed(actor) /\ Synced(actor, disk) /\ Ahead(actor, disk)
         /\ Shelf(disk) /\ Kept(accepted, disk) /\ Types
BY DEF IInv, Good

\* A step that answers nothing, or refuses.
LEMMA MuteStep ==
  ASSUME Good(actor', workers', disk'), Shelf(disk'), Kept(accepted', disk'), told' \in Acks,
         told'.ok = FALSE, inbox' \in Seq(Requests), Len(inbox') <= MaxPending,
         accepted' \subseteq [req : Requests, id : Nat], budget' \in Budgets
  PROVE  IInv'
<1>1. AnswersAreDurable'
  BY DEF AnswersAreDurable
<1>2. Types'
  BY DEF Types, Budgets
<1> QED BY <1>1, <1>2 DEF IInv

LEMMA QuietStep ==
  ASSUME IInv, Good(actor', workers', disk'), Shelf(disk'), Kept(accepted, disk'), Quiet,
         inbox' = inbox, accepted' = accepted, budget' \in Budgets
  PROVE  IInv'
<1>1. told' \in Acks /\ told'.ok = FALSE
  BY SilenceType DEF Quiet
<1>2. AnswersAreDurable'
  BY <1>1 DEF AnswersAreDurable
<1>3. Types'
  BY <1>1 DEF IInv, Types, Budgets
<1>4. Kept(accepted', disk')
  OBVIOUS
<1> QED BY <1>2, <1>3, <1>4 DEF IInv

\* The receipts are kept through a save.
LEMMA KeptSaved ==
  ASSUME NEW acc, NEW d, NEW e, Kept(acc, d), e # <<>>, Keeps(d[1].receipts, e[1].receipts)
  PROVE  Kept(acc, e)
<1> SUFFICES ASSUME NEW x \in acc
             PROVE  \E p \in e[1].receipts : p.key = x.req.key /\ p.id = x.id /\ p.req = x.req
  BY DEF Kept
<1>1. PICK p \in d[1].receipts : p.key = x.req.key /\ p.id = x.id /\ p.req = x.req
  BY DEF Kept
<1> QED BY <1>1 DEF Keeps

LEMMA KeepsTrans ==
  ASSUME NEW x, NEW y, NEW z, Keeps(x, y), Keeps(y, z)
  PROVE  Keeps(x, z)
<1> SUFFICES ASSUME NEW p \in x
             PROVE  \E q \in z : q.key = p.key /\ q.id = p.id /\ q.req = p.req
  BY DEF Keeps
<1>1. PICK q \in y : q.key = p.key /\ q.id = p.id /\ q.req = p.req
  BY DEF Keeps
<1> QED BY <1>1 DEF Keeps

LEMMA KeepsSelf ==
  ASSUME NEW x
  PROVE  Keeps(x, x)
BY DEF Keeps

\* A save, acknowledged or not.
LEMMA SaveOutcome ==
  ASSUME IInv, actor.pc # "down", NEW a \in Actors, Books(a), Keeps(actor.receipts, a.receipts),
         SaveOk(a) \/ SaveErr(a)
  PROVE  /\ Shelf(disk') /\ disk' # <<>> /\ Keeps(disk'[1].receipts, a.receipts)
         /\ Kept(accepted, disk') /\ budget' \in Budgets
         /\ SaveOk(a) => disk' = <<Snapshot(a)>>
<1>1. /\ Shelf(disk) /\ disk # <<>> /\ Keeps(disk[1].receipts, a.receipts) /\ Kept(accepted, disk)
      /\ Types
  BY Facts, KeepsTrans DEF Ahead
<1> DEFINE d == <<Snapshot(a)>>
<1>2. d # <<>> /\ d[1] = Snapshot(a) /\ d = <<d[1]>>
  OBVIOUS
<1>3. Shelf(d) /\ d[1].receipts = a.receipts
  BY <1>2, SnapshotStored, SnapshotFields DEF Shelf
<1> HIDE DEF d
<1>4. Keeps(d[1].receipts, a.receipts) /\ Kept(accepted, d)
  BY <1>1, <1>2, <1>3, KeepsSelf, KeptSaved
<1>5. disk' \in {disk, d} /\ (SaveOk(a) => disk' = d)
  BY DEF SaveOk, SaveErr, d
<1>6. budget' \in Budgets
  <2>1. CASE SaveOk(a)
    BY <1>1, <2>1 DEF SaveOk, Types, Budgets
  <2>2. CASE SaveErr(a)
    BY <1>1, <2>2, Spent DEF SaveErr
  <2> QED BY <2>1, <2>2
<1>7. CASE disk' = d
  BY <1>2, <1>3, <1>4, <1>6, <1>7 DEF d
<1>8. CASE disk' = disk
  BY <1>1, <1>5, <1>6, <1>8 DEF d
<1> QED BY <1>5, <1>7, <1>8

-----------------------------------------------------------------------------
(***************************************************************************)
(* The jobs, as they are changed.                                          *)
(***************************************************************************)
\* The id, the request and the rest of the settings stay.
LEMMA StateOf ==
  ASSUME NEW j \in JobSet, NEW s \in States
  PROVE  LET k == [j EXCEPT !.state = s]
         IN  /\ k \in JobSet /\ k.id = j.id /\ k.req = j.req /\ k.rate = j.rate /\ k.state = s
             /\ k.attempts = j.attempts /\ k.waiting = j.waiting
BY DEF JobSet

LEMMA StateDueOf ==
  ASSUME NEW j \in JobSet, NEW s \in States
  PROVE  LET k == [j EXCEPT !.state = s, !.due = FALSE]
         IN  /\ k \in JobSet /\ k.id = j.id /\ k.req = j.req /\ k.rate = j.rate /\ k.state = s
             /\ k.attempts = j.attempts /\ k.waiting = j.waiting
<1> DEFINE f == FALSE
           k == [j EXCEPT !.state = s, !.due = f]
<1>1. f \in BOOLEAN
  OBVIOUS
<1> HIDE DEF f
<1>2. /\ k \in JobSet /\ k.id = j.id /\ k.req = j.req /\ k.rate = j.rate /\ k.state = s
      /\ k.attempts = j.attempts /\ k.waiting = j.waiting
  BY <1>1 DEF JobSet
<1> QED BY <1>2 DEF f

LEMMA RequeuedOf ==
  ASSUME NEW j \in JobSet
  PROVE  LET k == Requeued(j)
         IN  /\ k \in JobSet /\ k.id = j.id /\ k.req = j.req /\ k.state = "Queued"
             /\ k.attempts = 0 /\ k.waiting = j.waiting
<1> DEFINE f == FALSE
           z == 0
           s == "Queued"
           k == [j EXCEPT !.state = s, !.attempts = z, !.due = f]
<1>1. f \in BOOLEAN /\ z \in Nat /\ s \in States
  BY DEF States
<1> HIDE DEF f, z, s
<1>2. /\ k \in JobSet /\ k.id = j.id /\ k.req = j.req /\ k.state = s
      /\ k.attempts = z /\ k.waiting = j.waiting
  BY <1>1 DEF JobSet
<1> QED BY <1>2 DEF f, z, s, Requeued

LEMMA RunningOf ==
  ASSUME NEW j \in JobSet
  PROVE  LET k == Begun(j)
         IN  /\ k \in JobSet /\ k.id = j.id /\ k.req = j.req /\ k.state = "Running"
             /\ k.attempts = j.attempts + 1 /\ k.waiting = j.waiting /\ k.rate = j.rate
<1> DEFINE n == j.attempts + 1
           s == "Running"
           k == [j EXCEPT !.state = s, !.attempts = n]
<1>1. n \in Nat /\ s \in States
  BY JobFields DEF States
<1>0. k = Begun(j)
  BY DEF Begun
<1> HIDE DEF n, s
<1>2. /\ k \in JobSet /\ k.id = j.id /\ k.req = j.req /\ k.state = s
      /\ k.attempts = n /\ k.waiting = j.waiting /\ k.rate = j.rate
  BY <1>1 DEF JobSet
<1> HIDE DEF k
<1> QED BY <1>0, <1>2 DEF n, s

LEMMA WaitingOf ==
  ASSUME NEW j \in JobSet, NEW s \in States, NEW b \in BOOLEAN
  PROVE  LET k == [j EXCEPT !.state = s, !.waiting = b]
         IN  /\ k \in JobSet /\ k.id = j.id /\ k.req = j.req /\ k.state = s
             /\ k.attempts = j.attempts /\ k.waiting = b
BY DEF JobSet

LEMMA SettingOf ==
  ASSUME NEW j \in JobSet
  PROVE  /\ \A p \in Priorities : LET k == [j EXCEPT !.prio = p] IN
              /\ k \in JobSet /\ k.id = j.id /\ k.req = j.req /\ k.state = j.state
              /\ k.attempts = j.attempts /\ k.waiting = j.waiting
         /\ \A r \in Settings : LET k == [j EXCEPT !.rate = r] IN
              /\ k \in JobSet /\ k.id = j.id /\ k.req = j.req /\ k.state = j.state
              /\ k.attempts = j.attempts /\ k.waiting = j.waiting
         /\ \A d \in BOOLEAN : LET k == [j EXCEPT !.due = d] IN
              /\ k \in JobSet /\ k.id = j.id /\ k.req = j.req /\ k.state = j.state
              /\ k.attempts = j.attempts /\ k.waiting = j.waiting
BY DEF JobSet

LEMMA LinkOf ==
  ASSUME NEW j \in JobSet, NEW l \in Links, ValidLink(l.raw)
  PROVE  LET k == Relinked(j, l)
         IN  /\ k \in JobSet /\ k.id = j.id /\ k.req = j.req /\ k.state = "Paused"
             /\ k.attempts = j.attempts /\ k.waiting = j.waiting
<1> DEFINE n == l.normal
           s == "Paused"
           k == [j EXCEPT !.state = s, !.link = n]
<1>1. n \in Texts /\ s \in States
  BY RequestAssumption DEF Texts, LinksFit, ValidLink, States
<1>0. k = Relinked(j, l)
  BY DEF Relinked
<1> HIDE DEF n, s
<1>2. /\ k \in JobSet /\ k.id = j.id /\ k.req = j.req /\ k.state = s
      /\ k.attempts = j.attempts /\ k.waiting = j.waiting
  BY <1>1 DEF JobSet
<1> HIDE DEF k
<1> QED BY <1>0, <1>2 DEF s

\* A new job.
LEMMA NewJobOf ==
  ASSUME NEW id \in Numbers, NEW r \in Requests, r.sound, ValidLink(r.url)
  PROVE  /\ NewJob(id, r) \in JobSet /\ NewJob(id, r).id = id /\ NewJob(id, r).req = r
         /\ NewJob(id, r).state = "Queued" /\ NewJob(id, r).attempts = 0
         /\ NewJob(id, r).waiting = FALSE
<1> DEFINE f == FALSE
           z == 0
           s == "Queued"
           u == r.url
           p == r.prio
           k == [id |-> id, req |-> r, prio |-> p, state |-> s, attempts |-> z, rate |-> z,
                 link |-> u, due |-> f, waiting |-> f]
<1>1. f \in BOOLEAN /\ z \in Nat /\ s \in States /\ r \in Sound /\ u \in Texts /\ p \in Priorities
  BY RequestAssumption DEF States, Sound, Texts
<1>4. z \in Settings
  BY QueueAssumption DEF Settings, ValidLimit
<1>2. NewJob(id, r) = k
  BY DEF NewJob
<1> HIDE DEF f, z, s, u, p
<1>3. k \in JobSet /\ k.id = id /\ k.req = r /\ k.state = s /\ k.attempts = z /\ k.waiting = f
  BY <1>1, <1>4 DEF JobSet
<1> HIDE DEF k
<1> QED BY <1>2, <1>3 DEF f, z, s

-----------------------------------------------------------------------------
(***************************************************************************)
(* Commands.                                                               *)
(***************************************************************************)
LEMMA ReceiveStep ==
  ASSUME IInv, NEW op \in Ops \ {"none"}, NEW id \in Nat, NEW a \in Actors, Receive(op, id, a),
         workers' = workers, Books(a), Manned(a, workers), a.closing = actor.closing,
         a.failure = actor.failure, Keeps(actor.receipts, a.receipts),
         op = "Pause" =>
           \E i \in DOMAIN a.jobs : a.jobs[i].id = id /\ a.jobs[i].state \in {"Paused", "Completed"}
  PROVE  IInv'
<1> DEFINE y == TRUE
           n == FALSE
           t == "top"
           k == [op |-> op, id |-> id, ok |-> n]
           b == [a EXCEPT !.pc = t, !.dirty = y, !.ack = k]
<1>1. /\ y \in BOOLEAN /\ n \in BOOLEAN /\ y = TRUE /\ n = FALSE /\ t = "top"
      /\ t \in {"down", "top", "start", "select", "end"}
  OBVIOUS
<1>2. actor' = b /\ actor.pc = "select" /\ disk' = disk /\ inbox' = inbox /\ accepted' = accepted
      /\ Quiet
  BY DEF Receive
<1> HIDE DEF y, n, t
<1>3. k \in Acks /\ k.op = op /\ k.id = id /\ k.ok = n
  BY <1>1 DEF Acks
<1> HIDE DEF k
<1>4. /\ b \in Actors /\ b.pc = t /\ b.dirty = y /\ b.ack = k /\ b.jobs = a.jobs
      /\ b.queue = a.queue /\ b.last = a.last /\ b.receipts = a.receipts /\ b.asked = a.asked
      /\ b.closing = a.closing /\ b.failure = a.failure
  BY <1>1, <1>3 DEF Actors
<1> HIDE DEF b
<1>5. Books(b)
  BY <1>4, BooksKeep
<1>6. Manned(b, workers)
  BY <1>4 DEF Manned
<1>7. Place(b, workers) /\ Flags(b)
  <2>1. Flags(actor)
    BY Facts
  <2> QED BY <1>1, <1>4, <2>1 DEF Place, Flags
<1>8. Owed(b)
  BY <1>1, <1>3, <1>4 DEF Owed
<1>9. Synced(b, disk)
  BY <1>1, <1>4 DEF Synced
<1>10. Ahead(b, disk)
  BY <1>2, <1>4, Facts, KeepsTrans DEF Ahead
<1>11. Good(b, workers, disk)
  BY <1>4, <1>5, <1>6, <1>7, <1>8, <1>9, <1>10 DEF Good
<1>12. budget' \in Budgets
  BY Facts, Spent DEF Receive
<1>13. Shelf(disk) /\ Kept(accepted, disk)
  BY Facts
<1> QED BY <1>2, <1>11, <1>12, <1>13, QuietStep

\* One job is changed, and is at work as it was.
LEMMA PutBooks ==
  ASSUME NEW a \in Actors, Books(a), NEW p \in DOMAIN a.jobs, NEW j \in JobSet,
         j.id = a.jobs[p].id, j.req = a.jobs[p].req, NEW b \in Actors, b.jobs = Put(a.jobs, j),
         b.last = a.last, b.receipts = a.receipts, a.asked \subseteq b.asked,
         JobOK(j, a.last, b.asked), IsInjective(b.queue), ToSet(b.queue) \subseteq Ids(a.jobs),
         \A x \in ToSet(b.queue) : x \in ToSet(a.queue) \/ x = j.id,
         Away(j) => j.id \notin ToSet(b.queue)
  PROVE  Books(b) /\ SameNames(a.jobs, b.jobs)
<1>1. a.jobs \in Seq(JobSet) /\ Distinct(a.jobs) /\ Line(a.jobs, a.queue)
  BY ActorFields DEF Books
<1>2. /\ DOMAIN b.jobs = DOMAIN a.jobs /\ b.jobs[p] = j
      /\ \A i \in DOMAIN a.jobs : i # p => b.jobs[i] = a.jobs[i]
  BY <1>1, PutOf
<1>3. SameNames(a.jobs, b.jobs)
  BY <1>1, PutSame
<1>4. \A i \in DOMAIN a.jobs : JobOK(b.jobs[i], b.last, b.asked)
  <2> TAKE i \in DOMAIN a.jobs
  <2>1. CASE i = p
    BY <1>2, <2>1
  <2>2. CASE i # p
    <3>1. JobOK(a.jobs[i], a.last, a.asked)
      BY DEF Books
    <3>2. b.jobs[i] = a.jobs[i]
      BY <1>2, <2>2
    <3> QED BY <3>1, <3>2 DEF JobOK
  <2> QED BY <2>1, <2>2
<1>5. Line(b.jobs, b.queue)
  <2>1. Ids(b.jobs) = Ids(a.jobs)
    BY <1>3, SameIds
  <2>2. ASSUME NEW i \in DOMAIN b.jobs, Away(b.jobs[i])
        PROVE  b.jobs[i].id \notin ToSet(b.queue)
    <3>1. CASE i = p
      BY <1>2, <2>2, <3>1
    <3>2. CASE i # p
      <4>1. b.jobs[i] = a.jobs[i] /\ i \in DOMAIN a.jobs
        BY <1>2, <3>2
      <4>2. a.jobs[i].id \notin ToSet(a.queue)
        BY <1>1, <2>2, <4>1 DEF Line
      <4>3. a.jobs[i].id # j.id
        BY <1>1, <3>2, <4>1 DEF Distinct
      <4> QED BY <4>1, <4>2, <4>3
    <3> QED BY <3>1, <3>2
  <2> QED BY <2>1, <2>2 DEF Line
<1> QED BY <1>3, <1>4, <1>5, BooksSame

\* The workers of the same jobs.
LEMMA MannedSame ==
  ASSUME NEW a \in Actors, NEW b \in Actors, NEW ws, Distinct(a.jobs), Manned(a, ws),
         SameNames(a.jobs, b.jobs), \A i \in DOMAIN a.jobs : Busy(b.jobs[i]) <=> Busy(a.jobs[i])
  PROVE  Manned(b, ws)
<1>1. Covers(a.jobs, b.jobs) /\ Covers(b.jobs, a.jobs) /\ Distinct(b.jobs)
  BY CoversSame, SameIds
<1>2. a.jobs \in Seq(JobSet) /\ b.jobs \in Seq(JobSet)
  BY ActorFields
<1> QED BY <1>1, <1>2, CrewLike, SpreadFewer DEF Manned

\* A command that changes one job, and nobody's work.
LEMMA PutStep ==
  ASSUME IInv, NEW op \in Ops \ {"none"}, NEW id \in Ids(actor.jobs), NEW j \in JobSet,
         NEW b \in Actors, Receive(op, id, b), workers' = workers,
         b.closing = actor.closing, b.failure = actor.failure, b.receipts = actor.receipts,
         b.last = actor.last, b.jobs = Put(actor.jobs, j), actor.asked \subseteq b.asked,
         j.id = id, j.req = Job(actor.jobs, id).req, JobOK(j, actor.last, b.asked),
         Busy(j) <=> Busy(Job(actor.jobs, id)),
         IsInjective(b.queue), ToSet(b.queue) \subseteq Ids(actor.jobs),
         \A x \in ToSet(b.queue) : x \in ToSet(actor.queue) \/ x = id,
         Away(j) => id \notin ToSet(b.queue),
         op = "Pause" => j.state = "Paused"
  PROVE  IInv'
<1>1. /\ actor \in Actors /\ Books(actor) /\ Distinct(actor.jobs) /\ Manned(actor, workers)
      /\ actor.jobs \in Seq(JobSet)
  BY Facts, ActorFields DEF Books
<1>2. PICK p \in DOMAIN actor.jobs : actor.jobs[p].id = id /\ Job(actor.jobs, id) = actor.jobs[p]
  BY <1>1, FoundBy
<1>3. Books(b) /\ SameNames(actor.jobs, b.jobs)
  BY <1>1, <1>2, PutBooks
<1>4. /\ DOMAIN b.jobs = DOMAIN actor.jobs /\ b.jobs[p] = j
      /\ \A i \in DOMAIN actor.jobs : i # p => b.jobs[i] = actor.jobs[i]
  BY <1>1, <1>2, PutOf
<1>5. \A i \in DOMAIN actor.jobs : Busy(b.jobs[i]) <=> Busy(actor.jobs[i])
  BY <1>2, <1>4
<1>6. Manned(b, workers)
  BY <1>1, <1>3, <1>5, MannedSame
<1>7. id \in Nat
  BY <1>1, <1>2, JobFields
<1>8. op = "Pause" =>
        \E i \in DOMAIN b.jobs : b.jobs[i].id = id /\ b.jobs[i].state \in {"Paused", "Completed"}
  BY <1>4
<1>9. Keeps(actor.receipts, b.receipts)
  BY KeepsSelf
<1> QED BY <1>3, <1>6, <1>7, <1>8, <1>9, ReceiveStep

\* The job a command is about.
LEMMA TheJob ==
  ASSUME IInv, NEW id \in Ids(actor.jobs)
  PROVE  /\ Job(actor.jobs, id) \in JobSet /\ Job(actor.jobs, id).id = id
         /\ JobOK(Job(actor.jobs, id), actor.last, actor.asked)
         /\ Away(Job(actor.jobs, id)) => id \notin ToSet(actor.queue)
         /\ actor \in Actors /\ actor.queue \in Seq(Nat) /\ IsInjective(actor.queue)
         /\ ToSet(actor.queue) \subseteq Ids(actor.jobs) /\ actor.jobs \in Seq(JobSet)
         /\ Distinct(actor.jobs) /\ id \in Nat /\ actor.asked \subseteq Nat
<1>1. /\ actor \in Actors /\ Books(actor) /\ Distinct(actor.jobs) /\ Line(actor.jobs, actor.queue)
      /\ actor.jobs \in Seq(JobSet) /\ actor.queue \in Seq(Nat) /\ actor.asked \subseteq Nat
  BY Facts, ActorFields DEF Books
<1>2. PICK p \in DOMAIN actor.jobs : actor.jobs[p].id = id /\ Job(actor.jobs, id) = actor.jobs[p]
  BY <1>1, FoundBy
<1>3. actor.jobs[p] \in JobSet
  BY <1>1
<1>4. JobOK(actor.jobs[p], actor.last, actor.asked)
  BY <1>1 DEF Books
<1>5. Away(actor.jobs[p]) => actor.jobs[p].id \notin ToSet(actor.queue)
  BY <1>1 DEF Line
<1>6. IsInjective(actor.queue) /\ ToSet(actor.queue) \subseteq Ids(actor.jobs)
  BY <1>1 DEF Line
<1>7. id \in Nat
  BY <1>2, <1>3, JobFields
<1> QED BY <1>1, <1>2, <1>3, <1>4, <1>5, <1>6, <1>7

LEMMA PutType ==
  ASSUME NEW jobs \in Seq(JobSet), Distinct(jobs), NEW id \in Ids(jobs), NEW j \in JobSet, j.id = id
  PROVE  Put(jobs, j) \in Seq(JobSet)
<1>1. PICK p \in DOMAIN jobs : jobs[p].id = id
  BY FoundBy
<1> QED BY <1>1, PutOf

LEMMA PauseKeeps ==
  ASSUME IInv, NEW id, Pause(id)
  PROVE  IInv'
<1> DEFINE j == Job(actor.jobs, id)
           k == [j EXCEPT !.state = "Paused", !.due = FALSE]
           q == IF j.state = "Paused" THEN actor.queue ELSE Without(actor.queue, id)
           u == Put(actor.jobs, k)
           b == [actor EXCEPT !.jobs = u, !.queue = q]
<1>0. id \in Ids(actor.jobs) /\ j.state \in {"Queued", "RetryWaiting", "Paused"} /\ workers' = workers
  BY DEF Pause
<1>1. /\ j \in JobSet /\ j.id = id /\ JobOK(j, actor.last, actor.asked)
      /\ actor \in Actors /\ actor.queue \in Seq(Nat) /\ IsInjective(actor.queue)
      /\ ToSet(actor.queue) \subseteq Ids(actor.jobs) /\ actor.jobs \in Seq(JobSet)
      /\ Distinct(actor.jobs)
  BY <1>0, TheJob
<1>2. Receive("Pause", id, b)
  BY <1>1 DEF Pause, Actors
<1>3. /\ k \in JobSet /\ k.id = id /\ k.req = j.req /\ k.state = "Paused"
      /\ k.attempts = j.attempts /\ k.waiting = j.waiting
  <2> HIDE DEF j
  <2>1. "Paused" \in States
    BY DEF States
  <2> QED BY <1>1, <2>1, StateDueOf
<1>4. q \in Seq(Nat) /\ IsInjective(q) /\ ToSet(q) \subseteq ToSet(actor.queue)
  BY <1>1, WithoutOf
<1> HIDE DEF j, k, q
<1>5. u \in Seq(JobSet)
  BY <1>0, <1>1, <1>3, PutType
<1>6. JobOK(k, actor.last, actor.asked) /\ ~Busy(k) /\ ~Away(k) /\ ~Busy(j)
  BY <1>0, <1>1, <1>3 DEF JobOK, Busy, Away
<1> HIDE DEF u
<1>7. /\ b \in Actors /\ b.jobs = u /\ b.queue = q /\ b.closing = actor.closing
      /\ b.failure = actor.failure /\ b.receipts = actor.receipts /\ b.last = actor.last
      /\ b.asked = actor.asked
  BY <1>1, <1>4, <1>5 DEF Actors
<1> HIDE DEF b
<1>8. "Pause" \in Ops \ {"none"}
  BY DEF Ops
<1>9. b.jobs = Put(actor.jobs, k) /\ k.req = Job(actor.jobs, id).req /\ ~Busy(Job(actor.jobs, id))
  BY <1>3, <1>6, <1>7 DEF u, j
<1>10. /\ IsInjective(b.queue) /\ ToSet(b.queue) \subseteq Ids(actor.jobs)
       /\ \A x \in ToSet(b.queue) : x \in ToSet(actor.queue) \/ x = id
  BY <1>1, <1>4, <1>7
<1>11. JobOK(k, actor.last, b.asked) /\ actor.asked \subseteq b.asked
  BY <1>6, <1>7
<1> QED BY <1>0, <1>2, <1>3, <1>6, <1>7, <1>8, <1>9, <1>10, <1>11, PutStep

LEMMA ResumeKeeps ==
  ASSUME IInv, NEW id, Resume(id)
  PROVE  IInv'
<1> DEFINE j == Job(actor.jobs, id)
           k == Requeued(j)
           w == Without(actor.queue, id)
           q == Append(w, id)
           u == Put(actor.jobs, k)
           s == actor.asked \cup {id}
           b == [actor EXCEPT !.jobs = u, !.queue = q, !.asked = s]
<1>0. id \in Ids(actor.jobs) /\ Resting(j) /\ workers' = workers
  BY DEF Resume
<1>1. /\ j \in JobSet /\ j.id = id /\ JobOK(j, actor.last, actor.asked) /\ id \in Nat
      /\ actor \in Actors /\ actor.queue \in Seq(Nat) /\ IsInjective(actor.queue)
      /\ ToSet(actor.queue) \subseteq Ids(actor.jobs) /\ actor.jobs \in Seq(JobSet)
      /\ Distinct(actor.jobs) /\ actor.asked \subseteq Nat
  BY <1>0, TheJob
<1>2. Receive("Resume", id, b)
  BY <1>1 DEF Resume, Actors
<1> HIDE DEF j
<1>3. k \in JobSet /\ k.id = id /\ k.req = j.req /\ k.state = "Queued" /\ k.attempts = 0
      /\ k.waiting = j.waiting
  BY <1>1, RequeuedOf
<1>4. w \in Seq(Nat) /\ IsInjective(w) /\ ToSet(w) = ToSet(actor.queue) \ {id}
  BY <1>1, WithoutOf
<1> HIDE DEF k, w
<1>5. q \in Seq(Nat) /\ IsInjective(q) /\ ToSet(q) = ToSet(w) \cup {id}
  <2>1. id \notin ToSet(w) /\ w \in Seq(Nat) /\ IsInjective(w)
    BY <1>4
  <2>2. id \in Nat
    BY <1>1
  <2> QED BY <2>1, <2>2, AppendOf
<1>6. u \in Seq(JobSet)
  BY <1>0, <1>1, <1>3, PutType
<1>7. s \in SUBSET Nat
  BY <1>1
<1>8. JobOK(k, actor.last, s) /\ ~Busy(k) /\ ~Away(k) /\ ~Busy(j)
  <2>1. ~Busy(k) /\ ~Away(k) /\ ~Busy(j)
    BY <1>0, <1>3 DEF Busy, Away, Resting
  <2>2. 0 <= MaxAttempts /\ 0 < MaxAttempts
    BY QueueAssumption
  <2>3. j.waiting = FALSE
    BY <1>0, <1>1, JobFields DEF JobOK, Resting
  <2> QED BY <1>1, <1>3, <2>1, <2>2, <2>3 DEF JobOK
<1> HIDE DEF q, u, s
<1>9. /\ b \in Actors /\ b.jobs = u /\ b.queue = q /\ b.closing = actor.closing
      /\ b.failure = actor.failure /\ b.receipts = actor.receipts /\ b.last = actor.last
      /\ b.asked = s
  BY <1>1, <1>5, <1>6, <1>7 DEF Actors
<1> HIDE DEF b
<1>10. "Resume" \in Ops \ {"none"} /\ "Resume" # "Pause"
  BY DEF Ops
<1>11. b.jobs = Put(actor.jobs, k) /\ k.req = Job(actor.jobs, id).req /\ ~Busy(Job(actor.jobs, id))
  BY <1>3, <1>8, <1>9 DEF u, j
<1>12. /\ IsInjective(b.queue) /\ ToSet(b.queue) \subseteq Ids(actor.jobs)
       /\ \A x \in ToSet(b.queue) : x \in ToSet(actor.queue) \/ x = id
  BY <1>0, <1>1, <1>4, <1>5, <1>9
<1>13. JobOK(k, actor.last, b.asked) /\ actor.asked \subseteq b.asked
  BY <1>8, <1>9 DEF s
<1> QED BY <1>0, <1>2, <1>3, <1>8, <1>9, <1>10, <1>11, <1>12, <1>13, PutStep

\* A setting of a job.
LEMMA SettingStep ==
  ASSUME IInv, NEW op \in Ops \ {"none", "Pause"}, NEW id \in Ids(actor.jobs), NEW k \in JobSet,
         k.id = id, k.req = Job(actor.jobs, id).req, JobOK(k, actor.last, actor.asked),
         Busy(k) <=> Busy(Job(actor.jobs, id)), Away(k) => Away(Job(actor.jobs, id)),
         Receive(op, id, [actor EXCEPT !.jobs = Put(actor.jobs, k)]), workers' = workers
  PROVE  IInv'
<1> DEFINE u == Put(actor.jobs, k)
           b == [actor EXCEPT !.jobs = u]
<1>1. /\ actor \in Actors /\ IsInjective(actor.queue) /\ ToSet(actor.queue) \subseteq Ids(actor.jobs)
      /\ actor.jobs \in Seq(JobSet) /\ Distinct(actor.jobs)
      /\ Away(Job(actor.jobs, id)) => id \notin ToSet(actor.queue)
  BY TheJob
<1>2. u \in Seq(JobSet)
  BY <1>1, PutType
<1>3. Receive(op, id, b)
  OBVIOUS
<1> HIDE DEF u
<1>4. /\ b \in Actors /\ b.jobs = u /\ b.queue = actor.queue /\ b.closing = actor.closing
      /\ b.failure = actor.failure /\ b.receipts = actor.receipts /\ b.last = actor.last
      /\ b.asked = actor.asked
  BY <1>1, <1>2 DEF Actors
<1> HIDE DEF b
<1>5. b.jobs = Put(actor.jobs, k)
  BY <1>4 DEF u
<1> QED BY <1>1, <1>3, <1>4, <1>5, PutStep

LEMMA SetPriorityKeeps ==
  ASSUME IInv, NEW id, NEW prio \in Priorities, SetPriority(id, prio)
  PROVE  IInv'
<1> DEFINE j == Job(actor.jobs, id)
           k == [j EXCEPT !.prio = prio]
<1>1. id \in Ids(actor.jobs) /\ workers' = workers
  BY DEF SetPriority
<1>2. j \in JobSet /\ j.id = id /\ JobOK(j, actor.last, actor.asked) /\ actor \in Actors
  BY <1>1, TheJob
<1>3. Receive("SetPriority", id, [actor EXCEPT !.jobs = Put(actor.jobs, k)])
  BY <1>2 DEF SetPriority, Actors
<1> HIDE DEF j
<1>4. /\ k \in JobSet /\ k.id = j.id /\ k.req = j.req /\ k.state = j.state
      /\ k.attempts = j.attempts /\ k.waiting = j.waiting
  BY <1>2, SettingOf
<1> HIDE DEF k
<1>5. JobOK(k, actor.last, actor.asked) /\ (Busy(k) <=> Busy(j)) /\ (Away(k) => Away(j))
  BY <1>2, <1>4 DEF JobOK, Busy, Away
<1>6. "SetPriority" \in Ops \ {"none", "Pause"}
  BY DEF Ops
<1> QED BY <1>1, <1>2, <1>3, <1>4, <1>5, <1>6, SettingStep DEF j

LEMMA JobRateKeeps ==
  ASSUME IInv, NEW id, NEW rate \in Rates, JobRate(id, rate)
  PROVE  IInv'
<1> DEFINE j == Job(actor.jobs, id)
           k == [j EXCEPT !.rate = rate]
<1>1. id \in Ids(actor.jobs) /\ workers' = workers /\ rate \in Settings
  BY DEF JobRate, Settings
<1>2. j \in JobSet /\ j.id = id /\ JobOK(j, actor.last, actor.asked) /\ actor \in Actors
  BY <1>1, TheJob
<1>3. Receive("JobRate", id, [actor EXCEPT !.jobs = Put(actor.jobs, k)])
  BY <1>2 DEF JobRate, Actors
<1> HIDE DEF j
<1>4. /\ k \in JobSet /\ k.id = j.id /\ k.req = j.req /\ k.state = j.state
      /\ k.attempts = j.attempts /\ k.waiting = j.waiting
  BY <1>1, <1>2, SettingOf
<1> HIDE DEF k
<1>5. JobOK(k, actor.last, actor.asked) /\ (Busy(k) <=> Busy(j)) /\ (Away(k) => Away(j))
  BY <1>2, <1>4 DEF JobOK, Busy, Away
<1>6. "JobRate" \in Ops \ {"none", "Pause"}
  BY DEF Ops
<1> QED BY <1>1, <1>2, <1>3, <1>4, <1>5, <1>6, SettingStep DEF j

LEMMA RefreshKeeps ==
  ASSUME IInv, NEW id, NEW l \in Links, Refresh(id, l)
  PROVE  IInv'
<1> DEFINE j == Job(actor.jobs, id)
           k == Relinked(j, l)
<1>1. id \in Ids(actor.jobs) /\ workers' = workers /\ Resting(j) /\ ValidLink(l.raw)
  BY DEF Refresh
<1>2. j \in JobSet /\ j.id = id /\ JobOK(j, actor.last, actor.asked) /\ actor \in Actors
  BY <1>1, TheJob
<1>3. Receive("Refresh", id, [actor EXCEPT !.jobs = Put(actor.jobs, k)])
  BY DEF Refresh
<1> HIDE DEF j
<1>4. /\ k \in JobSet /\ k.id = j.id /\ k.req = j.req /\ k.state = "Paused"
      /\ k.attempts = j.attempts /\ k.waiting = j.waiting
  BY <1>1, <1>2, LinkOf
<1> HIDE DEF k
<1>5. JobOK(k, actor.last, actor.asked) /\ (Busy(k) <=> Busy(j)) /\ (Away(k) => Away(j))
  BY <1>1, <1>2, <1>4 DEF JobOK, Busy, Away, Resting
<1>6. "Refresh" \in Ops \ {"none", "Pause"}
  BY DEF Ops
<1> QED BY <1>1, <1>2, <1>3, <1>4, <1>5, <1>6, SettingStep DEF j

LEMMA GlobalRateKeeps ==
  ASSUME IInv, NEW rate \in Rates, GlobalRate(rate)
  PROVE  IInv'
<1> DEFINE b == [actor EXCEPT !.rate = rate]
           z == 0
<1>1. actor \in Actors /\ Books(actor) /\ Manned(actor, workers)
  BY Facts
<1>2. /\ b \in Actors /\ b.jobs = actor.jobs /\ b.queue = actor.queue /\ b.closing = actor.closing
      /\ b.failure = actor.failure /\ b.receipts = actor.receipts /\ b.last = actor.last
      /\ b.asked = actor.asked
  <2>1. rate \in Settings
    BY DEF GlobalRate, Settings
  <2> QED BY <1>1, <2>1 DEF Actors
<1>3. Receive("GlobalRate", z, b) /\ workers' = workers /\ z \in Nat
  BY DEF GlobalRate
<1> HIDE DEF b, z
<1>4. Books(b)
  BY <1>1, <1>2, BooksKeep
<1>5. Manned(b, workers)
  BY <1>1, <1>2 DEF Manned
<1>6. "GlobalRate" \in Ops \ {"none"} /\ "GlobalRate" # "Pause"
  BY DEF Ops
<1>7. Keeps(actor.receipts, b.receipts)
  BY <1>2, KeepsSelf
<1> QED BY <1>2, <1>3, <1>4, <1>5, <1>6, <1>7, ReceiveStep

\* A job more.
LEMMA AppendBooks ==
  ASSUME NEW a \in Actors, Books(a), NEW b \in Actors, NEW j \in JobSet, j.id = a.last + 1,
         j.state = "Queued", j.attempts = 0, j.waiting = FALSE,
         \A i \in DOMAIN a.jobs : a.jobs[i].req.dir # j.req.dir,
         Len(a.jobs) < MaxJobs, b.jobs = Append(a.jobs, j), b.queue = Append(a.queue, j.id),
         b.last = j.id, b.asked = a.asked \cup {j.id},
         \/ j.req.key = 0 /\ b.receipts = a.receipts
         \/ \E p \in Receipts :
              /\ b.receipts = a.receipts \cup {p}
              /\ p.key = j.req.key /\ p.id = j.id /\ p.req = j.req /\ p.removed = FALSE
              /\ \A q \in a.receipts : q.key # p.key
              /\ Cardinality(a.receipts) < MaxReceipts
  PROVE  Books(b) /\ Covers(a.jobs, b.jobs) /\ Covers(b.jobs, a.jobs)
<1> DEFINE n == Len(a.jobs)
<1>1. /\ a.jobs \in Seq(JobSet) /\ a.queue \in Seq(Nat) /\ a.last \in Nat /\ Distinct(a.jobs)
      /\ Line(a.jobs, a.queue) /\ Keyed(a.jobs, a.receipts)
      /\ Filed(Ids(a.jobs), a.last, a.receipts) /\ a.receipts \subseteq Receipts
  BY ActorFields DEF Books
<1>2. /\ n \in Nat /\ DOMAIN a.jobs = 1 .. n /\ DOMAIN b.jobs = 1 .. n + 1
      /\ Len(b.jobs) = n + 1 /\ b.jobs[n + 1] = j /\ \A i \in 1 .. n : b.jobs[i] = a.jobs[i]
  BY <1>1
<1> HIDE DEF n
<1>3. \A i \in 1 .. n + 1 : i \in 1 .. n \/ i = n + 1
  BY <1>2
<1>4. \A i \in 1 .. n : /\ JobOK(a.jobs[i], a.last, a.asked) /\ a.jobs[i].id \in Nat
                        /\ a.jobs[i].id <= a.last /\ a.jobs[i].id # j.id
  <2> TAKE i \in 1 .. n
  <2>1. JobOK(a.jobs[i], a.last, a.asked)
    BY <1>2 DEF Books
  <2>2. a.jobs[i] \in JobSet
    BY <1>1, <1>2
  <2>3. a.jobs[i].id \in Nat
    BY <2>2, JobFields
  <2>4. a.jobs[i].id <= a.last
    BY <2>1 DEF JobOK
  <2>5. a.last \in Nat
    BY <1>1
  <2> QED BY <2>1, <2>3, <2>4, <2>5
<1>5. Ids(b.jobs) = Ids(a.jobs) \cup {j.id} /\ j.id \notin Ids(a.jobs)
  <2>1. Ids(b.jobs) = {b.jobs[i].id : i \in 1 .. n + 1} /\ Ids(a.jobs) = {a.jobs[i].id : i \in 1 .. n}
    BY <1>2, IdsOf
  <2>2. 1 .. n \subseteq 1 .. n + 1 /\ n + 1 \in 1 .. n + 1
    BY <1>2
  <2>3. Ids(b.jobs) \subseteq Ids(a.jobs) \cup {j.id}
    BY <1>2, <1>3, <2>1
  <2>4. Ids(a.jobs) \subseteq Ids(b.jobs)
    BY <1>2, <2>1, <2>2
  <2>5. j.id \in Ids(b.jobs)
    BY <1>2, <2>1, <2>2
  <2> QED BY <1>4, <2>1, <2>3, <2>4, <2>5
<1>6. Len(b.jobs) <= MaxJobs
  <2>1. MaxJobs \in Nat /\ n < MaxJobs
    BY QueueAssumption DEF n
  <2> QED BY <1>2, <2>1
<1>7. Distinct(b.jobs)
  <2>1. \A i, k \in 1 .. n : b.jobs[i].id = b.jobs[k].id => i = k
    <3>1. \A i, k \in 1 .. n : a.jobs[i].id = a.jobs[k].id => i = k
      BY <1>1, <1>2 DEF Distinct
    <3> TAKE i, k \in 1 .. n
    <3>2. b.jobs[i] = a.jobs[i] /\ b.jobs[k] = a.jobs[k]
      BY <1>2
    <3> QED BY <3>1, <3>2
  <2>2. \A i \in 1 .. n : b.jobs[i].id # b.jobs[n + 1].id
    BY <1>2, <1>4
  <2> QED BY <1>2, <1>3, <2>1, <2>2 DEF Distinct
<1>8. \A i \in DOMAIN b.jobs : JobOK(b.jobs[i], b.last, b.asked)
  <2> SUFFICES ASSUME NEW i \in 1 .. n + 1 PROVE JobOK(b.jobs[i], b.last, b.asked)
    BY <1>2
  <2>1. CASE i \in 1 .. n
    <3>1. b.jobs[i] = a.jobs[i] /\ JobOK(a.jobs[i], a.last, a.asked) /\ a.jobs[i].id \in Nat
      BY <1>2, <1>4, <2>1
    <3>2. a.jobs[i].id <= b.last
      BY <1>1, <1>4, <2>1, <3>1
    <3> QED BY <3>1, <3>2 DEF JobOK
  <2>2. CASE i = n + 1
    <3>1. 0 <= MaxAttempts /\ 0 < MaxAttempts
      BY QueueAssumption
    <3>2. j.id <= b.last
      BY <1>1
    <3> QED BY <1>2, <2>2, <3>1, <3>2 DEF JobOK
  <2> QED BY <1>3, <2>1, <2>2
<1>9. Line(b.jobs, b.queue)
  <2>a. j.id \in Nat
    BY JobFields
  <2>b. IsInjective(a.queue) /\ ToSet(a.queue) \subseteq Ids(a.jobs)
    BY <1>1 DEF Line
  <2>1. IsInjective(a.queue) /\ ToSet(a.queue) \subseteq Ids(a.jobs) /\ j.id \in Nat
    BY <2>a, <2>b
  <2>2. IsInjective(b.queue) /\ ToSet(b.queue) = ToSet(a.queue) \cup {j.id}
    BY <1>1, <1>5, <2>1, AppendOf
  <2>3. ASSUME NEW i \in DOMAIN b.jobs, Away(b.jobs[i])
        PROVE  b.jobs[i].id \notin ToSet(b.queue)
    <3>1. i # n + 1
      BY <1>2, <2>3 DEF Away
    <3>2. i \in 1 .. n /\ b.jobs[i] = a.jobs[i]
      BY <1>2, <1>3, <3>1
    <3>3. a.jobs[i].id \notin ToSet(a.queue)
      BY <1>1, <1>2, <2>3, <3>2 DEF Line
    <3> QED BY <1>4, <2>2, <3>2, <3>3
  <2> QED BY <1>5, <2>1, <2>2, <2>3 DEF Line
<1>10. Keyed(b.jobs, b.receipts) /\ Filed(Ids(b.jobs), b.last, b.receipts)
  <2>0. /\ \A p \in a.receipts : p.id \in Nat /\ p.id <= a.last /\ p.id # j.id
        /\ \A p \in a.receipts : p.removed = (p.id \notin Ids(b.jobs)) /\ p.id <= b.last
    <3>1. \A p \in a.receipts : p.id \in Nat /\ p.id <= a.last
      BY <1>1 DEF Receipts, Filed
    <3>2. \A p \in a.receipts : p.id # j.id /\ p.id <= b.last
      BY <1>1, <3>1
    <3> QED BY <1>1, <1>5, <3>1, <3>2 DEF Filed
  <2>1. CASE j.req.key = 0 /\ b.receipts = a.receipts
    <3>1. Keyed(b.jobs, b.receipts)
      BY <1>1, <1>2, <1>3, <2>1 DEF Keyed
    <3> QED BY <1>1, <2>0, <2>1, <3>1 DEF Filed
  <2>2. ASSUME NEW p \in Receipts, b.receipts = a.receipts \cup {p}, p.key = j.req.key,
               p.id = j.id, p.req = j.req, p.removed = FALSE, \A q \in a.receipts : q.key # p.key,
               Cardinality(a.receipts) < MaxReceipts
        PROVE  Keyed(b.jobs, b.receipts) /\ Filed(Ids(b.jobs), b.last, b.receipts)
    <3>1. Keyed(b.jobs, b.receipts)
      <4> SUFFICES ASSUME NEW i \in DOMAIN b.jobs, b.jobs[i].req.key # 0
                   PROVE  \E q \in b.receipts : /\ q.key = b.jobs[i].req.key /\ q.id = b.jobs[i].id
                                                /\ q.req = b.jobs[i].req
        BY DEF Keyed
      <4>1. CASE i \in 1 .. n
        <5>1. PICK q \in a.receipts : /\ q.key = a.jobs[i].req.key /\ q.id = a.jobs[i].id
                                      /\ q.req = a.jobs[i].req
          BY <1>1, <1>2, <4>1 DEF Keyed
        <5> QED BY <1>2, <2>2, <4>1, <5>1
      <4>2. CASE i = n + 1
        BY <1>2, <2>2, <4>2
      <4> QED BY <1>2, <1>3, <4>1, <4>2
    <3>2. IsFiniteSet(a.receipts) /\ Cardinality(a.receipts) \in Nat /\ MaxReceipts \in Nat
      BY <1>1, FS_CardinalityType, QueueAssumption DEF Filed
    <3>3. /\ IsFiniteSet(b.receipts)
          /\ Cardinality(b.receipts) = IF p \in a.receipts THEN Cardinality(a.receipts)
                                       ELSE Cardinality(a.receipts) + 1
      <4> DEFINE R == a.receipts
      <4>1. IsFiniteSet(R) /\ b.receipts = R \cup {p}
        BY <2>2, <3>2
      <4> HIDE DEF R
      <4>2. /\ IsFiniteSet(R \cup {p})
            /\ Cardinality(R \cup {p}) = IF p \in R THEN Cardinality(R) ELSE Cardinality(R) + 1
        BY <4>1, FS_AddElement
      <4> QED BY <4>1, <4>2 DEF R
    <3>4. Cardinality(b.receipts) <= MaxReceipts
      BY <2>2, <3>2, <3>3
    <3>5. \A x, y \in b.receipts : x.key = y.key \/ x.id = y.id => x = y
      <4>1. \A x, y \in a.receipts : x.key = y.key \/ x.id = y.id => x = y
        BY <1>1 DEF Filed
      <4>2. \A x \in a.receipts : x.key # p.key /\ x.id # p.id
        BY <2>0, <2>2
      <4> QED BY <2>2, <4>1, <4>2
    <3>6. p.removed = (p.id \notin Ids(b.jobs)) /\ p.id <= b.last
      <4>1. p.removed = FALSE
        BY <2>2 DEF Receipts
      <4>2. p.id \in Ids(b.jobs)
        BY <1>5, <2>2
      <4>3. p.id <= b.last
        BY <1>1, <2>2
      <4> QED BY <4>1, <4>2, <4>3
    <3>7. \A x \in b.receipts : x.removed = (x.id \notin Ids(b.jobs)) /\ x.id <= b.last
      BY <2>0, <2>2, <3>6
    <3> QED BY <3>1, <3>3, <3>4, <3>5, <3>7 DEF Filed
  <2>3. CASE ~(j.req.key = 0 /\ b.receipts = a.receipts)
    <3>1. PICK p \in Receipts : /\ b.receipts = a.receipts \cup {p}
                                /\ p.key = j.req.key /\ p.id = j.id /\ p.req = j.req /\ p.removed = FALSE
                                /\ \A q \in a.receipts : q.key # p.key
                                /\ Cardinality(a.receipts) < MaxReceipts
      BY <2>3
    <3> QED BY <2>2, <3>1
  <2> QED BY <2>1, <2>3
<1>14. Apart(b.jobs)
  <2>1. \A i, k \in 1 .. n : b.jobs[i].req.dir = b.jobs[k].req.dir => i = k
    <3>1. \A i, k \in 1 .. n : a.jobs[i].req.dir = a.jobs[k].req.dir => i = k
      BY <1>2 DEF Books, Apart
    <3> TAKE i, k \in 1 .. n
    <3>2. b.jobs[i] = a.jobs[i] /\ b.jobs[k] = a.jobs[k]
      BY <1>2
    <3> QED BY <3>1, <3>2
  <2>2. \A i \in 1 .. n : b.jobs[i].req.dir # b.jobs[n + 1].req.dir
    BY <1>2
  <2> QED BY <1>2, <1>3, <2>1, <2>2 DEF Apart
<1>11. Books(b)
  BY <1>6, <1>7, <1>8, <1>9, <1>10, <1>14 DEF Books
<1>12. Covers(a.jobs, b.jobs)
  <2>1. 1 .. n \subseteq 1 .. n + 1
    BY <1>2
  <2> QED BY <1>2, <2>1 DEF Covers
<1>13. Covers(b.jobs, a.jobs)
  <2>1. ~Busy(b.jobs[n + 1])
    BY <1>2 DEF Busy
  <2> QED BY <1>2, <1>3, <2>1 DEF Covers
<1> QED BY <1>11, <1>12, <1>13

LEMMA EnqueueKeeps ==
  ASSUME IInv, NEW r \in Requests, Enqueue(r)
  PROVE  IInv'
<1> DEFINE id == actor.last + 1
           n == FALSE
           j == NewJob(id, r)
           p == [key |-> r.key, req |-> r, id |-> id, removed |-> n]
           rs == IF r.key = 0 THEN actor.receipts ELSE actor.receipts \cup {p}
           u == Append(actor.jobs, j)
           q == Append(actor.queue, id)
           s == actor.asked \cup {id}
           b == [actor EXCEPT !.last = id, !.jobs = u, !.queue = q, !.asked = s, !.receipts = rs]
<1>1. /\ actor \in Actors /\ Books(actor) /\ Manned(actor, workers)
      /\ actor.jobs \in Seq(JobSet) /\ actor.queue \in Seq(Nat) /\ actor.last \in Nat
      /\ actor.receipts \in SUBSET Receipts /\ actor.asked \in SUBSET Nat
  BY Facts, ActorFields
<1>2. /\ Receive("Enqueue", id, b) /\ workers' = workers /\ Len(actor.jobs) < MaxJobs
      /\ r.key # 0 => ReceiptOf(r) = {} /\ Cardinality(actor.receipts) < MaxReceipts
      /\ r.sound /\ ValidLink(r.url) /\ actor.last < MaxIds
      /\ \A i \in DOMAIN actor.jobs : actor.jobs[i].req.dir # r.dir
  BY DEF Enqueue
<1>3. id \in Nat /\ n \in BOOLEAN /\ n = FALSE /\ id \in Numbers
  <2>1. actor.last \in Nat /\ actor.last < MaxIds /\ MaxIds \in Nat
    BY <1>1, <1>2, QueueAssumption
  <2>2. id \in Nat /\ id \in Numbers
    BY <2>1 DEF Numbers
  <2> QED BY <2>2
<1> HIDE DEF id, n
<1>4. /\ j \in JobSet /\ j.id = id /\ j.req = r /\ j.state = "Queued" /\ j.attempts = 0
      /\ j.waiting = FALSE
  <2> HIDE DEF p
  <2>1. NewJob(id, r) \in JobSet
    BY <1>2, <1>3, NewJobOf
  <2>2. NewJob(id, r).id = id /\ NewJob(id, r).req = r
    BY <1>2, <1>3, NewJobOf
  <2>3. /\ NewJob(id, r).state = "Queued" /\ NewJob(id, r).attempts = 0
        /\ NewJob(id, r).waiting = FALSE
    BY DEF NewJob
  <2> QED BY <2>1, <2>2, <2>3
<1>5. p \in Receipts /\ p.key = r.key /\ p.id = id /\ p.req = r /\ p.removed = FALSE
  BY <1>3 DEF Receipts, Keys
<1> HIDE DEF j, p
<1>6. u \in Seq(JobSet) /\ q \in Seq(Nat) /\ s \in SUBSET Nat /\ rs \in SUBSET Receipts
  BY <1>1, <1>3, <1>4, <1>5
<1>7. Keeps(actor.receipts, rs)
  BY DEF Keeps
<1>8. \/ j.req.key = 0 /\ rs = actor.receipts
      \/ \E x \in Receipts :
           /\ rs = actor.receipts \cup {x}
           /\ x.key = j.req.key /\ x.id = j.id /\ x.req = j.req /\ x.removed = FALSE
           /\ \A y \in actor.receipts : y.key # x.key
           /\ Cardinality(actor.receipts) < MaxReceipts
  <2>1. CASE r.key = 0
    BY <1>4, <2>1
  <2>2. CASE r.key # 0
    <3>1. \A y \in actor.receipts : y.key # p.key
      BY <1>2, <1>5, <2>2 DEF ReceiptOf
    <3>2. rs = actor.receipts \cup {p}
      BY <2>2
    <3> QED BY <1>2, <1>4, <1>5, <2>2, <3>1, <3>2
  <2> QED BY <2>1, <2>2
<1> HIDE DEF u, q, s, rs
<1>9. /\ b \in Actors /\ b.jobs = u /\ b.queue = q /\ b.closing = actor.closing
      /\ b.failure = actor.failure /\ b.receipts = rs /\ b.last = id /\ b.asked = s
  BY <1>1, <1>3, <1>6 DEF Actors
<1> HIDE DEF b
<1>10. Books(b) /\ Covers(actor.jobs, b.jobs) /\ Covers(b.jobs, actor.jobs)
  <2>1. /\ b.jobs = Append(actor.jobs, j) /\ b.queue = Append(actor.queue, j.id)
        /\ b.last = j.id /\ b.asked = actor.asked \cup {j.id} /\ j.id = actor.last + 1
    BY <1>4, <1>9 DEF u, q, s, id
  <2>2. \/ j.req.key = 0 /\ b.receipts = actor.receipts
        \/ \E x \in Receipts :
             /\ b.receipts = actor.receipts \cup {x}
             /\ x.key = j.req.key /\ x.id = j.id /\ x.req = j.req /\ x.removed = FALSE
             /\ \A y \in actor.receipts : y.key # x.key
             /\ Cardinality(actor.receipts) < MaxReceipts
    BY <1>8, <1>9
  <2>3. \A i \in DOMAIN actor.jobs : actor.jobs[i].req.dir # j.req.dir
    BY <1>2, <1>4
  <2> QED BY <1>1, <1>2, <1>4, <1>9, <2>1, <2>2, <2>3, AppendBooks
<1>11. Manned(b, workers)
  <2>1. Distinct(actor.jobs) /\ Distinct(b.jobs) /\ b.jobs \in Seq(JobSet)
    BY <1>1, <1>9, <1>10, ActorFields DEF Books
  <2> QED BY <1>1, <1>10, <2>1, CrewLike, SpreadFewer DEF Manned
<1>12. "Enqueue" \in Ops \ {"none"} /\ "Enqueue" # "Pause"
  BY DEF Ops
<1>13. Keeps(actor.receipts, b.receipts)
  BY <1>7, <1>9
<1> QED BY <1>2, <1>3, <1>9, <1>10, <1>11, <1>12, <1>13, ReceiveStep

\* A list of jobs without one of them.
LEMMA RemovedJobs ==
  ASSUME NEW jobs \in Seq(JobSet), Distinct(jobs), NEW p \in DOMAIN jobs,
         NEW f, f = RemoveAt(jobs, p)
  PROVE  /\ f \in Seq(JobSet) /\ Len(f) <= Len(jobs) /\ Distinct(f) /\ (Apart(jobs) => Apart(f))
         /\ \A i \in DOMAIN f : \E k \in DOMAIN jobs : k # p /\ f[i] = jobs[k]
         /\ \A k \in DOMAIN jobs : k # p => \E i \in DOMAIN f : f[i] = jobs[k]
         /\ Ids(f) = Ids(jobs) \ {jobs[p].id}
<1> DEFINE n == Len(jobs)
           m == [i \in 1 .. n - 1 |-> IF i < p THEN i ELSE i + 1]
<1>1. /\ f \in Seq(JobSet) /\ Len(f) = n - 1
      /\ \A i \in 1 .. n - 1 : f[i] = IF i < p THEN jobs[i] ELSE jobs[i + 1]
  BY RemoveOf
<1>2. n \in Nat /\ p \in 1 .. n /\ DOMAIN jobs = 1 .. n
  OBVIOUS
<1>3. DOMAIN f = 1 .. n - 1
  BY <1>1, LenProperties
<1> HIDE DEF n
<1>4. \A i \in 1 .. n - 1 : m[i] \in 1 .. n /\ m[i] # p /\ f[i] = jobs[m[i]]
  BY <1>1, <1>2
<1>5. \A i, k \in 1 .. n - 1 : m[i] = m[k] => i = k
  BY <1>2
<1>6. \A k \in 1 .. n : k # p => \E i \in 1 .. n - 1 : m[i] = k
  <2> SUFFICES ASSUME NEW k \in 1 .. n, k # p PROVE \E i \in 1 .. n - 1 : m[i] = k
    OBVIOUS
  <2>1. CASE k < p
    <3>1. k \in 1 .. n - 1 /\ m[k] = k
      BY <1>2, <2>1
    <3> QED BY <3>1
  <2>2. CASE k > p
    <3>1. k - 1 \in 1 .. n - 1 /\ m[k - 1] = k
      BY <1>2, <2>2
    <3> QED BY <3>1
  <2> QED BY <1>2, <2>1, <2>2
<1> HIDE DEF m
<1>7. \A i \in DOMAIN f : \E k \in DOMAIN jobs : k # p /\ f[i] = jobs[k]
  BY <1>2, <1>3, <1>4
<1>8. \A k \in DOMAIN jobs : k # p => \E i \in DOMAIN f : f[i] = jobs[k]
  <2> SUFFICES ASSUME NEW k \in DOMAIN jobs, k # p PROVE \E i \in DOMAIN f : f[i] = jobs[k]
    OBVIOUS
  <2>1. PICK i \in 1 .. n - 1 : m[i] = k
    BY <1>2, <1>6
  <2> QED BY <1>3, <1>4, <2>1
<1>9. Distinct(f)
  <2> SUFFICES ASSUME NEW i \in DOMAIN f, NEW k \in DOMAIN f, f[i].id = f[k].id PROVE i = k
    BY DEF Distinct
  <2>1. m[i] \in DOMAIN jobs /\ m[k] \in DOMAIN jobs /\ jobs[m[i]].id = jobs[m[k]].id
    BY <1>2, <1>3, <1>4
  <2>2. m[i] = m[k]
    BY <2>1 DEF Distinct
  <2> QED BY <1>3, <1>5, <2>2
<1>12. ASSUME Apart(jobs)
       PROVE  Apart(f)
  <2> SUFFICES ASSUME NEW i \in DOMAIN f, NEW k \in DOMAIN f, f[i].req.dir = f[k].req.dir PROVE i = k
    BY DEF Apart
  <2>1. m[i] \in DOMAIN jobs /\ m[k] \in DOMAIN jobs /\ jobs[m[i]].req.dir = jobs[m[k]].req.dir
    BY <1>2, <1>3, <1>4
  <2>2. m[i] = m[k]
    BY <1>12, <2>1 DEF Apart
  <2> QED BY <1>3, <1>5, <2>2
<1>10. Len(f) <= n
  BY <1>1, <1>2
<1>11. Ids(f) = Ids(jobs) \ {jobs[p].id}
  <2>1. ASSUME NEW i \in DOMAIN f
        PROVE  f[i].id \in Ids(jobs) \ {jobs[p].id}
    <3>1. PICK k \in DOMAIN jobs : k # p /\ f[i] = jobs[k]
      BY <1>7
    <3> QED BY <3>1, IdsOf DEF Distinct
  <2>2. ASSUME NEW k \in DOMAIN jobs, jobs[k].id # jobs[p].id
        PROVE  jobs[k].id \in Ids(f)
    <3>1. PICK i \in DOMAIN f : f[i] = jobs[k]
      BY <1>8, <2>2
    <3> QED BY <3>1, IdsOf
  <2>3. Ids(f) = {f[i].id : i \in DOMAIN f} /\ Ids(jobs) = {jobs[i].id : i \in DOMAIN jobs}
    BY IdsOf
  <2>4. Ids(f) \subseteq Ids(jobs) \ {jobs[p].id}
    BY <2>1, <2>3
  <2>5. Ids(jobs) \ {jobs[p].id} \subseteq Ids(f)
    BY <2>2, <2>3
  <2> QED BY <2>4, <2>5
<1> QED BY <1>1, <1>7, <1>8, <1>9, <1>10, <1>11, <1>12 DEF n

\* The receipt of a job that is forgotten says so.
Marked(p, id) == IF p.id = id THEN [p EXCEPT !.removed = TRUE] ELSE p

LEMMA MarkedOf ==
  ASSUME NEW p \in Receipts, NEW id
  PROVE  /\ Marked(p, id) \in Receipts /\ Marked(p, id).key = p.key /\ Marked(p, id).id = p.id
         /\ Marked(p, id).req = p.req
         /\ Marked(p, id).removed = (p.removed \/ p.id = id)
<1> DEFINE y == TRUE
           m == [p EXCEPT !.removed = y]
<1>1. y \in BOOLEAN /\ y = TRUE /\ p.removed \in BOOLEAN
  BY DEF Receipts
<1> HIDE DEF y
<1>2. m \in Receipts /\ m.key = p.key /\ m.id = p.id /\ m.req = p.req /\ m.removed = y
  BY <1>1 DEF Receipts
<1> HIDE DEF m
<1>3. CASE p.id = id
  <2>1. Marked(p, id) = m
    BY <1>3 DEF Marked, m, y
  <2> QED BY <1>1, <1>2, <1>3, <2>1
<1>4. CASE p.id # id
  <2>1. Marked(p, id) = p
    BY <1>4 DEF Marked
  <2> QED BY <1>1, <1>4, <2>1
<1> QED BY <1>3, <1>4

LEMMA ForgetBooks ==
  ASSUME NEW a \in Actors, Books(a), NEW b \in Actors, NEW p \in DOMAIN a.jobs, ~Busy(a.jobs[p]),
         b.jobs = RemoveAt(a.jobs, p), b.queue = Without(a.queue, a.jobs[p].id),
         b.last = a.last, b.asked = a.asked,
         b.receipts = {Marked(q, a.jobs[p].id) : q \in a.receipts}
  PROVE  /\ Books(b) /\ Covers(a.jobs, b.jobs) /\ Covers(b.jobs, a.jobs)
         /\ Keeps(a.receipts, b.receipts)
<1> DEFINE id == a.jobs[p].id
           R == a.receipts
           h == [q \in R |-> Marked(q, id)]
<1>1. /\ a.jobs \in Seq(JobSet) /\ a.queue \in Seq(Nat) /\ a.last \in Nat /\ Distinct(a.jobs)
      /\ Line(a.jobs, a.queue) /\ Keyed(a.jobs, R)
      /\ Filed(Ids(a.jobs), a.last, R) /\ R \subseteq Receipts
  BY ActorFields DEF Books
<1>2. /\ b.jobs \in Seq(JobSet) /\ Len(b.jobs) <= Len(a.jobs) /\ Distinct(b.jobs)
      /\ \A i \in DOMAIN b.jobs : \E k \in DOMAIN a.jobs : k # p /\ b.jobs[i] = a.jobs[k]
      /\ \A k \in DOMAIN a.jobs : k # p => \E i \in DOMAIN b.jobs : b.jobs[i] = a.jobs[k]
      /\ Ids(b.jobs) = Ids(a.jobs) \ {id} /\ Apart(b.jobs)
  BY <1>1, RemovedJobs DEF Books
<1>3. /\ b.queue \in Seq(Nat) /\ ToSet(b.queue) = ToSet(a.queue) \ {id} /\ IsInjective(b.queue)
  BY <1>1, WithoutOf DEF Line
<1>4. /\ \A q \in R : h[q] \in b.receipts /\ h[q].key = q.key /\ h[q].id = q.id /\ h[q].req = q.req
                      /\ h[q].removed = (q.removed \/ q.id = id) /\ h[q] \in Receipts
      /\ \A x \in b.receipts : \E q \in R : x = h[q]
  BY <1>1, MarkedOf
<1>5. h \in Surjection(R, b.receipts)
  BY <1>4 DEF Surjection
<1> HIDE DEF id, R, h
<1>6. Len(b.jobs) <= MaxJobs
  <2>1. MaxJobs \in Nat
    BY QueueAssumption
  <2>2. Len(a.jobs) <= MaxJobs
    BY DEF Books
  <2>3. Len(a.jobs) \in Nat /\ Len(b.jobs) \in Nat
    BY <1>1, <1>2
  <2> QED BY <1>2, <2>1, <2>2, <2>3
<1>7. \A i \in DOMAIN b.jobs : JobOK(b.jobs[i], b.last, b.asked)
  BY <1>2 DEF Books
<1>8. Line(b.jobs, b.queue)
  <2>1. ToSet(b.queue) \subseteq Ids(b.jobs)
    BY <1>1, <1>2, <1>3 DEF Line
  <2>2. \A i \in DOMAIN b.jobs : Away(b.jobs[i]) => b.jobs[i].id \notin ToSet(b.queue)
    BY <1>1, <1>2, <1>3 DEF Line
  <2> QED BY <1>3, <2>1, <2>2 DEF Line
<1>9. Keeps(R, b.receipts)
  BY <1>4 DEF Keeps
<1>10. Keyed(b.jobs, b.receipts)
  <2> SUFFICES ASSUME NEW i \in DOMAIN b.jobs, b.jobs[i].req.key # 0
               PROVE  \E q \in b.receipts : /\ q.key = b.jobs[i].req.key /\ q.id = b.jobs[i].id
                                            /\ q.req = b.jobs[i].req
    BY DEF Keyed
  <2>1. PICK k \in DOMAIN a.jobs : b.jobs[i] = a.jobs[k]
    BY <1>2
  <2>2. PICK q \in R : q.key = a.jobs[k].req.key /\ q.id = a.jobs[k].id /\ q.req = a.jobs[k].req
    BY <1>1, <2>1 DEF Keyed
  <2> QED BY <1>4, <2>1, <2>2
<1>11. Filed(Ids(b.jobs), b.last, b.receipts)
  <2>1. IsFiniteSet(R) /\ Cardinality(R) <= MaxReceipts /\ MaxReceipts \in Nat
    BY <1>1, QueueAssumption DEF Filed
  <2>2. IsFiniteSet(b.receipts) /\ Cardinality(b.receipts) <= Cardinality(R)
    BY <1>5, <2>1, FS_Surjection
  <2>3. Cardinality(b.receipts) <= MaxReceipts
    <3>1. Cardinality(b.receipts) \in Nat /\ Cardinality(R) \in Nat
      BY <2>1, <2>2, FS_CardinalityType
    <3> QED BY <2>1, <2>2, <3>1
  <2>4. \A x, y \in b.receipts : x.key = y.key \/ x.id = y.id => x = y
    <3> SUFFICES ASSUME NEW x \in b.receipts, NEW y \in b.receipts, x.key = y.key \/ x.id = y.id
                 PROVE  x = y
      OBVIOUS
    <3>1. PICK v \in R : x = h[v]
      BY <1>4
    <3>2. PICK w \in R : y = h[w]
      BY <1>4
    <3>3. v = w
      BY <1>1, <1>4, <3>1, <3>2 DEF Filed
    <3> QED BY <3>1, <3>2, <3>3
  <2>5. \A x \in b.receipts : x.removed = (x.id \notin Ids(b.jobs)) /\ x.id <= b.last
    <3> TAKE x \in b.receipts
    <3>1. PICK v \in R : x = h[v]
      BY <1>4
    <3>2. v.removed = (v.id \notin Ids(a.jobs)) /\ v.id <= a.last
      BY <1>1 DEF Filed
    <3>3. x.id = v.id /\ x.removed = (v.removed \/ v.id = id)
      BY <1>4, <3>1
    <3>4. (v.removed \/ v.id = id) = (v.id \notin Ids(a.jobs) \ {id})
      BY <3>2
    <3>5. x.removed = (x.id \notin Ids(b.jobs))
      BY <1>2, <3>3, <3>4
    <3> QED BY <3>2, <3>3, <3>5
  <2> QED BY <2>2, <2>3, <2>4, <2>5 DEF Filed
<1>12. Books(b)
  BY <1>2, <1>6, <1>7, <1>8, <1>10, <1>11 DEF Books
<1>13. Covers(a.jobs, b.jobs)
  <2> SUFFICES ASSUME NEW k \in DOMAIN a.jobs, Busy(a.jobs[k])
               PROVE  \E i \in DOMAIN b.jobs : /\ b.jobs[i].id = a.jobs[k].id
                                               /\ b.jobs[i].req = a.jobs[k].req /\ Busy(b.jobs[i])
    BY DEF Covers
  <2>1. k # p
    OBVIOUS
  <2> QED BY <1>2, <2>1
<1>14. Covers(b.jobs, a.jobs)
  BY <1>2 DEF Covers
<1> QED BY <1>9, <1>12, <1>13, <1>14 DEF R

LEMMA ForgetKeeps ==
  ASSUME IInv, NEW id, Forget(id)
  PROVE  IInv'
<1> DEFINE u == RemoveAt(actor.jobs, Pos(actor.jobs, id))
           q == Without(actor.queue, id)
           rs == {Marked(x, id) : x \in actor.receipts}
           b == [actor EXCEPT !.jobs = u, !.queue = q, !.receipts = rs]
<1>0. id \in Ids(actor.jobs) /\ ~Busy(Job(actor.jobs, id)) /\ workers' = workers
  BY DEF Forget
<1>1. /\ actor \in Actors /\ Books(actor) /\ Manned(actor, workers) /\ Distinct(actor.jobs)
      /\ actor.jobs \in Seq(JobSet) /\ actor.queue \in Seq(Nat)
      /\ actor.receipts \in SUBSET Receipts
  BY Facts, ActorFields DEF Books
<1>2. Receive("Forget", id, b)
  BY DEF Forget, Marked
<1>3. PICK p \in DOMAIN actor.jobs : /\ actor.jobs[p].id = id /\ Pos(actor.jobs, id) = p
                                     /\ Job(actor.jobs, id) = actor.jobs[p]
  BY <1>0, <1>1, FoundBy
<1>4. u \in Seq(JobSet)
  BY <1>1, <1>3, RemovedJobs
<1>5. q \in Seq(Nat) /\ rs \in SUBSET Receipts
  BY <1>1, WithoutOf, MarkedOf
<1> HIDE DEF u, q, rs
<1>6. /\ b \in Actors /\ b.jobs = u /\ b.queue = q /\ b.closing = actor.closing
      /\ b.failure = actor.failure /\ b.receipts = rs /\ b.last = actor.last
      /\ b.asked = actor.asked
  BY <1>1, <1>4, <1>5 DEF Actors
<1> HIDE DEF b
<1>7. /\ b.jobs = RemoveAt(actor.jobs, p) /\ b.queue = Without(actor.queue, actor.jobs[p].id)
      /\ b.receipts = {Marked(x, actor.jobs[p].id) : x \in actor.receipts}
  BY <1>3, <1>6 DEF u, q, rs
<1>8. /\ Books(b) /\ Covers(actor.jobs, b.jobs) /\ Covers(b.jobs, actor.jobs)
      /\ Keeps(actor.receipts, b.receipts)
  BY <1>0, <1>1, <1>3, <1>6, <1>7, ForgetBooks
<1>9. Manned(b, workers)
  <2>1. Distinct(b.jobs) /\ b.jobs \in Seq(JobSet)
    BY <1>6, <1>8, ActorFields DEF Books
  <2> QED BY <1>1, <1>8, <2>1, CrewLike, SpreadFewer DEF Manned
<1>10. "Forget" \in Ops \ {"none"} /\ "Forget" # "Pause"
  BY DEF Ops
<1>11. id \in Nat
  BY <1>0, TheJob
<1> QED BY <1>0, <1>2, <1>6, <1>8, <1>9, <1>10, <1>11, ReceiveStep

\* What waits at the top of the loop to be saved.
LEMMA TopGood ==
  ASSUME IInv, actor.pc # "down", NEW b \in Actors, NEW ws, b.pc = "top", b.dirty = TRUE, Books(b),
         Manned(b, ws), b.failure => b.closing, Owed(b), Keeps(actor.receipts, b.receipts)
  PROVE  Good(b, ws, disk)
<1>1. Place(b, ws) /\ Flags(b) /\ Synced(b, disk)
  BY DEF Place, Flags, Synced
<1>2. Ahead(b, disk)
  BY Facts, KeepsTrans DEF Ahead
<1> QED BY <1>1, <1>2 DEF Good

\* Nothing is owed in the select.
LEMMA SelectSilent ==
  ASSUME IInv, actor.pc # "top"
  PROVE  actor.ack = Silence
BY Facts DEF Owed

\* The jobs that rest and have no place get one.
LEMMA ResumeAllKeeps ==
  ASSUME IInv, ResumeAll
  PROVE  IInv'
<1> DEFINE z == 0
           f == [i \in DOMAIN actor.jobs |->
                   IF Resting(actor.jobs[i]) THEN Requeued(actor.jobs[i]) ELSE actor.jobs[i]]
           N == Names(actor.jobs)
           I == Lost(actor)
           t == At(N, I)
           q == actor.queue \o t
           s == actor.asked \cup {id \in Ids(actor.jobs) : Resting(Job(actor.jobs, id))}
           b == [actor EXCEPT !.jobs = f, !.queue = q, !.asked = s]
<1>1. /\ actor \in Actors /\ Books(actor) /\ Manned(actor, workers) /\ Distinct(actor.jobs)
      /\ actor.jobs \in Seq(JobSet) /\ actor.queue \in Seq(Nat) /\ actor.asked \in SUBSET Nat
      /\ Line(actor.jobs, actor.queue)
  BY Facts, ActorFields DEF Books
<1>2. Receive("ResumeAll", z, b) /\ z \in Nat /\ workers' = workers
  BY DEF ResumeAll
<1> HIDE DEF z
<1>3. \A i \in DOMAIN actor.jobs : /\ actor.jobs[i] \in JobSet /\ actor.jobs[i].id \in Nat
                                   /\ JobOK(actor.jobs[i], actor.last, actor.asked)
  BY <1>1, JobFields DEF Books
<1>4. \A i \in DOMAIN actor.jobs :
        /\ f[i] \in JobSet /\ f[i].id = actor.jobs[i].id /\ f[i].req = actor.jobs[i].req
        /\ Resting(actor.jobs[i]) => /\ f[i].state = "Queued" /\ f[i].attempts = 0
                                     /\ f[i].waiting = actor.jobs[i].waiting
        /\ ~Resting(actor.jobs[i]) => f[i] = actor.jobs[i]
  <2> TAKE i \in DOMAIN actor.jobs
  <2>1. CASE Resting(actor.jobs[i])
    <3>1. f[i] = Requeued(actor.jobs[i])
      BY <2>1
    <3> HIDE DEF f
    <3> QED BY <1>3, <2>1, <3>1, RequeuedOf
  <2>2. CASE ~Resting(actor.jobs[i])
    <3>1. f[i] = actor.jobs[i]
      BY <2>2
    <3> HIDE DEF f
    <3> QED BY <1>3, <2>2, <3>1
  <2> QED BY <2>1, <2>2
<1>5. f = [i \in DOMAIN actor.jobs |-> f[i]]
  OBVIOUS
<1> HIDE DEF f
<1>6. f \in Seq(JobSet) /\ SameNames(actor.jobs, f)
  BY <1>1, <1>4, <1>5, EachOf
<1>7. N \in Seq(Nat) /\ DOMAIN N = DOMAIN actor.jobs /\ \A i \in DOMAIN actor.jobs : N[i] = actor.jobs[i].id
  BY <1>1, <1>3, NamesOf
<1>8. I = {i \in DOMAIN actor.jobs : /\ actor.jobs[i].id \notin ToSet(actor.queue)
                                     /\ Resting(actor.jobs[i])}
  BY DEF Lost, Unranked
<1> HIDE DEF N, I
<1>9. I \subseteq DOMAIN N /\ \A i, k \in I : N[i] = N[k] => i = k
  BY <1>1, <1>7, <1>8 DEF Distinct
<1>10. t \in Seq(Nat) /\ IsInjective(t) /\ ToSet(t) = {N[i] : i \in I}
  BY <1>7, <1>9, AtOf
<1> HIDE DEF t
<1>11. ToSet(t) \subseteq Ids(actor.jobs) /\ ToSet(actor.queue) \cap ToSet(t) = {}
  BY <1>7, <1>8, <1>10, IdsOf
<1>12. q \in Seq(Nat) /\ IsInjective(q) /\ ToSet(q) = ToSet(actor.queue) \cup ToSet(t)
  BY <1>1, <1>10, <1>11, ConcatOf DEF Line
<1>13. s \in SUBSET Nat /\ actor.asked \subseteq s
  <2>1. Ids(actor.jobs) \subseteq Nat
    BY <1>3, IdsOf
  <2> QED BY <1>1, <2>1
<1>14. \A i \in DOMAIN actor.jobs : Resting(actor.jobs[i]) => actor.jobs[i].id \in s
  BY <1>1, PosOf, IdsOf
<1> HIDE DEF q, s
<1>15. /\ b \in Actors /\ b.jobs = f /\ b.queue = q /\ b.closing = actor.closing
       /\ b.failure = actor.failure /\ b.receipts = actor.receipts /\ b.last = actor.last
       /\ b.asked = s
  BY <1>1, <1>6, <1>12, <1>13 DEF Actors
<1> HIDE DEF b
<1>16. \A i \in DOMAIN actor.jobs : JobOK(f[i], actor.last, s)
  <2> TAKE i \in DOMAIN actor.jobs
  <2>1. CASE Resting(actor.jobs[i])
    <3>1. f[i].state = "Queued" /\ f[i].attempts = 0 /\ f[i].waiting = actor.jobs[i].waiting
      BY <1>4, <2>1
    <3>2. 0 <= MaxAttempts /\ 0 < MaxAttempts
      BY QueueAssumption
    <3>3. actor.jobs[i].waiting = FALSE
      BY <1>3, <2>1, JobFields DEF JobOK, Resting
    <3>4. f[i].id <= actor.last /\ f[i].id \in s
      BY <1>3, <1>4, <1>14, <2>1 DEF JobOK
    <3> QED BY <3>1, <3>2, <3>3, <3>4 DEF JobOK
  <2>2. CASE ~Resting(actor.jobs[i])
    BY <1>3, <1>4, <1>13, <2>2 DEF JobOK
  <2> QED BY <2>1, <2>2
<1>17. Line(f, q)
  <2>1. Ids(f) = Ids(actor.jobs) /\ DOMAIN f = DOMAIN actor.jobs
    BY <1>6, SameIds DEF SameNames
  <2>2. ToSet(q) \subseteq Ids(f)
    BY <1>1, <1>11, <1>12, <2>1 DEF Line
  <2>3. ASSUME NEW i \in DOMAIN f, Away(f[i])
        PROVE  f[i].id \notin ToSet(q)
    <3>0. i \in DOMAIN actor.jobs
      BY <2>1
    <3>1. ~Resting(actor.jobs[i]) /\ f[i] = actor.jobs[i]
      BY <1>4, <2>3, <3>0 DEF Away
    <3>2. f[i].id \notin ToSet(actor.queue)
      BY <1>1, <2>3, <3>0, <3>1 DEF Line
    <3>3. f[i].id \notin ToSet(t)
      <4> SUFFICES ASSUME NEW k \in I, N[k] = f[i].id PROVE FALSE
        BY <1>10
      <4>1. k \in DOMAIN actor.jobs /\ actor.jobs[k].id = actor.jobs[i].id /\ Resting(actor.jobs[k])
        BY <1>7, <1>8, <3>1
      <4> QED BY <1>1, <3>0, <3>1, <4>1 DEF Distinct
    <3> QED BY <1>12, <3>2, <3>3
  <2> QED BY <1>12, <2>2, <2>3 DEF Line
<1>18. Books(b)
  BY <1>1, <1>6, <1>15, <1>16, <1>17, BooksSame
<1>19. Manned(b, workers)
  <2>1. \A i \in DOMAIN actor.jobs : Busy(f[i]) <=> Busy(actor.jobs[i])
    BY <1>4 DEF Busy, Resting
  <2> QED BY <1>1, <1>6, <1>15, <2>1, MannedSame
<1>20. "ResumeAll" \in Ops \ {"none"} /\ "ResumeAll" # "Pause"
  BY DEF Ops
<1>21. Keeps(actor.receipts, b.receipts)
  BY <1>15, KeepsSelf
<1> QED BY <1>2, <1>15, <1>18, <1>19, <1>20, <1>21, ReceiveStep

LEMMA PauseRunningKeeps ==
  ASSUME IInv, NEW id, PauseRunning(id)
  PROVE  IInv'
<1> DEFINE j == Job(actor.jobs, id)
           y == TRUE
           st == "Pausing"
           k == [j EXCEPT !.state = st, !.waiting = y]
           u == Put(actor.jobs, k)
           top == "top"
           b == [actor EXCEPT !.pc = top, !.dirty = y, !.jobs = u]
<1>0. /\ id \in Ids(actor.jobs) /\ j.state = "Running" /\ actor.pc = "select"
      /\ Quiet /\ disk' = disk /\ inbox' = inbox /\ accepted' = accepted
      /\ workers' = Stopping(workers, id) /\ Spend("commands")
  BY DEF PauseRunning, Stopping
<1>1. /\ j \in JobSet /\ j.id = id /\ JobOK(j, actor.last, actor.asked)
      /\ Away(j) => id \notin ToSet(actor.queue)
      /\ actor \in Actors /\ IsInjective(actor.queue)
      /\ ToSet(actor.queue) \subseteq Ids(actor.jobs) /\ actor.jobs \in Seq(JobSet)
      /\ Distinct(actor.jobs)
  BY <1>0, TheJob
<1>2. actor' = b
  BY DEF PauseRunning
<1>3. y \in BOOLEAN /\ y = TRUE /\ st \in States /\ st = "Pausing" /\ top = "top"
      /\ top \in {"down", "top", "start", "select", "end"}
  BY DEF States
<1> HIDE DEF y, st, top
<1>4. PICK p \in DOMAIN actor.jobs : actor.jobs[p].id = id /\ j = actor.jobs[p]
  BY <1>0, <1>1, FoundBy
<1> HIDE DEF j
<1>5. /\ k \in JobSet /\ k.id = j.id /\ k.req = j.req /\ k.state = st
      /\ k.attempts = j.attempts /\ k.waiting = y
  BY <1>1, <1>3 DEF JobSet
<1> HIDE DEF k
<1>6. u \in Seq(JobSet)
  BY <1>0, <1>1, <1>5, PutType
<1>7. JobOK(k, actor.last, actor.asked) /\ Busy(k) /\ Busy(j) /\ Away(j)
  BY <1>0, <1>1, <1>3, <1>5 DEF JobOK, Busy, Away
<1> HIDE DEF u
<1>8. /\ b \in Actors /\ b.jobs = u /\ b.queue = actor.queue /\ b.closing = actor.closing
      /\ b.failure = actor.failure /\ b.receipts = actor.receipts /\ b.last = actor.last
      /\ b.asked = actor.asked /\ b.pc = top /\ b.dirty = y /\ b.ack = actor.ack
  BY <1>1, <1>3, <1>6 DEF Actors
<1> HIDE DEF b
<1>9. b.jobs = Put(actor.jobs, k)
  BY <1>8 DEF u
<1>10. Books(b) /\ SameNames(actor.jobs, b.jobs)
  <2>1. Books(actor)
    BY Facts
  <2> QED BY <1>1, <1>4, <1>5, <1>7, <1>8, <1>9, <2>1, PutBooks
<1>11. Manned(b, workers)
  <2>1. /\ b.jobs[p] = k /\ \A i \in DOMAIN actor.jobs : i # p => b.jobs[i] = actor.jobs[i]
    BY <1>1, <1>4, <1>5, <1>9, PutOf
  <2>2. \A i \in DOMAIN actor.jobs : Busy(b.jobs[i]) <=> Busy(actor.jobs[i])
    BY <1>4, <1>7, <2>1
  <2>3. Manned(actor, workers)
    BY Facts
  <2> QED BY <1>1, <1>8, <1>10, <2>2, <2>3, MannedSame
<1>12. Manned(b, workers')
  <2>1. Crew(b.jobs, workers') /\ Cardinality(workers') <= Cardinality(workers)
    BY <1>0, <1>11, CancelOneOf DEF Manned
  <2>2. /\ Cardinality(workers') \in Nat /\ Cardinality(workers) \in Nat
        /\ Cardinality(workers) <= MaxActive /\ MaxActive \in Nat
    BY <1>11, <2>1, FS_CardinalityType, QueueAssumption DEF Crew, Manned
  <2>3. Cardinality(workers') <= MaxActive
    BY <2>1, <2>2
  <2> QED BY <1>11, <2>1, <2>3 DEF Manned
<1>13. Owed(b)
  <2>1. b.ack = Silence
    BY <1>0, <1>8, SelectSilent
  <2> QED BY <2>1, SilenceType DEF Owed
<1>14. b.failure => b.closing
  BY <1>8, Facts DEF Flags
<1>15. Good(b, workers', disk)
  <2>1. Keeps(actor.receipts, b.receipts)
    BY <1>8, KeepsSelf
  <2> QED BY <1>0, <1>3, <1>8, <1>10, <1>12, <1>13, <1>14, <2>1, TopGood
<1>16. budget' \in Budgets
  BY <1>0, Facts, Spent
<1> QED BY <1>0, <1>2, <1>15, <1>16, Facts, QuietStep

-----------------------------------------------------------------------------
(***************************************************************************)
(* Steps that leave the books alone.                                       *)
(***************************************************************************)
\* What is saved does not depend on where the loop is.
LEMMA SnapshotSame ==
  ASSUME NEW a, NEW b, b.jobs = a.jobs, b.queue = a.queue, b.last = a.last,
         b.receipts = a.receipts, b.rate = a.rate
  PROVE  Snapshot(b) = Snapshot(a) /\ Limits(b) = Limits(a)
BY DEF Snapshot, Limits

\* The limits of a snapshot are those of the memory.
LEMMA SnapshotLimits ==
  ASSUME NEW a \in Actors, Distinct(a.jobs)
  PROVE  Limits(Snapshot(a)) = Limits(a)
<1> DEFINE s == Snapshot(a)
<1>1. s.jobs = [i \in DOMAIN a.jobs |-> SavedJob(a.jobs[i])] /\ s.rate = a.rate
  BY SnapshotFields
<1> HIDE DEF s
<1>2. /\ SameNames(a.jobs, s.jobs) /\ \A i \in DOMAIN a.jobs : s.jobs[i].rate = a.jobs[i].rate
  BY <1>1, ActorFields, SavedJobs
<1>3. Distinct(s.jobs)
  BY <1>2, SameIds
<1>4. /\ Limits(s) = {<<0, s.rate>>} \cup {<<s.jobs[i].id, s.jobs[i].rate>> : i \in DOMAIN s.jobs}
      /\ Limits(a) = {<<0, a.rate>>} \cup {<<a.jobs[i].id, a.jobs[i].rate>> : i \in DOMAIN a.jobs}
  BY <1>3, LimitsOf
<1>5. {<<s.jobs[i].id, s.jobs[i].rate>> : i \in DOMAIN s.jobs}
        = {<<a.jobs[i].id, a.jobs[i].rate>> : i \in DOMAIN a.jobs}
  BY <1>2 DEF SameNames
<1> QED BY <1>1, <1>4, <1>5 DEF s

LEMMA ReplayKeeps ==
  ASSUME IInv, NEW r \in Requests, Replay(r)
  PROVE  IInv'
<1> DEFINE y == TRUE
           o == "Enqueue"
           top == "top"
           b == [actor EXCEPT !.pc = top]
<1>1. PICK p \in ReceiptOf(r) : /\ p.req = r /\ told' = [op |-> o, id |-> p.id, ok |-> y]
                                /\ accepted' = accepted \cup {[req |-> r, id |-> p.id]}
  BY DEF Replay
<1>2. /\ actor.pc = "select" /\ ~actor.closing /\ inbox' = Without(inbox, r) /\ actor' = b
      /\ disk' = disk /\ workers' = workers /\ Spend("commands")
  BY DEF Replay
<1>3. /\ actor \in Actors /\ Books(actor) /\ Manned(actor, workers) /\ Flags(actor) /\ Owed(actor)
      /\ Synced(actor, disk) /\ Ahead(actor, disk) /\ Shelf(disk) /\ Kept(accepted, disk) /\ Types
  BY Facts
<1>4. /\ y \in BOOLEAN /\ y = TRUE /\ o \in Ops /\ o # "Pause" /\ top = "top"
      /\ top \in {"down", "top", "start", "select", "end"}
  BY DEF Ops
<1> HIDE DEF y, o, top
<1>5. /\ b \in Actors /\ b.pc = top /\ b.jobs = actor.jobs /\ b.queue = actor.queue
      /\ b.last = actor.last /\ b.receipts = actor.receipts /\ b.rate = actor.rate
      /\ b.asked = actor.asked /\ b.closing = actor.closing /\ b.failure = actor.failure
      /\ b.dirty = actor.dirty /\ b.ack = actor.ack /\ b.live = actor.live
  BY <1>3, <1>4 DEF Actors
<1> HIDE DEF b
<1>6. ~actor.dirty /\ ~actor.failure
  BY <1>2, <1>3 DEF Flags
<1>7. disk = <<Snapshot(actor)>> /\ actor.live = Limits(actor)
  BY <1>2, <1>3, <1>6 DEF Synced
<1>8. Snapshot(b) = Snapshot(actor) /\ Limits(b) = Limits(actor)
  BY <1>5, SnapshotSame
<1>9. Good(b, workers, disk)
  <2>1. Books(b)
    BY <1>3, <1>5, BooksKeep
  <2>2. Manned(b, workers) /\ Place(b, workers)
    BY <1>3, <1>4, <1>5 DEF Manned, Place
  <2>3. Flags(b) /\ Synced(b, disk) /\ Ahead(b, disk)
    BY <1>2, <1>3, <1>4, <1>5, <1>7, <1>8 DEF Flags, Synced, Ahead
  <2>4. Owed(b)
    <3>1. b.ack = Silence
      BY <1>2, <1>5, SelectSilent
    <3> QED BY <3>1, SilenceType DEF Owed
  <2> QED BY <1>5, <2>1, <2>2, <2>3, <2>4 DEF Good
<1>10. p \in actor.receipts /\ p.key = r.key /\ p \in Receipts /\ p.id \in Nat
  <2>1. p \in actor.receipts /\ p.key = r.key
    BY <1>1 DEF ReceiptOf
  <2>2. p \in Receipts
    BY <1>3, <2>1, ActorFields
  <2> QED BY <2>1, <2>2 DEF Receipts
<1>11. disk # <<>> /\ disk[1] = Snapshot(actor) /\ disk[1].receipts = actor.receipts
  BY <1>7, SnapshotFields
<1>12. Kept(accepted', disk')
  <2> SUFFICES ASSUME NEW x \in accepted'
               PROVE  \E q \in disk[1].receipts : q.key = x.req.key /\ q.id = x.id /\ q.req = x.req
    BY <1>2, <1>11 DEF Kept
  <2>1. CASE x \in accepted
    BY <1>3, <2>1 DEF Kept
  <2>2. CASE x = [req |-> r, id |-> p.id]
    BY <1>1, <1>10, <1>11, <2>2
  <2> QED BY <1>1, <2>1, <2>2
<1>13. Types'
  <2>1. inbox' \in Seq(Requests) /\ Len(inbox') <= Len(inbox) /\ inbox \in Seq(Requests)
    BY <1>2, <1>3, WithoutOf DEF Types
  <2>2. Len(inbox') <= MaxPending
    <3>1. Len(inbox) \in Nat /\ Len(inbox') \in Nat /\ Len(inbox) <= MaxPending /\ MaxPending \in Nat
      <4>1. MaxPending \in Nat
        BY QueueAssumption
      <4>2. Len(inbox) <= MaxPending
        BY <1>3 DEF Types
      <4> QED BY <2>1, <4>1, <4>2
    <3> QED BY <2>1, <3>1
  <2>3. accepted' \subseteq [req : Requests, id : Nat]
    BY <1>1, <1>3, <1>10 DEF Types
  <2>4. told' \in Acks
    BY <1>1, <1>4, <1>10 DEF Acks
  <2>5. budget' \in Budgets
    BY <1>2, <1>3, Spent
  <2> QED BY <2>1, <2>2, <2>3, <2>4, <2>5 DEF Types, Budgets
<1>14. AnswersAreDurable'
  <2>1. told'.op # "Pause"
    BY <1>1, <1>4
  <2>2. disk' = <<Snapshot(actor')>>
    BY <1>2, <1>7, <1>8
  <2>3. actor'.live = Limits(disk'[1])
    <3>1. Limits(Snapshot(actor)) = Limits(actor)
      BY <1>3, SnapshotLimits DEF Books
    <3> QED BY <1>2, <1>5, <1>7, <1>11, <3>1
  <2> QED BY <2>1, <2>2, <2>3 DEF AnswersAreDurable
<1>15. Good(actor', workers', disk') /\ Shelf(disk')
  BY <1>2, <1>3, <1>9
<1> QED BY <1>12, <1>13, <1>14, <1>15 DEF IInv

-----------------------------------------------------------------------------
(***************************************************************************)
(* The end of the process, and its start.                                  *)
(***************************************************************************)
LEMMA DownFields ==
  /\ Down \in Actors /\ Down.pc = "down" /\ Down.jobs = <<>> /\ Down.queue = <<>>
  /\ Down.receipts = {} /\ Down.ack = Silence /\ Down.failure = FALSE /\ Down.dirty = FALSE
<1> DEFINE n == FALSE
           z == 0
           e == <<>>
           s == Silence
<1>1. /\ n \in BOOLEAN /\ z \in Nat /\ z \in Settings /\ s \in Acks /\ n = FALSE /\ e = <<>>
      /\ s = Silence
  BY SilenceType, QueueAssumption DEF Settings, ValidLimit
<1>2. e \in Seq(JobSet) /\ e \in Seq(Nat)
  OBVIOUS
<1>3. Down = [pc |-> "down", jobs |-> e, queue |-> e, last |-> z, receipts |-> {}, rate |-> z,
              live |-> {}, open |-> n, closing |-> n, failure |-> n, dirty |-> n, ack |-> s, asked |-> {}]
  BY DEF Down
<1> HIDE DEF n, z, e, s
<1>4. Down \in Actors
  BY <1>1, <1>2, <1>3 DEF Actors
<1> QED BY <1>1, <1>3, <1>4

LEMMA DownBooks == Books(Down)
<1> DEFINE e == Down.jobs
           q == Down.queue
<1>1. e = <<>> /\ q = <<>> /\ Down.receipts = {}
  BY DownFields
<1>2. DOMAIN e = {} /\ Len(e) = 0 /\ DOMAIN q = {}
  BY <1>1
<1> HIDE DEF e, q
<1>3. Len(e) <= MaxJobs
  BY <1>2, QueueAssumption
<1>4. Distinct(e) /\ Apart(e) /\ IsInjective(q) /\ ToSet(q) = {} /\ Keyed(e, Down.receipts)
  BY <1>2 DEF Distinct, Apart, IsInjective, ToSet, Keyed
<1>5. Line(e, q)
  BY <1>2, <1>4 DEF Line
<1>6. Filed(Ids(e), Down.last, Down.receipts)
  <2>1. IsFiniteSet({}) /\ Cardinality({}) = 0
    BY FS_EmptySet
  <2>2. Cardinality({}) <= MaxReceipts
    BY <2>1, QueueAssumption
  <2> QED BY <1>1, <2>1, <2>2 DEF Filed
<1> QED BY <1>2, <1>3, <1>4, <1>5, <1>6 DEF Books, e, q

\* No worker, where no job is at work.
LEMMA IdleManned ==
  ASSUME NEW a \in Actors, Distinct(a.jobs), \A i \in DOMAIN a.jobs : ~Busy(a.jobs[i])
  PROVE  Manned(a, {})
<1>1. IsFiniteSet({}) /\ Cardinality({}) = 0
  BY FS_EmptySet
<1>2. 0 <= MaxActive /\ 0 <= MaxPerOrigin
  BY QueueAssumption
<1>3. Crew(a.jobs, {})
  BY <1>1 DEF Crew
<1>4. Spread(a.jobs)
  <2> SUFFICES ASSUME NEW r \in Requests
               PROVE  Cardinality(BusyAt(a.jobs, r.origin)) <= MaxPerOrigin
    BY DEF Spread
  <2>1. BusyAt(a.jobs, r.origin) = {}
    BY BusyAtOf
  <2> QED BY <1>1, <1>2, <2>1
<1> QED BY <1>1, <1>2, <1>3, <1>4 DEF Manned

LEMMA DownGood ==
  ASSUME NEW d
  PROVE  Good(Down, {}, d)
<1>1. Manned(Down, {})
  <2>1. DOMAIN Down.jobs = {}
    BY DownFields
  <2> QED BY <2>1, DownFields, DownBooks, IdleManned DEF Books
<1>2. Place(Down, {}) /\ Flags(Down) /\ Owed(Down) /\ Synced(Down, d) /\ Ahead(Down, d)
  BY DownFields, SilenceType DEF Place, Flags, Owed, Synced, Ahead
<1> QED BY <1>1, <1>2, DownFields, DownBooks DEF Good

LEMMA InitHolds ==
  ASSUME Init
  PROVE  IInv
<1>1. /\ disk = <<>> /\ actor = Down /\ workers = {} /\ inbox = <<>> /\ accepted = {}
      /\ told = Silence
      /\ budget = [commands |-> MaxCommands, faults |-> MaxFaults, opens |-> MaxOpens]
  BY DEF Init
<1>2. Good(actor, workers, disk) /\ Shelf(disk) /\ Kept(accepted, disk)
  BY <1>1, DownGood DEF Shelf, Kept
<1>3. inbox \in Seq(Requests) /\ Len(inbox) <= MaxPending
  <2>1. <<>> \in Seq(Requests) /\ Len(<<>>) = 0
    OBVIOUS
  <2> QED BY <1>1, <2>1, QueueAssumption
<1>4. budget \in Budgets
  BY <1>1, QueueAssumption DEF Budgets
<1>5. told \in Acks /\ told.ok = FALSE
  BY <1>1, SilenceType
<1>6. Types /\ AnswersAreDurable
  BY <1>1, <1>3, <1>4, <1>5 DEF Types, Budgets, AnswersAreDurable
<1> QED BY <1>2, <1>6 DEF IInv

LEMMA CrashKeeps ==
  ASSUME IInv, Crash
  PROVE  IInv'
<1>1. /\ actor' = Down /\ workers' = {} /\ inbox' = <<>> /\ Quiet /\ disk' = disk
      /\ accepted' = accepted /\ budget' = budget
  BY DEF Crash
<1>2. Good(actor', workers', disk')
  BY <1>1, DownGood
<1>3. inbox' \in Seq(Requests) /\ Len(inbox') <= MaxPending
  <2>1. <<>> \in Seq(Requests) /\ Len(<<>>) = 0
    OBVIOUS
  <2> QED BY <1>1, <2>1, QueueAssumption
<1>4. Shelf(disk') /\ Kept(accepted', disk') /\ budget' \in Budgets
      /\ accepted' \subseteq [req : Requests, id : Nat]
  BY <1>1, Facts DEF Types, Budgets
<1>5. told' \in Acks /\ told'.ok = FALSE
  BY <1>1, SilenceType DEF Quiet
<1> QED BY <1>2, <1>3, <1>4, <1>5, MuteStep

LEMMA FinishKeeps ==
  ASSUME IInv, Finish
  PROVE  IInv'
<1>1. /\ actor.pc = "end" /\ actor' = Down /\ workers' = workers /\ Quiet
      /\ inbox' = inbox /\ accepted' = accepted
  BY DEF Finish
<1>2. workers' = {}
  BY <1>1, Facts DEF Place
<1>3. Good(actor', workers', disk')
  BY <1>1, <1>2, DownGood
<1>4. Shelf(disk') /\ Kept(accepted, disk') /\ budget' \in Budgets
  <2>1. CASE disk' = disk /\ budget' = budget
    BY <2>1, Facts DEF Types, Budgets
  <2>2. CASE SaveOk(actor) \/ SaveErr(actor)
    BY <1>1, <2>2, Facts, KeepsSelf, SaveOutcome
  <2> QED BY <2>1, <2>2 DEF Finish
<1> QED BY <1>1, <1>3, <1>4, QuietStep

LEMMA OpenKeeps ==
  ASSUME IInv, Open
  PROVE  IInv'
<1> DEFINE saved == IF disk = <<>> THEN Snapshot(Down) ELSE disk[1]
<1>1. PICK s : s = saved
  OBVIOUS
<1>2. /\ actor = Down /\ Spend("opens") /\ disk' = <<s>> /\ actor' = Launched(s)
      /\ Quiet /\ workers' = workers /\ inbox' = inbox /\ accepted' = accepted
  BY <1>1 DEF Open
<1>3. Shelf(disk) /\ Kept(accepted, disk) /\ Types /\ Place(actor, workers)
  BY Facts
<1>4. Stored(s)
  <2>1. CASE disk = <<>>
    BY <1>1, <2>1, DownFields, DownBooks, SnapshotStored
  <2>2. CASE disk # <<>>
    BY <1>1, <1>3, <2>2 DEF Shelf
  <2> QED BY <2>1, <2>2
<1>5. Kept(accepted, <<s>>)
  <2>1. CASE disk = <<>>
    BY <1>3, <2>1 DEF Kept
  <2>2. CASE disk # <<>>
    <3>1. disk = <<s>>
      BY <1>1, <1>3, <2>2 DEF Shelf
    <3> QED BY <1>3, <3>1
  <2> QED BY <2>1, <2>2
<1> DEFINE l == Launched(s)
           d == <<s>>
<1>6. /\ l \in Actors /\ Books(l) /\ \A i \in DOMAIN l.jobs : ~Busy(l.jobs[i])
      /\ l.pc = "top" /\ l.dirty /\ ~l.failure /\ l.ack = Silence /\ l.receipts = s.receipts
  BY <1>4, LaunchedBooks
<1>7. d # <<>> /\ d[1] = s /\ d = <<d[1]>>
  OBVIOUS
<1> HIDE DEF l, d
<1>8. workers = {}
  BY <1>2, <1>3, DownFields DEF Place
<1>9. Manned(l, {})
  BY <1>6, IdleManned DEF Books
<1>10. Place(l, {}) /\ Flags(l) /\ Owed(l) /\ Synced(l, d) /\ Ahead(l, d)
  BY <1>6, <1>7, SilenceType, KeepsSelf DEF Place, Flags, Owed, Synced, Ahead
<1>11. Good(l, {}, d)
  BY <1>6, <1>9, <1>10 DEF Good
<1>12. Shelf(d)
  BY <1>4, <1>7 DEF Shelf
<1>13. disk' = d /\ actor' = l /\ workers' = {}
  BY <1>2, <1>8 DEF d, l
<1>14. budget' \in Budgets
  BY <1>2, <1>3, Spent
<1>15. Kept(accepted, d)
  BY <1>5 DEF d
<1> QED BY <1>2, <1>11, <1>12, <1>13, <1>14, <1>15, QuietStep

\* The loop moves on, or the handle goes: nothing that is saved changes.
LEMMA MoveGood ==
  ASSUME NEW a, NEW b \in Actors, NEW ws, NEW d, Good(a, ws, d), b.jobs = a.jobs, b.queue = a.queue,
         b.last = a.last, b.receipts = a.receipts, b.rate = a.rate, b.live = a.live,
         b.asked = a.asked, b.closing = a.closing, b.failure = a.failure, b.dirty = a.dirty,
         b.ack = a.ack, a.pc # "down",
         b.pc = a.pc \/ (b.pc = "top" /\ a.pc = "select")
  PROVE  Good(b, ws, d)
<1>1. /\ Books(a) /\ Manned(a, ws) /\ Place(a, ws) /\ Flags(a) /\ Owed(a)
      /\ Synced(a, d) /\ Ahead(a, d)
  BY DEF Good
<1>2. Books(b)
  BY <1>1, BooksKeep
<1>3. Snapshot(b) = Snapshot(a) /\ Limits(b) = Limits(a)
  BY SnapshotSame
<1>4. Manned(b, ws) /\ Place(b, ws) /\ Flags(b) /\ Owed(b)
  BY <1>1 DEF Manned, Place, Flags, Owed
<1>5. Synced(b, d) /\ Ahead(b, d)
  BY <1>1, <1>3 DEF Synced, Ahead
<1> QED BY <1>2, <1>4, <1>5 DEF Good

LEMMA TickKeeps ==
  ASSUME IInv, Tick
  PROVE  IInv'
<1> DEFINE t == "top"
           b == [actor EXCEPT !.pc = t]
<1>1. /\ actor.pc = "select" /\ actor' = b /\ Quiet /\ disk' = disk /\ workers' = workers
      /\ inbox' = inbox /\ accepted' = accepted /\ budget' = budget
  BY DEF Tick
<1>2. t \in {"down", "top", "start", "select", "end"} /\ t = "top"
  OBVIOUS
<1> HIDE DEF t
<1>3. /\ b \in Actors /\ b.pc = t /\ b.jobs = actor.jobs /\ b.queue = actor.queue
      /\ b.last = actor.last /\ b.receipts = actor.receipts /\ b.rate = actor.rate
      /\ b.asked = actor.asked /\ b.closing = actor.closing /\ b.failure = actor.failure
      /\ b.dirty = actor.dirty /\ b.ack = actor.ack /\ b.live = actor.live
  BY <1>2, Facts DEF Actors
<1> HIDE DEF b
<1>4. Good(b, workers, disk)
  <2>1. Good(actor, workers, disk)
    BY DEF IInv
  <2>2. actor.pc # "down"
    BY <1>1
  <2> QED BY <1>1, <1>2, <1>3, <2>1, <2>2, MoveGood
<1>5. budget' \in Budgets
  BY <1>1, Facts DEF Types, Budgets
<1> QED BY <1>1, <1>4, <1>5, Facts, QuietStep

LEMMA HangUpKeeps ==
  ASSUME IInv, HangUp
  PROVE  IInv'
<1> DEFINE n == FALSE
           b == [actor EXCEPT !.open = n]
<1>1. /\ actor.pc # "down" /\ actor' = b /\ Quiet /\ disk' = disk /\ workers' = workers
      /\ inbox' = inbox /\ accepted' = accepted /\ budget' = budget
  BY DEF HangUp
<1>2. n \in BOOLEAN
  OBVIOUS
<1> HIDE DEF n
<1>3. /\ b \in Actors /\ b.pc = actor.pc /\ b.jobs = actor.jobs /\ b.queue = actor.queue
      /\ b.last = actor.last /\ b.receipts = actor.receipts /\ b.rate = actor.rate
      /\ b.asked = actor.asked /\ b.closing = actor.closing /\ b.failure = actor.failure
      /\ b.dirty = actor.dirty /\ b.ack = actor.ack /\ b.live = actor.live
  BY <1>2, Facts DEF Actors
<1> HIDE DEF b
<1>4. Good(b, workers, disk)
  <2>1. Good(actor, workers, disk)
    BY DEF IInv
  <2> QED BY <1>1, <1>3, <2>1, MoveGood
<1>5. budget' \in Budgets
  BY <1>1, Facts DEF Types, Budgets
<1> QED BY <1>1, <1>4, <1>5, Facts, QuietStep

LEMMA ProposeKeeps ==
  ASSUME IInv, NEW r \in Requests, Propose(r)
  PROVE  IInv'
<1>1. /\ Len(inbox) < MaxPending /\ inbox' = Append(inbox, r) /\ Spend("commands") /\ Quiet
      /\ disk' = disk /\ actor' = actor /\ workers' = workers /\ accepted' = accepted
  BY DEF Propose
<1>2. Types /\ Good(actor, workers, disk) /\ Shelf(disk) /\ Kept(accepted, disk)
  BY DEF IInv
<1>3. inbox' \in Seq(Requests) /\ Len(inbox') <= MaxPending
  <2>1. inbox \in Seq(Requests) /\ MaxPending \in Nat
    BY <1>2, QueueAssumption DEF Types
  <2>2. inbox' \in Seq(Requests) /\ Len(inbox') = Len(inbox) + 1 /\ Len(inbox) \in Nat
    BY <1>1, <2>1
  <2> QED BY <1>1, <2>1, <2>2
<1>4. told' \in Acks /\ told'.ok = FALSE /\ budget' \in Budgets
  BY <1>1, <1>2, SilenceType, Spent DEF Quiet
<1>5. accepted' \subseteq [req : Requests, id : Nat] /\ Kept(accepted', disk') /\ Shelf(disk')
  BY <1>1, <1>2 DEF Types
<1>6. Good(actor', workers', disk')
  BY <1>1, <1>2
<1> QED BY <1>3, <1>4, <1>5, <1>6, MuteStep

LEMMA DropKeeps ==
  ASSUME IInv, Drop
  PROVE  IInv'
<1>1. PICK i \in DOMAIN inbox : inbox' = RemoveAt(inbox, i)
  BY DEF Drop
<1>2. /\ Quiet /\ disk' = disk /\ actor' = actor /\ workers' = workers /\ accepted' = accepted
      /\ budget' = budget
  BY DEF Drop
<1>3. Types /\ Good(actor, workers, disk) /\ Shelf(disk) /\ Kept(accepted, disk)
  BY DEF IInv
<1>4. inbox' \in Seq(Requests) /\ Len(inbox') <= MaxPending
  <2>1. inbox \in Seq(Requests) /\ MaxPending \in Nat /\ Len(inbox) <= MaxPending
    BY <1>3, QueueAssumption DEF Types
  <2>2. inbox' \in Seq(Requests) /\ Len(inbox') = Len(inbox) - 1 /\ Len(inbox) \in Nat
    BY <1>1, <2>1, RemoveOf
  <2> QED BY <2>1, <2>2
<1>5. told' \in Acks /\ told'.ok = FALSE /\ budget' \in Budgets
  BY <1>2, <1>3, SilenceType DEF Quiet, Types, Budgets
<1>6. accepted' \subseteq [req : Requests, id : Nat] /\ Kept(accepted', disk') /\ Shelf(disk')
  BY <1>2, <1>3 DEF Types
<1>7. Good(actor', workers', disk')
  BY <1>2, <1>3
<1> QED BY <1>4, <1>5, <1>6, <1>7, MuteStep

\* A retry's time comes.
LEMMA ElapseKeeps ==
  ASSUME IInv, Elapse
  PROVE  IInv'
<1>1. PICK i \in DOMAIN actor.jobs : actor' = [actor EXCEPT !.jobs[i].due = TRUE]
  BY DEF Elapse
<1>2. /\ actor.pc = "select" /\ Quiet /\ disk' = disk /\ workers' = workers
      /\ inbox' = inbox /\ accepted' = accepted /\ budget' = budget
  BY DEF Elapse
<1> DEFINE y == TRUE
           k == [actor.jobs[i] EXCEPT !.due = y]
           u == [actor.jobs EXCEPT ![i] = k]
           b == [actor EXCEPT !.jobs = u]
<1>3. /\ actor \in Actors /\ Books(actor) /\ Manned(actor, workers) /\ Place(actor, workers)
      /\ Flags(actor) /\ Owed(actor) /\ Synced(actor, disk) /\ Ahead(actor, disk)
      /\ actor.jobs \in Seq(JobSet) /\ Distinct(actor.jobs) /\ Line(actor.jobs, actor.queue)
  BY Facts, ActorFields DEF Books
<1>4. actor' = b
  BY <1>1, <1>3 DEF Actors
<1>5. y \in BOOLEAN /\ actor.jobs[i] \in JobSet
  BY <1>3
<1> HIDE DEF y
<1>6. /\ k \in JobSet /\ k.id = actor.jobs[i].id /\ k.req = actor.jobs[i].req
      /\ k.state = actor.jobs[i].state /\ k.attempts = actor.jobs[i].attempts
      /\ k.waiting = actor.jobs[i].waiting /\ SavedJob(k) = SavedJob(actor.jobs[i])
      /\ k.rate = actor.jobs[i].rate
  BY <1>5 DEF JobSet, SavedJob
<1> HIDE DEF k
<1>7. /\ u \in Seq(JobSet) /\ Len(u) = Len(actor.jobs) /\ DOMAIN u = DOMAIN actor.jobs
      /\ u[i] = k /\ \A n \in DOMAIN actor.jobs : n # i => u[n] = actor.jobs[n]
  BY <1>3, <1>6
<1> HIDE DEF u
<1>8. /\ b \in Actors /\ b.pc = actor.pc /\ b.jobs = u /\ b.queue = actor.queue
      /\ b.last = actor.last /\ b.receipts = actor.receipts /\ b.rate = actor.rate
      /\ b.asked = actor.asked /\ b.closing = actor.closing /\ b.failure = actor.failure
      /\ b.dirty = actor.dirty /\ b.ack = actor.ack /\ b.live = actor.live
  BY <1>3, <1>7 DEF Actors
<1> HIDE DEF b
<1>9. \A n \in DOMAIN actor.jobs :
        /\ u[n].id = actor.jobs[n].id /\ u[n].req = actor.jobs[n].req
        /\ u[n].state = actor.jobs[n].state /\ u[n].attempts = actor.jobs[n].attempts
        /\ u[n].waiting = actor.jobs[n].waiting /\ SavedJob(u[n]) = SavedJob(actor.jobs[n])
        /\ u[n].rate = actor.jobs[n].rate
  BY <1>6, <1>7
<1>10. SameNames(actor.jobs, u)
  BY <1>7, <1>9 DEF SameNames
<1>11. \A n \in DOMAIN actor.jobs : JobOK(u[n], actor.last, actor.asked)
  BY <1>3, <1>9 DEF Books, JobOK
<1>12. Line(u, actor.queue)
  BY <1>3, <1>9, <1>10, LineSame DEF Away
<1>13. Books(b)
  BY <1>3, <1>8, <1>10, <1>11, <1>12, BooksSame
<1>14. Manned(b, workers)
  <2>1. \A n \in DOMAIN actor.jobs : Busy(u[n]) <=> Busy(actor.jobs[n])
    BY <1>9 DEF Busy
  <2> QED BY <1>3, <1>8, <1>10, <2>1, MannedSame
<1>15. Snapshot(b) = Snapshot(actor)
  <2>1. [n \in DOMAIN b.jobs |-> SavedJob(b.jobs[n])] = [n \in DOMAIN actor.jobs |-> SavedJob(actor.jobs[n])]
    BY <1>7, <1>8, <1>9
  <2> QED BY <1>8, <2>1 DEF Snapshot
<1>16. Limits(b) = Limits(actor)
  BY <1>3, <1>8, <1>13, <1>15, SnapshotLimits DEF Books
<1>17. Place(b, workers) /\ Flags(b)
  BY <1>2, <1>3, <1>8 DEF Place, Flags
<1>18. Owed(b)
  <2>1. b.ack = Silence
    BY <1>2, <1>8, SelectSilent
  <2> QED BY <2>1, SilenceType DEF Owed
<1>19. Synced(b, disk) /\ Ahead(b, disk)
  BY <1>2, <1>3, <1>8, <1>15, <1>16 DEF Synced, Ahead
<1>20. Good(b, workers, disk)
  BY <1>8, <1>13, <1>14, <1>17, <1>18, <1>19 DEF Good
<1>21. budget' \in Budgets
  BY <1>2, Facts DEF Types, Budgets
<1> QED BY <1>2, <1>4, <1>20, <1>21, Facts, QuietStep

\* How a job ends.
LEMMA EndedOf ==
  ASSUME NEW j \in JobSet, Busy(j), NEW last, NEW asked, JobOK(j, last, asked), NEW result
  PROVE  LET e == Ended(j, result) IN
         /\ e \in JobSet /\ e.id = j.id /\ e.req = j.req /\ ~Busy(e) /\ JobOK(e, last, asked)
         /\ j.waiting => e.state \in {"Completed", "Paused", "Failed"}
<1> DEFINE n == FALSE
           s == CASE result = "done" -> "Completed"
                  [] result = "cancelled" /\ j.state = "Pausing" -> "Paused"
                  [] Retries(j, result) -> "RetryWaiting"
                  [] OTHER -> "Failed"
           e == [j EXCEPT !.waiting = n, !.state = s]
<1>1. Ended(j, result) = e
  BY DEF Ended
<1>2. \/ s \in {"Completed", "Paused", "Failed"}
      \/ s = "RetryWaiting" /\ Retries(j, result)
  <2>1. CASE result = "done"
    BY <2>1
  <2>2. CASE result # "done" /\ result = "cancelled" /\ j.state = "Pausing"
    BY <2>2
  <2>3. CASE result # "done" /\ ~(result = "cancelled" /\ j.state = "Pausing") /\ Retries(j, result)
    BY <2>3
  <2>4. CASE result # "done" /\ ~(result = "cancelled" /\ j.state = "Pausing") /\ ~Retries(j, result)
    BY <2>4
  <2> QED BY <2>1, <2>2, <2>3, <2>4
<1>3. n \in BOOLEAN /\ n = FALSE
  OBVIOUS
<1> HIDE DEF n, s
<1>4. s \in States
  BY <1>2 DEF States
<1>5. /\ e \in JobSet /\ e.id = j.id /\ e.req = j.req /\ e.state = s /\ e.attempts = j.attempts
      /\ e.waiting = n
  BY <1>3, <1>4 DEF JobSet
<1> HIDE DEF e
<1>6. Retries(j, result) => j.state = "Running" /\ j.attempts < MaxAttempts
  BY DEF Retries
<1>7. ~Busy(e)
  BY <1>2, <1>5 DEF Busy
<1>8. JobOK(e, last, asked)
  BY <1>2, <1>3, <1>5, <1>6 DEF JobOK, Busy
<1>9. j.waiting => e.state \in {"Completed", "Paused", "Failed"}
  BY <1>2, <1>5, <1>6 DEF JobOK
<1> QED BY <1>1, <1>5, <1>7, <1>8, <1>9

LEMMA JoinKeeps ==
  ASSUME IInv, NEW w \in workers, NEW result, Join(w, result)
  PROVE  IInv'
<1> DEFINE j == Job(actor.jobs, w.id)
           e == Ended(j, result)
           n == FALSE
           y == TRUE
           o == "Pause"
           t == "top"
           Reply == [op |-> o, id |-> w.id, ok |-> n]
           k == IF j.waiting /\ e.state # "Failed" THEN Reply ELSE actor.ack
           u == Put(actor.jobs, e)
           b == [actor EXCEPT !.pc = t, !.dirty = y, !.jobs = u, !.ack = k]
<1>1. /\ actor.pc = "select" /\ workers' = workers \ {w} /\ actor' = b
      /\ told' = IF j.waiting /\ e.state = "Failed" THEN Reply ELSE Silence
      /\ disk' = disk /\ inbox' = inbox /\ accepted' = accepted /\ budget' = budget
  BY DEF Join
<1>2. /\ actor \in Actors /\ Books(actor) /\ Manned(actor, workers) /\ Distinct(actor.jobs)
      /\ actor.jobs \in Seq(JobSet) /\ Crew(actor.jobs, workers)
  BY Facts, ActorFields DEF Books, Manned
<1>3. PICK p \in DOMAIN actor.jobs : /\ actor.jobs[p].id = w.id /\ Busy(actor.jobs[p])
                                     /\ j = actor.jobs[p]
  <2>1. PICK p \in DOMAIN actor.jobs : actor.jobs[p].id = w.id /\ Busy(actor.jobs[p])
    BY <1>2 DEF Crew
  <2> QED BY <1>2, <2>1, PosOf
<1>4. w.id \in Ids(actor.jobs)
  BY <1>3, IdsOf
<1>5. /\ j \in JobSet /\ j.id = w.id /\ JobOK(j, actor.last, actor.asked)
      /\ Away(j) => w.id \notin ToSet(actor.queue)
      /\ IsInjective(actor.queue) /\ ToSet(actor.queue) \subseteq Ids(actor.jobs) /\ w.id \in Nat
  BY <1>4, TheJob
<1>6. /\ n \in BOOLEAN /\ n = FALSE /\ y \in BOOLEAN /\ y = TRUE /\ o \in Ops /\ o = "Pause"
      /\ t \in {"down", "top", "start", "select", "end"} /\ t = "top"
  BY DEF Ops
<1> HIDE DEF j, n, y, o, t
<1>7. /\ e \in JobSet /\ e.id = j.id /\ e.req = j.req /\ ~Busy(e)
      /\ JobOK(e, actor.last, actor.asked)
      /\ j.waiting => e.state \in {"Completed", "Paused", "Failed"}
  BY <1>3, <1>5, EndedOf
<1> HIDE DEF e
<1>8. Reply \in Acks /\ Reply.ok = FALSE /\ Reply.id = w.id /\ Reply.op = "Pause"
  BY <1>5, <1>6 DEF Acks
<1> HIDE DEF Reply
<1>9. actor.ack = Silence
  BY <1>1, SelectSilent
<1>10. k \in Acks /\ k.ok = FALSE
  BY <1>8, <1>9, SilenceType
<1>11. k.op = "Pause" => e.state \in {"Completed", "Paused"} /\ k.id = w.id
  BY <1>7, <1>8, <1>9, SilenceType
<1> HIDE DEF k
<1>12. u \in Seq(JobSet)
  BY <1>2, <1>4, <1>5, <1>7, PutType
<1> HIDE DEF u
<1>13. /\ b \in Actors /\ b.pc = t /\ b.jobs = u /\ b.queue = actor.queue
       /\ b.last = actor.last /\ b.receipts = actor.receipts
       /\ b.asked = actor.asked /\ b.closing = actor.closing /\ b.failure = actor.failure
       /\ b.dirty = y /\ b.ack = k
  BY <1>2, <1>6, <1>10, <1>12 DEF Actors
<1> HIDE DEF b
<1>14. b.jobs = Put(actor.jobs, e)
  BY <1>13 DEF u
<1>15. Busy(j) /\ Away(j)
  BY <1>3 DEF Busy, Away
<1>16. Books(b) /\ SameNames(actor.jobs, b.jobs)
  <2>1. /\ e.id = actor.jobs[p].id /\ e.req = actor.jobs[p].req
        /\ Away(e) => e.id \notin ToSet(b.queue)
        /\ IsInjective(b.queue) /\ ToSet(b.queue) \subseteq Ids(actor.jobs)
        /\ \A x \in ToSet(b.queue) : x \in ToSet(actor.queue) \/ x = e.id
        /\ JobOK(e, actor.last, b.asked) /\ actor.asked \subseteq b.asked
    BY <1>3, <1>5, <1>7, <1>13, <1>15
  <2> QED BY <1>2, <1>7, <1>13, <1>14, <2>1, PutBooks
<1>17. /\ DOMAIN b.jobs = DOMAIN actor.jobs /\ b.jobs[p] = e
       /\ \A i \in DOMAIN actor.jobs : i # p => b.jobs[i] = actor.jobs[i]
  BY <1>2, <1>3, <1>7, <1>14, PutOf
<1>18. Manned(b, workers')
  <2>1. Crew(b.jobs, workers') /\ Cardinality(workers') <= Cardinality(workers)
    BY <1>1, <1>2, <1>3, <1>7, <1>16, <1>17, CrewLess
  <2>2. /\ Cardinality(workers') \in Nat /\ Cardinality(workers) \in Nat
        /\ Cardinality(workers) <= MaxActive /\ MaxActive \in Nat
    BY <1>2, <2>1, FS_CardinalityType, QueueAssumption DEF Crew, Manned
  <2>3. Cardinality(workers') <= MaxActive
    BY <2>1, <2>2
  <2>4. Spread(b.jobs)
    <3>1. Covers(b.jobs, actor.jobs)
      BY <1>7, <1>17 DEF Covers
    <3>2. Distinct(b.jobs) /\ b.jobs \in Seq(JobSet)
      BY <1>13, <1>16, ActorFields DEF Books
    <3> QED BY <1>2, <3>1, <3>2, SpreadFewer DEF Manned
  <2> QED BY <2>1, <2>3, <2>4 DEF Manned
<1>19. Owed(b)
  <2>1. b.ack.op = "Pause" =>
          \E i \in DOMAIN b.jobs : b.jobs[i].id = b.ack.id /\ b.jobs[i].state \in {"Paused", "Completed"}
    BY <1>5, <1>7, <1>11, <1>13, <1>17
  <2> QED BY <1>6, <1>10, <1>13, <2>1 DEF Owed
<1>20. b.failure => b.closing
  BY <1>13, Facts DEF Flags
<1>21. Good(b, workers', disk)
  <2>1. Keeps(actor.receipts, b.receipts)
    BY <1>13, KeepsSelf
  <2> QED BY <1>1, <1>6, <1>13, <1>16, <1>18, <1>19, <1>20, <2>1, TopGood
<1>22. told' \in Acks /\ told'.ok = FALSE
  BY <1>1, <1>8, SilenceType
<1>23. /\ inbox' \in Seq(Requests) /\ Len(inbox') <= MaxPending /\ budget' \in Budgets
       /\ accepted' \subseteq [req : Requests, id : Nat] /\ Shelf(disk') /\ Kept(accepted', disk')
  BY <1>1, Facts DEF Types, Budgets
<1>24. Good(actor', workers', disk')
  BY <1>1, <1>21
<1> QED BY <1>22, <1>23, <1>24, MuteStep

-----------------------------------------------------------------------------
(***************************************************************************)
(* The loop.                                                               *)
(***************************************************************************)
\* The same jobs, each at work or settled as it was, with books in order.
Settled(j) == j.state \in {"Paused", "Completed"}
Evolved(a, b) ==
  /\ b \in Actors /\ Books(b) /\ SameNames(a.jobs, b.jobs)
  /\ \A i \in DOMAIN a.jobs : (Busy(b.jobs[i]) <=> Busy(a.jobs[i]))
                              /\ (Settled(a.jobs[i]) => b.jobs[i].state = a.jobs[i].state)
  /\ b.receipts = a.receipts /\ b.ack = a.ack /\ b.live = a.live

LEMMA EvolvedSelf ==
  ASSUME NEW a \in Actors, Books(a)
  PROVE  Evolved(a, a)
BY DEF Evolved, SameNames

LEMMA EvolvedTrans ==
  ASSUME NEW a, NEW b, NEW c, Evolved(a, b), Evolved(b, c)
  PROVE  Evolved(a, c)
<1>1. SameNames(a.jobs, c.jobs) /\ DOMAIN b.jobs = DOMAIN a.jobs
  BY SameTrans DEF Evolved, SameNames
<1>2. ASSUME NEW i \in DOMAIN a.jobs
      PROVE  /\ Busy(c.jobs[i]) <=> Busy(a.jobs[i])
             /\ Settled(a.jobs[i]) => c.jobs[i].state = a.jobs[i].state
  <2>1. /\ Busy(b.jobs[i]) <=> Busy(a.jobs[i])
        /\ Settled(a.jobs[i]) => b.jobs[i].state = a.jobs[i].state
    BY DEF Evolved
  <2>2. /\ Busy(c.jobs[i]) <=> Busy(b.jobs[i])
        /\ Settled(b.jobs[i]) => c.jobs[i].state = b.jobs[i].state
    BY <1>1 DEF Evolved
  <2> QED BY <2>1, <2>2 DEF Settled
<1> QED BY <1>1, <1>2 DEF Evolved

LEMMA StoppedOf ==
  ASSUME NEW j \in JobSet, NEW last, NEW asked, JobOK(j, last, asked)
  PROVE  /\ Stopped(j) \in JobSet /\ Stopped(j).id = j.id /\ Stopped(j).req = j.req
         /\ JobOK(Stopped(j), last, asked) /\ (Busy(Stopped(j)) <=> Busy(j))
         /\ (Away(Stopped(j)) => Away(j)) /\ (Settled(j) => Stopped(j).state = j.state)
         /\ Stopped(j).attempts = j.attempts /\ (j.state = "Running" => Stopped(j).waiting = j.waiting)
<1>1. "Paused" \in States /\ "Pausing" \in States
  BY DEF States
<1>2. CASE j.state \in {"Queued", "RetryWaiting"}
  <2> DEFINE k == [j EXCEPT !.state = "Paused", !.due = FALSE]
  <2>1. Stopped(j) = k
    BY <1>2 DEF Stopped
  <2>2. /\ k \in JobSet /\ k.id = j.id /\ k.req = j.req /\ k.state = "Paused"
        /\ k.attempts = j.attempts /\ k.waiting = j.waiting
    BY <1>1, StateDueOf
  <2> HIDE DEF k
  <2> QED BY <1>2, <2>1, <2>2 DEF JobOK, Busy, Away, Settled
<1>3. CASE j.state = "Running"
  <2> DEFINE k == [j EXCEPT !.state = "Pausing"]
  <2>1. Stopped(j) = k
    BY <1>3 DEF Stopped
  <2>2. /\ k \in JobSet /\ k.id = j.id /\ k.req = j.req /\ k.state = "Pausing"
        /\ k.attempts = j.attempts /\ k.waiting = j.waiting
    BY <1>1, StateOf
  <2> HIDE DEF k
  <2> QED BY <1>3, <2>1, <2>2 DEF JobOK, Busy, Away, Settled
<1>4. CASE j.state \notin {"Queued", "RetryWaiting", "Running"}
  <2>1. Stopped(j) = j
    BY <1>4 DEF Stopped
  <2> QED BY <1>4, <2>1
<1> QED BY <1>2, <1>3, <1>4

LEMMA StopOf ==
  ASSUME NEW a \in Actors, Books(a)
  PROVE  /\ Evolved(a, Stop(a)) /\ Stop(a).closing = TRUE /\ Stop(a).pc = a.pc
         /\ Stop(a).failure = a.failure /\ Stop(a).dirty = a.dirty /\ Stop(a).open = a.open
         /\ Stop(a).queue = a.queue /\ Stop(a).last = a.last /\ Stop(a).asked = a.asked
         /\ \A i \in DOMAIN a.jobs : Stop(a).jobs[i] = Stopped(a.jobs[i])
<1> DEFINE y == TRUE
           f == [i \in DOMAIN a.jobs |-> Stopped(a.jobs[i])]
           b == [a EXCEPT !.closing = y, !.jobs = f]
<1>1. Stop(a) = b
  BY DEF Stop
<1>2. a.jobs \in Seq(JobSet) /\ Line(a.jobs, a.queue)
  BY ActorFields DEF Books
<1>3. \A i \in DOMAIN a.jobs : a.jobs[i] \in JobSet /\ JobOK(a.jobs[i], a.last, a.asked)
  BY <1>2 DEF Books
<1>4. f = [i \in DOMAIN a.jobs |-> f[i]] /\ \A i \in DOMAIN a.jobs : f[i] = Stopped(a.jobs[i])
  OBVIOUS
<1>5. y \in BOOLEAN /\ y = TRUE
  OBVIOUS
<1> HIDE DEF f, y
<1>6. \A i \in DOMAIN a.jobs :
        /\ f[i] \in JobSet /\ f[i].id = a.jobs[i].id /\ f[i].req = a.jobs[i].req
        /\ JobOK(f[i], a.last, a.asked) /\ (Busy(f[i]) <=> Busy(a.jobs[i]))
        /\ (Away(f[i]) => Away(a.jobs[i])) /\ (Settled(a.jobs[i]) => f[i].state = a.jobs[i].state)
  BY <1>3, <1>4, StoppedOf
<1>7. f \in Seq(JobSet) /\ SameNames(a.jobs, f)
  BY <1>2, <1>4, <1>6, EachOf
<1>8. Line(f, a.queue)
  BY <1>2, <1>6, <1>7, LineSame
<1>9. /\ b \in Actors /\ b.pc = a.pc /\ b.jobs = f /\ b.queue = a.queue /\ b.last = a.last
      /\ b.receipts = a.receipts /\ b.asked = a.asked /\ b.closing = y /\ b.failure = a.failure
      /\ b.dirty = a.dirty /\ b.ack = a.ack /\ b.live = a.live /\ b.open = a.open
  BY <1>5, <1>7 DEF Actors
<1> HIDE DEF b
<1>10. Books(b)
  BY <1>6, <1>7, <1>8, <1>9, BooksSame
<1>11. Evolved(a, b)
  BY <1>6, <1>7, <1>9, <1>10 DEF Evolved
<1> QED BY <1>1, <1>4, <1>5, <1>9, <1>11

\* Workers that are told to stop are still the workers.
LEMMA MannedTold ==
  ASSUME NEW a, NEW b, Manned(b, workers)
  PROVE  /\ Manned(b, CancelAll(a)) /\ Cardinality(CancelAll(a)) <= Cardinality(workers)
         /\ workers = {} => CancelAll(a) = {}
<1>1. /\ Crew(b.jobs, CancelAll(a)) /\ Cardinality(CancelAll(a)) <= Cardinality(workers)
      /\ workers = {} => CancelAll(a) = {}
  BY CancelAllOf DEF Manned
<1>2. /\ Cardinality(CancelAll(a)) \in Nat /\ Cardinality(workers) \in Nat
      /\ Cardinality(workers) <= MaxActive /\ MaxActive \in Nat
  BY <1>1, FS_CardinalityType, QueueAssumption DEF Crew, Manned
<1>3. Cardinality(CancelAll(a)) <= MaxActive
  BY <1>1, <1>2
<1> QED BY <1>1, <1>3 DEF Manned

LEMMA EvolvedManned ==
  ASSUME NEW a \in Actors, Books(a), NEW b, Evolved(a, b), NEW ws, Manned(a, ws)
  PROVE  Manned(b, ws)
<1>1. /\ b \in Actors /\ SameNames(a.jobs, b.jobs)
      /\ \A i \in DOMAIN a.jobs : Busy(b.jobs[i]) <=> Busy(a.jobs[i])
  BY DEF Evolved
<1>2. Distinct(a.jobs)
  BY DEF Books
<1> QED BY <1>1, <1>2, MannedSame

LEMMA EndOfCommandsKeeps ==
  ASSUME IInv, EndOfCommands
  PROVE  IInv'
<1> DEFINE y == TRUE
           t == "top"
           s == Stop(actor)
           b == [s EXCEPT !.pc = t, !.dirty = y]
<1>1. /\ actor.pc = "select" /\ actor' = b /\ workers' = CancelAll(actor) /\ Quiet /\ disk' = disk
      /\ inbox' = inbox /\ accepted' = accepted /\ budget' = budget
  BY DEF EndOfCommands
<1>2. actor \in Actors /\ Books(actor) /\ Manned(actor, workers)
  BY Facts
<1>3. Evolved(actor, s) /\ s.closing = TRUE
  BY <1>2, StopOf
<1> HIDE DEF s
<1>4. s \in Actors /\ Books(s) /\ s.ack = Silence /\ s.receipts = actor.receipts
  BY <1>1, <1>3, SelectSilent DEF Evolved
<1>5. Manned(s, workers)
  BY <1>2, <1>3, EvolvedManned
<1>6. y \in BOOLEAN /\ y = TRUE /\ t = "top" /\ t \in {"down", "top", "start", "select", "end"}
  OBVIOUS
<1> HIDE DEF y, t
<1>7. /\ b \in Actors /\ b.pc = t /\ b.dirty = y /\ b.jobs = s.jobs /\ b.queue = s.queue
      /\ b.last = s.last /\ b.receipts = s.receipts /\ b.asked = s.asked
      /\ b.closing = s.closing /\ b.ack = s.ack
  BY <1>4, <1>6 DEF Actors
<1> HIDE DEF b
<1>8. Books(b) /\ Owed(b) /\ Keeps(actor.receipts, b.receipts)
  BY <1>4, <1>7, BooksKeep, SilenceType, KeepsSelf DEF Owed
<1>9. Manned(b, workers)
  BY <1>5, <1>7 DEF Manned
<1>10. Manned(b, workers')
  BY <1>1, <1>9, MannedTold
<1>11. Good(b, workers', disk)
  BY <1>1, <1>3, <1>6, <1>7, <1>8, <1>10, TopGood
<1>12. budget' \in Budgets
  BY <1>1, Facts DEF Types, Budgets
<1> QED BY <1>1, <1>11, <1>12, Facts, QuietStep

\* The handle is gone: the stop begins.
LEMMA HungUpOf ==
  ASSUME NEW a \in Actors, Books(a)
  PROVE  /\ Evolved(a, HungUp(a)) /\ HungUp(a).failure = a.failure /\ HungUp(a).pc = a.pc
         /\ HungUp(a) = a \/ (HungUp(a).dirty /\ HungUp(a).closing)
<1>1. CASE a.open \/ a.closing
  <2>1. HungUp(a) = a
    BY <1>1 DEF HungUp
  <2> QED BY <2>1, EvolvedSelf
<1>2. CASE ~(a.open \/ a.closing)
  <2> DEFINE y == TRUE
             s == Stop(a)
             b == [s EXCEPT !.dirty = y]
  <2>1. HungUp(a) = b
    BY <1>2 DEF HungUp
  <2>2. Evolved(a, s) /\ s.closing = TRUE /\ s.pc = a.pc /\ s.failure = a.failure
    BY StopOf
  <2>3. y \in BOOLEAN /\ y = TRUE
    OBVIOUS
  <2> HIDE DEF s, y
  <2>4. s \in Actors /\ Books(s)
    BY <2>2 DEF Evolved
  <2>5. /\ b \in Actors /\ b.pc = s.pc /\ b.dirty = y /\ b.jobs = s.jobs /\ b.queue = s.queue
        /\ b.last = s.last /\ b.receipts = s.receipts /\ b.asked = s.asked
        /\ b.closing = s.closing /\ b.ack = s.ack /\ b.failure = s.failure /\ b.live = s.live
    BY <2>3, <2>4 DEF Actors
  <2> HIDE DEF b
  <2>6. Books(b)
    BY <2>4, <2>5, BooksKeep
  <2>7. Evolved(a, b)
    BY <2>2, <2>5, <2>6 DEF Evolved
  <2> QED BY <2>1, <2>2, <2>3, <2>5, <2>7
<1> QED BY <1>1, <1>2

\* A save has failed: the stop begins.
LEMMA FailingOf ==
  ASSUME NEW a \in Actors, Books(a)
  PROVE  /\ Evolved(a, Failing(a)) /\ Failing(a).failure = TRUE /\ Failing(a).closing = TRUE
         /\ Failing(a).pc = a.pc /\ Failing(a).queue = a.queue
         /\ Failing(a).last = a.last /\ Failing(a).asked = a.asked
         /\ \A i \in DOMAIN a.jobs : Failing(a).jobs[i] = Stopped(a.jobs[i])
<1> DEFINE y == TRUE
           n == FALSE
           s == Stop(a)
           b == [s EXCEPT !.failure = y, !.open = n]
<1>1. Failing(a) = b
  BY DEF Failing
<1>2. /\ Evolved(a, s) /\ s.closing = TRUE /\ s.pc = a.pc /\ s.queue = a.queue
      /\ s.last = a.last /\ s.asked = a.asked
      /\ \A i \in DOMAIN a.jobs : s.jobs[i] = Stopped(a.jobs[i])
  BY StopOf
<1>3. y \in BOOLEAN /\ y = TRUE /\ n \in BOOLEAN
  OBVIOUS
<1> HIDE DEF s, y, n
<1>4. s \in Actors /\ Books(s)
  BY <1>2 DEF Evolved
<1>5. /\ b \in Actors /\ b.pc = s.pc /\ b.failure = y /\ b.jobs = s.jobs /\ b.queue = s.queue
      /\ b.last = s.last /\ b.receipts = s.receipts /\ b.asked = s.asked
      /\ b.closing = s.closing /\ b.ack = s.ack /\ b.live = s.live
  BY <1>3, <1>4 DEF Actors
<1> HIDE DEF b
<1>6. Books(b)
  BY <1>4, <1>5, BooksKeep
<1>7. Evolved(a, b)
  BY <1>2, <1>5, <1>6 DEF Evolved
<1> QED BY <1>1, <1>2, <1>3, <1>5, <1>7

\* A retry is due: it is queued again.
LEMMA AgainOf ==
  ASSUME NEW j \in JobSet, NEW last, NEW asked, JobOK(j, last, asked)
  PROVE  /\ Again(j) \in JobSet /\ Again(j).id = j.id /\ Again(j).req = j.req
         /\ JobOK(Again(j), last, asked) /\ (Busy(Again(j)) <=> Busy(j))
         /\ (Away(Again(j)) => Away(j) /\ ~Due(j)) /\ (Settled(j) => Again(j).state = j.state)
<1>1. CASE Due(j)
  <2> DEFINE k == [j EXCEPT !.state = "Queued", !.due = FALSE]
  <2>1. Again(j) = k
    BY <1>1 DEF Again
  <2>2. "Queued" \in States
    BY DEF States
  <2>3. /\ k \in JobSet /\ k.id = j.id /\ k.req = j.req /\ k.state = "Queued"
        /\ k.attempts = j.attempts /\ k.waiting = j.waiting
    BY <2>2, StateDueOf
  <2> HIDE DEF k
  <2>4. j.state = "RetryWaiting"
    BY <1>1 DEF Due
  <2> QED BY <2>1, <2>3, <2>4 DEF JobOK, Busy, Away, Settled
<1>2. CASE ~Due(j)
  BY <1>2 DEF Again
<1> QED BY <1>1, <1>2

LEMMA PromotedOf ==
  ASSUME NEW a \in Actors, Books(a)
  PROVE  /\ Evolved(a, Promoted(a)) /\ Promoted(a).failure = a.failure
         /\ Promoted(a).closing = a.closing /\ Promoted(a).pc = a.pc
         /\ Promoted(a) = a \/ Promoted(a).dirty
<1>1. CASE a.closing \/ DueIn(a.jobs) = {}
  <2>1. Promoted(a) = a
    BY <1>1 DEF Promoted
  <2> QED BY <2>1, EvolvedSelf
<1>2. CASE ~(a.closing \/ DueIn(a.jobs) = {})
  <2> DEFINE y == TRUE
             f == [i \in DOMAIN a.jobs |-> Again(a.jobs[i])]
             N == Names(a.jobs)
             I == DueIn(a.jobs)
             t == At(N, I)
             q == a.queue \o t
             b == [a EXCEPT !.queue = q, !.dirty = y, !.jobs = f]
  <2>1. Promoted(a) = b
    BY <1>2 DEF Promoted
  <2>2. /\ a.jobs \in Seq(JobSet) /\ a.queue \in Seq(Nat) /\ Line(a.jobs, a.queue)
        /\ Distinct(a.jobs)
    BY ActorFields DEF Books
  <2>3. \A i \in DOMAIN a.jobs : /\ a.jobs[i] \in JobSet /\ a.jobs[i].id \in Nat
                                 /\ JobOK(a.jobs[i], a.last, a.asked)
    BY <2>2, JobFields DEF Books
  <2>4. f = [i \in DOMAIN a.jobs |-> f[i]] /\ \A i \in DOMAIN a.jobs : f[i] = Again(a.jobs[i])
    OBVIOUS
  <2>5. y \in BOOLEAN /\ y = TRUE
    OBVIOUS
  <2> HIDE DEF f, y
  <2>6. \A i \in DOMAIN a.jobs :
          /\ f[i] \in JobSet /\ f[i].id = a.jobs[i].id /\ f[i].req = a.jobs[i].req
          /\ JobOK(f[i], a.last, a.asked) /\ (Busy(f[i]) <=> Busy(a.jobs[i]))
          /\ (Away(f[i]) => Away(a.jobs[i]) /\ ~Due(a.jobs[i]))
          /\ (Settled(a.jobs[i]) => f[i].state = a.jobs[i].state)
    <3> TAKE i \in DOMAIN a.jobs
    <3>1. f[i] = Again(a.jobs[i]) /\ a.jobs[i] \in JobSet /\ JobOK(a.jobs[i], a.last, a.asked)
      BY <2>3, <2>4
    <3> DEFINE j == a.jobs[i]
    <3> HIDE DEF j
    <3>2. f[i] = Again(j) /\ j \in JobSet /\ JobOK(j, a.last, a.asked)
      BY <3>1 DEF j
    <3>3. /\ f[i] \in JobSet /\ f[i].id = j.id /\ f[i].req = j.req
          /\ JobOK(f[i], a.last, a.asked) /\ (Busy(f[i]) <=> Busy(j))
          /\ (Away(f[i]) => Away(j) /\ ~Due(j))
          /\ (Settled(j) => f[i].state = j.state)
      BY <3>2, AgainOf
    <3> QED BY <3>3 DEF j
  <2>7. f \in Seq(JobSet) /\ SameNames(a.jobs, f)
    BY <2>2, <2>4, <2>6, EachOf
  <2>8. N \in Seq(Nat) /\ DOMAIN N = DOMAIN a.jobs /\ \A i \in DOMAIN a.jobs : N[i] = a.jobs[i].id
    BY <2>2, <2>3, NamesOf
  <2>9. I \subseteq DOMAIN a.jobs /\ \A i \in I : Due(a.jobs[i])
    BY DEF DueIn
  <2> HIDE DEF N, I
  <2>10. t \in Seq(Nat) /\ ToSet(t) = {N[i] : i \in I} /\ IsInjective(t)
    <3>1. \A i, k \in I : N[i] = N[k] => i = k
      BY <2>2, <2>8, <2>9 DEF Distinct
    <3>2. I \subseteq DOMAIN N
      BY <2>8, <2>9
    <3> QED BY <2>8, <3>1, <3>2, AtOf
  <2> HIDE DEF t
  <2>11. \A x \in ToSet(t) : \E i \in DOMAIN a.jobs : a.jobs[i].id = x /\ Due(a.jobs[i])
    BY <2>8, <2>9, <2>10
  <2>12. ToSet(a.queue) \cap ToSet(t) = {}
    <3> SUFFICES ASSUME NEW x \in ToSet(t), x \in ToSet(a.queue) PROVE FALSE
      OBVIOUS
    <3>1. PICK i \in DOMAIN a.jobs : a.jobs[i].id = x /\ Due(a.jobs[i])
      BY <2>11
    <3>2. Away(a.jobs[i])
      BY <3>1 DEF Due, Away
    <3> QED BY <2>2, <3>1, <3>2 DEF Line
  <2>13. q \in Seq(Nat) /\ IsInjective(q) /\ ToSet(q) = ToSet(a.queue) \cup ToSet(t)
    BY <2>2, <2>10, <2>12, ConcatOf DEF Line
  <2> HIDE DEF q
  <2>14. Line(f, q)
    <3>1. Ids(f) = Ids(a.jobs) /\ DOMAIN f = DOMAIN a.jobs
      BY <2>7, SameIds DEF SameNames
    <3>2. ToSet(t) \subseteq Ids(a.jobs)
      BY <2>11, IdsOf
    <3>3. ToSet(q) \subseteq Ids(f)
      BY <2>2, <2>13, <3>1, <3>2 DEF Line
    <3>4. ASSUME NEW i \in DOMAIN f, Away(f[i])
          PROVE  f[i].id \notin ToSet(q)
      <4>1. i \in DOMAIN a.jobs /\ Away(a.jobs[i]) /\ ~Due(a.jobs[i]) /\ f[i].id = a.jobs[i].id
        BY <2>6, <3>1, <3>4
      <4>2. a.jobs[i].id \notin ToSet(a.queue)
        BY <2>2, <4>1 DEF Line
      <4>3. a.jobs[i].id \notin ToSet(t)
        <5> SUFFICES ASSUME a.jobs[i].id \in ToSet(t) PROVE FALSE
          OBVIOUS
        <5>1. PICK k \in DOMAIN a.jobs : a.jobs[k].id = a.jobs[i].id /\ Due(a.jobs[k])
          BY <2>11
        <5> QED BY <2>2, <4>1, <5>1 DEF Distinct
      <4> QED BY <2>13, <4>1, <4>2, <4>3
    <3> QED BY <2>13, <3>3, <3>4 DEF Line
  <2>15. /\ b \in Actors /\ b.pc = a.pc /\ b.jobs = f /\ b.queue = q /\ b.last = a.last
         /\ b.receipts = a.receipts /\ b.asked = a.asked /\ b.closing = a.closing
         /\ b.failure = a.failure /\ b.dirty = y /\ b.ack = a.ack /\ b.live = a.live
    BY <2>5, <2>7, <2>13 DEF Actors
  <2> HIDE DEF b
  <2>16. Books(b)
    BY <2>6, <2>7, <2>14, <2>15, BooksSame
  <2>17. Evolved(a, b)
    BY <2>6, <2>7, <2>15, <2>16 DEF Evolved
  <2> QED BY <2>1, <2>5, <2>15, <2>17
<1> QED BY <1>1, <1>2

\* Where the loop goes on.
LEMMA OnwardOf ==
  ASSUME NEW a \in Actors, NEW ws
  PROVE  LET b == Onward(a, ws) IN
         /\ b \in Actors /\ b.jobs = a.jobs /\ b.queue = a.queue /\ b.last = a.last
         /\ b.receipts = a.receipts /\ b.rate = a.rate /\ b.live = a.live /\ b.open = a.open
         /\ b.closing = a.closing /\ b.failure = a.failure /\ b.dirty = a.dirty /\ b.ack = a.ack
         /\ b.asked = a.asked
         /\ \/ b.pc = "start" /\ ~a.closing /\ Cardinality(ws) < MaxActive
            \/ b.pc = "end" /\ a.closing /\ ws = {}
            \/ b.pc = "select"
<1> DEFINE p == IF CanStart(a, ws) THEN "start" ELSE IF a.closing /\ ws = {} THEN "end" ELSE "select"
           b == [a EXCEPT !.pc = p]
<1>1. b = Onward(a, ws)
  BY DEF Onward
<1>2. \/ p = "start" /\ ~a.closing /\ Cardinality(ws) < MaxActive
      \/ p = "end" /\ a.closing /\ ws = {}
      \/ p = "select"
  BY DEF CanStart
<1> HIDE DEF p
<1>3. p \in {"down", "top", "start", "select", "end"}
  BY <1>2
<1>4. /\ b \in Actors /\ b.jobs = a.jobs /\ b.queue = a.queue /\ b.last = a.last
      /\ b.receipts = a.receipts /\ b.rate = a.rate /\ b.live = a.live /\ b.open = a.open
      /\ b.closing = a.closing /\ b.failure = a.failure /\ b.dirty = a.dirty /\ b.ack = a.ack
      /\ b.asked = a.asked /\ b.pc = p
  BY <1>3 DEF Actors
<1> HIDE DEF b
<1> QED BY <1>1, <1>2, <1>4

\* The state in which a turn leaves the loop.
LEMMA OnwardGood ==
  ASSUME NEW c \in Actors, NEW ws, NEW d, NEW v, Books(c), Manned(c, ws), c.ack = Silence,
         c.failure => c.closing, c.dirty => c.closing,
         ~c.dirty /\ ~c.failure => d = <<Snapshot(c)>> /\ c.live = Limits(c),
         d # <<>>, Keeps(d[1].receipts, c.receipts),
         ~c.closing => ws = v, v = {} => ws = {}
  PROVE  Good(Onward(c, v), ws, d)
<1> DEFINE b == Onward(c, v)
<1>1. /\ b \in Actors /\ b.jobs = c.jobs /\ b.queue = c.queue /\ b.last = c.last
      /\ b.receipts = c.receipts /\ b.rate = c.rate /\ b.live = c.live
      /\ b.closing = c.closing /\ b.failure = c.failure /\ b.dirty = c.dirty /\ b.ack = c.ack
      /\ b.asked = c.asked
      /\ \/ b.pc = "start" /\ ~c.closing /\ Cardinality(v) < MaxActive
         \/ b.pc = "end" /\ c.closing /\ v = {}
         \/ b.pc = "select"
  BY OnwardOf
<1> HIDE DEF b
<1>2. Books(b) /\ Snapshot(b) = Snapshot(c) /\ Limits(b) = Limits(c)
  BY <1>1, BooksKeep, SnapshotSame
<1>3. Manned(b, ws)
  BY <1>1 DEF Manned
<1>4. Place(b, ws) /\ Flags(b)
  BY <1>1 DEF Place, Flags
<1>5. Owed(b)
  BY <1>1, SilenceType DEF Owed
<1>6. Synced(b, d) /\ Ahead(b, d)
  BY <1>1, <1>2 DEF Synced, Ahead
<1>7. Good(b, ws, d)
  BY <1>1, <1>2, <1>3, <1>4, <1>5, <1>6 DEF Good
<1> QED BY <1>7 DEF b

LEMMA LimitsType ==
  ASSUME NEW a \in Actors, Distinct(a.jobs)
  PROVE  Limits(a) \in SUBSET (Nat \X Settings)
<1>1. a.rate \in Settings /\ a.jobs \in Seq(JobSet)
  BY ActorFields
<1>2. \A i \in DOMAIN a.jobs : a.jobs[i].id \in Nat /\ a.jobs[i].rate \in Settings
  BY <1>1, JobFields
<1>3. Limits(a) = {<<0, a.rate>>} \cup {<<a.jobs[i].id, a.jobs[i].rate>> : i \in DOMAIN a.jobs}
  BY LimitsOf
<1> QED BY <1>1, <1>2, <1>3

LEMMA AnswerOf ==
  ASSUME NEW b \in Actors, b.ack.ok = FALSE
  PROVE  /\ Answer(b) \in Acks
         /\ Answer(b).ok => /\ b.ack # Silence /\ ~b.failure
                            /\ Answer(b).op = b.ack.op /\ Answer(b).id = b.ack.id
<1>1. b.ack \in Acks /\ b.failure \in BOOLEAN
  BY ActorFields
<1>2. CASE b.ack = Silence
  BY <1>2, SilenceType DEF Answer
<1>3. CASE b.ack # Silence
  <2> DEFINE n == ~b.failure
             k == b.ack
             r == [k EXCEPT !.ok = n]
  <2>1. n \in BOOLEAN /\ k \in Acks /\ Answer(b) = r
    BY <1>1, <1>3 DEF Answer
  <2> HIDE DEF n, k
  <2>2. r \in Acks /\ r.ok = n /\ r.op = k.op /\ r.id = k.id
    BY <2>1 DEF Acks
  <2> HIDE DEF r
  <2> QED BY <1>3, <2>1, <2>2 DEF n, k
<1> QED BY <1>2, <1>3

\* A turn up to its save: what there is to save, and what became of it.
LEMMA TurnFacts ==
  ASSUME IInv, Turn
  PROVE  \E a, b \in Actors :
           /\ a = Promoted(HungUp(actor)) /\ Evolved(actor, a) /\ Evolved(actor, b)
           /\ a = actor \/ a.dirty = TRUE
           /\ b = a \/ (b.failure /\ b.closing)
           /\ b.failure => b.closing
           /\ ~b.failure => b = a
           /\ a.failure => b.failure /\ b.closing
           /\ a.dirty /\ ~b.failure => disk' = <<Snapshot(a)>>
           /\ ~a.dirty => b = a /\ disk' = disk
           /\ disk' # <<>> /\ Keeps(disk'[1].receipts, actor.receipts) /\ Shelf(disk')
           /\ Kept(accepted, disk') /\ budget' \in Budgets
           /\ workers' = IF b.closing THEN CancelAll(actor) ELSE workers
           /\ actor' = Onward([b EXCEPT !.ack = Silence, !.dirty = @ /\ a.failure,
                                 !.live = IF a.dirty /\ ~b.failure THEN Limits(a) ELSE @], workers)
           /\ told' = Answer(b)
           /\ accepted' = Promises(Answer(b), b.jobs) /\ inbox' = Remaining(Answer(b), b.jobs)
<1> DEFINE h == HungUp(actor)
           a == Promoted(h)
           g == Failing(a)
<1>1. /\ actor \in Actors /\ Books(actor) /\ Flags(actor) /\ Ahead(actor, disk) /\ Shelf(disk)
      /\ Kept(accepted, disk) /\ Types /\ actor.pc = "top"
  BY Facts DEF Turn
<1>2. /\ Evolved(actor, h) /\ h.failure = actor.failure /\ h.pc = actor.pc
      /\ h = actor \/ (h.dirty /\ h.closing)
  BY <1>1, HungUpOf
<1>3. PICK b \in {a, g} :
       /\ IF ~a.dirty \/ a.failure THEN b = a /\ UNCHANGED <<disk, budget>>
          ELSE IF b = a THEN SaveOk(a) ELSE SaveErr(a)
       /\ workers' = IF b.closing THEN CancelAll(actor) ELSE workers
       /\ actor' = Onward([b EXCEPT !.ack = Silence, !.dirty = @ /\ a.failure,
                             !.live = IF a.dirty /\ ~b.failure THEN Limits(a) ELSE @], workers)
       /\ told' = Answer(b)
       /\ accepted' = Promises(Answer(b), b.jobs) /\ inbox' = Remaining(Answer(b), b.jobs)
  BY DEF Turn
<1> HIDE DEF h
<1>4. h \in Actors /\ Books(h)
  BY <1>2 DEF Evolved
<1>5. /\ Evolved(h, a) /\ a.failure = h.failure /\ a.closing = h.closing /\ a.pc = h.pc
      /\ a = h \/ a.dirty
  BY <1>4, PromotedOf
<1>0. a = Promoted(HungUp(actor))
  BY DEF h
<1> HIDE DEF a
<1>6. Evolved(actor, a)
  BY <1>2, <1>5, EvolvedTrans
<1>7. a \in Actors /\ Books(a) /\ a.receipts = actor.receipts
  BY <1>6 DEF Evolved
<1>8. Evolved(a, g) /\ g.failure = TRUE /\ g.closing = TRUE
  BY <1>7, FailingOf
<1> HIDE DEF g
<1>9. Evolved(actor, g) /\ g \in Actors
  BY <1>6, <1>8, EvolvedTrans DEF Evolved
<1>10. a.dirty \in BOOLEAN /\ a.failure \in BOOLEAN /\ a.closing \in BOOLEAN
  BY <1>7, ActorFields
<1>11. a = actor \/ a.dirty = TRUE
  BY <1>2, <1>5, <1>10
<1>12. a.failure => a.closing
  BY <1>1, <1>2, <1>5 DEF Flags
<1>13. Keeps(actor.receipts, a.receipts)
  BY <1>7, KeepsSelf
<1>14. CASE ~a.dirty \/ a.failure
  <2>1. b = a /\ disk' = disk /\ budget' = budget
    BY <1>3, <1>14
  <2>2. /\ disk' # <<>> /\ Keeps(disk'[1].receipts, actor.receipts) /\ Shelf(disk')
        /\ Kept(accepted, disk') /\ budget' \in Budgets
    BY <1>1, <2>1 DEF Ahead, Types, Budgets
  <2>3. /\ b = a \/ (b.failure /\ b.closing)
        /\ b.failure => b.closing
        /\ ~b.failure => b = a
        /\ a.failure => b.failure /\ b.closing
        /\ a.dirty /\ ~b.failure => disk' = <<Snapshot(a)>>
        /\ ~a.dirty => b = a /\ disk' = disk
    BY <1>12, <1>14, <2>1
  <2>4. b \in Actors /\ Evolved(actor, b)
    BY <1>6, <1>7, <2>1
  <2> QED BY <1>0, <1>3, <1>6, <1>7, <1>11, <2>2, <2>3, <2>4
<1>15. CASE a.dirty /\ ~a.failure
  <2>1. SaveOk(a) \/ SaveErr(a)
    BY <1>3, <1>15
  <2>2. /\ Shelf(disk') /\ disk' # <<>> /\ Keeps(disk'[1].receipts, a.receipts)
        /\ Kept(accepted, disk') /\ budget' \in Budgets
        /\ SaveOk(a) => disk' = <<Snapshot(a)>>
    BY <1>1, <1>7, <1>13, <2>1, SaveOutcome
  <2>3. /\ b = a \/ (b.failure /\ b.closing)
        /\ b.failure => b.closing
        /\ ~b.failure => b = a
        /\ b = a => SaveOk(a)
    BY <1>3, <1>8, <1>12, <1>15
  <2>4. /\ a.failure => b.failure /\ b.closing
        /\ a.dirty /\ ~b.failure => disk' = <<Snapshot(a)>>
        /\ ~a.dirty => b = a /\ disk' = disk
    BY <1>15, <2>2, <2>3
  <2>5. b \in Actors /\ Evolved(actor, b) /\ Keeps(disk'[1].receipts, actor.receipts)
    BY <1>3, <1>6, <1>7, <1>9, <2>2
  <2> QED BY <1>0, <1>3, <1>6, <1>7, <1>11, <2>2, <2>3, <2>4, <2>5
<1> QED BY <1>10, <1>14, <1>15

LEMMA TurnKeeps ==
  ASSUME IInv, Turn
  PROVE  IInv'
<1>0. /\ actor \in Actors /\ Books(actor) /\ Manned(actor, workers) /\ Owed(actor)
      /\ Synced(actor, disk) /\ Types /\ actor.pc = "top"
  BY Facts DEF Turn
<1>1. PICK a, b \in Actors :
           /\ Evolved(actor, a) /\ Evolved(actor, b)
           /\ a = actor \/ a.dirty = TRUE
           /\ b.failure => b.closing
           /\ ~b.failure => b = a
           /\ a.failure => b.failure /\ b.closing
           /\ a.dirty /\ ~b.failure => disk' = <<Snapshot(a)>>
           /\ ~a.dirty => b = a /\ disk' = disk
           /\ disk' # <<>> /\ Keeps(disk'[1].receipts, actor.receipts) /\ Shelf(disk')
           /\ Kept(accepted, disk') /\ budget' \in Budgets
           /\ workers' = IF b.closing THEN CancelAll(actor) ELSE workers
           /\ actor' = Onward([b EXCEPT !.ack = Silence, !.dirty = @ /\ a.failure,
                                 !.live = IF a.dirty /\ ~b.failure THEN Limits(a) ELSE @], workers)
           /\ told' = Answer(b)
           /\ accepted' = Promises(Answer(b), b.jobs) /\ inbox' = Remaining(Answer(b), b.jobs)
  BY TurnFacts
<1> DEFINE k == Silence
           e == b.dirty /\ a.failure
           l == IF a.dirty /\ ~b.failure THEN Limits(a) ELSE b.live
           c == [b EXCEPT !.ack = k, !.dirty = e, !.live = l]
<1>2. /\ Books(a) /\ Books(b) /\ Distinct(a.jobs) /\ Distinct(b.jobs) /\ b.ack = actor.ack
      /\ b.receipts = actor.receipts /\ b.live = actor.live /\ SameNames(actor.jobs, b.jobs)
  BY <1>1 DEF Evolved, Books
<1>3. actor' = Onward(c, workers)
  BY <1>1
<1>4. k \in Acks /\ k = Silence
  BY SilenceType
<1>5. e \in BOOLEAN /\ (e => a.failure) /\ l \in SUBSET (Nat \X Settings)
      /\ (a.dirty /\ ~b.failure => l = Limits(a)) /\ (~a.dirty => l = b.live)
      /\ (a.dirty /\ a.failure /\ b.dirty => e)
  BY <1>2, LimitsType, ActorFields
<1> HIDE DEF k, e, l
<1>6. /\ c \in Actors /\ c.pc = b.pc /\ c.jobs = b.jobs /\ c.queue = b.queue /\ c.last = b.last
      /\ c.receipts = b.receipts /\ c.rate = b.rate /\ c.live = l /\ c.asked = b.asked
      /\ c.closing = b.closing /\ c.failure = b.failure /\ c.dirty = e /\ c.ack = k
  BY <1>4, <1>5 DEF Actors
<1> HIDE DEF c
<1>7. Books(c) /\ Snapshot(c) = Snapshot(b) /\ Limits(c) = Limits(b)
  BY <1>2, <1>6, BooksKeep, SnapshotSame
<1>8. Manned(b, workers)
  BY <1>0, <1>1, EvolvedManned
<1>9. Manned(c, workers') /\ (~c.closing => workers' = workers) /\ (workers = {} => workers' = {})
  <2>1. Manned(b, CancelAll(actor)) /\ (workers = {} => CancelAll(actor) = {})
    BY <1>8, MannedTold
  <2>2. Manned(b, workers')
    BY <1>1, <1>8, <2>1
  <2>3. Manned(c, workers')
    BY <1>6, <2>2 DEF Manned
  <2> QED BY <1>1, <1>6, <2>1, <2>3
<1>10. ~c.failure => disk' = <<Snapshot(c)>> /\ c.live = Limits(c)
  <2> SUFFICES ASSUME ~c.failure PROVE disk' = <<Snapshot(c)>> /\ c.live = Limits(c)
    OBVIOUS
  <2>1. b = a /\ ~a.failure
    BY <1>1, <1>6
  <2>2. CASE a.dirty
    BY <1>1, <1>5, <1>6, <1>7, <2>1, <2>2
  <2>3. CASE ~a.dirty
    <3>1. a = actor
      BY <1>1, <2>3
    <3>2. disk = <<Snapshot(actor)>> /\ actor.live = Limits(actor)
      BY <1>0, <2>1, <2>3, <3>1 DEF Synced
    <3> QED BY <1>1, <1>5, <1>6, <1>7, <2>1, <2>3, <3>1, <3>2
  <2> QED BY <2>2, <2>3
<1>11. Good(actor', workers', disk')
  <2>1. (c.failure => c.closing) /\ (c.dirty => c.closing)
    BY <1>1, <1>5, <1>6
  <2>2. Keeps(disk'[1].receipts, c.receipts)
    BY <1>1, <1>2, <1>6
  <2>3. Good(Onward(c, workers), workers', disk')
    BY <1>1, <1>4, <1>6, <1>7, <1>9, <1>10, <2>1, <2>2, OnwardGood
  <2> QED BY <1>3, <2>3
<1>12. /\ told' \in Acks
       /\ told'.ok => /\ actor.ack # Silence /\ ~b.failure
                      /\ told'.op = actor.ack.op /\ told'.id = actor.ack.id
  <2>1. b.ack.ok = FALSE
    BY <1>0, <1>2 DEF Owed
  <2> QED BY <1>1, <1>2, <2>1, AnswerOf
<1>13. told'.ok => ~c.failure /\ disk' = <<Snapshot(c)>> /\ c.live = Limits(c)
  BY <1>6, <1>10, <1>12
<1>14. actor'.jobs = c.jobs /\ actor'.live = c.live /\ Snapshot(actor') = Snapshot(c)
  <2>1. LET o == Onward(c, workers) IN
        /\ o.jobs = c.jobs /\ o.queue = c.queue /\ o.last = c.last
        /\ o.receipts = c.receipts /\ o.rate = c.rate /\ o.live = c.live
    BY <1>6, OnwardOf
  <2> QED BY <1>3, <2>1, SnapshotSame
<1>15. ASSUME told'.ok, told'.op = "Pause"
       PROVE  /\ \A w \in workers' : w.id # told'.id
              /\ Job(actor'.jobs, told'.id).state \in {"Paused", "Completed"}
  <2>1. PICK i \in DOMAIN actor.jobs : /\ actor.jobs[i].id = actor.ack.id
                                       /\ actor.jobs[i].state \in {"Paused", "Completed"}
    BY <1>0, <1>12, <1>15 DEF Owed
  <2>2. /\ i \in DOMAIN b.jobs /\ b.jobs[i].id = actor.ack.id
        /\ b.jobs[i].state \in {"Paused", "Completed"}
    <3>1. Settled(actor.jobs[i])
      BY <2>1 DEF Settled
    <3>2. b.jobs[i].state = actor.jobs[i].state
      BY <1>1, <3>1 DEF Evolved
    <3> QED BY <1>2, <2>1, <3>2 DEF SameNames
  <2>3. Job(b.jobs, actor.ack.id) = b.jobs[i]
    BY <1>2, <2>2, PosOf
  <2>4. ASSUME NEW w \in workers', w.id = actor.ack.id PROVE FALSE
    <3>1. PICK n \in DOMAIN b.jobs : b.jobs[n].id = w.id /\ Busy(b.jobs[n])
      BY <1>6, <1>9, <2>4 DEF Manned, Crew
    <3>2. n = i
      BY <1>2, <2>2, <2>4, <3>1 DEF Distinct
    <3> QED BY <2>2, <3>1, <3>2 DEF Busy
  <2> QED BY <1>6, <1>12, <1>14, <1>15, <2>2, <2>3, <2>4
<1>16. AnswersAreDurable'
  <2>1. ASSUME told'.ok PROVE disk' = <<Snapshot(actor')>> /\ actor'.live = Limits(disk'[1])
    <3>1. disk' = <<Snapshot(c)>> /\ c.live = Limits(c)
      BY <1>13, <2>1
    <3>2. Limits(Snapshot(c)) = Limits(c)
      BY <1>6, <1>7, SnapshotLimits DEF Books
    <3>3. disk'[1] = Snapshot(c)
      BY <3>1
    <3> QED BY <1>14, <3>1, <3>2, <3>3
  <2> QED BY <1>15, <2>1 DEF AnswersAreDurable
<1>17. ASSUME NEW x \in accepted', x \notin accepted
       PROVE  /\ told'.ok /\ x \in [req : Requests, id : Nat]
              /\ \E j \in ToSet(b.jobs) : x.req = j.req /\ x.id = j.id /\ j.req.key # 0
  <2>1. PICK j \in ToSet(b.jobs) : /\ x = [req |-> j.req, id |-> j.id] /\ told'.ok
                                   /\ j.req.key # 0
    BY <1>1, <1>17 DEF Promises
  <2>2. j \in JobSet
    <3>1. b.jobs \in Seq(JobSet)
      BY <1>1, ActorFields
    <3> QED BY <3>1 DEF ToSet
  <2> QED BY <2>1, <2>2, JobFields
<1>18. Kept(accepted', disk')
  <2> SUFFICES ASSUME NEW x \in accepted'
               PROVE  \E p \in disk'[1].receipts : p.key = x.req.key /\ p.id = x.id /\ p.req = x.req
    BY <1>1 DEF Kept
  <2>1. CASE x \in accepted
    BY <1>1, <2>1 DEF Kept
  <2>2. CASE x \notin accepted
    <3>1. PICK j \in ToSet(b.jobs) : x.req = j.req /\ x.id = j.id /\ j.req.key # 0
      BY <1>17, <2>2
    <3>2. PICK i \in DOMAIN b.jobs : b.jobs[i] = j
      BY DEF ToSet
    <3>3. PICK p \in b.receipts : p.key = j.req.key /\ p.id = j.id /\ p.req = j.req
      BY <1>2, <3>1, <3>2 DEF Books, Keyed
    <3>4. disk'[1] = Snapshot(c)
      BY <1>13, <1>17, <2>2
    <3>6. Snapshot(c).receipts = c.receipts
      BY SnapshotFields
    <3>5. disk'[1].receipts = b.receipts
      BY <1>6, <3>4, <3>6
    <3> QED BY <3>1, <3>3, <3>5
  <2> QED BY <2>1, <2>2
<1>19. Types'
  <2>1. inbox' \in Seq(Requests) /\ Len(inbox') <= Len(inbox) /\ inbox \in Seq(Requests)
    <3> DEFINE I == {i \in DOMAIN inbox :
                       [req |-> inbox[i], id |-> told'.id] \notin Promises(told', b.jobs)}
    <3>1. inbox' = At(inbox, I) /\ I \subseteq DOMAIN inbox
      BY <1>1 DEF Remaining
    <3> HIDE DEF I
    <3>2. inbox \in Seq(Requests)
      BY <1>0 DEF Types
    <3> QED BY <3>1, <3>2, AtOf
  <2>2. Len(inbox') <= MaxPending
    <3>1. Len(inbox) \in Nat /\ Len(inbox') \in Nat /\ Len(inbox) <= MaxPending /\ MaxPending \in Nat
      <4>1. MaxPending \in Nat
        BY QueueAssumption
      <4>2. Len(inbox) <= MaxPending
        BY <1>0 DEF Types
      <4> QED BY <2>1, <4>1, <4>2
    <3> QED BY <2>1, <3>1
  <2>3. accepted' \subseteq [req : Requests, id : Nat]
    BY <1>0, <1>17 DEF Types
  <2> QED BY <1>1, <1>12, <2>1, <2>2, <2>3 DEF Types, Budgets
<1> QED BY <1>1, <1>11, <1>16, <1>18, <1>19 DEF IInv

\* A job leaves the queue.
LEMMA QueueLess ==
  ASSUME NEW q \in Seq(Nat), IsInjective(q), NEW p \in DOMAIN q
  PROVE  /\ RemoveAt(q, p) \in Seq(Nat) /\ IsInjective(RemoveAt(q, p))
         /\ ToSet(RemoveAt(q, p)) \subseteq ToSet(q) /\ q[p] \notin ToSet(RemoveAt(q, p))
<1> DEFINE r == RemoveAt(q, p)
           n == Len(q)
           to(k) == IF k < p THEN k ELSE k + 1
<1>1. n \in Nat /\ DOMAIN q = 1 .. n /\ p \in 1 .. n
  OBVIOUS
<1>2. /\ r \in Seq(Nat) /\ Len(r) = n - 1
      /\ \A k \in 1 .. n - 1 : r[k] = IF k < p THEN q[k] ELSE q[k + 1]
  BY RemoveOf
<1> HIDE DEF r, n
<1>3. DOMAIN r = 1 .. n - 1
  BY <1>2
<1>4. ASSUME NEW k \in DOMAIN r
      PROVE  to(k) \in DOMAIN q /\ to(k) # p /\ r[k] = q[to(k)]
  <2>1. k \in 1 .. n - 1 /\ p \in Int
    BY <1>1, <1>3
  <2>2. to(k) \in 1 .. n /\ to(k) # p
    BY <1>1, <2>1
  <2>3. r[k] = q[to(k)]
    BY <1>2, <2>1
  <2> QED BY <1>1, <2>2, <2>3
<1>5. \A k, l \in DOMAIN r : to(k) = to(l) => k = l
  BY <1>1, <1>3
<1> HIDE DEF to
<1>6. \A k, l \in DOMAIN q : q[k] = q[l] => k = l
  BY DEF IsInjective
<1>7. IsInjective(r)
  BY <1>4, <1>5, <1>6 DEF IsInjective
<1>8. ToSet(r) \subseteq ToSet(q) /\ q[p] \notin ToSet(r)
  BY <1>4, <1>6 DEF ToSet
<1> QED BY <1>2, <1>7, <1>8 DEF r

\* The job that is started, and the books with it.
LEMMA StartedOf ==
  ASSUME IInv, actor.pc = "start", NEW i \in Eligible(actor)
  PROVE  LET a == Started(actor, i) IN
         /\ a \in Actors /\ Books(a) /\ SameNames(actor.jobs, a.jobs)
         /\ a.last = actor.last /\ a.receipts = actor.receipts /\ a.rate = actor.rate
         /\ a.live = actor.live /\ a.closing = actor.closing /\ a.failure = actor.failure
         /\ a.dirty = actor.dirty /\ a.ack = actor.ack
         /\ \E p \in DOMAIN actor.jobs :
              /\ actor.jobs[p].id = actor.queue[i] /\ ~Busy(actor.jobs[p])
              /\ a.jobs[p].state = "Running" /\ a.jobs[p].waiting = FALSE
              /\ a.jobs[p].rate = actor.jobs[p].rate
              /\ \A n \in DOMAIN actor.jobs : n # p => a.jobs[n] = actor.jobs[n]
              /\ Cardinality(BusyAt(actor.jobs, actor.jobs[p].req.origin)) < MaxPerOrigin
<1> DEFINE id == actor.queue[i]
           j == Job(actor.jobs, id)
           g == Begun(j)
           u == Put(actor.jobs, g)
           q == RemoveAt(actor.queue, i)
           a == [actor EXCEPT !.jobs = u, !.queue = q]
<1>1. /\ i \in DOMAIN actor.queue /\ j.state = "Queued"
      /\ Cardinality(BusyAt(actor.jobs, j.req.origin)) < MaxPerOrigin
  BY DEF Eligible, Active
<1>2. /\ actor \in Actors /\ Books(actor) /\ Line(actor.jobs, actor.queue)
      /\ actor.queue \in Seq(Nat)
  BY Facts, ActorFields DEF Books
<1>3. id \in ToSet(actor.queue) /\ id \in Ids(actor.jobs)
  BY <1>1, <1>2 DEF ToSet, Line
<1>4. Started(actor, i) = a
  BY <1>2 DEF Started, Actors
<1> HIDE DEF id
<1>5. /\ j \in JobSet /\ j.id = id /\ JobOK(j, actor.last, actor.asked)
      /\ IsInjective(actor.queue) /\ ToSet(actor.queue) \subseteq Ids(actor.jobs)
      /\ actor.jobs \in Seq(JobSet) /\ Distinct(actor.jobs)
  BY <1>3, TheJob
<1>6. PICK p \in DOMAIN actor.jobs : actor.jobs[p].id = id /\ j = actor.jobs[p]
  BY <1>3, <1>5, FoundBy
<1> HIDE DEF j
<1>7. /\ g \in JobSet /\ g.id = j.id /\ g.req = j.req /\ g.state = "Running"
      /\ g.attempts = j.attempts + 1 /\ g.waiting = j.waiting /\ g.rate = j.rate
  BY <1>5, RunningOf
<1> HIDE DEF g
<1>8. u \in Seq(JobSet)
  BY <1>3, <1>5, <1>7, PutType
<1>9. /\ u[p] = g /\ \A n \in DOMAIN actor.jobs : n # p => u[n] = actor.jobs[n]
  BY <1>5, <1>6, <1>7, PutOf
<1>10. /\ q \in Seq(Nat) /\ IsInjective(q) /\ ToSet(q) \subseteq ToSet(actor.queue)
       /\ id \notin ToSet(q)
  BY <1>1, <1>2, <1>5, QueueLess DEF id
<1> HIDE DEF q
<1>11. a.jobs = Put(actor.jobs, g)
  BY <1>2 DEF Actors
<1> HIDE DEF u
<1>12. /\ a \in Actors /\ a.jobs = u /\ a.queue = q /\ a.last = actor.last
       /\ a.receipts = actor.receipts /\ a.rate = actor.rate
       /\ a.live = actor.live /\ a.closing = actor.closing /\ a.failure = actor.failure
       /\ a.dirty = actor.dirty /\ a.ack = actor.ack /\ a.asked = actor.asked
  BY <1>2, <1>8, <1>10 DEF Actors
<1> HIDE DEF a
<1>13. g.waiting = FALSE
  BY <1>1, <1>5, <1>7, JobFields DEF JobOK
<1>14. JobOK(g, actor.last, actor.asked)
  <2>1. j.attempts < MaxAttempts /\ j.id \in actor.asked /\ j.id <= actor.last
    BY <1>1, <1>5 DEF JobOK
  <2>2. MaxAttempts \in Nat /\ j.attempts \in Nat
    BY <1>5, QueueAssumption, JobFields
  <2>3. j.attempts + 1 <= MaxAttempts
    BY <2>1, <2>2
  <2> QED BY <1>7, <1>13, <2>1, <2>3 DEF JobOK
<1>15. Books(a) /\ SameNames(actor.jobs, a.jobs)
  <2>1. /\ g.id = actor.jobs[p].id /\ g.req = actor.jobs[p].req
        /\ Away(g) => g.id \notin ToSet(a.queue)
        /\ IsInjective(a.queue) /\ ToSet(a.queue) \subseteq Ids(actor.jobs)
        /\ \A x \in ToSet(a.queue) : x \in ToSet(actor.queue) \/ x = g.id
        /\ JobOK(g, actor.last, a.asked) /\ actor.asked \subseteq a.asked
    BY <1>5, <1>6, <1>7, <1>10, <1>12, <1>14
  <2> QED BY <1>2, <1>7, <1>11, <1>12, <2>1, PutBooks
<1>16. ~Busy(actor.jobs[p])
  BY <1>1, <1>6 DEF Busy
<1>17. /\ actor.jobs[p].id = actor.queue[i] /\ a.jobs[p].state = "Running"
       /\ a.jobs[p].waiting = FALSE /\ a.jobs[p].rate = actor.jobs[p].rate
       /\ \A n \in DOMAIN actor.jobs : n # p => a.jobs[n] = actor.jobs[n]
       /\ Cardinality(BusyAt(actor.jobs, actor.jobs[p].req.origin)) < MaxPerOrigin
  BY <1>1, <1>6, <1>7, <1>9, <1>12, <1>13 DEF id
<1> QED BY <1>4, <1>12, <1>15, <1>16, <1>17

\* The save before the start failed, or the handle is gone: the job does not start.
LEMMA UnstartedGood ==
  ASSUME IInv, actor.pc = "start", NEW i \in Eligible(actor), NEW x \in Actors,
         Evolved(Started(actor, i), x), x.closing = TRUE, x.failure \/ x.dirty,
         \A n \in DOMAIN Started(actor, i).jobs : x.jobs[n] = Stopped(Started(actor, i).jobs[n]),
         NEW d, d # <<>>, Keeps(d[1].receipts, actor.receipts)
  PROVE  Good(Onward(Unstarted(x, actor.queue[i]), workers), CancelAll(actor), d)
<1> DEFINE a == Started(actor, i)
           id == actor.queue[i]
           m == Job(x.jobs, id)
           st == "Paused"
           k == [m EXCEPT !.state = st]
           u == Put(x.jobs, k)
           c == [x EXCEPT !.jobs = u]
<1>1. actor \in Actors /\ Books(actor) /\ Manned(actor, workers) /\ Distinct(actor.jobs)
  BY Facts DEF Books
<1>2. /\ a \in Actors /\ Books(a) /\ SameNames(actor.jobs, a.jobs)
      /\ a.receipts = actor.receipts /\ a.ack = Silence
  BY StartedOf, SelectSilent
<1>3. PICK p \in DOMAIN actor.jobs :
        /\ actor.jobs[p].id = id /\ ~Busy(actor.jobs[p])
        /\ a.jobs[p].state = "Running" /\ a.jobs[p].waiting = FALSE
        /\ \A n \in DOMAIN actor.jobs : n # p => a.jobs[n] = actor.jobs[n]
  BY StartedOf
<1>4. Unstarted(x, id) = c
  BY DEF Unstarted
<1>5. \A n \in DOMAIN a.jobs : x.jobs[n] = Stopped(a.jobs[n])
  OBVIOUS
<1>6. Evolved(a, x)
  OBVIOUS
<1> HIDE DEF a, id
<1>7. /\ Books(x) /\ SameNames(a.jobs, x.jobs) /\ x.receipts = actor.receipts /\ x.ack = Silence
      /\ x.jobs \in Seq(JobSet) /\ Distinct(x.jobs) /\ Line(x.jobs, x.queue)
      /\ \A n \in DOMAIN a.jobs : Busy(x.jobs[n]) <=> Busy(a.jobs[n])
  BY <1>2, <1>6, ActorFields DEF Evolved, Books
<1>8. p \in DOMAIN a.jobs /\ p \in DOMAIN x.jobs /\ x.jobs[p].id = id /\ DOMAIN a.jobs = DOMAIN actor.jobs
  BY <1>2, <1>3, <1>7 DEF SameNames
<1>9. m = x.jobs[p] /\ m \in JobSet /\ JobOK(m, x.last, x.asked)
  BY <1>7, <1>8, PosOf DEF Books
<1>10. m.waiting = FALSE
  <2>1. a.jobs \in Seq(JobSet)
    BY <1>2, ActorFields
  <2>2. a.jobs[p] \in JobSet /\ JobOK(a.jobs[p], a.last, a.asked)
    BY <1>2, <1>8, <2>1 DEF Books
  <2>3. Stopped(a.jobs[p]).waiting = a.jobs[p].waiting
    BY <1>3, <2>2, StoppedOf
  <2> QED BY <1>3, <1>5, <1>8, <1>9, <2>3
<1>11. st \in States /\ st = "Paused"
  BY DEF States
<1> HIDE DEF m, st
<1>12. k \in JobSet /\ k.id = m.id /\ k.req = m.req /\ k.state = st /\ k.attempts = m.attempts
       /\ k.waiting = m.waiting
  BY <1>9, <1>11 DEF JobSet
<1> HIDE DEF k
<1>13. u \in Seq(JobSet) /\ u[p] = k /\ \A n \in DOMAIN x.jobs : n # p => u[n] = x.jobs[n]
  BY <1>7, <1>8, <1>9, <1>12, PutOf
<1>14. c.jobs = Put(x.jobs, k)
  BY DEF Actors
<1> HIDE DEF u
<1>15. /\ c \in Actors /\ c.jobs = u /\ c.queue = x.queue /\ c.last = x.last
       /\ c.receipts = x.receipts /\ c.asked = x.asked /\ c.closing = x.closing
       /\ c.failure = x.failure /\ c.dirty = x.dirty /\ c.ack = x.ack
  BY <1>13 DEF Actors
<1> HIDE DEF c
<1>16. JobOK(k, x.last, x.asked) /\ ~Away(k) /\ ~Busy(k)
  BY <1>9, <1>10, <1>11, <1>12 DEF JobOK, Away, Busy
<1>17. Books(c) /\ SameNames(x.jobs, c.jobs)
  <2>1. /\ k.id = x.jobs[p].id /\ k.req = x.jobs[p].req
        /\ Away(k) => k.id \notin ToSet(c.queue)
        /\ IsInjective(c.queue) /\ ToSet(c.queue) \subseteq Ids(x.jobs)
        /\ \A z \in ToSet(c.queue) : z \in ToSet(x.queue) \/ z = k.id
        /\ JobOK(k, x.last, c.asked) /\ x.asked \subseteq c.asked
    BY <1>7, <1>9, <1>12, <1>15, <1>16 DEF Line
  <2> QED BY <1>7, <1>8, <1>12, <1>14, <1>15, <2>1, PutBooks
<1>18. SameNames(actor.jobs, c.jobs)
  BY <1>2, <1>7, <1>17, SameTrans
<1>19. \A n \in DOMAIN actor.jobs : Busy(c.jobs[n]) <=> Busy(actor.jobs[n])
  <2> TAKE n \in DOMAIN actor.jobs
  <2>1. CASE n = p
    BY <1>3, <1>13, <1>15, <1>16, <2>1
  <2>2. CASE n # p
    <3>1. n \in DOMAIN x.jobs /\ n \in DOMAIN a.jobs
      BY <1>7, <1>8 DEF SameNames
    <3> QED BY <1>3, <1>7, <1>13, <1>15, <2>2, <3>1
  <2> QED BY <2>1, <2>2
<1>20. Manned(c, workers)
  BY <1>1, <1>15, <1>18, <1>19, MannedSame
<1>21. Manned(c, CancelAll(actor)) /\ (workers = {} => CancelAll(actor) = {})
  BY <1>20, MannedTold
<1>22. Keeps(d[1].receipts, c.receipts) /\ c.ack = Silence /\ c.closing = TRUE
       /\ ~(~c.dirty /\ ~c.failure)
  BY <1>7, <1>15
<1>23. Good(Onward(c, workers), CancelAll(actor), d)
  BY <1>15, <1>17, <1>21, <1>22, OnwardGood
<1> QED BY <1>4, <1>23 DEF id

\* A worker starts, after the save that says so.
LEMMA StartedGood ==
  ASSUME IInv, actor.pc = "start", NEW i \in Eligible(actor), NEW d, d = <<Snapshot(Started(actor, i))>>
  PROVE  LET ws == workers \cup {[id |-> actor.queue[i], cancel |-> FALSE]}
         IN  Good(Onward(Started(actor, i), ws), ws, d)
<1> DEFINE a == Started(actor, i)
           id == actor.queue[i]
           ws == workers \cup {[id |-> id, cancel |-> FALSE]}
<1>1. /\ actor \in Actors /\ Books(actor) /\ Manned(actor, workers) /\ Distinct(actor.jobs)
      /\ Place(actor, workers) /\ Flags(actor) /\ Synced(actor, disk) /\ actor.jobs \in Seq(JobSet)
  BY Facts, ActorFields DEF Books
<1>2. ~actor.closing /\ ~actor.failure /\ ~actor.dirty /\ Cardinality(workers) < MaxActive
  BY <1>1 DEF Place, Flags
<1>3. /\ a \in Actors /\ Books(a) /\ SameNames(actor.jobs, a.jobs) /\ a.receipts = actor.receipts
      /\ a.rate = actor.rate /\ a.live = actor.live /\ a.closing = actor.closing
      /\ a.failure = actor.failure /\ a.dirty = actor.dirty /\ a.ack = Silence
  BY StartedOf, SelectSilent
<1>4. PICK p \in DOMAIN actor.jobs :
        /\ actor.jobs[p].id = id /\ ~Busy(actor.jobs[p])
        /\ a.jobs[p].state = "Running" /\ a.jobs[p].rate = actor.jobs[p].rate
        /\ \A n \in DOMAIN actor.jobs : n # p => a.jobs[n] = actor.jobs[n]
        /\ Cardinality(BusyAt(actor.jobs, actor.jobs[p].req.origin)) < MaxPerOrigin
  BY StartedOf
<1>5. d = <<Snapshot(a)>>
  OBVIOUS
<1> HIDE DEF a, id
<1>6. Busy(a.jobs[p]) /\ \A n \in DOMAIN actor.jobs : n # p => (Busy(a.jobs[n]) <=> Busy(actor.jobs[n]))
  BY <1>4 DEF Busy
<1>7. Crew(a.jobs, ws) /\ Cardinality(ws) = Cardinality(workers) + 1
  <2>1. Crew(actor.jobs, workers)
    BY <1>1 DEF Manned
  <2> QED BY <1>1, <1>3, <1>4, <1>6, <2>1, CrewMore
<1>8. Spread(a.jobs)
  <2>1. a.jobs \in Seq(JobSet) /\ Spread(actor.jobs)
    BY <1>1, <1>3, ActorFields DEF Manned
  <2> QED BY <1>1, <1>3, <1>4, <1>6, <2>1, SpreadMore
<1> HIDE DEF ws
<1>9. Manned(a, ws)
  <2>1. Cardinality(workers) \in Nat /\ MaxActive \in Nat
    BY <1>1, FS_CardinalityType, QueueAssumption DEF Manned, Crew
  <2>2. Cardinality(ws) <= MaxActive
    BY <1>2, <1>7, <2>1
  <2> QED BY <1>7, <1>8, <2>2 DEF Manned
<1>10. a.live = Limits(a)
  <2>1. actor.live = Limits(actor)
    BY <1>1, <1>2 DEF Synced
  <2>2. Distinct(a.jobs)
    BY <1>3 DEF Books
  <2>3. /\ Limits(a) = {<<0, a.rate>>} \cup {<<a.jobs[n].id, a.jobs[n].rate>> : n \in DOMAIN a.jobs}
        /\ Limits(actor) = {<<0, actor.rate>>} \cup
             {<<actor.jobs[n].id, actor.jobs[n].rate>> : n \in DOMAIN actor.jobs}
    BY <1>1, <2>2, LimitsOf
  <2>4. \A n \in DOMAIN actor.jobs : a.jobs[n].rate = actor.jobs[n].rate /\ a.jobs[n].id = actor.jobs[n].id
    BY <1>3, <1>4 DEF SameNames
  <2>5. {<<a.jobs[n].id, a.jobs[n].rate>> : n \in DOMAIN a.jobs}
          = {<<actor.jobs[n].id, actor.jobs[n].rate>> : n \in DOMAIN actor.jobs}
    BY <1>3, <2>4 DEF SameNames
  <2> QED BY <1>3, <2>1, <2>3, <2>5
<1>11. d # <<>> /\ Keeps(d[1].receipts, a.receipts)
  <2>1. Snapshot(a).receipts = a.receipts
    BY SnapshotFields
  <2>2. d # <<>> /\ d[1] = Snapshot(a)
    BY <1>5
  <2> QED BY <2>1, <2>2, KeepsSelf
<1>12. ~a.closing /\ ~a.failure /\ ~a.dirty
  BY <1>2, <1>3
<1>13. Good(Onward(a, ws), ws, d)
  BY <1>3, <1>5, <1>9, <1>10, <1>11, <1>12, OnwardGood
<1> QED BY <1>13 DEF a, id, ws

LEMMA StartKeeps ==
  ASSUME IInv, Start
  PROVE  IInv'
<1>1. /\ actor.pc = "start" /\ Quiet /\ inbox' = inbox /\ accepted' = accepted
  BY DEF Start
<1>2. PICK i \in NextEligible(actor) :
     \/ /\ SaveErr(Started(actor, i)) /\ workers' = CancelAll(actor)
        /\ actor' = Onward(Unstarted(Failing(Started(actor, i)), actor.queue[i]), workers)
     \/ /\ SaveOk(Started(actor, i)) /\ workers' = CancelAll(actor)
        /\ actor' = Onward(Unstarted([Stop(Started(actor, i)) EXCEPT !.dirty = TRUE], actor.queue[i]), workers)
     \/ /\ SaveOk(Started(actor, i))
        /\ workers' = workers \cup {[id |-> actor.queue[i], cancel |-> FALSE]}
        /\ actor' = Onward(Started(actor, i), workers')
  BY DEF Start
<1>3. i \in Eligible(actor)
  BY DEF NextEligible
<1> DEFINE a == Started(actor, i)
<1>4. a \in Actors /\ Books(a) /\ a.receipts = actor.receipts
  BY <1>1, <1>3, StartedOf
<1>5. /\ Shelf(disk') /\ disk' # <<>> /\ Keeps(disk'[1].receipts, a.receipts)
      /\ Kept(accepted, disk') /\ budget' \in Budgets
      /\ SaveOk(a) => disk' = <<Snapshot(a)>>
  <2>1. SaveOk(a) \/ SaveErr(a)
    BY <1>2
  <2>2. Keeps(actor.receipts, a.receipts) /\ actor.pc # "down"
    BY <1>1, <1>4, KeepsSelf
  <2> HIDE DEF a
  <2> QED BY <1>4, <2>1, <2>2, SaveOutcome
<1>6. Keeps(disk'[1].receipts, actor.receipts)
  BY <1>4, <1>5
<1>7. Good(actor', workers', disk')
  <2>1. CASE /\ SaveErr(a) /\ workers' = CancelAll(actor)
             /\ actor' = Onward(Unstarted(Failing(a), actor.queue[i]), workers)
    <3> DEFINE x == Failing(a)
    <3>1. /\ Evolved(a, x) /\ x.failure = TRUE /\ x.closing = TRUE
          /\ \A n \in DOMAIN a.jobs : x.jobs[n] = Stopped(a.jobs[n])
      BY <1>4, FailingOf
    <3>2. x \in Actors
      BY <3>1 DEF Evolved
    <3> HIDE DEF x
    <3>3. Good(Onward(Unstarted(x, actor.queue[i]), workers), CancelAll(actor), disk')
      BY <1>1, <1>3, <1>5, <1>6, <3>1, <3>2, UnstartedGood
    <3> QED BY <2>1, <3>3 DEF x
  <2>2. CASE /\ SaveOk(a) /\ workers' = CancelAll(actor)
             /\ actor' = Onward(Unstarted([Stop(a) EXCEPT !.dirty = TRUE], actor.queue[i]), workers)
    <3> DEFINE s == Stop(a)
               y == TRUE
               x == [s EXCEPT !.dirty = y]
    <3>1. /\ Evolved(a, s) /\ s.closing = TRUE
          /\ \A n \in DOMAIN a.jobs : s.jobs[n] = Stopped(a.jobs[n])
      BY <1>4, StopOf
    <3>2. s \in Actors /\ Books(s)
      BY <3>1 DEF Evolved
    <3>3. y \in BOOLEAN /\ y = TRUE
      OBVIOUS
    <3>0. actor' = Onward(Unstarted(x, actor.queue[i]), workers)
      BY <2>2
    <3> HIDE DEF s, y, a
    <3>4. /\ x \in Actors /\ x.dirty = y /\ x.jobs = s.jobs /\ x.queue = s.queue
          /\ x.last = s.last /\ x.receipts = s.receipts /\ x.asked = s.asked
          /\ x.closing = s.closing /\ x.ack = s.ack /\ x.live = s.live
      BY <3>2, <3>3 DEF Actors
    <3> HIDE DEF x
    <3>5. Books(x)
      BY <3>2, <3>4, BooksKeep
    <3>6. Evolved(a, x)
      BY <3>1, <3>4, <3>5 DEF Evolved
    <3>7. \A n \in DOMAIN a.jobs : x.jobs[n] = Stopped(a.jobs[n])
      BY <3>1, <3>4
    <3>8. Evolved(Started(actor, i), x) /\ x.closing = TRUE /\ (x.failure \/ x.dirty)
          /\ \A n \in DOMAIN Started(actor, i).jobs : x.jobs[n] = Stopped(Started(actor, i).jobs[n])
      BY <3>1, <3>3, <3>4, <3>6, <3>7 DEF a
    <3>9. Good(Onward(Unstarted(x, actor.queue[i]), workers), CancelAll(actor), disk')
      BY <1>1, <1>3, <1>5, <1>6, <3>4, <3>8, UnstartedGood
    <3> QED BY <2>2, <3>0, <3>9
  <2>3. CASE /\ SaveOk(a)
             /\ workers' = workers \cup {[id |-> actor.queue[i], cancel |-> FALSE]}
             /\ actor' = Onward(a, workers')
    <3>1. disk' = <<Snapshot(Started(actor, i))>>
      BY <1>5, <2>3
    <3> DEFINE ws == workers \cup {[id |-> actor.queue[i], cancel |-> FALSE]}
    <3>2. Good(Onward(Started(actor, i), ws), ws, disk')
      BY <1>1, <1>3, <3>1, StartedGood
    <3>3. workers' = ws /\ actor' = Onward(Started(actor, i), ws)
      BY <2>3
    <3> HIDE DEF ws
    <3> QED BY <3>2, <3>3
  <2> QED BY <1>2, <2>1, <2>2, <2>3
<1> QED BY <1>1, <1>5, <1>7, QuietStep

-----------------------------------------------------------------------------
(***************************************************************************)
(* Every step.                                                             *)
(***************************************************************************)
LEMMA ReportKeeps ==
  ASSUME IInv, NEW w, Report(w)
  PROVE  IInv'
<1>1. /\ disk' = disk /\ actor' = actor /\ workers' = workers /\ inbox' = inbox
      /\ accepted' = accepted /\ budget' = budget /\ Quiet
  BY DEF Report
<1>2. Good(actor', workers', disk') /\ Shelf(disk') /\ Kept(accepted, disk') /\ budget' \in Budgets
  BY <1>1 DEF IInv, Types, Budgets
<1> QED BY <1>1, <1>2, QuietStep

LEMMA LoopKeeps ==
  ASSUME IInv, Loop
  PROVE  IInv'
<1>1. CASE Turn
  BY <1>1, TurnKeeps
<1>2. CASE Start
  BY <1>2, StartKeeps
<1>3. CASE Finish
  BY <1>3, FinishKeeps
<1>4. CASE EndOfCommands
  BY <1>4, EndOfCommandsKeeps
<1>5. CASE Tick
  BY <1>5, TickKeeps
<1>6. ASSUME NEW w \in workers, NEW result \in Results(w), Join(w, result)
      PROVE  IInv'
  BY <1>6, JoinKeeps
<1>7. ASSUME NEW w \in workers, Report(w)
      PROVE  IInv'
  BY <1>7, ReportKeeps
<1> QED BY <1>1, <1>2, <1>3, <1>4, <1>5, <1>6, <1>7 DEF Loop

LEMMA CommandKeeps ==
  ASSUME IInv, Command
  PROVE  IInv'
<1>1. ASSUME NEW r \in Requests, Enqueue(r)
      PROVE  IInv'
  BY <1>1, EnqueueKeeps
<1>2. ASSUME NEW r \in Requests, Replay(r)
      PROVE  IInv'
  BY <1>2, ReplayKeeps
<1>3. ASSUME NEW id, Pause(id) \/ PauseRunning(id)
      PROVE  IInv'
  BY <1>3, PauseKeeps, PauseRunningKeeps
<1>4. ASSUME NEW id, Resume(id) \/ Forget(id) \/ \E l \in Links : Refresh(id, l)
      PROVE  IInv'
  BY <1>4, ResumeKeeps, ForgetKeeps, RefreshKeeps
<1>5. ASSUME NEW id, NEW p \in Priorities, SetPriority(id, p)
      PROVE  IInv'
  BY <1>5, SetPriorityKeeps
<1>6. ASSUME NEW id, NEW r \in Rates, JobRate(id, r)
      PROVE  IInv'
  BY <1>6, JobRateKeeps
<1>7. CASE ResumeAll
  BY <1>7, ResumeAllKeeps
<1>8. ASSUME NEW r \in Rates, GlobalRate(r)
      PROVE  IInv'
  BY <1>8, GlobalRateKeeps
<1> QED BY <1>1, <1>2, <1>3, <1>4, <1>5, <1>6, <1>7, <1>8 DEF Command

LEMMA NextKeeps ==
  ASSUME IInv, Next
  PROVE  IInv'
<1>1. CASE Open
  BY <1>1, OpenKeeps
<1>2. CASE Loop
  BY <1>2, LoopKeeps
<1>3. CASE Command
  BY <1>3, CommandKeeps
<1>4. ASSUME NEW r \in Requests, Propose(r)
      PROVE  IInv'
  BY <1>4, ProposeKeeps
<1>5. CASE Drop
  BY <1>5, DropKeeps
<1>6. CASE Elapse
  BY <1>6, ElapseKeeps
<1>7. CASE HangUp
  BY <1>7, HangUpKeeps
<1>8. CASE Crash
  BY <1>8, CrashKeeps
<1> QED BY <1>1, <1>2, <1>3, <1>4, <1>5, <1>6, <1>7, <1>8 DEF Next

LEMMA StutterKeeps ==
  ASSUME IInv, UNCHANGED vars
  PROVE  IInv'
<1>1. /\ disk' = disk /\ actor' = actor /\ workers' = workers /\ inbox' = inbox
      /\ accepted' = accepted /\ told' = told /\ budget' = budget
  BY DEF vars
<1>2. Types'
  BY <1>1 DEF IInv, Types
<1>3. AnswersAreDurable'
  BY <1>1 DEF IInv, AnswersAreDurable
<1>4. Good(actor', workers', disk') /\ Shelf(disk') /\ Kept(accepted', disk')
  BY <1>1 DEF IInv
<1> QED BY <1>2, <1>3, <1>4 DEF IInv

\* manager.rs, run and launch, with save_state: the books stay in order, memory and
\* database agree where they have to, and every job at work has its one worker.
THEOREM Inductive == Spec => []IInv
<1>1. Init => IInv
  BY InitHolds
<1>2. IInv /\ [Next]_vars => IInv'
  BY NextKeeps, StutterKeeps
<1> QED BY <1>1, <1>2, PTL DEF Spec

-----------------------------------------------------------------------------
(***************************************************************************)
(* The properties.                                                         *)
(***************************************************************************)

\* manager.rs, run: a job at work holds one slot until its worker is joined, and the jobs
\* at work never pass the limit of the manager or of their origin.
THEOREM SlotsAreHeld == Spec => []TypeOK
<1>1. IInv => TypeOK
  <2> SUFFICES ASSUME IInv PROVE TypeOK
    OBVIOUS
  <2>1. /\ actor \in Actors /\ Books(actor) /\ Manned(actor, workers) /\ Types
        /\ Distinct(actor.jobs) /\ actor.jobs \in Seq(JobSet) /\ Crew(actor.jobs, workers)
    BY Facts, ActorFields DEF Books, Manned
  <2>2. actor.pc \in {"down", "top", "start", "select", "end"} /\ Len(inbox) <= MaxPending
    BY <2>1, ActorFields DEF Types
  <2>3. \A i \in DOMAIN actor.jobs : actor.jobs[i].state \in States
    BY <2>1, JobFields
  <2>4. ASSUME NEW w \in workers
        PROVE  w.id \in Ids(actor.jobs) /\ Busy(Job(actor.jobs, w.id))
    <3>1. PICK i \in DOMAIN actor.jobs : actor.jobs[i].id = w.id /\ Busy(actor.jobs[i])
      BY <2>1, <2>4 DEF Crew
    <3>2. w.id \in Ids(actor.jobs) /\ Job(actor.jobs, w.id) = actor.jobs[i]
      BY <2>1, <3>1, IdsOf, PosOf
    <3> QED BY <3>1, <3>2
  <2>5. ASSUME NEW j \in ToSet(actor.jobs), Busy(j)
        PROVE  Cardinality({w \in workers : w.id = j.id}) = 1
    <3>1. PICK i \in DOMAIN actor.jobs : actor.jobs[i] = j
      BY DEF ToSet
    <3>2. PICK v \in workers : v.id = j.id
      BY <2>1, <2>5, <3>1 DEF Crew
    <3>3. {w \in workers : w.id = j.id} = {v}
      BY <2>1, <3>2 DEF Crew
    <3>4. Cardinality({v}) = 1
      BY FS_Singleton
    <3> QED BY <3>3, <3>4
  <2>6. Cardinality(workers) <= MaxActive /\ \A r \in Requests : Active(actor, r.origin) <= MaxPerOrigin
    BY <2>1 DEF Manned, Spread, Active
  <2> QED BY <2>2, <2>3, <2>4, <2>5, <2>6 DEF TypeOK
<1> QED BY <1>1, Inductive, PTL

\* The bytes of a job are never more than a request allows, in the memory or in the database.
Counts  == [Numbers -> 0 .. MaxBytes]
Counted == progress \in Counts /\ column \in Counts

LEMMA NothingCounts == Nothing \in Counts
BY QueueAssumption DEF Nothing, Counts, Numbers

LEMMA CountOf ==
  ASSUME NEW f \in Counts, NEW id, NEW n \in 0 .. MaxBytes
  PROVE  [f EXCEPT ![id] = n] \in Counts
BY DEF Counts

\* How a step counts: the column is left alone or written from the memory.
LEMMA SaveCounts ==
  ASSUME NEW a, SaveOk(a) \/ SaveErr(a)
  PROVE  column' \in {column, progress}
BY DEF SaveOk, SaveErr

LEMMA CommandCounts ==
  ASSUME Counted, Command
  PROVE  progress' \in Counts /\ column' = column
<1>1. ASSUME NEW r \in Requests, Enqueue(r)
      PROVE  progress' \in Counts /\ column' = column
  <2>1. progress' = [progress EXCEPT ![actor.last + 1] = 0] /\ column' = column
    BY <1>1 DEF Enqueue, Receive
  <2>2. 0 \in 0 .. MaxBytes
    BY QueueAssumption
  <2> QED BY <2>1, <2>2, CountOf DEF Counted
<1>2. ASSUME NEW r \in Requests, Replay(r)
      PROVE  progress' = progress /\ column' = column
  BY <1>2 DEF Replay
<1>3. ASSUME NEW id, Pause(id) \/ PauseRunning(id) \/ Resume(id) \/ Forget(id)
      PROVE  progress' = progress /\ column' = column
  BY <1>3 DEF Pause, PauseRunning, Resume, Forget, Receive
<1>4. ASSUME NEW id, NEW x, Refresh(id, x) \/ SetPriority(id, x) \/ JobRate(id, x) \/ GlobalRate(x)
      PROVE  progress' = progress /\ column' = column
  BY <1>4 DEF Refresh, SetPriority, JobRate, GlobalRate, Receive
<1>5. ASSUME ResumeAll
      PROVE  progress' = progress /\ column' = column
  BY <1>5 DEF ResumeAll, Receive
<1>6. progress' = progress => progress' \in Counts
  BY DEF Counted
<1> QED BY <1>1, <1>2, <1>3, <1>4, <1>5, <1>6 DEF Command

LEMMA LoopCounts ==
  ASSUME Counted, Loop
  PROVE  progress' \in Counts /\ column' \in {column, progress}
<1>1. CASE Turn
  <2>1. progress' = progress /\ \E a : column' = column \/ SaveOk(a) \/ SaveErr(a)
    BY <1>1 DEF Turn
  <2> QED BY <2>1, SaveCounts DEF Counted
<1>2. CASE Start
  <2>1. progress' = progress /\ \E a : SaveOk(a) \/ SaveErr(a)
    BY <1>2 DEF Start
  <2> QED BY <2>1, SaveCounts DEF Counted
<1>3. CASE Finish
  <2>1. progress' = Nothing /\ \E a : column' = column \/ SaveOk(a) \/ SaveErr(a)
    BY <1>3 DEF Finish
  <2> QED BY <2>1, SaveCounts, NothingCounts
<1>4. CASE EndOfCommands \/ Tick
  BY <1>4 DEF EndOfCommands, Tick, Counted
<1>5. ASSUME NEW w \in workers, NEW result \in Results(w), Join(w, result)
      PROVE  progress' \in Counts /\ column' = column
  <2>1. PICK bytes \in 0 .. MaxBytes :
          progress' = IF result = "done" THEN [progress EXCEPT ![w.id] = bytes] ELSE progress
    BY <1>5 DEF Join
  <2>2. column' = column
    BY <1>5 DEF Join
  <2> QED BY <2>1, <2>2, CountOf DEF Counted
<1>6. ASSUME NEW w \in workers, Report(w)
      PROVE  progress' \in Counts /\ column' = column
  <2>1. PICK bytes \in 0 .. MaxBytes : progress' = [progress EXCEPT ![w.id] = bytes]
    BY <1>6 DEF Report
  <2>2. column' = column
    BY <1>6 DEF Report
  <2> QED BY <2>1, <2>2, CountOf DEF Counted
<1> QED BY <1>1, <1>2, <1>3, <1>4, <1>5, <1>6 DEF Loop

LEMMA NextCounts ==
  ASSUME Counted, Next
  PROVE  Counted'
<1>1. CASE Open
  BY <1>1 DEF Open, Counted
<1>2. CASE Loop
  BY <1>2, LoopCounts DEF Counted
<1>3. CASE Command
  BY <1>3, CommandCounts DEF Counted
<1>4. ASSUME NEW r \in Requests, Propose(r)
      PROVE  Counted'
  BY <1>4 DEF Propose, Counted
<1>5. CASE Drop \/ Elapse \/ HangUp
  BY <1>5 DEF Drop, Elapse, HangUp, Counted
<1>6. CASE Crash
  BY <1>6, NothingCounts DEF Crash, Counted
<1> QED BY <1>1, <1>2, <1>3, <1>4, <1>5, <1>6 DEF Next

LEMMA AlwaysCounted == Spec => []Counted
<1>1. Init => Counted
  BY NothingCounts DEF Init, Counted
<1>2. Counted /\ UNCHANGED vars => Counted'
  BY DEF Counted, vars
<1>3. Counted /\ [Next]_vars => Counted'
  BY <1>2, NextCounts
<1> QED BY <1>1, <1>3, PTL DEF Spec

\* queue_store.rs, encode and decode, and manager.rs, open: whatever is in the database
\* passes every check of the two, if no refreshed link outgrows its bound when it is
\* normalised.  The assumption is needed: manager.rs, Refresh bounds the text it is given
\* and stores the text the parsed link prints.
THEOREM WhatIsSavedOpens ==
  ASSUME LinksFit
  PROVE  Spec => []SavedOpens
<1>1. IInv /\ Counted => SavedOpens
  <2> SUFFICES ASSUME IInv, Counted, disk # <<>> PROVE Opens(disk[1], column)
    BY DEF SavedOpens
  <2>1. PICK s : s = disk[1]
    OBVIOUS
  <2>2. Stored(s)
    BY <2>1, Facts DEF Shelf
  <2>3. s.jobs \in Seq(SavedSet) /\ s.rate \in Settings
    BY <2>2, SavedFields DEF Stored
  <2>4. \A i \in DOMAIN s.jobs : s.jobs[i] \in SavedSet
    BY <2>3
  <2>5. ASSUME NEW i \in DOMAIN s.jobs
        PROVE  Readable(s.jobs[i], column[s.jobs[i].id]) /\ ValidLimit(s.jobs[i].rate)
    <3>1. /\ s.jobs[i].id \in Numbers /\ s.jobs[i].req \in Sound /\ s.jobs[i].rate \in Settings
          /\ s.jobs[i].link \in Texts
      BY <2>4, SavedJobFields
    <3>2. column[s.jobs[i].id] \in 0 .. MaxBytes
      BY <3>1 DEF Counted, Counts
    <3>3. column[s.jobs[i].id] <= MaxBytes
      BY <3>2, QueueAssumption
    <3>4. s.jobs[i].req.sound /\ ValidLink(s.jobs[i].link) /\ ValidLimit(s.jobs[i].rate)
      BY <3>1 DEF Sound, Texts, Settings
    <3> QED BY <3>3, <3>4 DEF Readable
  <2>6. ValidLimit(s.rate)
    BY <2>3 DEF Settings
  <2>7. Opens(s, column)
    BY <2>2, <2>5, <2>6 DEF Opens, Decodes, Stored
  <2> QED BY <2>1, <2>7
<1> QED BY <1>1, Inductive, AlwaysCounted, PTL

\* manager.rs, run: an answer of success is given for what has been saved.
THEOREM WhatIsAnsweredIsSaved == Spec => []AnswersAreDurable
<1>1. IInv => AnswersAreDurable
  BY DEF IInv
<1> QED BY <1>1, Inductive, PTL

\* manager.rs, enqueue and forget: a request that was answered with a job is that job for
\* good, across crashes and after the job is gone.
THEOREM WhatIsAcceptedIsKept == Spec => []AcceptedIsKept
<1>1. IInv => AcceptedIsKept
  <2> SUFFICES ASSUME IInv PROVE AcceptedIsKept
    OBVIOUS
  <2>1. Shelf(disk) /\ Kept(accepted, disk) /\ Types
    BY Facts
  <2>2. ASSUME NEW a \in accepted
        PROVE  /\ \E p \in disk[1].receipts : p.key = a.req.key /\ p.id = a.id /\ p.req = a.req
               /\ Stored(disk[1]) /\ a \in [req : Requests, id : Nat]
    BY <2>1, <2>2 DEF Kept, Shelf, Types
  <2>3. ASSUME NEW a \in accepted
        PROVE  \E p \in disk[1].receipts :
                 p.key = a.req.key /\ p.id = a.id /\ (p.removed \/ a.id \in Ids(disk[1].jobs))
    <3>1. PICK p \in disk[1].receipts : p.key = a.req.key /\ p.id = a.id /\ p.req = a.req
      BY <2>2, <2>3
    <3>2. p.removed = (p.id \notin Ids(disk[1].jobs))
      BY <2>2, <2>3 DEF Stored, Consistent
    <3> QED BY <3>1, <3>2
  <2>4. ASSUME NEW a \in accepted, NEW b \in accepted, a.req.key = b.req.key \/ a.id = b.id
        PROVE  a = b
    <3>1. PICK p \in disk[1].receipts : p.key = a.req.key /\ p.id = a.id /\ p.req = a.req
      BY <2>2, <2>4
    <3>2. PICK q \in disk[1].receipts : q.key = b.req.key /\ q.id = b.id /\ q.req = b.req
      BY <2>2, <2>4
    <3>3. p = q
      BY <2>2, <2>4, <3>1, <3>2 DEF Stored, Consistent
    <3>4. a.req = b.req /\ a.id = b.id
      BY <3>1, <3>2, <3>3
    <3>5. a \in [req : Requests, id : Nat] /\ b \in [req : Requests, id : Nat]
      BY <2>2, <2>4
    <3> QED BY <3>4, <3>5
  <2> QED BY <2>3, <2>4 DEF AcceptedIsKept
<1> QED BY <1>1, Inductive, PTL

\* manager.rs, launch: after the queue is opened only what was enqueued or resumed runs.
THEOREM NothingStartsOnItsOwn == Spec => []RecoveredWaits
<1>1. IInv => RecoveredWaits
  <2> SUFFICES ASSUME IInv, NEW w \in workers PROVE w.id \in actor.asked
    BY DEF RecoveredWaits
  <2>1. Books(actor) /\ Manned(actor, workers)
    BY Facts
  <2>2. PICK i \in DOMAIN actor.jobs : actor.jobs[i].id = w.id /\ Busy(actor.jobs[i])
    BY <2>1 DEF Manned, Crew
  <2>3. JobOK(actor.jobs[i], actor.last, actor.asked)
    BY <2>1 DEF Books
  <2> QED BY <2>2, <2>3 DEF JobOK, Busy
<1> QED BY <1>1, Inductive, PTL
=============================================================================
