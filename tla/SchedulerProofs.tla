-------------------------- MODULE SchedulerProofs ---------------------------
(***************************************************************************)
(* Proofs about Scheduler, for any jobs, origins, lists of jobs, limits,   *)
(* delays and commands, and however the loop, its sessions, the senders    *)
(* and the clock interleave.                                               *)
(*                                                                         *)
(* GrantsAreCounted needs that a job is started only while no session of   *)
(* it runs, and that the loop knows no session that is gone (Matched).     *)
(* The first follows from Single, a job is in one place at most, and       *)
(* Single in turn from ComesBackOnce: a command may hand over a job only   *)
(* when the job was never given, so that it is nowhere.  While the list of *)
(* a run is taken in, the jobs in it that were not seen are nowhere else   *)
(* (Fresh).  DelaysAreObserved needs Floored: what a server asked for is   *)
(* in the governor's floor, or over.                                       *)
(***************************************************************************)
EXTENDS Scheduler, FiniteSetTheorems, SequenceTheorems, WellFoundedInduction, TLAPS

Entries  == [id : Jobs, at : Int]
Granting == [task : Slots, grant : 1 .. Connections]
Sessions == [id : Jobs, grant : 1 .. Connections, inbox : Int, told : BOOLEAN,
             end : [kind : {"running", "published", "settled", "failed"}, at : Int]]
Commands == [kind : {"Admit", "Stop"}, id : Jobs, at : Int]
            \cup [kind : {"Shutdown"}, id : {0}, at : Int]
Governed == [in_flight : Nat, failures : Int, backoff_until : Int, floor_until : Int]

Queues   == [ready : Seq(Entries), waiting : Seq(Entries), done : [Jobs -> Nat]]

Pcs      == {"intake", "deliver", "move", "admit", "decide", "select", "returned"}
Turns    == [pc : Pcs, batch : Seq(Entries), seen : SUBSET Jobs, left : Nat, now : Nat,
             moving : Seq(Entries), skipped : Seq(Entries), started : BOOLEAN, deadline : Int]

TypeOK ==
  /\ clock \in Nat
  /\ turn \in Turns
  /\ queue \in Queues
  /\ active \in [Jobs -> {NoActive} \cup Granting]
  /\ tasks \in [Slots -> {NoTask} \cup Sessions]
  /\ deferred \in Seq(Jobs) /\ turn.left <= Len(deferred)
  /\ used \in Nat
  /\ origins \in [Origins -> Governed]
  /\ channel \in [sent : Seq(Commands), held : BOOLEAN]
  /\ given \in [Jobs -> Nat] /\ asked \in [Origins -> Int]

SessionsOf(id) == {t \in Live : tasks[t].id = id}

\* The places a job may be in, apart from the list that is taken in and from its outcomes.
Places(id) ==
  Count(queue.ready, Of(id)) + Count(queue.waiting, Of(id)) + Count(turn.moving, Of(id))
  + Count(turn.skipped, Of(id)) + Cardinality(SessionsOf(id)) + Count(channel.sent, Handing(id))

Balanced == \A id \in Jobs : given[id] = queue.done[id] + Places(id) + Count(turn.batch, Of(id))
Single   == \A id \in Jobs : Places(id) <= 1
Fresh    == \A id \in Jobs \ turn.seen : Count(turn.batch, Of(id)) > 0 => Places(id) = 0
Emptied  == turn.pc # "move" => turn.moving = <<>>

Matched ==
  /\ \A t \in Live : active[tasks[t].id] = [task |-> t, grant |-> tasks[t].grant]
  /\ \A id \in Jobs : IsActive(id) => active[id].task \in SessionsOf(id)

Counted ==
  /\ used = GrantsOf(Live) /\ used <= Connections
  /\ \A o \in Origins :
       /\ origins[o].in_flight = GrantsOf({t \in Live : OriginOf[tasks[t].id] = o})
       /\ origins[o].in_flight <= OriginConnections

Floored ==
  /\ turn.now <= clock
  /\ \A o \in Origins : asked[o] <= origins[o].floor_until \/ asked[o] <= clock

IInv == TypeOK /\ Balanced /\ Single /\ Fresh /\ Emptied /\ Matched /\ Counted /\ Floored

-----------------------------------------------------------------------------
(***************************************************************************)
(* Counting in sequences.                                                  *)
(***************************************************************************)
One(e, K) == IF e \in K THEN 1 ELSE 0

\* A count is a number.
LEMMA CountNat ==
  ASSUME NEW S, NEW s \in Seq(S), NEW K
  PROVE  Count(s, K) \in Nat
<1> DEFINE I == {i \in DOMAIN s : s[i] \in K}
<1>1. I \subseteq 1 .. Len(s) /\ IsFiniteSet(1 .. Len(s))
  BY FS_Interval
<1>2. IsFiniteSet(I)
  BY <1>1, FS_Subset
<1> QED BY <1>2, FS_CardinalityType DEF Count

\* A concatenation has what its two parts have.
LEMMA CountConcat ==
  ASSUME NEW S, NEW s \in Seq(S), NEW t \in Seq(S), NEW K
  PROVE  Count(s \o t, K) = Count(s, K) + Count(t, K)
<1> DEFINE n == Len(s)
           I == {i \in DOMAIN s : s[i] \in K}
           J == {i \in DOMAIN t : t[i] \in K}
           M == {i \in DOMAIN (s \o t) : (s \o t)[i] \in K}
           N == {i \in M : i > n}
           f == [j \in J |-> n + j]
<1>1. IsFiniteSet(I) /\ IsFiniteSet(J)
  <2>1. I \subseteq 1 .. Len(s) /\ J \subseteq 1 .. Len(t)
    OBVIOUS
  <2>2. IsFiniteSet(1 .. Len(s)) /\ IsFiniteSet(1 .. Len(t))
    BY FS_Interval
  <2> QED BY <2>1, <2>2, FS_Subset
<1>2. /\ DOMAIN s = 1 .. n /\ DOMAIN t = 1 .. Len(t) /\ n \in Nat /\ Len(t) \in Nat
      /\ DOMAIN (s \o t) = 1 .. (n + Len(t))
      /\ \A i \in 1 .. n : (s \o t)[i] = s[i]
      /\ \A j \in 1 .. Len(t) : (s \o t)[n + j] = t[j]
  OBVIOUS
<1>3. M = I \cup N /\ I \cap N = {}
  BY <1>2
<1>4. f \in Bijection(J, N)
  <2>1. \A j \in J : f[j] \in N
    BY <1>2
  <2>2. \A i, j \in J : f[i] = f[j] => i = j
    BY <1>2
  <2>3. \A k \in N : k - n \in J /\ f[k - n] = k
    <3> TAKE k \in N
    <3>1. k \in Int /\ k > n /\ k <= n + Len(t) /\ (s \o t)[k] \in K
      BY <1>2
    <3>2. k - n \in 1 .. Len(t) /\ n + (k - n) = k
      BY <1>2, <3>1
    <3>3. t[k - n] = (s \o t)[k]
      BY <1>2, <3>2
    <3> QED BY <1>2, <3>1, <3>2, <3>3
  <2>4. f \in Injection(J, N)
    BY <2>1, <2>2 DEF Injection, IsInjective
  <2>5. f \in Surjection(J, N)
    BY <2>1, <2>3 DEF Surjection
  <2> QED BY <2>4, <2>5 DEF Bijection
<1>5. IsFiniteSet(N) /\ Cardinality(N) = Cardinality(J)
  <2>1. ExistsBijection(J, N)
    BY <1>4 DEF ExistsBijection
  <2> HIDE DEF f, J, N
  <2> QED BY <1>1, <2>1, FS_Bijection
<1>6. Cardinality(M) = Cardinality(I) + Cardinality(N) - Cardinality(I \cap N)
  <2> HIDE DEF I, N, M
  <2> QED BY <1>1, <1>3, <1>5, FS_Union
<1>7. Cardinality(I \cap N) = 0
  BY <1>3, FS_EmptySet
<1>8. Cardinality(I) \in Nat /\ Cardinality(J) \in Nat
  <2> HIDE DEF I, J
  <2> QED BY <1>1, FS_CardinalityType
<1> HIDE DEF I, J, M, N
<1>9. Cardinality(M) = Cardinality(I) + Cardinality(J)
  BY <1>5, <1>6, <1>7, <1>8
<1> QED BY <1>9 DEF Count, I, J, M

\* An empty sequence has nothing.
LEMMA CountEmpty ==
  ASSUME NEW K
  PROVE  Count(<<>>, K) = 0
<1>1. {i \in DOMAIN <<>> : <<>>[i] \in K} = {}
  OBVIOUS
<1> QED BY <1>1, FS_EmptySet DEF Count

\* A sequence of one element has it, or nothing.
LEMMA CountOne ==
  ASSUME NEW e, NEW K
  PROVE  Count(<<e>>, K) = One(e, K)
<1>1. CASE e \in K
  <2>1. {i \in DOMAIN <<e>> : <<e>>[i] \in K} = {1}
    BY <1>1
  <2> QED BY <1>1, <2>1, FS_Singleton DEF Count, One
<1>2. CASE e \notin K
  <2>1. {i \in DOMAIN <<e>> : <<e>>[i] \in K} = {}
    BY <1>2
  <2> QED BY <1>2, <2>1, FS_EmptySet DEF Count, One
<1> QED BY <1>1, <1>2

\* What is appended is counted.
LEMMA CountAppend ==
  ASSUME NEW S, NEW s \in Seq(S), NEW e \in S, NEW K
  PROVE  Append(s, e) \in Seq(S) /\ Count(Append(s, e), K) = Count(s, K) + One(e, K)
<1> DEFINE u == <<e>>
<1>1. u \in Seq(S) /\ Append(s, e) = s \o u /\ Append(s, e) \in Seq(S)
  OBVIOUS
<1>2. Count(u, K) = One(e, K)
  BY CountOne
<1> HIDE DEF u
<1>3. Count(s \o u, K) = Count(s, K) + Count(u, K)
  BY <1>1, CountConcat
<1> QED BY <1>1, <1>2, <1>3

\* What is taken off the front was counted.
LEMMA CountTail ==
  ASSUME NEW S, NEW s \in Seq(S), s # <<>>, NEW K
  PROVE  /\ Head(s) \in S /\ Tail(s) \in Seq(S)
         /\ Count(s, K) = One(Head(s), K) + Count(Tail(s), K)
<1>1. Head(s) \in S /\ Tail(s) \in Seq(S) /\ <<Head(s)>> \in Seq(S)
  OBVIOUS
<1>2. s = <<Head(s)>> \o Tail(s)
  OBVIOUS
<1>3. Count(<<Head(s)>> \o Tail(s), K) = Count(<<Head(s)>>, K) + Count(Tail(s), K)
  BY <1>1, CountConcat
<1> QED BY <1>1, <1>2, <1>3, CountOne

\* What is taken out was counted.
LEMMA CountRemove ==
  ASSUME NEW S, NEW s \in Seq(S), NEW i \in DOMAIN s, NEW K
  PROVE  /\ RemoveAt(s, i) \in Seq(S)
         /\ Count(s, K) = One(s[i], K) + Count(RemoveAt(s, i), K)
<1> DEFINE a == SubSeq(s, 1, i - 1)
           b == SubSeq(s, i + 1, Len(s))
           c == SubSeq(s, i, Len(s))
           u == <<s[i]>>
<1>1. i \in 1 .. Len(s) /\ Len(s) \in Nat /\ s[i] \in S
  OBVIOUS
<1>2. a \in Seq(S) /\ b \in Seq(S) /\ c \in Seq(S) /\ u \in Seq(S)
  BY <1>1
<1>3. c = u \o b
  <2>1. Len(s) \in i .. Len(s)
    BY <1>1
  <2> QED BY <1>1, <2>1, SubSeqRecursiveFirst
<1>4. s = a \o c
  <2>1. /\ 1 \in 1 .. Len(s) + 1 /\ i - 1 \in 1 - 1 .. Len(s) /\ Len(s) \in i - 1 .. Len(s)
        /\ (i - 1) + 1 = i
    BY <1>1
  <2>2. SubSeq(s, 1, i - 1) \o SubSeq(s, (i - 1) + 1, Len(s)) = SubSeq(s, 1, Len(s))
    BY <2>1, ConcatAdjacentSubSeq
  <2>3. SubSeq(s, 1, Len(s)) = s
    BY SubSeqFull
  <2> QED BY <2>1, <2>2, <2>3
<1>5. RemoveAt(s, i) = a \o b
  BY DEF RemoveAt
<1>6. Count(u, K) = One(s[i], K)
  BY CountOne
<1> HIDE DEF a, b, c, u
<1>7. /\ Count(a \o c, K) = Count(a, K) + Count(c, K)
      /\ Count(u \o b, K) = Count(u, K) + Count(b, K)
      /\ Count(a \o b, K) = Count(a, K) + Count(b, K)
  BY <1>2, CountConcat
<1>8. Count(a, K) \in Nat /\ Count(b, K) \in Nat /\ Count(u, K) \in Nat
  BY <1>2, CountNat
<1>9. a \o b \in Seq(S)
  BY <1>2, ConcatProperties
<1> QED BY <1>3, <1>4, <1>5, <1>6, <1>7, <1>8, <1>9

-----------------------------------------------------------------------------
(***************************************************************************)
(* Counting connections.                                                   *)
(***************************************************************************)
Conns(f, S) == {c \in S \X (1 .. Connections) : c[2] <= f[c[1]].grant}

\* The connections of a set of tasks are finitely many.
LEMMA ConnsFinite ==
  ASSUME NEW f, NEW S, S \subseteq Slots
  PROVE  IsFiniteSet(Conns(f, S)) /\ Cardinality(Conns(f, S)) \in Nat
<1>1. MaxActive \in Nat /\ Connections \in Nat
  BY SchedulerAssumption
<1>2. IsFiniteSet(Slots) /\ IsFiniteSet(1 .. Connections)
  BY <1>1, FS_Interval DEF Slots
<1>3. IsFiniteSet(Slots \X (1 .. Connections))
  BY <1>2, FS_Product
<1>4. Conns(f, S) \subseteq Slots \X (1 .. Connections)
  BY DEF Conns
<1>5. IsFiniteSet(Conns(f, S))
  BY <1>3, <1>4, FS_Subset
<1> QED BY <1>5, FS_CardinalityType

\* The numbers from one to n are n.
LEMMA UpTo ==
  ASSUME NEW n \in Nat
  PROVE  IsFiniteSet(1 .. n) /\ Cardinality(1 .. n) = n
<1>1. IsFiniteSet(1 .. n) /\ Cardinality(1 .. n) = IF 1 > n THEN 0 ELSE n - 1 + 1
  BY FS_Interval
<1> QED BY <1>1

\* A task more brings the connections it was granted.
LEMMA ConnsAdd ==
  ASSUME NEW f, NEW S, S \subseteq Slots, NEW t \in Slots \ S, f[t].grant \in 0 .. Connections
  PROVE  Cardinality(Conns(f, S \cup {t})) = Cardinality(Conns(f, S)) + f[t].grant
<1> DEFINE g == f[t].grant
           A == Conns(f, S)
           X == {c \in {t} \X (1 .. Connections) : c[2] <= g}
           h == [k \in 1 .. g |-> <<t, k>>]
<1>0. Connections \in Nat /\ g \in Nat /\ g <= Connections
  BY SchedulerAssumption
<1>1. Conns(f, S \cup {t}) = A \cup X /\ A \cap X = {}
  BY DEF Conns
<1>2. h \in Bijection(1 .. g, X)
  <2>1. \A k \in 1 .. g : h[k] = <<t, k>> /\ h[k] \in X
    BY <1>0
  <2>2. \A c \in X : c[2] \in 1 .. g /\ h[c[2]] = c
    BY <1>0
  <2>3. \A k, l \in 1 .. g : h[k] = h[l] => k = l
    BY <2>1
  <2>4. h \in Injection(1 .. g, X) /\ h \in Surjection(1 .. g, X)
    BY <2>1, <2>2, <2>3 DEF Injection, IsInjective, Surjection
  <2> QED BY <2>4 DEF Bijection
<1>3. IsFiniteSet(1 .. g) /\ Cardinality(1 .. g) = g
  <2> HIDE DEF g
  <2> QED BY <1>0, UpTo
<1>4. IsFiniteSet(A) /\ Cardinality(A) \in Nat
  BY ConnsFinite
<1>5. ExistsBijection(1 .. g, X)
  BY <1>2 DEF ExistsBijection
<1> HIDE DEF A, X, h, g
<1>6. IsFiniteSet(X) /\ Cardinality(X) = g
  BY <1>3, <1>5, FS_Bijection
<1>7. Cardinality(A \cup X) = Cardinality(A) + Cardinality(X) - Cardinality(A \cap X)
  BY <1>4, <1>6, FS_Union
<1>8. Cardinality(A \cap X) = 0
  BY <1>1, FS_EmptySet
<1>9. Cardinality(A \cup X) = Cardinality(A) + g
  BY <1>0, <1>4, <1>6, <1>7, <1>8
<1> QED BY <1>1, <1>9 DEF A, g

\* A task less takes them with it.
LEMMA ConnsDrop ==
  ASSUME NEW f, NEW S, S \subseteq Slots, NEW t \in S, f[t].grant \in 0 .. Connections
  PROVE  Cardinality(Conns(f, S)) = Cardinality(Conns(f, S \ {t})) + f[t].grant
<1> DEFINE R == S \ {t}
<1>1. R \subseteq Slots /\ t \in Slots \ R /\ S = R \cup {t}
  OBVIOUS
<1> HIDE DEF R
<1>2. Cardinality(Conns(f, R \cup {t})) = Cardinality(Conns(f, R)) + f[t].grant
  BY <1>1, ConnsAdd
<1> QED BY <1>1, <1>2 DEF R

\* Only the grants of the tasks matter.
LEMMA ConnsSame ==
  ASSUME NEW f, NEW g, NEW S, \A t \in S : f[t].grant = g[t].grant
  PROVE  Conns(f, S) = Conns(g, S)
BY DEF Conns

\* No task has no connection.
LEMMA ConnsNone ==
  ASSUME NEW f
  PROVE  Cardinality(Conns(f, {})) = 0
<1>1. Conns(f, {}) = {}
  BY DEF Conns
<1> QED BY <1>1, FS_EmptySet

-----------------------------------------------------------------------------
(***************************************************************************)
(* The queue.                                                              *)
(***************************************************************************)
Queued(q, id) == Count(q.ready, Of(id)) + Count(q.waiting, Of(id))
Same(i, j)    == IF i = j THEN 1 ELSE 0

\* An entry is counted under its own identity.
LEMMA OneEntry ==
  ASSUME NEW e \in Entries, NEW id
  PROVE  One(e, Of(id)) = Same(e.id, id)
BY DEF One, Of, Same, Entries

\* What a queue holds of a job is a number.
LEMMA QueuedNat ==
  ASSUME NEW q \in Queues, NEW id
  PROVE  /\ Count(q.ready, Of(id)) \in Nat /\ Count(q.waiting, Of(id)) \in Nat
         /\ Queued(q, id) \in Nat
<1>1. q.ready \in Seq(Entries) /\ q.waiting \in Seq(Entries)
  BY DEF Queues
<1>2. Count(q.ready, Of(id)) \in Nat /\ Count(q.waiting, Of(id)) \in Nat
  BY <1>1, CountNat
<1> QED BY <1>2 DEF Queued

\* An outcome more, and nothing else.
LEMMA OutcomeCount ==
  ASSUME NEW q \in Queues, NEW x \in Jobs, NEW id \in Jobs
  PROVE  /\ Outcome(q, x) \in Queues
         /\ Queued(Outcome(q, x), id) = Queued(q, id)
         /\ Outcome(q, x).done[id] = q.done[id] + Same(x, id)
<1>0. q = [ready |-> q.ready, waiting |-> q.waiting, done |-> q.done]
  BY DEF Queues
<1>1. Outcome(q, x) = [ready |-> q.ready, waiting |-> q.waiting,
                       done |-> [q.done EXCEPT ![x] = @ + 1]]
  BY <1>0 DEF Outcome
<1>2. q.done \in [Jobs -> Nat] /\ [q.done EXCEPT ![x] = @ + 1] \in [Jobs -> Nat]
  BY DEF Queues
<1> QED BY <1>1, <1>2 DEF Queues, Queued, Same

\* take: the job is on a queue, or its outcome is known.
LEMMA TakeCount ==
  ASSUME NEW q \in Queues, NEW e \in Entries, NEW id \in Jobs
  PROVE  /\ Take(q, e) \in Queues
         /\ Queued(Take(q, e), id) + Take(q, e).done[id]
              = Queued(q, id) + q.done[id] + Same(e.id, id)
         /\ Queued(Take(q, e), id) <= Queued(q, id) + Same(e.id, id)
<1>1. /\ q = [ready |-> q.ready, waiting |-> q.waiting, done |-> q.done]
      /\ q.ready \in Seq(Entries) /\ q.waiting \in Seq(Entries) /\ q.done \in [Jobs -> Nat]
      /\ e.id \in Jobs
  BY DEF Queues, Entries
<1>2. Queued(q, id) \in Nat /\ q.done[id] \in Nat /\ Same(e.id, id) \in Nat
  BY <1>1, QueuedNat DEF Same
<1>3. /\ Count(q.ready, Of(id)) \in Nat /\ Count(q.waiting, Of(id)) \in Nat
  BY QueuedNat
<1>4. One(e, Of(id)) = Same(e.id, id)
  BY OneEntry
<1>5. CASE e.at = Rest
  <2>1. Take(q, e) = Outcome(q, e.id)
    BY <1>5 DEF Take
  <2> QED BY <1>1, <1>2, <2>1, OutcomeCount
<1>6. CASE e.at # Rest /\ e.at = Ready
  <2> DEFINE a == Append(q.ready, e)
  <2>1. Take(q, e) = [ready |-> a, waiting |-> q.waiting, done |-> q.done]
    BY <1>1, <1>6 DEF Take
  <2>2. a \in Seq(Entries) /\ Count(a, Of(id)) = Count(q.ready, Of(id)) + One(e, Of(id))
    BY <1>1, CountAppend
  <2> HIDE DEF a
  <2> QED BY <1>1, <1>2, <1>3, <1>4, <2>1, <2>2 DEF Queues, Queued
<1>7. CASE e.at # Rest /\ e.at # Ready
  <2> DEFINE a == Append(q.waiting, e)
  <2>1. Take(q, e) = [ready |-> q.ready, waiting |-> a, done |-> q.done]
    BY <1>1, <1>7 DEF Take
  <2>2. a \in Seq(Entries) /\ Count(a, Of(id)) = Count(q.waiting, Of(id)) + One(e, Of(id))
    BY <1>1, CountAppend
  <2> HIDE DEF a
  <2> QED BY <1>1, <1>2, <1>3, <1>4, <2>1, <2>2 DEF Queues, Queued
<1> QED BY <1>5, <1>6, <1>7

\* A non-empty set of naturals has a least element.
LEMMA Minimum ==
  ASSUME NEW A, A \subseteq Nat, A # {}
  PROVE  \E i \in A : \A k \in A : i <= k
<1> DEFINE R == OpToRel(<, Nat)
<1>1. \E i \in A : \A k \in A : ~(<<k, i>> \in R)
  <2>1. IsWellFoundedOn(R, Nat)
    BY NatLessThanWellFounded
  <2> HIDE DEF R
  <2> QED BY <2>1, WFMin
<1>2. \A x, y \in Nat : <<y, x>> \in R <=> y < x
  BY DEF OpToRel
<1> HIDE DEF R
<1>3. PICK i \in A : \A k \in A : ~(k < i)
  BY <1>1, <1>2
<1> QED BY <1>3

\* A job that a sequence holds is first somewhere.
LEMMA FirstOf ==
  ASSUME NEW s \in Seq(Entries), NEW id, Holds(s, id)
  PROVE  First(s, id) \in DOMAIN s /\ s[First(s, id)].id = id
<1> DEFINE A == {i \in DOMAIN s : s[i].id = id}
<1>1. A \subseteq Nat /\ A # {}
  BY DEF Holds
<1>2. PICK i \in A : \A k \in A : i <= k
  <2> HIDE DEF A
  <2> QED BY <1>1, Minimum
<1>3. i \in DOMAIN s /\ s[i].id = id /\ \A k \in 1 .. i - 1 : s[k].id # id
  BY <1>2
<1> HIDE DEF A
<1> QED BY <1>3 DEF First

\* remove: the job is off the queue.
LEMMA WithoutCount ==
  ASSUME NEW q \in Queues, NEW x \in Jobs, NEW id \in Jobs, Holds(q.ready \o q.waiting, x)
  PROVE  /\ Without(q, x) \in Queues
         /\ Queued(q, id) = Queued(Without(q, x), id) + Same(x, id)
         /\ Without(q, x).done = q.done
<1>1. /\ q = [ready |-> q.ready, waiting |-> q.waiting, done |-> q.done]
      /\ q.ready \in Seq(Entries) /\ q.waiting \in Seq(Entries) /\ q.done \in [Jobs -> Nat]
  BY DEF Queues
<1>2. CASE Holds(q.ready, x)
  <2> DEFINE i == First(q.ready, x)
             a == RemoveAt(q.ready, i)
  <2>1. i \in DOMAIN q.ready /\ q.ready[i].id = x
    BY <1>1, <1>2, FirstOf
  <2>2. Without(q, x) = [ready |-> a, waiting |-> q.waiting, done |-> q.done]
    BY <1>1, <1>2 DEF Without
  <2> HIDE DEF i
  <2>3. /\ a \in Seq(Entries)
        /\ Count(q.ready, Of(id)) = One(q.ready[i], Of(id)) + Count(a, Of(id))
    BY <1>1, <2>1, CountRemove
  <2>4. One(q.ready[i], Of(id)) = Same(x, id)
    BY <1>1, <2>1, OneEntry
  <2> HIDE DEF a
  <2>5. Count(a, Of(id)) \in Nat /\ Count(q.waiting, Of(id)) \in Nat /\ Same(x, id) \in Nat
    BY <1>1, <2>3, CountNat DEF Same
  <2> QED BY <1>1, <2>2, <2>3, <2>4, <2>5 DEF Queues, Queued
<1>3. CASE ~Holds(q.ready, x)
  <2> DEFINE i == First(q.waiting, x)
             a == RemoveAt(q.waiting, i)
  <2>0. Holds(q.waiting, x)
    <3> DEFINE r == q.ready
               w == q.waiting
    <3>1. r \in Seq(Entries) /\ w \in Seq(Entries)
      BY <1>1
    <3>2. ~Holds(r, x) /\ Holds(r \o w, x)
      BY <1>3
    <3> HIDE DEF r, w
    <3>3. PICK k \in DOMAIN (r \o w) : (r \o w)[k].id = x
      BY <3>2 DEF Holds
    <3>4. /\ k \in 1 .. Len(r) + Len(w) /\ Len(r) \in Nat /\ Len(w) \in Nat
          /\ DOMAIN r = 1 .. Len(r) /\ DOMAIN w = 1 .. Len(w)
      BY <3>1, <3>3
    <3>5. (r \o w)[k] = IF k <= Len(r) THEN r[k] ELSE w[k - Len(r)]
      BY <3>1, <3>4, ConcatProperties
    <3>6. ~(k <= Len(r))
      BY <3>2, <3>3, <3>4, <3>5 DEF Holds
    <3>7. k - Len(r) \in DOMAIN w /\ w[k - Len(r)].id = x
      BY <3>3, <3>4, <3>5, <3>6
    <3> QED BY <3>7 DEF Holds, w
  <2>1. i \in DOMAIN q.waiting /\ q.waiting[i].id = x
    BY <1>1, <2>0, FirstOf
  <2>2. Without(q, x) = [ready |-> q.ready, waiting |-> a, done |-> q.done]
    BY <1>1, <1>3 DEF Without
  <2> HIDE DEF i
  <2>3. /\ a \in Seq(Entries)
        /\ Count(q.waiting, Of(id)) = One(q.waiting[i], Of(id)) + Count(a, Of(id))
    BY <1>1, <2>1, CountRemove
  <2>4. One(q.waiting[i], Of(id)) = Same(x, id)
    BY <1>1, <2>1, OneEntry
  <2> HIDE DEF a
  <2>5. Count(a, Of(id)) \in Nat /\ Count(q.ready, Of(id)) \in Nat /\ Same(x, id) \in Nat
    BY <1>1, <2>3, CountNat DEF Same
  <2> QED BY <1>1, <2>2, <2>3, <2>4, <2>5 DEF Queues, Queued
<1> QED BY <1>2, <1>3

-----------------------------------------------------------------------------
(***************************************************************************)
(* The governor: what its operations leave of the grants and of the delay  *)
(* a server asked for.                                                     *)
(***************************************************************************)
\* A state with its floor kept, or with a floor that is over.
Kept(s, r, now) == r.floor_until = s.floor_until \/ s.floor_until <= now

\* A state has numbers in its fields.
LEMMA Fields ==
  ASSUME NEW s \in Governed
  PROVE  /\ s.in_flight \in Nat /\ s.failures \in Int /\ s.backoff_until \in Int
         /\ s.floor_until \in Int
BY DEF Governed

\* Forgetting an origin gives up no grant and no delay.
LEMMA ForgettingOK ==
  ASSUME NEW s \in Governed, NEW now \in Nat
  PROVE  /\ Forgetting(s, now) \in Governed
         /\ Forgetting(s, now).in_flight = s.in_flight
         /\ Kept(s, Forgetting(s, now), now)
<1>1. CASE s.in_flight = 0 /\ s.failures = 0 /\ ReadyAt(s) <= now
  <2>1. Forgetting(s, now) = Default /\ Default \in Governed /\ Default.in_flight = 0
    BY <1>1 DEF Forgetting, Default, Governed
  <2>2. s.floor_until <= now
    BY <1>1, Fields DEF ReadyAt, Greatest
  <2> QED BY <1>1, <2>1, <2>2 DEF Kept
<1>2. CASE ~(s.in_flight = 0 /\ s.failures = 0 /\ ReadyAt(s) <= now)
  BY <1>2 DEF Forgetting, Kept
<1> QED BY <1>1, <1>2

\* admit: an origin is not asked before its delay is over, and not for more than it has.
LEMMA GrantOK ==
  ASSUME NEW s \in Governed, NEW want \in Nat, NEW now \in Nat
  PROVE  /\ Grant(s, want, now) \in Nat /\ Grant(s, want, now) <= want
         /\ Grant(s, want, now) > 0 =>
              /\ s.floor_until <= now
              /\ s.in_flight + Grant(s, want, now) <= OriginConnections
<1>1. OriginConnections \in Nat
  BY LimitsAssumption
<1> QED BY <1>1, Fields DEF Grant, ReadyAt, Least, Greatest

\* A grant is added to what the origin carries.
LEMMA GrantedOK ==
  ASSUME NEW s \in Governed, NEW grant \in Nat
  PROVE  /\ Granted(s, grant) \in Governed
         /\ Granted(s, grant).in_flight = s.in_flight + grant
         /\ Granted(s, grant).floor_until = s.floor_until
BY DEF Granted, Governed

\* release: the grant is gone, the delay is not.
LEMMA ReleasedOK ==
  ASSUME NEW s \in Governed, NEW grant \in Nat, grant <= s.in_flight, NEW now \in Nat
  PROVE  /\ Released(s, grant, now) \in Governed
         /\ Released(s, grant, now).in_flight = s.in_flight - grant
         /\ Kept(s, Released(s, grant, now), now)
<1> DEFINE r == [s EXCEPT !.in_flight = Greatest(@ - grant, 0)]
<1>1. s.in_flight - grant \in Nat /\ Greatest(s.in_flight - grant, 0) = s.in_flight - grant
  BY Fields DEF Greatest
<1>2. Released(s, grant, now) = Forgetting(r, now)
  BY DEF Released
<1>3. r \in Governed /\ r.in_flight = s.in_flight - grant /\ r.floor_until = s.floor_until
  BY <1>1 DEF Governed
<1> HIDE DEF r
<1> QED BY <1>2, <1>3, ForgettingOK DEF Kept

\* succeeded: the failures are forgiven, what the server asked for is not.
LEMMA SucceededOK ==
  ASSUME NEW s \in Governed, NEW now \in Nat
  PROVE  /\ Succeeded(s, now) \in Governed
         /\ Succeeded(s, now).in_flight = s.in_flight
         /\ Kept(s, Succeeded(s, now), now)
<1> DEFINE r == [s EXCEPT !.failures = 0, !.backoff_until = 0]
<1>1. Succeeded(s, now) = Forgetting(r, now)
  BY DEF Succeeded
<1>2. r \in Governed /\ r.in_flight = s.in_flight /\ r.floor_until = s.floor_until
  <2>1. r \in [in_flight : {s.in_flight}, failures : {0}, backoff_until : {0},
              floor_until : {s.floor_until}]
    BY DEF Governed
  <2> HIDE DEF r
  <2> QED BY <2>1, Fields DEF Governed
<1> HIDE DEF r
<1> QED BY <1>1, <1>2, ForgettingOK DEF Kept

\* A pause is a number.
LEMMA PauseInt ==
  ASSUME NEW n \in Int
  PROVE  PauseFor(n) \in Int
<1> DEFINE k == Least(Greatest(n - 1, 0), 31)
<1>1. k \in Nat
  BY DEF Least, Greatest
<1>2. PauseFor(n) = Least(PauseMs * 2^k, MaximumPauseMs)
  BY DEF PauseFor
<1> HIDE DEF k
<1>3. PauseMs \in Int /\ MaximumPauseMs \in Int /\ 2^k \in Int
  BY <1>1, LimitsAssumption
<1>4. PauseMs * 2^k \in Int
  BY <1>3
<1> QED BY <1>2, <1>3, <1>4 DEF Least

\* failed: the origin is left alone for a while, nothing else.
LEMMA FailedOK ==
  ASSUME NEW s \in Governed, NEW now \in Nat
  PROVE  /\ Failed(s, now) \in Governed
         /\ Failed(s, now).in_flight = s.in_flight
         /\ Failed(s, now).floor_until = s.floor_until
<1> DEFINE f == s.failures + 1
           n == f - FailuresBeforePause + 1
           b == IF n < 1 THEN s.backoff_until ELSE Greatest(s.backoff_until, now + PauseFor(n))
<1>1. f \in Int /\ n \in Int
  BY Fields, LimitsAssumption
<1>2. Failed(s, now) = [s EXCEPT !.failures = f, !.backoff_until = b]
  BY DEF Failed
<1>3. PauseFor(n) \in Int
  <2> HIDE DEF n
  <2> QED BY <1>1, PauseInt
<1>4. b \in Int
  BY <1>3, Fields DEF Greatest
<1> HIDE DEF f, b
<1> QED BY <1>1, <1>2, <1>4 DEF Governed

\* throttled: the floor is what it was, or what the server asks for now if that is later.
LEMMA ThrottledOK ==
  ASSUME NEW s \in Governed, NEW wait \in Nat, NEW now \in Nat
  PROVE  /\ Throttled(s, wait, now) \in Governed
         /\ Throttled(s, wait, now).in_flight = s.in_flight
         /\ Throttled(s, wait, now).floor_until =
              (IF wait = 0 THEN s.floor_until ELSE Greatest(s.floor_until, now + Asked(wait)))
<1> DEFINE f == s.failures + 1
           u == IF wait = 0 THEN s.floor_until ELSE Greatest(s.floor_until, now + Asked(wait))
           b == Greatest(s.backoff_until, now + PauseFor(f))
<1>1. f \in Int /\ MaximumPauseMs \in Int
  BY Fields, LimitsAssumption
<1>2. Throttled(s, wait, now) = [s EXCEPT !.failures = f, !.floor_until = u, !.backoff_until = b]
  BY DEF Throttled
<1>3. PauseFor(f) \in Int
  <2> HIDE DEF f
  <2> QED BY <1>1, PauseInt
<1>4. b \in Int /\ u \in Int
  BY <1>1, <1>3, Fields DEF Greatest, Asked, Least
<1>5. u = (IF wait = 0 THEN s.floor_until ELSE Greatest(s.floor_until, now + Asked(wait)))
  OBVIOUS
<1> HIDE DEF f, b, u
<1> QED BY <1>1, <1>2, <1>4, <1>5 DEF Governed

-----------------------------------------------------------------------------
(***************************************************************************)
(* The types.                                                              *)
(***************************************************************************)

\* The fields of the loop's locals.
LEMMA TurnFields ==
  ASSUME NEW u \in Turns
  PROVE  /\ u.pc \in Pcs /\ u.batch \in Seq(Entries) /\ u.seen \in SUBSET Jobs
         /\ u.left \in Nat /\ u.now \in Nat /\ u.moving \in Seq(Entries)
         /\ u.skipped \in Seq(Entries)
BY DEF Turns

\* The locals that a turn's bookkeeping leaves alone.
Unmoved(u, v) ==
  v.batch = u.batch /\ v.seen = u.seen /\ v.moving = u.moving /\ v.skipped = u.skipped

\* Init is well typed.
LEMMA InitTypes ==
  ASSUME Init
  PROVE  TypeOK
<1>1. turn \in Turns /\ turn.left = 0 /\ turn.batch \in Seq(Entries)
  <2>1. turn.batch \in Seq(Entries)
    BY SchedulerAssumption DEF Init, Entries
  <2>2. turn \in [pc : {"intake"}, batch : {turn.batch}, seen : {{}}, left : {0}, now : {0},
                 moving : {<<>>}, skipped : {<<>>}, started : {FALSE}, deadline : {-1}]
    BY DEF Init, NoDeadline
  <2>3. <<>> \in Seq(Entries)
    OBVIOUS
  <2> DEFINE z == {}
             n == <<>>
             d == -1
             f == FALSE
  <2>4. z \in SUBSET Jobs /\ n \in Seq(Entries) /\ d \in Int /\ "intake" \in Pcs
    BY <2>3 DEF Pcs
  <2>6. f \in BOOLEAN
    OBVIOUS
  <2>5. turn \in [pc : {"intake"}, batch : {turn.batch}, seen : {z}, left : {0}, now : {0},
                 moving : {n}, skipped : {n}, started : {f}, deadline : {d}]
    BY <2>2
  <2> HIDE DEF z, n, d, f
  <2> QED BY <2>1, <2>4, <2>5, <2>6 DEF Turns
<1>2. queue \in Queues
  BY DEF Init, Queues
<1>3. clock \in Nat /\ used \in Nat
  BY DEF Init
<1>4. active \in [Jobs -> {NoActive} \cup Granting] /\ tasks \in [Slots -> {NoTask} \cup Sessions]
  BY DEF Init
<1>5. deferred \in Seq(Jobs) /\ turn.left <= Len(deferred)
  BY <1>1 DEF Init
<1>6. origins \in [Origins -> Governed]
  BY DEF Init, Default, Governed
<1>7. channel \in [sent : Seq(Commands), held : BOOLEAN]
  BY DEF Init
<1>8. given \in [Jobs -> Nat]
  <2>1. \A id \in Jobs : Count(turn.batch, Of(id)) \in Nat
    BY <1>1, CountNat
  <2> QED BY <2>1 DEF Init
<1>9. asked \in [Origins -> Int]
  BY DEF Init
<1> QED BY <1>1, <1>2, <1>3, <1>4, <1>5, <1>6, <1>7, <1>8, <1>9 DEF TypeOK

\* The jobs given are on the queue, or known to have failed.
LEMMA IntakeTypes ==
  ASSUME TypeOK, Intake
  PROVE  TypeOK'
<1>1. turn \in Turns /\ queue \in Queues
  BY DEF TypeOK
<1>2. CASE turn.batch = <<>>
  <2>1. turn' = [turn EXCEPT !.pc = "deliver", !.seen = {}] /\ queue' = queue
    BY <1>2 DEF Intake
  <2>2. turn' \in Turns /\ turn'.left = turn.left
    BY <1>1, <2>1 DEF Turns, Pcs
  <2> QED BY <2>1, <2>2 DEF TypeOK, Intake, ghosts
<1>3. CASE turn.batch # <<>>
  <2> DEFINE e == Head(turn.batch)
             b == Tail(turn.batch)
  <2>1. e \in Entries /\ b \in Seq(Entries) /\ e.id \in Jobs
    <3>1. turn.batch \in Seq(Entries)
      BY <1>1, TurnFields
    <3>2. e \in Entries /\ b \in Seq(Entries)
      BY <1>3, <3>1, HeadTailProperties
    <3> HIDE DEF e, b
    <3> QED BY <3>2 DEF Entries
  <2>2. /\ turn' = [turn EXCEPT !.batch = b, !.seen = turn.seen \cup {e.id}]
        /\ queue' = Outcome(queue, e.id) \/ queue' = Take(queue, e)
    BY <1>3 DEF Intake
  <2> HIDE DEF e, b
  <2>3. turn' \in Turns /\ turn'.left = turn.left
    BY <1>1, <2>1, <2>2 DEF Turns
  <2>4. queue' \in Queues
    BY <1>1, <2>1, <2>2, TakeCount, OutcomeCount
  <2> QED BY <2>3, <2>4 DEF TypeOK, Intake, ghosts
<1> QED BY <1>2, <1>3

\* The same sessions, under the same jobs and with the same grants.
Steady ==
  /\ Live' = Live
  /\ \A t \in Live : tasks'[t].id = tasks[t].id /\ tasks'[t].grant = tasks[t].grant

\* What a session does to itself leaves it the session it is.
Adjusted(t) ==
  tasks'[t] # tasks[t] =>
    /\ t \in Live /\ tasks'[t] \in Sessions
    /\ tasks'[t].id = tasks[t].id /\ tasks'[t].grant = tasks[t].grant

\* Sessions that are adjusted are the same sessions.
LEMMA AdjustedSteady ==
  ASSUME TypeOK, tasks' = [t \in Slots |-> tasks'[t]], \A t \in Slots : Adjusted(t)
  PROVE  tasks' \in [Slots -> {NoTask} \cup Sessions] /\ Steady
<1>1. \A t \in Slots : tasks'[t] \in {NoTask} \cup Sessions
  BY DEF TypeOK, Adjusted
<1>2. tasks' \in [Slots -> {NoTask} \cup Sessions]
  BY <1>1
<1>3. NoTask \notin Sessions
  <2>1. NoTask.grant = 0 /\ \A s \in Sessions : s.grant \in 1 .. Connections
    BY DEF NoTask, Sessions
  <2> QED BY <2>1, SchedulerAssumption
<1>4. \A t \in Slots : tasks'[t] = NoTask <=> tasks[t] = NoTask
  BY <1>3 DEF Adjusted, Live
<1>5. Live' = Live
  BY <1>4 DEF Live
<1>6. \A t \in Live : tasks'[t].id = tasks[t].id /\ tasks'[t].grant = tasks[t].grant
  BY DEF Adjusted, Live
<1> QED BY <1>2, <1>5, <1>6 DEF Steady

\* One session that is adjusted.
LEMMA OneAdjusted ==
  ASSUME TypeOK, NEW t \in Live, NEW r \in Sessions, r.id = tasks[t].id,
         r.grant = tasks[t].grant, tasks' = [tasks EXCEPT ![t] = r]
  PROVE  tasks' \in [Slots -> {NoTask} \cup Sessions] /\ Steady
<1>1. tasks \in [Slots -> {NoTask} \cup Sessions] /\ t \in Slots
  BY DEF TypeOK, Live
<1>2. \A u \in Slots : tasks'[u] = IF u = t THEN r ELSE tasks[u]
  BY <1>1
<1>3. tasks' = [u \in Slots |-> tasks'[u]]
  BY <1>1
<1>4. \A u \in Slots : Adjusted(u)
  BY <1>2 DEF Adjusted
<1> QED BY <1>3, <1>4, AdjustedSteady

\* No session that is adjusted.
LEMMA NoneAdjusted ==
  ASSUME tasks' = tasks
  PROVE  Steady
BY DEF Steady, Live

\* The task of a job the loop knows is a session of that job.
LEMMA ActiveTask ==
  ASSUME TypeOK, Matched, NEW id \in Jobs, IsActive(id)
  PROVE  active[id].task \in Live /\ tasks[active[id].task] \in Sessions
<1>1. active[id].task \in Live /\ tasks[active[id].task].id = id
  BY DEF Matched, SessionsOf
<1> QED BY <1>1 DEF TypeOK, Live

\* A control more in a channel leaves the sessions what they are.
LEMMA PostTypes ==
  ASSUME TypeOK, Matched, NEW id \in Jobs, IsActive(id), NEW line \in Seq(Jobs), Post(id, line)
  PROVE  /\ tasks' \in [Slots -> {NoTask} \cup Sessions] /\ Steady
         /\ deferred' \in Seq(Jobs) /\ Len(deferred') >= Len(line)
<1>1. active[id].task \in Live /\ tasks[active[id].task] \in Sessions
  BY ActiveTask
<1>2. CASE Accepts(active[id].task)
  <2>1. tasks' = [tasks EXCEPT ![active[id].task].inbox = @ + 1] /\ deferred' = line
    BY <1>2 DEF Post
  <2> DEFINE t == active[id].task
             r == [tasks[t] EXCEPT !.inbox = @ + 1]
  <2>2. r \in Sessions /\ r.id = tasks[t].id /\ r.grant = tasks[t].grant
    BY <1>1 DEF Sessions
  <2>3. tasks' = [tasks EXCEPT ![t] = r]
    BY <2>1
  <2>4. Len(line) \in Nat /\ t \in Live
    BY <1>1
  <2> HIDE DEF t, r
  <2>5. tasks' \in [Slots -> {NoTask} \cup Sessions] /\ Steady
    BY <2>2, <2>3, <2>4, OneAdjusted
  <2> QED BY <2>1, <2>4, <2>5
<1>3. CASE ~Accepts(active[id].task)
  <2>1. tasks' = tasks /\ deferred' = Append(line, id)
    BY <1>3 DEF Post
  <2> QED BY <2>1, NoneAdjusted DEF TypeOK
<1> QED BY <1>2, <1>3

\* The controls that were refused are still controls.
LEMMA DeliverTypes ==
  ASSUME TypeOK, Matched, Deliver
  PROVE  TypeOK' /\ Steady /\ Unmoved(turn, turn') /\ turn'.now = turn.now /\ turn'.pc = turn.pc
<1> DEFINE id == Head(deferred)
           line == Tail(deferred)
<1>1. turn \in Turns /\ deferred \in Seq(Jobs) /\ turn.left \in Nat /\ turn.left <= Len(deferred)
  BY TurnFields DEF TypeOK
<1>2. turn.left > 0 /\ deferred # <<>>
  BY <1>1 DEF Deliver
<1>3. id \in Jobs /\ line \in Seq(Jobs) /\ Len(line) = Len(deferred) - 1
  BY <1>1, <1>2, HeadTailProperties
<1>4. /\ turn' \in Turns /\ turn'.left = turn.left - 1 /\ Unmoved(turn, turn')
      /\ turn'.now = turn.now /\ turn'.pc = turn.pc
  <2>1. turn' = [turn EXCEPT !.left = turn.left - 1] /\ turn.left - 1 \in Nat
    BY <1>1, <1>2 DEF Deliver
  <2> QED BY <1>1, <2>1 DEF Turns, Unmoved
<1>5. IF IsActive(id) THEN Post(id, line) ELSE tasks' = tasks /\ deferred' = line
  BY DEF Deliver
<1> HIDE DEF id, line
<1>6. /\ tasks' \in [Slots -> {NoTask} \cup Sessions] /\ Steady
      /\ deferred' \in Seq(Jobs) /\ Len(deferred') >= Len(line)
  <2>1. CASE IsActive(id)
    BY <1>3, <1>5, <2>1, PostTypes
  <2>2. CASE ~IsActive(id)
    BY <1>3, <1>5, <2>2, NoneAdjusted DEF TypeOK
  <2> QED BY <2>1, <2>2
<1>7. turn'.left <= Len(deferred')
  BY <1>1, <1>3, <1>4, <1>6
<1> QED BY <1>4, <1>6, <1>7 DEF TypeOK, Deliver, ghosts

\* The jobs that wait are drained.
LEMMA PromoteTypes ==
  ASSUME TypeOK, Promote
  PROVE  /\ TypeOK'
         /\ \/ turn' = [turn EXCEPT !.pc = "decide"] /\ queue' = queue
            \/ /\ turn' \in Turns /\ turn'.moving = queue.waiting /\ turn'.now = clock
               /\ turn'.skipped = turn.skipped /\ turn'.batch = turn.batch
               /\ turn'.seen = turn.seen /\ turn'.pc = "move"
               /\ queue' \in Queues /\ queue'.ready = queue.ready /\ queue'.waiting = <<>>
               /\ queue'.done = queue.done
<1>1. turn \in Turns /\ queue \in Queues /\ clock \in Nat /\ queue.waiting \in Seq(Entries)
  BY DEF TypeOK, Queues
<1>2. CASE turn' = [turn EXCEPT !.pc = "decide"] /\ queue' = queue
  <2>1. turn' \in Turns /\ turn'.left = turn.left
    BY <1>1, <1>2 DEF Turns, Pcs
  <2> QED BY <1>2, <2>1 DEF TypeOK, Promote, ghosts
<1>3. CASE Drain
  <2> DEFINE w == queue.waiting
             n == <<>>
  <2>1. w \in Seq(Entries) /\ n \in Seq(Entries)
    BY <1>1
  <2>2. /\ turn' = [turn EXCEPT !.pc = "move", !.now = clock, !.moving = w]
        /\ queue' = [queue EXCEPT !.waiting = n]
    BY <1>3 DEF Drain
  <2> HIDE DEF w, n
  <2>3. /\ turn' \in Turns /\ turn'.left = turn.left /\ turn'.moving = w /\ turn'.now = clock
        /\ turn'.skipped = turn.skipped /\ turn'.batch = turn.batch
        /\ turn'.seen = turn.seen /\ turn'.pc = "move"
    BY <1>1, <2>1, <2>2 DEF Turns, Pcs
  <2>4. /\ queue' \in Queues /\ queue'.ready = queue.ready /\ queue'.waiting = n
        /\ queue'.done = queue.done
    BY <1>1, <2>1, <2>2 DEF Queues
  <2>5. TypeOK'
    BY <2>3, <2>4 DEF TypeOK, Promote, ghosts
  <2> QED BY <2>3, <2>4, <2>5 DEF w, n
<1> QED BY <1>2, <1>3 DEF Promote

\* A job that moves is on a queue again, or known to have failed.
LEMMA MoveTypes ==
  ASSUME TypeOK, Move
  PROVE  /\ TypeOK'
         /\ Head(turn.moving) \in Entries /\ turn.moving # <<>>
         /\ turn' \in Turns /\ turn'.moving = Tail(turn.moving) /\ turn'.now = turn.now
         /\ turn'.skipped = turn.skipped /\ turn'.batch = turn.batch
         /\ turn'.seen = turn.seen /\ turn'.pc = turn.pc
         /\ \/ queue' = [queue EXCEPT !.waiting = Append(@, Head(turn.moving))]
            \/ queue' = Take(queue, Entry(Head(turn.moving).id, Ready))
            \/ queue' = Outcome(queue, Head(turn.moving).id)
<1> DEFINE e == Head(turn.moving)
           m == Tail(turn.moving)
<1>1. turn \in Turns /\ queue \in Queues /\ turn.moving \in Seq(Entries) /\ turn.moving # <<>>
  BY TurnFields DEF TypeOK, Move
<1>2. e \in Entries /\ m \in Seq(Entries)
  BY <1>1, HeadTailProperties
<1>3. turn' = [turn EXCEPT !.moving = m]
  BY DEF Move
<1>4. \/ queue' = [queue EXCEPT !.waiting = Append(@, e)]
      \/ queue' = Take(queue, Entry(e.id, Ready))
      \/ queue' = Outcome(queue, e.id)
  BY DEF Move
<1> HIDE DEF e, m
<1>5. /\ turn' \in Turns /\ turn'.left = turn.left /\ turn'.moving = m /\ turn'.now = turn.now
      /\ turn'.skipped = turn.skipped /\ turn'.batch = turn.batch
      /\ turn'.seen = turn.seen /\ turn'.pc = turn.pc
  BY <1>1, <1>2, <1>3 DEF Turns
<1>6. queue' \in Queues
  <2>1. e.id \in Jobs /\ Entry(e.id, Ready) \in Entries
    BY <1>2 DEF Entries, Entry, Ready
  <2>2. CASE queue' = [queue EXCEPT !.waiting = Append(@, e)]
    <3>1. Append(queue.waiting, e) \in Seq(Entries)
      BY <1>1, <1>2 DEF Queues
    <3> QED BY <1>1, <2>2, <3>1 DEF Queues
  <2>3. CASE queue' = Take(queue, Entry(e.id, Ready))
    BY <1>1, <2>1, <2>3, TakeCount
  <2>4. CASE queue' = Outcome(queue, e.id)
    BY <1>1, <2>1, <2>4, OutcomeCount
  <2> QED BY <1>4, <2>2, <2>3, <2>4
<1>7. TypeOK'
  BY <1>5, <1>6 DEF TypeOK, Move, ghosts
<1> QED BY <1>1, <1>2, <1>4, <1>5, <1>7 DEF e, m

\* The clock is read.
LEMMA ReadClockTypes ==
  ASSUME TypeOK, ReadClock
  PROVE  TypeOK' /\ turn' \in Turns /\ turn'.now = clock /\ turn'.moving = turn.moving
         /\ turn'.skipped = turn.skipped /\ turn'.batch = turn.batch /\ turn'.seen = turn.seen
<1>1. turn \in Turns /\ clock \in Nat
  BY DEF TypeOK
<1>2. /\ turn' \in Turns /\ turn'.left = turn.left /\ turn'.now = clock
      /\ turn'.moving = turn.moving /\ turn'.skipped = turn.skipped
      /\ turn'.batch = turn.batch /\ turn'.seen = turn.seen
  BY <1>1 DEF ReadClock, Turns, Pcs
<1> QED BY <1>2 DEF TypeOK, ReadClock, ghosts

\* What a session is granted: no more than there is, and not before its origin's delay is over.
Affordable(e, t, grant) ==
  /\ grant \in 1 .. Connections /\ used + grant <= Connections
  /\ origins[OriginOf[e.id]].in_flight + grant <= OriginConnections
  /\ origins[OriginOf[e.id]].floor_until <= turn.now

\* The first job in line is skipped, or it gets a task and a grant.
LEMMA AdmitTypes ==
  ASSUME TypeOK, Admit
  PROVE  /\ TypeOK'
         /\ queue.ready # <<>> /\ Head(queue.ready) \in Entries
         /\ queue'.ready = Tail(queue.ready) /\ queue'.waiting = queue.waiting
         /\ queue'.done = queue.done
         /\ turn'.batch = turn.batch /\ turn'.seen = turn.seen /\ turn'.moving = turn.moving
         /\ turn'.now = turn.now /\ turn'.pc = turn.pc
         /\ \/ /\ turn'.skipped = Append(turn.skipped, Head(queue.ready))
               /\ UNCHANGED <<active, tasks, used, origins>>
            \/ /\ turn'.skipped = turn.skipped
               /\ \E t \in Slots \ Live, grant \in 1 .. Connections :
                    /\ Affordable(Head(queue.ready), t, grant)
                    /\ Spawn(Head(queue.ready), t, grant)
<1> DEFINE e == Head(queue.ready)
           r == Tail(queue.ready)
           o == OriginOf[e.id]
           grant == Grant(origins[o], Want, turn.now)
<1>1. /\ turn \in Turns /\ queue \in Queues /\ queue.ready \in Seq(Entries) /\ queue.ready # <<>>
      /\ turn.skipped \in Seq(Entries) /\ turn.now \in Nat /\ used \in Nat
  BY TurnFields DEF TypeOK, Queues, Admit
<1>2. e \in Entries /\ r \in Seq(Entries)
  BY <1>1, HeadTailProperties
<1>3. Connections \in Nat /\ PerJob \in Nat /\ OriginOf \in [Jobs -> Origins]
  BY SchedulerAssumption
<1>4. e.id \in Jobs
  <2> HIDE DEF e
  <2> QED BY <1>2 DEF Entries
<1>5. o \in Origins /\ origins[o] \in Governed
  BY <1>3, <1>4 DEF TypeOK
<1>6. Want \in Nat /\ used + Want <= Connections
  BY <1>1, <1>3 DEF Admit, Full, Want, Least
<1>7. /\ grant \in Nat /\ grant <= Want
      /\ grant > 0 => /\ origins[o].floor_until <= turn.now
                      /\ origins[o].in_flight + grant <= OriginConnections
  <2> HIDE DEF o
  <2> QED BY <1>1, <1>5, <1>6, GrantOK
<1>8. queue' = [queue EXCEPT !.ready = r]
  BY DEF Admit
<1>9. \/ /\ grant = 0 /\ turn' = [turn EXCEPT !.skipped = Append(@, e)]
         /\ UNCHANGED <<active, tasks, used, origins>>
      \/ /\ grant > 0 /\ turn' = [turn EXCEPT !.started = TRUE]
         /\ \E t \in Slots \ Live : Spawn(e, t, grant)
  BY DEF Admit
<1>10. o = OriginOf[e.id]
  OBVIOUS
<1>11. UNCHANGED <<clock, deferred, flags, channel, given, asked>>
  BY DEF Admit, ghosts
<1>e. e = Head(queue.ready) /\ r = Tail(queue.ready)
  OBVIOUS
<1> HIDE DEF e, r, o, grant
<1>12. /\ queue' \in Queues /\ queue'.ready = r /\ queue'.waiting = queue.waiting
       /\ queue'.done = queue.done
  BY <1>1, <1>2, <1>8 DEF Queues
<1>13. CASE /\ grant = 0 /\ turn' = [turn EXCEPT !.skipped = Append(@, e)]
            /\ UNCHANGED <<active, tasks, used, origins>>
  <2>1. Append(turn.skipped, e) \in Seq(Entries)
    BY <1>1, <1>2
  <2>2. /\ turn' \in Turns /\ turn'.left = turn.left
        /\ turn'.batch = turn.batch /\ turn'.seen = turn.seen /\ turn'.moving = turn.moving
        /\ turn'.now = turn.now /\ turn'.pc = turn.pc
        /\ turn'.skipped = Append(turn.skipped, e)
    BY <1>1, <1>13, <2>1 DEF Turns
  <2>3. TypeOK'
    BY <1>11, <1>12, <1>13, <2>2 DEF TypeOK
  <2> QED BY <1>1, <1>2, <1>12, <1>13, <1>e, <2>2, <2>3
<1>14. CASE /\ grant > 0 /\ turn' = [turn EXCEPT !.started = TRUE]
            /\ \E t \in Slots \ Live : Spawn(e, t, grant)
  <2>1. PICK t \in Slots \ Live : Spawn(e, t, grant)
    BY <1>14
  <2> DEFINE f == TRUE
  <2>2. f \in BOOLEAN /\ turn' = [turn EXCEPT !.started = f]
    BY <1>14
  <2> HIDE DEF f
  <2>3. /\ turn' \in Turns /\ turn'.left = turn.left
        /\ turn'.batch = turn.batch /\ turn'.seen = turn.seen /\ turn'.moving = turn.moving
        /\ turn'.now = turn.now /\ turn'.pc = turn.pc /\ turn'.skipped = turn.skipped
    BY <1>1, <2>2 DEF Turns
  <2>4. grant \in 1 .. Connections /\ used + grant <= Connections
    BY <1>1, <1>3, <1>6, <1>7, <1>14
  <2>5. Affordable(e, t, grant)
    BY <1>7, <1>10, <1>14, <2>4 DEF Affordable
  <2>6. active' \in [Jobs -> {NoActive} \cup Granting]
    BY <1>4, <2>1, <2>4 DEF Spawn, TypeOK, Granting
  <2>7. tasks' \in [Slots -> {NoTask} \cup Sessions]
    <3> DEFINE n == [NoTask EXCEPT !.id = e.id, !.grant = grant]
    <3>1. n \in [id : {e.id}, grant : {grant}, inbox : {0}, told : {FALSE}, end : {Running}]
      BY DEF NoTask
    <3>2. Running \in [kind : {"running", "published", "settled", "failed"}, at : Int]
      BY DEF Running, Rest
    <3>3. n \in Sessions
      <4> DEFINE f0 == FALSE
      <4>1. f0 \in BOOLEAN
        OBVIOUS
      <4>2. n \in [id : {e.id}, grant : {grant}, inbox : {0}, told : {f0}, end : {Running}]
        BY <3>1
      <4> HIDE DEF n, f0
      <4> QED BY <1>4, <2>4, <3>2, <4>1, <4>2 DEF Sessions
    <3>4. tasks' = [tasks EXCEPT ![t] = n]
      BY <2>1 DEF Spawn
    <3> HIDE DEF n
    <3> QED BY <3>3, <3>4 DEF TypeOK
  <2>8. used' \in Nat
    BY <1>1, <2>1, <2>4 DEF Spawn
  <2>9. origins' \in [Origins -> Governed]
    <3>1. Granted(origins[o], grant) \in Governed
      BY <1>5, <1>7, GrantedOK
    <3> QED BY <1>5, <1>10, <2>1, <3>1 DEF Spawn, TypeOK
  <2>10. TypeOK'
    BY <1>11, <1>12, <2>3, <2>6, <2>7, <2>8, <2>9 DEF TypeOK
  <2> QED BY <1>1, <1>2, <1>12, <1>e, <2>1, <2>3, <2>4, <2>5, <2>10
<1> QED BY <1>9, <1>13, <1>14

\* The jobs that were skipped are back, in front.
LEMMA AdmitDoneTypes ==
  ASSUME TypeOK, AdmitDone
  PROVE  /\ TypeOK'
         /\ queue'.ready = turn.skipped \o queue.ready /\ queue'.waiting = queue.waiting
         /\ queue'.done = queue.done
         /\ turn'.batch = turn.batch /\ turn'.seen = turn.seen /\ turn'.moving = turn.moving
         /\ turn'.skipped = <<>> /\ turn'.now = 0 /\ turn.pc # "intake" /\ turn'.pc = "decide"
<1> DEFINE r == turn.skipped \o queue.ready
           n == <<>>
<1>1. /\ turn \in Turns /\ queue \in Queues /\ queue.ready \in Seq(Entries)
      /\ turn.skipped \in Seq(Entries)
  BY TurnFields DEF TypeOK, Queues
<1>2. r \in Seq(Entries) /\ n \in Seq(Entries)
  BY <1>1
<1>3. /\ queue' = [queue EXCEPT !.ready = r] /\ turn.pc = "admit"
      /\ turn' = [turn EXCEPT !.pc = "decide", !.now = 0, !.skipped = n]
  BY DEF AdmitDone
<1>e. r = turn.skipped \o queue.ready /\ n = <<>>
  OBVIOUS
<1> HIDE DEF r, n
<1>4. /\ queue' \in Queues /\ queue'.ready = r /\ queue'.waiting = queue.waiting
      /\ queue'.done = queue.done
  BY <1>1, <1>2, <1>3 DEF Queues
<1>5. /\ turn' \in Turns /\ turn'.left = turn.left
      /\ turn'.batch = turn.batch /\ turn'.seen = turn.seen /\ turn'.moving = turn.moving
      /\ turn'.skipped = n /\ turn'.now = 0 /\ turn'.pc = "decide"
  BY <1>1, <1>2, <1>3 DEF Turns, Pcs
<1>6. TypeOK'
  BY <1>4, <1>5 DEF TypeOK, AdmitDone, ghosts
<1> QED BY <1>3, <1>4, <1>5, <1>6, <1>e

\* A deadline is a number.
LEMMA DeadlineInt ==
  ASSUME TypeOK
  PROVE  Earliest(Deadlines(clock)) \in Int
<1> DEFINE T == Deadlines(clock)
<1>1. OriginOf \in [Jobs -> Origins]
  BY SchedulerAssumption
<1>2. \A i \in DOMAIN queue.waiting : queue.waiting[i].at \in Int
  <2>1. queue.waiting \in Seq(Entries)
    BY DEF TypeOK, Queues
  <2>2. \A i \in DOMAIN queue.waiting : queue.waiting[i] \in Entries
    BY <2>1
  <2> QED BY <2>2 DEF Entries
<1>3. \A i \in DOMAIN queue.ready : ReadyAt(origins[OriginOf[queue.ready[i].id]]) \in Int
  <2>1. queue.ready \in Seq(Entries)
    BY DEF TypeOK, Queues
  <2>2. \A i \in DOMAIN queue.ready : queue.ready[i].id \in Jobs
    <3>1. \A i \in DOMAIN queue.ready : queue.ready[i] \in Entries
      BY <2>1
    <3> QED BY <3>1 DEF Entries
  <2>3. \A i \in DOMAIN queue.ready : origins[OriginOf[queue.ready[i].id]] \in Governed
    BY <1>1, <2>2 DEF TypeOK
  <2> QED BY <2>3, Fields DEF ReadyAt, Greatest
<1>4. T \subseteq Nat
  <2>1. \A t \in T : t \in Int /\ t > clock
    BY <1>2, <1>3 DEF Deadlines
  <2> HIDE DEF T
  <2> QED BY <2>1 DEF TypeOK
<1>5. T # {} => \E t \in T : \A u \in T : t <= u
  <2> HIDE DEF T
  <2> QED BY <1>4, Minimum
<1> HIDE DEF T
<1>6. CASE T = {}
  <2>1. Earliest(T) = -1
    BY <1>6 DEF Earliest, NoDeadline
  <2> QED BY <2>1 DEF T
<1>7. CASE T # {}
  <2>1. Earliest(T) = CHOOSE t \in T : \A u \in T : t <= u
    BY <1>7 DEF Earliest
  <2>2. Earliest(T) \in T
    BY <1>5, <1>7, <2>1
  <2> QED BY <1>4, <2>2 DEF T
<1> QED BY <1>6, <1>7

\* The queue is handed back, or the loop waits.
LEMMA DecideTypes ==
  ASSUME TypeOK, Decide
  PROVE  /\ TypeOK' /\ Unmoved(turn, turn') /\ turn'.now = turn.now
         /\ turn.pc # "intake" /\ turn'.pc # "intake"
         /\ \/ queue' = queue
            \/ /\ queue'.ready = <<>> /\ queue'.waiting = <<>>
               /\ \A id \in Jobs : queue'.done[id] = queue.done[id] + Queued(queue, id)
<1> DEFINE d == Earliest(Deadlines(clock))
           f == FALSE
<1>1. turn \in Turns /\ queue \in Queues
  BY DEF TypeOK
<1>2. d \in Int /\ f \in BOOLEAN
  BY DeadlineInt
<1>3. \/ /\ turn' = [turn EXCEPT !.pc = "returned"]
         /\ queue' = [ready |-> <<>>, waiting |-> <<>>, done |-> [id \in Jobs |->
                       queue.done[id] + Count(queue.ready \o queue.waiting, Of(id))]]
      \/ /\ turn' = [turn EXCEPT !.pc = "select", !.started = f, !.deadline = d]
         /\ queue' = queue
  BY DEF Decide
<1>4. turn.pc = "decide"
  BY DEF Decide
<1> HIDE DEF d, f
<1>5. CASE /\ turn' = [turn EXCEPT !.pc = "returned"]
           /\ queue' = [ready |-> <<>>, waiting |-> <<>>, done |-> [id \in Jobs |->
                         queue.done[id] + Count(queue.ready \o queue.waiting, Of(id))]]
  <2>1. /\ turn' \in Turns /\ turn'.left = turn.left /\ Unmoved(turn, turn')
        /\ turn'.now = turn.now /\ turn'.pc = "returned"
    BY <1>1, <1>5 DEF Turns, Pcs, Unmoved
  <2>2. \A id \in Jobs : /\ Count(queue.ready \o queue.waiting, Of(id)) = Queued(queue, id)
                         /\ Queued(queue, id) \in Nat
    <3> DEFINE r == queue.ready
               w == queue.waiting
    <3>1. r \in Seq(Entries) /\ w \in Seq(Entries)
      BY <1>1 DEF Queues
    <3> HIDE DEF r, w
    <3>2. \A id \in Jobs : Count(r \o w, Of(id)) = Count(r, Of(id)) + Count(w, Of(id))
      BY <3>1, CountConcat
    <3> QED BY <1>1, <3>2, QueuedNat DEF Queued, r, w
  <2>3. queue.done \in [Jobs -> Nat]
    BY <1>1 DEF Queues
  <2> DEFINE g == [id \in Jobs |->
                    queue.done[id] + Count(queue.ready \o queue.waiting, Of(id))]
             n == <<>>
  <2>4. g \in [Jobs -> Nat] /\ \A id \in Jobs : g[id] = queue.done[id] + Queued(queue, id)
    BY <2>2, <2>3
  <2>5. n \in Seq(Entries) /\ n = <<>>
    OBVIOUS
  <2>6. queue' = [ready |-> n, waiting |-> n, done |-> g]
    BY <1>5
  <2> HIDE DEF g, n
  <2>7. queue' \in Queues /\ queue'.ready = n /\ queue'.waiting = n /\ queue'.done = g
    BY <2>4, <2>5, <2>6 DEF Queues
  <2>8. TypeOK'
    BY <2>1, <2>7 DEF TypeOK, Decide, ghosts
  <2> QED BY <1>4, <2>1, <2>4, <2>5, <2>7, <2>8
<1>6. CASE /\ turn' = [turn EXCEPT !.pc = "select", !.started = f, !.deadline = d]
           /\ queue' = queue
  <2>1. /\ turn' \in Turns /\ turn'.left = turn.left /\ Unmoved(turn, turn')
        /\ turn'.now = turn.now /\ turn'.pc = "select"
    BY <1>1, <1>2, <1>6 DEF Turns, Pcs, Unmoved
  <2>2. TypeOK'
    BY <1>6, <2>1 DEF TypeOK, Decide, ghosts
  <2> QED BY <1>4, <1>6, <2>1, <2>2
<1> QED BY <1>3, <1>5, <1>6

\* The loop starts over.
LEMMA AgainTypes ==
  ASSUME turn \in Turns, deferred' \in Seq(Jobs), Again
  PROVE  /\ turn' \in Turns /\ turn'.left <= Len(deferred') /\ Unmoved(turn, turn')
         /\ turn'.now = turn.now /\ turn'.pc = "deliver"
<1> DEFINE d == NoDeadline
           l == Len(deferred')
<1>1. d \in Int /\ l \in Nat
  BY DEF NoDeadline
<1>2. turn' = [turn EXCEPT !.pc = "deliver", !.left = l, !.deadline = d]
  BY DEF Again
<1>e. l = Len(deferred')
  OBVIOUS
<1> HIDE DEF d, l
<1>3. /\ turn' \in Turns /\ turn'.left = l /\ Unmoved(turn, turn')
      /\ turn'.now = turn.now /\ turn'.pc = "deliver"
  BY <1>1, <1>2 DEF Turns, Pcs, Unmoved
<1> QED BY <1>1, <1>3, <1>e

-----------------------------------------------------------------------------
(***************************************************************************)
(* Sessions and their grants.                                              *)
(***************************************************************************)
OfOrigin(o) == {t \in Live : OriginOf[tasks[t].id] = o}

\* Live tasks are sessions, with a grant.
LEMMA LiveSessions ==
  ASSUME TypeOK, NEW t \in Live
  PROVE  /\ t \in Slots /\ tasks[t] \in Sessions /\ tasks[t].id \in Jobs
         /\ tasks[t].grant \in 1 .. Connections /\ OriginOf[tasks[t].id] \in Origins
<1>1. t \in Slots /\ tasks[t] \in Sessions
  BY DEF TypeOK, Live
<1>2. tasks[t].id \in Jobs /\ tasks[t].grant \in 1 .. Connections
  BY <1>1 DEF Sessions
<1> QED BY <1>1, <1>2, SchedulerAssumption

\* Where the sessions are the same, the books agree as before.
LEMMA SteadyMatched ==
  ASSUME Matched, Steady, active' = active
  PROVE  Matched' /\ \A id : SessionsOf(id)' = SessionsOf(id)
<1>1. \A id : SessionsOf(id)' = SessionsOf(id)
  BY DEF SessionsOf, Steady
<1>2. \A t \in Live' : active'[tasks'[t].id] = [task |-> t, grant |-> tasks'[t].grant]
  BY DEF Matched, Steady
<1>3. \A id \in Jobs : IsActive(id)' => active'[id].task \in SessionsOf(id)'
  BY <1>1 DEF Matched, IsActive
<1> QED BY <1>1, <1>2, <1>3 DEF Matched

\* The grants are counted as before.
LEMMA SteadyCounted ==
  ASSUME Counted, Steady, used' = used,
         \A o \in Origins : origins'[o].in_flight = origins[o].in_flight
  PROVE  Counted'
<1>1. GrantsOf(Live)' = GrantsOf(Live)
  <2>1. Conns(tasks', Live) = Conns(tasks, Live)
    BY ConnsSame DEF Steady
  <2> QED BY <2>1 DEF GrantsOf, Conns, Steady
<1>2. ASSUME NEW o \in Origins PROVE GrantsOf(OfOrigin(o))' = GrantsOf(OfOrigin(o))
  <2>1. OfOrigin(o)' = OfOrigin(o) /\ OfOrigin(o) \subseteq Live
    BY DEF OfOrigin, Steady
  <2>2. Conns(tasks', OfOrigin(o)) = Conns(tasks, OfOrigin(o))
    BY <2>1, ConnsSame DEF Steady
  <2> QED BY <2>1, <2>2 DEF GrantsOf, Conns
<1> QED BY <1>1, <1>2 DEF Counted, OfOrigin

\* A session that ended is known under its job, and its grant is in both books.
LEMMA EndedKnown ==
  ASSUME TypeOK, Matched, Counted, NEW t \in Live
  PROVE  /\ IsActive(tasks[t].id) /\ active[tasks[t].id].grant = tasks[t].grant
         /\ GrantsOf(Live) = Cardinality(Conns(tasks, Live \ {t})) + tasks[t].grant
         /\ Cardinality(Conns(tasks, Live \ {t})) \in Nat
         /\ tasks[t].grant <= used
         /\ origins[OriginOf[tasks[t].id]].in_flight =
              Cardinality(Conns(tasks, OfOrigin(OriginOf[tasks[t].id]) \ {t})) + tasks[t].grant
         /\ tasks[t].grant <= origins[OriginOf[tasks[t].id]].in_flight
<1> DEFINE o == OriginOf[tasks[t].id]
<1>1. /\ t \in Slots /\ tasks[t].grant \in 1 .. Connections /\ o \in Origins
      /\ tasks[t].id \in Jobs /\ Connections \in Nat
  BY LiveSessions, SchedulerAssumption
<1>2. active[tasks[t].id] = [task |-> t, grant |-> tasks[t].grant]
  BY DEF Matched
<1>3. IsActive(tasks[t].id) /\ active[tasks[t].id].grant = tasks[t].grant
  <2>1. t # 0
    BY <1>1, SchedulerAssumption DEF Slots
  <2> QED BY <1>2, <2>1 DEF IsActive, NoActive
<1>4. Live \subseteq Slots /\ OfOrigin(o) \subseteq Slots /\ t \in OfOrigin(o)
  BY DEF Live, OfOrigin
<1>5. tasks[t].grant \in 0 .. Connections
  BY <1>1
<1> HIDE DEF o
<1>6. /\ Cardinality(Conns(tasks, Live)) = Cardinality(Conns(tasks, Live \ {t})) + tasks[t].grant
      /\ Cardinality(Conns(tasks, OfOrigin(o))) =
           Cardinality(Conns(tasks, OfOrigin(o) \ {t})) + tasks[t].grant
  BY <1>4, <1>5, ConnsDrop
<1>7. /\ Cardinality(Conns(tasks, Live \ {t})) \in Nat
      /\ Cardinality(Conns(tasks, OfOrigin(o) \ {t})) \in Nat
  <2> DEFINE A == Live \ {t}
             B == OfOrigin(o) \ {t}
  <2>1. A \subseteq Slots /\ B \subseteq Slots
    BY <1>4
  <2> HIDE DEF A, B
  <2>2. Cardinality(Conns(tasks, A)) \in Nat /\ Cardinality(Conns(tasks, B)) \in Nat
    BY <2>1, ConnsFinite
  <2> QED BY <2>2 DEF A, B
<1>8. /\ GrantsOf(Live) = Cardinality(Conns(tasks, Live))
      /\ GrantsOf(OfOrigin(o)) = Cardinality(Conns(tasks, OfOrigin(o)))
  BY DEF GrantsOf, Conns
<1>9. used = GrantsOf(Live) /\ origins[o].in_flight = GrantsOf(OfOrigin(o))
  BY <1>1 DEF Counted, OfOrigin, o
<1>10. GrantsOf(Live) = Cardinality(Conns(tasks, Live \ {t})) + tasks[t].grant
  BY <1>6, <1>8
<1>11. tasks[t].grant <= used
  BY <1>5, <1>7, <1>9, <1>10
<1>12. /\ origins[o].in_flight = Cardinality(Conns(tasks, OfOrigin(o) \ {t})) + tasks[t].grant
       /\ tasks[t].grant <= origins[o].in_flight
  BY <1>5, <1>6, <1>7, <1>8, <1>9
<1> QED BY <1>3, <1>7, <1>10, <1>11, <1>12 DEF o

\* What the join of task t does.
Joined(t) ==
  /\ t \in Live
  /\ tasks' = [tasks EXCEPT ![t] = NoTask]
  /\ active' = [active EXCEPT ![tasks[t].id] = NoActive]
  /\ used' = used - tasks[t].grant /\ used' \in Nat
  /\ origins' \in [Origins -> Governed]
  /\ \A o \in Origins :
       /\ Kept(origins[o], origins'[o], clock)
       /\ origins'[o].in_flight =
            origins[o].in_flight - (IF o = OriginOf[tasks[t].id] THEN tasks[t].grant ELSE 0)
  /\ queue' = Take(queue, Entry(tasks[t].id, tasks[t].end.at))
  /\ Entry(tasks[t].id, tasks[t].end.at) \in Entries

\* finish: the grant of the session that ended is released, to the loop and to its origin.
LEMMA JoinEffect ==
  ASSUME TypeOK, Matched, Counted, Join
  PROVE  \E t \in Slots : Joined(t)
<1>1. PICK t \in Ended : /\ Finish(tasks[t].id, tasks[t].end.kind)
                         /\ tasks' = [tasks EXCEPT ![t] = NoTask]
                         /\ queue' = Take(queue, Entry(tasks[t].id, tasks[t].end.at))
  BY DEF Join
<1> DEFINE id == tasks[t].id
           g == tasks[t].grant
           p == OriginOf[tasks[t].id]
           kind == tasks[t].end.kind
<1>2. t \in Live
  BY <1>1 DEF Ended
<1>3. /\ t \in Slots /\ tasks[t] \in Sessions /\ id \in Jobs /\ g \in 1 .. Connections
      /\ p \in Origins
  BY <1>2, LiveSessions
<1>4. IsActive(id) /\ active[id].grant = g /\ g <= used /\ g <= origins[p].in_flight
  BY <1>2, EndedKnown
<1>5. /\ active' = [active EXCEPT ![id] = NoActive]
      /\ used' = used - g
      /\ origins' = [origins EXCEPT ![p] =
           IF kind = "published" THEN Succeeded(Released(@, g, clock), clock)
           ELSE Released(@, g, clock)]
  BY <1>1, <1>4 DEF Finish
<1>6. Entry(id, tasks[t].end.at) \in Entries
  <2>1. tasks[t].end.at \in Int
    BY <1>3 DEF Sessions
  <2> QED BY <1>3, <2>1 DEF Entries, Entry
<1>7. p = OriginOf[id] /\ id = tasks[t].id /\ g = tasks[t].grant
  OBVIOUS
<1> HIDE DEF id, g, p, kind
<1>8. g \in Nat /\ used \in Nat /\ used' \in Nat
  BY <1>3, <1>4, <1>5 DEF TypeOK
<1> DEFINE r == Released(origins[p], g, clock)
           n == IF kind = "published" THEN Succeeded(r, clock) ELSE r
<1>9. origins \in [Origins -> Governed] /\ origins[p] \in Governed /\ clock \in Nat
  BY <1>3 DEF TypeOK
<1>10. r \in Governed /\ r.in_flight = origins[p].in_flight - g /\ Kept(origins[p], r, clock)
  BY <1>4, <1>8, <1>9, ReleasedOK
<1>11. n \in Governed /\ n.in_flight = origins[p].in_flight - g /\ Kept(origins[p], n, clock)
  <2> HIDE DEF r
  <2>1. Succeeded(r, clock) \in Governed /\ Succeeded(r, clock).in_flight = r.in_flight
        /\ Kept(r, Succeeded(r, clock), clock)
    BY <1>9, <1>10, SucceededOK
  <2> QED BY <1>10, <2>1 DEF Kept
<1>12. origins' = [origins EXCEPT ![p] = n]
  BY <1>5
<1> HIDE DEF r, n
<1>13. origins' \in [Origins -> Governed]
  BY <1>9, <1>11, <1>12
<1>14. ASSUME NEW o \in Origins
       PROVE  /\ Kept(origins[o], origins'[o], clock)
              /\ origins'[o].in_flight = origins[o].in_flight - (IF o = p THEN g ELSE 0)
  <2>1. CASE o = p
    BY <1>9, <1>11, <1>12, <2>1
  <2>2. CASE o # p
    <3>1. origins'[o] = origins[o] /\ origins[o].in_flight \in Nat
      BY <1>9, <1>12, <2>2, Fields
    <3> QED BY <2>2, <3>1 DEF Kept
  <2> QED BY <2>1, <2>2
<1>15. Joined(t)
  BY <1>1, <1>2, <1>5, <1>6, <1>7, <1>8, <1>13, <1>14 DEF Joined
<1> QED BY <1>3, <1>15

\* The session is gone from the sessions and from the loop's map.
LEMMA JoinMatched ==
  ASSUME TypeOK, Matched, NEW t \in Slots, Joined(t)
  PROVE  /\ Matched' /\ Live' = Live \ {t} /\ \A u \in Live' : tasks'[u] = tasks[u]
         /\ \A id \in Jobs : SessionsOf(id)' = SessionsOf(id) \ {t}
         /\ SessionsOf(tasks[t].id) = {t}
<1>1. t \in Live /\ tasks[t].id \in Jobs
  BY LiveSessions DEF Joined
<1>2. Live' = Live \ {t} /\ \A u \in Live' : tasks'[u] = tasks[u]
  BY DEF Joined, Live, TypeOK
<1>3. \A id \in Jobs : SessionsOf(id)' = SessionsOf(id) \ {t}
  BY <1>2 DEF SessionsOf
<1>4. \A u \in Live : tasks[u].id = tasks[t].id => u = t
  <2> SUFFICES ASSUME NEW u \in Live, tasks[u].id = tasks[t].id PROVE u = t
    OBVIOUS
  <2>1. active[tasks[u].id] = [task |-> u, grant |-> tasks[u].grant]
    BY DEF Matched
  <2>2. active[tasks[t].id] = [task |-> t, grant |-> tasks[t].grant]
    BY <1>1 DEF Matched
  <2>3. active[tasks[u].id].task = u /\ active[tasks[t].id].task = t
    BY <2>1, <2>2
  <2> QED BY <2>3
<1>5. SessionsOf(tasks[t].id) = {t}
  BY <1>1, <1>4 DEF SessionsOf
<1>6. active' = [active EXCEPT ![tasks[t].id] = NoActive] /\ active \in [Jobs -> {NoActive} \cup Granting]
  BY DEF Joined, TypeOK
<1>7. \A u \in Live' : active'[tasks'[u].id] = [task |-> u, grant |-> tasks'[u].grant]
  <2> SUFFICES ASSUME NEW u \in Live'
               PROVE  active'[tasks'[u].id] = [task |-> u, grant |-> tasks'[u].grant]
    OBVIOUS
  <2>1. u \in Live /\ u # t /\ tasks'[u] = tasks[u] /\ tasks[u].id \in Jobs
    BY <1>2, LiveSessions
  <2>2. active'[tasks[u].id] = active[tasks[u].id]
    BY <1>4, <1>6, <2>1
  <2> QED BY <2>1, <2>2 DEF Matched
<1>8. \A id \in Jobs : IsActive(id)' => active'[id].task \in SessionsOf(id)'
  <2> SUFFICES ASSUME NEW id \in Jobs, active'[id] # NoActive
               PROVE  active'[id].task \in SessionsOf(id)'
    BY DEF IsActive
  <2>1. id # tasks[t].id /\ active'[id] = active[id]
    BY <1>6
  <2>2. active[id].task \in SessionsOf(id)
    BY <2>1 DEF Matched, IsActive
  <2>3. active[id].task # t
    BY <2>1, <2>2 DEF SessionsOf
  <2> QED BY <1>3, <2>1, <2>2, <2>3
<1> QED BY <1>2, <1>3, <1>5, <1>7, <1>8 DEF Matched

\* Both books count the sessions that are left.
LEMMA JoinCounted ==
  ASSUME TypeOK, Matched, Counted, NEW t \in Slots, Joined(t)
  PROVE  Counted'
<1> DEFINE g == tasks[t].grant
           p == OriginOf[tasks[t].id]
<1>1. Live' = Live \ {t} /\ \A u \in Live' : tasks'[u] = tasks[u]
  BY JoinMatched
<1>2. t \in Live /\ g \in 1 .. Connections /\ p \in Origins
  BY LiveSessions DEF Joined
<1>3. /\ GrantsOf(Live) = Cardinality(Conns(tasks, Live \ {t})) + g
      /\ Cardinality(Conns(tasks, Live \ {t})) \in Nat
      /\ origins[p].in_flight = Cardinality(Conns(tasks, OfOrigin(p) \ {t})) + g
  BY <1>2, EndedKnown
<1>4. GrantsOf(Live)' = Cardinality(Conns(tasks, Live \ {t}))
  <2>1. Conns(tasks', Live \ {t}) = Conns(tasks, Live \ {t})
    BY <1>1, ConnsSame
  <2> QED BY <1>1, <2>1 DEF GrantsOf, Conns
<1>5. used' = GrantsOf(Live)' /\ used' <= Connections
  <2>1. used = GrantsOf(Live) /\ used' = used - g /\ used <= Connections /\ used \in Nat
    BY DEF Counted, Joined, TypeOK
  <2>2. g \in Nat /\ Connections \in Nat
    BY <1>2, SchedulerAssumption
  <2> HIDE DEF g
  <2> QED BY <1>3, <1>4, <2>1, <2>2
<1>6. ASSUME NEW o \in Origins
      PROVE  /\ origins'[o].in_flight = GrantsOf(OfOrigin(o))'
             /\ origins'[o].in_flight <= OriginConnections
  <2>1. OfOrigin(o)' = OfOrigin(o) \ {t}
    BY <1>1 DEF OfOrigin
  <2>2. GrantsOf(OfOrigin(o))' = Cardinality(Conns(tasks, OfOrigin(o) \ {t}))
    <3>1. \A u \in OfOrigin(o) \ {t} : tasks'[u] = tasks[u]
      BY <1>1 DEF OfOrigin
    <3>2. Conns(tasks', OfOrigin(o) \ {t}) = Conns(tasks, OfOrigin(o) \ {t})
      BY <3>1, ConnsSame
    <3> QED BY <2>1, <3>2 DEF GrantsOf, Conns
  <2>3. /\ origins[o].in_flight = GrantsOf(OfOrigin(o))
        /\ origins[o].in_flight <= OriginConnections /\ origins[o].in_flight \in Nat
        /\ OriginConnections \in Nat /\ g \in Nat
    <3>1. origins[o] \in Governed
      BY DEF TypeOK
    <3>2. origins[o].in_flight \in Nat
      BY <3>1, Fields
    <3>3. OriginConnections \in Nat /\ g \in Nat
      BY <1>2, LimitsAssumption, SchedulerAssumption
    <3> QED BY <3>2, <3>3 DEF Counted, OfOrigin
  <2>4. origins'[o].in_flight = origins[o].in_flight - (IF o = p THEN g ELSE 0)
    BY DEF Joined
  <2>5. CASE o = p
    <3>1. Cardinality(Conns(tasks, OfOrigin(o) \ {t})) \in Nat
      <4> DEFINE A == OfOrigin(o) \ {t}
      <4>1. A \subseteq Slots
        BY DEF OfOrigin, Live
      <4> HIDE DEF A
      <4>2. Cardinality(Conns(tasks, A)) \in Nat
        BY <4>1, ConnsFinite
      <4> QED BY <4>2 DEF A
    <3> HIDE DEF g, p
    <3> QED BY <1>3, <2>2, <2>3, <2>4, <2>5, <3>1
  <2>6. CASE o # p
    <3>1. OfOrigin(o) \ {t} = OfOrigin(o)
      BY <2>6 DEF OfOrigin
    <3>2. GrantsOf(OfOrigin(o)) = Cardinality(Conns(tasks, OfOrigin(o)))
      BY DEF GrantsOf, Conns
    <3> HIDE DEF g, p
    <3>3. origins'[o].in_flight = origins[o].in_flight
      BY <2>3, <2>4, <2>6
    <3> QED BY <2>2, <2>3, <3>1, <3>2, <3>3
  <2> QED BY <2>5, <2>6
<1> QED BY <1>5, <1>6 DEF Counted, OfOrigin

\* A job that had no session has one: the new task.
LEMMA SpawnMatched ==
  ASSUME TypeOK, Matched, NEW e \in Entries, NEW t \in Slots \ Live,
         NEW grant \in 1 .. Connections, SessionsOf(e.id) = {}, Spawn(e, t, grant)
  PROVE  /\ Matched' /\ Live' = Live \cup {t} /\ t \notin Live
         /\ tasks'[t].id = e.id /\ tasks'[t].grant = grant
         /\ \A u \in Live : tasks'[u] = tasks[u]
         /\ SessionsOf(e.id)' = {t}
         /\ \A id \in Jobs : id # e.id => SessionsOf(id)' = SessionsOf(id)
<1> DEFINE n == [NoTask EXCEPT !.id = e.id, !.grant = grant]
<1>1. e.id \in Jobs /\ t \in Slots /\ t \notin Live
  BY DEF Entries
<1>2. tasks' = [tasks EXCEPT ![t] = n]
  BY DEF Spawn
<1>3. n.id = e.id /\ n.grant = grant /\ n # NoTask
  <2>1. n.id = e.id /\ n.grant = grant /\ NoTask.grant = 0
    BY DEF NoTask
  <2>2. grant # 0
    BY SchedulerAssumption
  <2> HIDE DEF n
  <2> QED BY <2>1, <2>2
<1> HIDE DEF n
<1>4. tasks \in [Slots -> {NoTask} \cup Sessions]
  BY DEF TypeOK
<1>5. tasks'[t] = n /\ \A u \in Slots : u # t => tasks'[u] = tasks[u]
  BY <1>1, <1>2, <1>4
<1>6. Live' = Live \cup {t} /\ \A u \in Live : u # t /\ tasks'[u] = tasks[u]
  BY <1>1, <1>3, <1>5 DEF Live
<1>7. \A u \in Live : tasks[u].id # e.id
  BY DEF SessionsOf
<1>8. SessionsOf(e.id)' = {t}
  BY <1>3, <1>5, <1>6, <1>7 DEF SessionsOf
<1>9. \A id \in Jobs : id # e.id => SessionsOf(id)' = SessionsOf(id)
  BY <1>3, <1>5, <1>6 DEF SessionsOf
<1>10. active' = [active EXCEPT ![e.id] = [task |-> t, grant |-> grant]]
       /\ active \in [Jobs -> {NoActive} \cup Granting]
  BY DEF Spawn, TypeOK
<1>11. ASSUME NEW u \in Live'
       PROVE  active'[tasks'[u].id] = [task |-> u, grant |-> tasks'[u].grant]
  <2>1. CASE u = t
    BY <1>1, <1>3, <1>5, <1>10, <2>1
  <2>2. CASE u # t
    <3>1. u \in Live /\ tasks'[u] = tasks[u] /\ tasks[u].id # e.id /\ tasks[u].id \in Jobs
      BY <1>6, <1>7, <2>2, LiveSessions
    <3>2. active'[tasks[u].id] = active[tasks[u].id]
      BY <1>10, <3>1
    <3> QED BY <3>1, <3>2 DEF Matched
  <2> QED BY <2>1, <2>2
<1>12. ASSUME NEW id \in Jobs, IsActive(id)' PROVE active'[id].task \in SessionsOf(id)'
  <2>1. CASE id = e.id
    <3>1. active'[id] = [task |-> t, grant |-> grant]
      BY <1>1, <1>10, <2>1
    <3>2. active'[id].task = t
      BY <3>1
    <3> QED BY <1>8, <2>1, <3>2
  <2>2. CASE id # e.id
    <3>1. active'[id] = active[id]
      BY <1>10, <2>2
    <3>2. IsActive(id)
      BY <1>12, <3>1 DEF IsActive
    <3> QED BY <1>9, <2>2, <3>1, <3>2 DEF Matched
  <2> QED BY <2>1, <2>2
<1> QED BY <1>1, <1>3, <1>5, <1>6, <1>8, <1>9, <1>11, <1>12 DEF Matched

\* Both books count the new session.
LEMMA SpawnCounted ==
  ASSUME TypeOK, Matched, Counted, NEW e \in Entries, NEW t \in Slots \ Live,
         NEW grant \in 1 .. Connections, SessionsOf(e.id) = {}, Spawn(e, t, grant),
         Affordable(e, t, grant)
  PROVE  Counted'
<1> DEFINE p == OriginOf[e.id]
<1>1. /\ Live' = Live \cup {t} /\ t \notin Live /\ t \in Slots /\ Live \subseteq Slots
      /\ tasks'[t].id = e.id /\ tasks'[t].grant = grant
      /\ \A u \in Live : tasks'[u] = tasks[u]
  BY SpawnMatched DEF Live
<1>2. grant \in 0 .. Connections /\ grant \in Nat /\ Connections \in Nat /\ used \in Nat
  BY SchedulerAssumption DEF TypeOK
<1>3. p \in Origins
  <2>1. e.id \in Jobs
    BY DEF Entries
  <2> QED BY <2>1, SchedulerAssumption
<1>4. ASSUME NEW S, S \subseteq Live
      PROVE  /\ Cardinality(Conns(tasks', S \cup {t})) = Cardinality(Conns(tasks, S)) + grant
             /\ Cardinality(Conns(tasks', S)) = Cardinality(Conns(tasks, S))
             /\ Cardinality(Conns(tasks, S)) \in Nat
  <2>1. Conns(tasks', S) = Conns(tasks, S)
    BY <1>1, <1>4, ConnsSame
  <2>2. S \subseteq Slots /\ t \in Slots \ S /\ tasks'[t].grant \in 0 .. Connections
    BY <1>1, <1>2, <1>4
  <2>3. Cardinality(Conns(tasks', S \cup {t})) = Cardinality(Conns(tasks', S)) + tasks'[t].grant
    BY <2>2, ConnsAdd
  <2>4. Cardinality(Conns(tasks, S)) \in Nat
    BY <2>2, ConnsFinite
  <2> QED BY <1>1, <2>1, <2>3, <2>4
<1>5. /\ GrantsOf(Live) = Cardinality(Conns(tasks, Live))
      /\ GrantsOf(Live)' = Cardinality(Conns(tasks', Live \cup {t}))
  BY <1>1 DEF GrantsOf, Conns
<1>6. used' = GrantsOf(Live)' /\ used' <= Connections
  <2>1. used = GrantsOf(Live) /\ used' = used + grant /\ used + grant <= Connections
    BY DEF Counted, Spawn, Affordable
  <2> QED BY <1>4, <1>5, <2>1
<1>7. ASSUME NEW o \in Origins
      PROVE  /\ origins'[o].in_flight = GrantsOf(OfOrigin(o))'
             /\ origins'[o].in_flight <= OriginConnections
  <2>1. OfOrigin(o) \subseteq Live /\ GrantsOf(OfOrigin(o)) = Cardinality(Conns(tasks, OfOrigin(o)))
    BY DEF OfOrigin, GrantsOf, Conns
  <2>2. /\ origins[o].in_flight = GrantsOf(OfOrigin(o))
        /\ origins[o].in_flight <= OriginConnections
    BY DEF Counted, OfOrigin
  <2>3. /\ origins' = [origins EXCEPT ![p] = Granted(origins[p], grant)]
        /\ origins \in [Origins -> Governed]
    BY DEF Spawn, TypeOK
  <2>4. CASE o = p
    <3>1. OfOrigin(o)' = OfOrigin(o) \cup {t}
      BY <1>1, <2>4 DEF OfOrigin
    <3>2. GrantsOf(OfOrigin(o))' = Cardinality(Conns(tasks', OfOrigin(o) \cup {t}))
      BY <3>1 DEF GrantsOf, Conns
    <3>3. origins'[o].in_flight = origins[o].in_flight + grant
      BY <1>2, <2>3, <2>4, GrantedOK
    <3>4. origins[o].in_flight + grant <= OriginConnections
      BY <2>4 DEF Affordable
    <3> QED BY <1>4, <2>1, <2>2, <3>2, <3>3, <3>4
  <2>5. CASE o # p
    <3>1. OfOrigin(o)' = OfOrigin(o)
      BY <1>1, <2>5 DEF OfOrigin
    <3>2. GrantsOf(OfOrigin(o))' = Cardinality(Conns(tasks', OfOrigin(o)))
      BY <3>1 DEF GrantsOf, Conns
    <3>3. origins'[o] = origins[o]
      BY <2>3, <2>5
    <3> QED BY <1>4, <2>1, <2>2, <3>2, <3>3
  <2> QED BY <2>4, <2>5
<1> QED BY <1>6, <1>7 DEF Counted, OfOrigin

-----------------------------------------------------------------------------
(***************************************************************************)
(* The types again: select, the sessions and the senders.                  *)
(***************************************************************************)

\* The job of a session that ended is taken back.
LEMMA JoinTypes ==
  ASSUME TypeOK, Join, NEW t \in Slots, Joined(t)
  PROVE  TypeOK' /\ Unmoved(turn, turn') /\ turn'.now = turn.now /\ turn'.pc = "deliver"
<1>1. turn \in Turns /\ deferred' = deferred /\ deferred \in Seq(Jobs) /\ Again
  BY DEF TypeOK, Join
<1>2. /\ turn' \in Turns /\ turn'.left <= Len(deferred') /\ Unmoved(turn, turn')
      /\ turn'.now = turn.now /\ turn'.pc = "deliver"
  BY <1>1, AgainTypes
<1>3. queue' \in Queues
  <2>1. tasks[t].id \in Jobs /\ queue \in Queues
    BY LiveSessions DEF Joined, TypeOK
  <2> QED BY <2>1, TakeCount DEF Joined
<1>4. active' \in [Jobs -> {NoActive} \cup Granting] /\ tasks' \in [Slots -> {NoTask} \cup Sessions]
  BY DEF Joined, TypeOK
<1> QED BY <1>2, <1>3, <1>4 DEF TypeOK, Joined, Join, ghosts

\* Each session that takes the pause has it; the others are in line.
LEMMA ShutdownTypes ==
  ASSUME TypeOK, Matched, Shutdown
  PROVE  tasks' \in [Slots -> {NoTask} \cup Sessions] /\ Steady /\ deferred' \in Seq(Jobs)
<1> DEFINE told == {id \in Jobs : IsActive(id) /\ Accepts(active[id].task)}
           owned == {active[id].task : id \in told}
           rest == {id \in Jobs : IsActive(id)} \ told
<1>1. /\ tasks' = [t \in Slots |-> IF t \in owned THEN [tasks[t] EXCEPT !.inbox = @ + 1]
                                   ELSE tasks[t]]
      /\ \E refused \in SetToSeqs(rest) : deferred' = deferred \o refused
  BY DEF Shutdown
<1>2. \A t \in owned : t \in Live /\ tasks[t] \in Sessions
  BY ActiveTask
<1>3. IsFiniteSet(rest) /\ rest \subseteq Jobs
  <2>1. rest \subseteq Jobs
    OBVIOUS
  <2> HIDE DEF rest
  <2> QED BY <2>1, SchedulerAssumption, FS_Subset
<1> HIDE DEF told, owned, rest
<1>4. \A t \in Slots : Adjusted(t)
  <2> SUFFICES ASSUME NEW t \in Slots PROVE Adjusted(t)
    OBVIOUS
  <2>1. CASE t \in owned
    <3> DEFINE r == [tasks[t] EXCEPT !.inbox = @ + 1]
    <3>1. r \in Sessions /\ r.id = tasks[t].id /\ r.grant = tasks[t].grant
      BY <1>2, <2>1 DEF Sessions
    <3>2. tasks'[t] = r
      BY <1>1, <2>1
    <3> HIDE DEF r
    <3> QED BY <1>2, <2>1, <3>1, <3>2 DEF Adjusted
  <2>2. CASE t \notin owned
    BY <1>1, <2>2 DEF Adjusted
  <2> QED BY <2>1, <2>2
<1>5. tasks' = [t \in Slots |-> tasks'[t]]
  BY <1>1
<1>6. deferred' \in Seq(Jobs)
  <2>1. PICK refused \in SetToSeqs(rest) : deferred' = deferred \o refused
    BY <1>1
  <2>2. Cardinality(rest) \in Nat
    BY <1>3, FS_CardinalityType
  <2>3. refused \in [1 .. Cardinality(rest) -> rest]
    BY DEF SetToSeqs
  <2>4. refused \in Seq(Jobs)
    BY <1>3, <2>2, <2>3
  <2> QED BY <2>1, <2>4 DEF TypeOK
<1> QED BY <1>4, <1>5, <1>6, AdjustedSteady

\* What a command does to the jobs on the queues, and to the channel it came from.
Heeded ==
  \/ queue' = queue /\ channel' = channel
  \/ /\ channel.sent # <<>> /\ Head(channel.sent) \in Commands
     /\ channel'.sent = Tail(channel.sent)
     /\ LET c == Head(channel.sent) IN
        \/ /\ c.kind = "Admit" /\ Entry(c.id, c.at) \in Entries
           /\ queue' = Take(queue, Entry(c.id, c.at))
        \/ c.kind # "Admit" /\ queue' = queue
        \/ /\ c.kind # "Admit" /\ c.id \in Jobs /\ Holds(queue.ready \o queue.waiting, c.id)
           /\ queue' = Outcome(Without(queue, c.id), c.id)

\* A command is a command: a job for the queue, a control for a session or a job, or the end.
LEMMA OnCommandTypes ==
  ASSUME TypeOK, Matched, OnCommand
  PROVE  /\ TypeOK' /\ Steady /\ Heeded
         /\ Unmoved(turn, turn') /\ turn'.now = turn.now /\ turn'.pc = "deliver"
<1>1. turn \in Turns /\ Again /\ queue \in Queues /\ deferred \in Seq(Jobs)
      /\ channel \in [sent : Seq(Commands), held : BOOLEAN] /\ channel.sent \in Seq(Commands)
  BY DEF TypeOK, OnCommand
<1>2. UNCHANGED <<clock, active, used, origins, given, asked>>
  BY DEF OnCommand, ghosts
<1>3. SUFFICES /\ Steady /\ Heeded /\ queue' \in Queues
               /\ tasks' \in [Slots -> {NoTask} \cup Sessions] /\ deferred' \in Seq(Jobs)
               /\ channel' \in [sent : Seq(Commands), held : BOOLEAN]
  <2>1. /\ turn' \in Turns /\ turn'.left <= Len(deferred') /\ Unmoved(turn, turn')
        /\ turn'.now = turn.now /\ turn'.pc = "deliver"
    BY <1>1, <1>3, AgainTypes
  <2> QED BY <1>2, <1>3, <2>1 DEF TypeOK
<1>4. CASE UNCHANGED <<channel, queue, tasks, deferred>>
  BY <1>1, <1>4, NoneAdjusted DEF TypeOK, Heeded
<1>5. CASE /\ channel.sent # <<>> /\ channel' = [channel EXCEPT !.sent = Tail(@)]
           /\ LET c == Head(channel.sent) IN
              \/ /\ c.kind = "Admit" /\ queue' = Take(queue, Entry(c.id, c.at))
                 /\ UNCHANGED <<tasks, deferred>>
              \/ c.kind = "Stop" /\ Order(c)
              \/ c.kind = "Shutdown" /\ Shutdown /\ UNCHANGED queue
  <2> DEFINE c == Head(channel.sent)
             s == Tail(channel.sent)
  <2>1. c \in Commands /\ s \in Seq(Commands)
    BY <1>1, <1>5, HeadTailProperties
  <2>2. channel' = [channel EXCEPT !.sent = s]
    BY <1>5
  <2>3. \/ /\ c.kind = "Admit" /\ queue' = Take(queue, Entry(c.id, c.at))
           /\ UNCHANGED <<tasks, deferred>>
        \/ c.kind = "Stop" /\ Order(c)
        \/ c.kind = "Shutdown" /\ Shutdown /\ UNCHANGED queue
    BY <1>5
  <2>4. c = Head(channel.sent) /\ s = Tail(channel.sent)
    OBVIOUS
  <2> HIDE DEF c, s
  <2>5. channel' \in [sent : Seq(Commands), held : BOOLEAN] /\ channel'.sent = s
    BY <1>1, <2>1, <2>2
  <2>6. c.kind # "Shutdown" => c.id \in Jobs /\ Entry(c.id, c.at) \in Entries
    BY <2>1 DEF Commands, Entry, Entries
  <2>7. CASE /\ c.kind = "Admit" /\ queue' = Take(queue, Entry(c.id, c.at))
             /\ UNCHANGED <<tasks, deferred>>
    <3>1. Entry(c.id, c.at) \in Entries /\ c.id \in Jobs
      BY <2>6, <2>7
    <3>2. queue' \in Queues
      BY <1>1, <2>7, <3>1, TakeCount
    <3>3. Heeded
      BY <1>5, <2>1, <2>4, <2>5, <2>7, <3>1 DEF Heeded
    <3> QED BY <1>1, <2>5, <2>7, <3>2, <3>3, NoneAdjusted DEF TypeOK
  <2>8. CASE c.kind = "Stop" /\ Order(c)
    <3>1. c.id \in Jobs
      BY <2>6, <2>8
    <3>2. CASE IsActive(c.id)
      <4>1. Post(c.id, deferred) /\ queue' = queue
        BY <2>8, <3>2 DEF Order
      <4>2. tasks' \in [Slots -> {NoTask} \cup Sessions] /\ Steady /\ deferred' \in Seq(Jobs)
        BY <1>1, <3>1, <3>2, <4>1, PostTypes
      <4>3. Heeded
        BY <1>5, <2>1, <2>4, <2>5, <2>8, <4>1 DEF Heeded
      <4> QED BY <1>1, <2>5, <4>1, <4>2, <4>3
    <3>3. CASE ~IsActive(c.id)
      <4>1. /\ UNCHANGED <<tasks, deferred>>
            /\ queue' = IF Holds(queue.ready \o queue.waiting, c.id)
                          THEN Outcome(Without(queue, c.id), c.id) ELSE queue
        BY <2>8, <3>3 DEF Order
      <4>2. queue' \in Queues
        <5>1. CASE Holds(queue.ready \o queue.waiting, c.id)
          <6>1. Without(queue, c.id) \in Queues
            BY <1>1, <3>1, <5>1, WithoutCount
          <6> QED BY <3>1, <4>1, <5>1, <6>1, OutcomeCount
        <5>2. CASE ~Holds(queue.ready \o queue.waiting, c.id)
          BY <1>1, <4>1, <5>2
        <5> QED BY <5>1, <5>2
      <4>3. Heeded
        BY <1>5, <2>1, <2>4, <2>5, <2>8, <3>1, <4>1 DEF Heeded
      <4> QED BY <1>1, <2>5, <4>1, <4>2, <4>3, NoneAdjusted DEF TypeOK
    <3> QED BY <3>2, <3>3
  <2>9. CASE c.kind = "Shutdown" /\ Shutdown /\ UNCHANGED queue
    <3>1. tasks' \in [Slots -> {NoTask} \cup Sessions] /\ Steady /\ deferred' \in Seq(Jobs)
      BY <2>9, ShutdownTypes
    <3>2. Heeded
      BY <1>5, <2>1, <2>4, <2>5, <2>9 DEF Heeded
    <3> QED BY <1>1, <2>5, <2>9, <3>1, <3>2
  <2> QED BY <2>3, <2>7, <2>8, <2>9
<1> QED BY <1>4, <1>5 DEF OnCommand

\* A deadline that passed starts the loop over.
LEMMA SleepTypes ==
  ASSUME TypeOK, Sleep
  PROVE  /\ TypeOK' /\ Steady
         /\ Unmoved(turn, turn') /\ turn'.now = turn.now /\ turn'.pc = "deliver"
<1>1. turn \in Turns /\ deferred' = deferred /\ deferred \in Seq(Jobs) /\ Again
  BY DEF TypeOK, Sleep
<1>2. /\ turn' \in Turns /\ turn'.left <= Len(deferred') /\ Unmoved(turn, turn')
      /\ turn'.now = turn.now /\ turn'.pc = "deliver"
  BY <1>1, AgainTypes
<1> QED BY <1>2, NoneAdjusted DEF TypeOK, Sleep, ghosts

\* What a session reports changes no grant, and keeps the delay that its server asked for.
LEMMA ReportTypes ==
  ASSUME TypeOK, Floored, NEW t \in Slots, Report(t)
  PROVE  /\ TypeOK' /\ Floored' /\ Steady
         /\ \A o \in Origins : origins'[o].in_flight = origins[o].in_flight
<1> DEFINE p == OriginOf[tasks[t].id]
<1>1. /\ p \in Origins /\ origins[p] \in Governed /\ clock \in Nat
      /\ origins \in [Origins -> Governed] /\ asked \in [Origins -> Int]
  BY LiveSessions DEF Report, TypeOK
<1>2. UNCHANGED <<clock, tasks, channel, given, turn, queue, active, deferred, used, flags>>
  BY DEF Report, loop
<1>3. \/ origins' = [origins EXCEPT ![p] = Succeeded(@, clock)] /\ asked' = asked
      \/ origins' = [origins EXCEPT ![p] = Failed(@, clock)] /\ asked' = asked
      \/ \E retry_after \in RetryAfter :
           /\ origins' = [origins EXCEPT ![p] = Throttled(@, retry_after, clock)]
           /\ asked' = [asked EXCEPT ![p] = IF retry_after = 0 THEN @
                                            ELSE Greatest(@, clock + Asked(retry_after))]
  BY DEF Report
<1> HIDE DEF p
<1> DEFINE was == asked[p]
           now == asked'[p]
           fl == origins[p].floor_until
           fn == origins'[p].floor_until
<1>4. was \in Int /\ fl \in Int /\ (was <= fl \/ was <= clock) /\ turn.now <= clock
  BY <1>1, Fields DEF Floored
<1>5. SUFFICES /\ \E n \in Governed : /\ origins' = [origins EXCEPT ![p] = n]
                                      /\ n.in_flight = origins[p].in_flight
               /\ \E k \in Int : asked' = [asked EXCEPT ![p] = k]
               /\ now <= fn \/ now <= clock
  <2>1. PICK n \in Governed : /\ origins' = [origins EXCEPT ![p] = n]
                              /\ n.in_flight = origins[p].in_flight
    BY <1>5
  <2>2. PICK k \in Int : asked' = [asked EXCEPT ![p] = k]
    BY <1>5
  <2>3. origins' \in [Origins -> Governed] /\ asked' \in [Origins -> Int]
    BY <1>1, <2>1, <2>2
  <2>4. \A o \in Origins : o # p => origins'[o] = origins[o] /\ asked'[o] = asked[o]
    BY <1>1, <2>1, <2>2
  <2>5. \A o \in Origins : origins'[o].in_flight = origins[o].in_flight
    BY <1>1, <2>1, <2>4
  <2>6. \A o \in Origins : asked'[o] <= origins'[o].floor_until \/ asked'[o] <= clock
    BY <1>5, <2>4 DEF Floored
  <2>7. Floored'
    BY <1>2, <1>4, <2>6 DEF Floored
  <2>8. TypeOK'
    BY <1>2, <2>3 DEF TypeOK
  <2> QED BY <1>2, <2>5, <2>7, <2>8, NoneAdjusted
<1>6. CASE origins' = [origins EXCEPT ![p] = Succeeded(@, clock)] /\ asked' = asked
  <2> DEFINE n == Succeeded(origins[p], clock)
  <2>1. n \in Governed /\ n.in_flight = origins[p].in_flight /\ Kept(origins[p], n, clock)
    BY <1>1, SucceededOK
  <2>2. origins' = [origins EXCEPT ![p] = n] /\ origins'[p] = n
    BY <1>1, <1>6
  <2>3. asked' = [asked EXCEPT ![p] = was] /\ now = was
    BY <1>1, <1>6
  <2> HIDE DEF n
  <2>4. now <= fn \/ now <= clock
    BY <1>1, <1>4, <2>1, <2>2, <2>3 DEF Kept
  <2> HIDE DEF was, now, fl, fn
  <2> QED BY <1>4, <2>1, <2>2, <2>3, <2>4
<1>7. CASE origins' = [origins EXCEPT ![p] = Failed(@, clock)] /\ asked' = asked
  <2> DEFINE n == Failed(origins[p], clock)
  <2>1. /\ n \in Governed /\ n.in_flight = origins[p].in_flight
        /\ n.floor_until = origins[p].floor_until
    BY <1>1, FailedOK
  <2>2. origins' = [origins EXCEPT ![p] = n] /\ origins'[p] = n
    BY <1>1, <1>7
  <2>3. asked' = [asked EXCEPT ![p] = was] /\ now = was
    BY <1>1, <1>7
  <2> HIDE DEF n
  <2>4. now <= fn \/ now <= clock
    BY <1>1, <1>4, <2>1, <2>2, <2>3
  <2> HIDE DEF was, now, fl, fn
  <2> QED BY <1>4, <2>1, <2>2, <2>3, <2>4
<1>8. CASE \E retry_after \in RetryAfter :
             /\ origins' = [origins EXCEPT ![p] = Throttled(@, retry_after, clock)]
             /\ asked' = [asked EXCEPT ![p] = IF retry_after = 0 THEN @
                                              ELSE Greatest(@, clock + Asked(retry_after))]
  <2>1. PICK w \in RetryAfter :
             /\ origins' = [origins EXCEPT ![p] = Throttled(@, w, clock)]
             /\ asked' = [asked EXCEPT ![p] = IF w = 0 THEN @ ELSE Greatest(@, clock + Asked(w))]
    BY <1>8
  <2> DEFINE n == Throttled(origins[p], w, clock)
             k == IF w = 0 THEN was ELSE Greatest(was, clock + Asked(w))
  <2>2. w \in Nat /\ MaximumPauseMs \in Int
    BY SchedulerAssumption, LimitsAssumption
  <2>3. /\ n \in Governed /\ n.in_flight = origins[p].in_flight
        /\ n.floor_until = IF w = 0 THEN fl ELSE Greatest(fl, clock + Asked(w))
    BY <1>1, <2>2, ThrottledOK
  <2>4. origins' = [origins EXCEPT ![p] = n] /\ origins'[p] = n
    BY <1>1, <2>1
  <2>5. asked' = [asked EXCEPT ![p] = k] /\ now = k
    BY <1>1, <2>1
  <2>6. Asked(w) \in Int
    BY <2>2 DEF Asked, Least
  <2>7. k \in Int
    BY <1>1, <1>4, <2>6 DEF Greatest
  <2>8. k <= n.floor_until \/ k <= clock
    <3> HIDE DEF n, was, fl
    <3> QED BY <1>1, <1>4, <2>3, <2>6 DEF Greatest
  <2>9. now <= fn \/ now <= clock
    BY <2>4, <2>5, <2>8
  <2> HIDE DEF was, now, fl, fn, n, k
  <2> QED BY <2>3, <2>4, <2>5, <2>7, <2>9
<1> QED BY <1>3, <1>6, <1>7, <1>8

\* The session reads its channel, or ends.
LEMMA SessionTypes ==
  ASSUME TypeOK, NEW t \in Slots, Obey(t) \/ EndSession(t) \/ Return(t)
  PROVE  /\ TypeOK' /\ Steady
         /\ UNCHANGED <<clock, origins, channel, given, asked, turn, queue, active, deferred,
                        used, flags>>
<1>1. UNCHANGED <<clock, origins, channel, given, asked, turn, queue, active, deferred, used, flags>>
  BY DEF Obey, EndSession, Return, ghosts, loop
<1>2. t \in Live /\ tasks[t] \in Sessions
  BY LiveSessions DEF Obey, EndSession, Return
<1>3. SUFFICES tasks' \in [Slots -> {NoTask} \cup Sessions] /\ Steady
  BY <1>1, <1>3 DEF TypeOK
<1>4. \E r \in Sessions : /\ r.id = tasks[t].id /\ r.grant = tasks[t].grant
                          /\ tasks' = [tasks EXCEPT ![t] = r]
  <2>1. CASE Obey(t)
    <3> DEFINE f == TRUE
               r == [tasks[t] EXCEPT !.inbox = @ - 1, !.told = f]
    <3>1. tasks' = [tasks EXCEPT ![t] = r]
      <4>1. tasks' = [tasks EXCEPT ![t].inbox = @ - 1, ![t].told = TRUE]
        BY <2>1 DEF Obey
      <4> QED BY <1>2, <4>1 DEF TypeOK
    <3>2. f \in BOOLEAN
      OBVIOUS
    <3> HIDE DEF f
    <3>3. r \in Sessions /\ r.id = tasks[t].id /\ r.grant = tasks[t].grant
      <4>1. r \in [id : {tasks[t].id}, grant : {tasks[t].grant}, inbox : {tasks[t].inbox - 1},
                   told : {f}, end : {tasks[t].end}]
        BY <1>2 DEF Sessions
      <4>2. /\ tasks[t].id \in Jobs /\ tasks[t].grant \in 1 .. Connections
            /\ tasks[t].inbox - 1 \in Int
            /\ tasks[t].end \in [kind : {"running", "published", "settled", "failed"}, at : Int]
        BY <1>2 DEF Sessions
      <4> HIDE DEF r
      <4> QED BY <3>2, <4>1, <4>2 DEF Sessions
    <3> QED BY <3>1, <3>3
  <2>2. CASE EndSession(t) \/ Return(t)
    <3>1. PICK kind \in {"published", "settled", "failed"}, at \in Int :
            tasks' = [tasks EXCEPT ![t].end = [kind |-> kind, at |-> at]]
      <4>1. Rest \in Int /\ Ready \in Int /\ clock + 1 \in Int
        BY DEF Rest, Ready, TypeOK
      <4> QED BY <2>2, <4>1 DEF EndSession, Return, EndsWith
    <3> DEFINE e == [kind |-> kind, at |-> at]
               r == [tasks[t] EXCEPT !.end = e]
    <3>2. e \in [kind : {"running", "published", "settled", "failed"}, at : Int]
      OBVIOUS
    <3>3. tasks' = [tasks EXCEPT ![t] = r]
      BY <1>2, <3>1 DEF TypeOK
    <3> HIDE DEF e
    <3>4. r \in Sessions /\ r.id = tasks[t].id /\ r.grant = tasks[t].grant
      BY <1>2, <3>2 DEF Sessions
    <3> QED BY <3>3, <3>4
  <2> QED BY <2>1, <2>2
<1> QED BY <1>2, <1>4, OneAdjusted

\* A command that is sent: nothing but the channel, and what a job's first handing counts.
Posted ==
  \/ \E id \in Jobs, c \in Commands :
       /\ given[id] = 0 /\ c \in Handing(id) /\ channel'.sent = Append(channel.sent, c)
       /\ given' = [given EXCEPT ![id] = 1]
  \/ \E c \in Commands :
       /\ c.kind # "Admit" /\ channel'.sent = Append(channel.sent, c) /\ given' = given
  \/ channel'.sent = channel.sent /\ given' = given

\* The senders and the clock leave the loop alone.
LEMMA SenderTypes ==
  ASSUME TypeOK, Send \/ Hangup \/ Tick
  PROVE  /\ TypeOK' /\ Steady /\ Posted
         /\ UNCHANGED <<origins, asked, turn, queue, active, deferred, used, flags>>
         /\ clock' \in Nat /\ clock' >= clock
<1>1. UNCHANGED <<origins, asked, turn, queue, active, deferred, used, flags, tasks>>
  BY DEF Send, Hangup, Tick, ghosts, loop
<1>2. clock' \in Nat /\ clock' >= clock
  BY DEF Send, Hangup, Tick, TypeOK
<1>3. channel \in [sent : Seq(Commands), held : BOOLEAN] /\ channel.sent \in Seq(Commands)
      /\ given \in [Jobs -> Nat]
  BY DEF TypeOK
<1>4. SUFFICES /\ channel' \in [sent : Seq(Commands), held : BOOLEAN]
               /\ given' \in [Jobs -> Nat] /\ Posted
  BY <1>1, <1>2, <1>4, NoneAdjusted DEF TypeOK
<1>5. ASSUME NEW c \in Commands, channel' = [channel EXCEPT !.sent = Append(@, c)]
      PROVE  /\ channel' \in [sent : Seq(Commands), held : BOOLEAN]
             /\ channel'.sent = Append(channel.sent, c)
  <2>1. Append(channel.sent, c) \in Seq(Commands)
    BY <1>3
  <2> QED BY <1>3, <1>5, <2>1
<1>6. CASE \E id \in Jobs : /\ given[id] = 0 /\ Sent("Admit", id, Ready)
                            /\ given' = [given EXCEPT ![id] = 1]
  <2>1. PICK id \in Jobs : /\ given[id] = 0 /\ Sent("Admit", id, Ready)
                           /\ given' = [given EXCEPT ![id] = 1]
    BY <1>6
  <2> DEFINE c == [kind |-> "Admit", id |-> id, at |-> Ready]
  <2>2. c \in Commands /\ c \in Handing(id)
    BY DEF Commands, Handing, Ready
  <2>3. channel' = [channel EXCEPT !.sent = Append(@, c)]
    BY <2>1 DEF Sent
  <2> HIDE DEF c
  <2>4. given' \in [Jobs -> Nat]
    BY <1>3, <2>1
  <2> QED BY <1>5, <2>1, <2>2, <2>3, <2>4 DEF Posted
<1>7. CASE (\E id \in Jobs : Sent("Stop", id, Rest)) /\ given' = given
  <2>1. PICK id \in Jobs : Sent("Stop", id, Rest)
    BY <1>7
  <2> DEFINE c == [kind |-> "Stop", id |-> id, at |-> Rest]
  <2>2. c \in Commands /\ c.kind # "Admit"
    BY DEF Commands, Rest
  <2>3. channel' = [channel EXCEPT !.sent = Append(@, c)]
    BY <2>1 DEF Sent
  <2> HIDE DEF c
  <2> QED BY <1>3, <1>5, <1>7, <2>2, <2>3 DEF Posted
<1>8. CASE Sent("Shutdown", 0, Rest) /\ given' = given
  <2> DEFINE c == [kind |-> "Shutdown", id |-> 0, at |-> Rest]
  <2>2. c \in Commands /\ c.kind # "Admit"
    BY DEF Commands, Rest
  <2>3. channel' = [channel EXCEPT !.sent = Append(@, c)]
    BY <1>8 DEF Sent
  <2> HIDE DEF c
  <2> QED BY <1>3, <1>5, <1>8, <2>2, <2>3 DEF Posted
<1>9. CASE Hangup
  <2> DEFINE f == FALSE
  <2>1. f \in BOOLEAN /\ channel' = [channel EXCEPT !.held = f] /\ given' = given
    BY <1>9 DEF Hangup, ghosts
  <2> HIDE DEF f
  <2> QED BY <1>3, <2>1 DEF Posted
<1>10. CASE Tick
  BY <1>3, <1>10 DEF Tick, ghosts, Posted
<1> QED BY <1>6, <1>7, <1>8, <1>9, <1>10 DEF Send

-----------------------------------------------------------------------------
(***************************************************************************)
(* Where the jobs are.                                                     *)
(***************************************************************************)

\* Everything that is counted is a number.
LEMMA Numbers ==
  ASSUME TypeOK, NEW id \in Jobs
  PROVE  /\ Queued(queue, id) \in Nat /\ Count(turn.moving, Of(id)) \in Nat
         /\ Count(turn.skipped, Of(id)) \in Nat /\ Count(turn.batch, Of(id)) \in Nat
         /\ Cardinality(SessionsOf(id)) \in Nat /\ Count(channel.sent, Handing(id)) \in Nat
         /\ queue.done[id] \in Nat /\ given[id] \in Nat
         /\ Places(id) = Queued(queue, id) + Count(turn.moving, Of(id))
                         + Count(turn.skipped, Of(id)) + Cardinality(SessionsOf(id))
                         + Count(channel.sent, Handing(id))
<1>1. /\ turn.moving \in Seq(Entries) /\ turn.skipped \in Seq(Entries)
      /\ turn.batch \in Seq(Entries) /\ channel.sent \in Seq(Commands)
      /\ queue \in Queues /\ given[id] \in Nat
  BY TurnFields DEF TypeOK
<1>2. /\ Count(turn.moving, Of(id)) \in Nat /\ Count(turn.skipped, Of(id)) \in Nat
      /\ Count(turn.batch, Of(id)) \in Nat /\ Count(channel.sent, Handing(id)) \in Nat
  BY <1>1, CountNat
<1>3. Queued(queue, id) \in Nat /\ queue.done[id] \in Nat
  BY <1>1, QueuedNat DEF Queues
<1>4. Cardinality(SessionsOf(id)) \in Nat
  <2>1. SessionsOf(id) \subseteq Slots /\ MaxActive \in Nat
    BY SchedulerAssumption DEF SessionsOf, Live
  <2>2. IsFiniteSet(SessionsOf(id))
    BY <2>1, UpTo, FS_Subset DEF Slots
  <2> QED BY <2>2, FS_CardinalityType
<1> QED BY <1>1, <1>2, <1>3, <1>4 DEF Places, Queued

\* The same after a step.
LEMMA NumbersNext ==
  ASSUME TypeOK', NEW id \in Jobs
  PROVE  /\ Queued(queue', id) \in Nat /\ Count(turn'.moving, Of(id)) \in Nat
         /\ Count(turn'.skipped, Of(id)) \in Nat /\ Count(turn'.batch, Of(id)) \in Nat
         /\ Cardinality(SessionsOf(id)') \in Nat /\ Count(channel'.sent, Handing(id)) \in Nat
         /\ queue'.done[id] \in Nat /\ given'[id] \in Nat
         /\ Places(id)' = Queued(queue', id) + Count(turn'.moving, Of(id))
                          + Count(turn'.skipped, Of(id)) + Cardinality(SessionsOf(id)')
                          + Count(channel'.sent, Handing(id))
<1>0. turn' \in Turns
  BY DEF TypeOK
<1>1. /\ turn'.moving \in Seq(Entries) /\ turn'.skipped \in Seq(Entries)
      /\ turn'.batch \in Seq(Entries) /\ channel'.sent \in Seq(Commands)
      /\ queue' \in Queues /\ given'[id] \in Nat
  BY <1>0, TurnFields DEF TypeOK
<1>2. /\ Count(turn'.moving, Of(id)) \in Nat /\ Count(turn'.skipped, Of(id)) \in Nat
      /\ Count(turn'.batch, Of(id)) \in Nat /\ Count(channel'.sent, Handing(id)) \in Nat
  BY <1>1, CountNat
<1>3. Queued(queue', id) \in Nat /\ queue'.done[id] \in Nat
  BY <1>1, QueuedNat DEF Queues
<1>4. Cardinality(SessionsOf(id)') \in Nat
  <2>1. SessionsOf(id)' \subseteq Slots /\ MaxActive \in Nat
    BY SchedulerAssumption DEF SessionsOf, Live
  <2>2. IsFiniteSet(SessionsOf(id)')
    BY <2>1, UpTo, FS_Subset DEF Slots
  <2> QED BY <2>2, FS_CardinalityType
<1> QED BY <1>1, <1>2, <1>3, <1>4 DEF Places, Queued

\* Every job is accounted for.
Accounts == Balanced /\ Single /\ Fresh

\* A step that only moves a job, from place to place or to its outcome.
LEMMA Moves ==
  ASSUME TypeOK, TypeOK', Accounts, given' = given,
         turn'.batch = turn.batch, turn'.seen = turn.seen,
         \A id \in Jobs : /\ queue'.done[id] + Places(id)' = queue.done[id] + Places(id)
                          /\ Places(id)' <= Places(id)
  PROVE  Accounts'
<1> SUFFICES ASSUME NEW id \in Jobs
             PROVE  /\ given'[id] = queue'.done[id] + Places(id)' + Count(turn'.batch, Of(id))
                    /\ Places(id)' <= 1
                    /\ id \notin turn'.seen /\ Count(turn'.batch, Of(id)) > 0 => Places(id)' = 0
  BY DEF Accounts, Balanced, Single, Fresh
<1>1. Places(id) \in Nat /\ Places(id)' \in Nat
  BY Numbers, NumbersNext
<1>2. /\ given[id] = queue.done[id] + Places(id) + Count(turn.batch, Of(id))
      /\ Places(id) <= 1
      /\ id \notin turn.seen /\ Count(turn.batch, Of(id)) > 0 => Places(id) = 0
  BY DEF Accounts, Balanced, Single, Fresh
<1>3. /\ queue.done[id] \in Nat /\ queue'.done[id] \in Nat /\ Count(turn.batch, Of(id)) \in Nat
  BY Numbers, NumbersNext
<1> QED BY <1>1, <1>2, <1>3

\* A step that moves no job.
LEMMA MovesNone ==
  ASSUME TypeOK, TypeOK', Matched, Accounts, Steady, active' = active, given' = given,
         Unmoved(turn, turn'), queue' = queue, channel'.sent = channel.sent
  PROVE  Accounts'
<1>1. \A id : SessionsOf(id)' = SessionsOf(id)
  BY SteadyMatched
<1>2. \A id \in Jobs : Places(id)' = Places(id)
  BY <1>1, Numbers, NumbersNext DEF Unmoved
<1>3. \A id \in Jobs : Places(id) \in Nat
  BY Numbers
<1>4. turn'.batch = turn.batch /\ turn'.seen = turn.seen
  BY DEF Unmoved
<1> QED BY <1>2, <1>3, <1>4, Moves

\* The first in a sequence of jobs, and the rest of it.
LEMMA HeadCount ==
  ASSUME NEW s \in Seq(Entries), s # <<>>, NEW id
  PROVE  /\ Count(s, Of(id)) = Same(Head(s).id, id) + Count(Tail(s), Of(id))
         /\ Count(Tail(s), Of(id)) \in Nat /\ Same(Head(s).id, id) \in Nat
<1>1. Head(s) \in Entries /\ Tail(s) \in Seq(Entries)
  BY HeadTailProperties
<1>2. Count(s, Of(id)) = One(Head(s), Of(id)) + Count(Tail(s), Of(id))
  BY CountTail
<1>3. One(Head(s), Of(id)) = Same(Head(s).id, id)
  <2> DEFINE e == Head(s)
  <2>1. e \in Entries
    BY <1>1
  <2> HIDE DEF e
  <2>2. One(e, Of(id)) = Same(e.id, id)
    BY <2>1, OneEntry
  <2> QED BY <2>2 DEF e
<1>4. Count(Tail(s), Of(id)) \in Nat
  <2> DEFINE r == Tail(s)
  <2>1. r \in Seq(Entries)
    BY <1>1
  <2> HIDE DEF r
  <2>2. Count(r, Of(id)) \in Nat
    BY <2>1, CountNat
  <2> QED BY <2>2 DEF r
<1> QED BY <1>2, <1>3, <1>4 DEF Same

\* promote_due: the jobs that wait are the jobs that move.
LEMMA PromoteAccounts ==
  ASSUME TypeOK, Matched, Accounts, Emptied, Promote
  PROVE  Accounts'
<1>1. TypeOK'
  BY PromoteTypes
<1>2. /\ UNCHANGED <<active, tasks, channel, given>> /\ Steady /\ turn.pc = "deliver"
      /\ turn \in Turns
  BY NoneAdjusted DEF Promote, Delivered, ghosts, TypeOK
<1>3. CASE turn' = [turn EXCEPT !.pc = "decide"] /\ queue' = queue
  <2>1. Unmoved(turn, turn')
    BY <1>2, <1>3 DEF Unmoved, Turns
  <2> QED BY <1>1, <1>2, <1>3, <2>1, MovesNone
<1>4. CASE /\ turn'.moving = queue.waiting
           /\ turn'.skipped = turn.skipped /\ turn'.batch = turn.batch
           /\ turn'.seen = turn.seen
           /\ queue'.ready = queue.ready /\ queue'.waiting = <<>>
           /\ queue'.done = queue.done
  <2>1. \A id : SessionsOf(id)' = SessionsOf(id)
    BY <1>2, SteadyMatched
  <2>2. turn.moving = <<>>
    BY <1>2 DEF Emptied
  <2>3. ASSUME NEW id \in Jobs PROVE Places(id)' = Places(id) /\ Places(id) \in Nat
    <3>1. Count(turn.moving, Of(id)) = 0 /\ Count(queue'.waiting, Of(id)) = 0
      BY <1>4, <2>2, CountEmpty
    <3>2. Count(queue.ready, Of(id)) \in Nat /\ Count(queue.waiting, Of(id)) \in Nat
      BY QueuedNat DEF TypeOK
    <3>3. /\ Queued(queue, id) = Count(queue.ready, Of(id)) + Count(queue.waiting, Of(id))
          /\ Queued(queue', id) = Count(queue.ready, Of(id)) + 0
      BY <1>4, <3>1 DEF Queued
    <3>4. /\ Count(turn'.moving, Of(id)) = Count(queue.waiting, Of(id))
          /\ Count(turn'.skipped, Of(id)) = Count(turn.skipped, Of(id))
          /\ channel'.sent = channel.sent
          /\ Cardinality(SessionsOf(id)') = Cardinality(SessionsOf(id))
      BY <1>2, <1>4, <2>1
    <3>5. /\ Places(id) = Queued(queue, id) + Count(turn.moving, Of(id))
                         + Count(turn.skipped, Of(id)) + Cardinality(SessionsOf(id))
                         + Count(channel.sent, Handing(id))
          /\ Count(turn.skipped, Of(id)) \in Nat /\ Cardinality(SessionsOf(id)) \in Nat
          /\ Count(channel.sent, Handing(id)) \in Nat
      BY Numbers
    <3>6. Places(id)' = Queued(queue', id) + Count(turn'.moving, Of(id))
                        + Count(turn'.skipped, Of(id)) + Cardinality(SessionsOf(id)')
                        + Count(channel'.sent, Handing(id))
      BY <1>1, NumbersNext
    <3> QED BY <3>1, <3>2, <3>3, <3>4, <3>5, <3>6
  <2>4. \A id \in Jobs : /\ queue'.done[id] + Places(id)' = queue.done[id] + Places(id)
                         /\ Places(id)' <= Places(id)
    BY <1>4, <2>3
  <2> QED BY <1>1, <1>2, <1>4, <2>4, Moves
<1> QED BY <1>3, <1>4, PromoteTypes

\* The places of a job, by what changes in each of them.
Tallied(id) ==
  /\ Places(id)' = Places(id) + (Queued(queue', id) - Queued(queue, id))
       + (Count(turn'.moving, Of(id)) - Count(turn.moving, Of(id)))
       + (Count(turn'.skipped, Of(id)) - Count(turn.skipped, Of(id)))
       + (Cardinality(SessionsOf(id)') - Cardinality(SessionsOf(id)))
       + (Count(channel'.sent, Handing(id)) - Count(channel.sent, Handing(id)))
  /\ Places(id) \in Nat /\ Places(id)' \in Nat
  /\ Queued(queue, id) \in Nat /\ Queued(queue', id) \in Nat
  /\ Count(turn.moving, Of(id)) \in Nat /\ Count(turn'.moving, Of(id)) \in Nat
  /\ Count(turn.skipped, Of(id)) \in Nat /\ Count(turn'.skipped, Of(id)) \in Nat
  /\ Cardinality(SessionsOf(id)) \in Nat /\ Cardinality(SessionsOf(id)') \in Nat
  /\ Count(channel.sent, Handing(id)) \in Nat /\ Count(channel'.sent, Handing(id)) \in Nat
  /\ queue.done[id] \in Nat /\ queue'.done[id] \in Nat

\* They add up.
LEMMA Tally ==
  ASSUME TypeOK, TypeOK', NEW id \in Jobs
  PROVE  Tallied(id)
<1>1. /\ Places(id) = Queued(queue, id) + Count(turn.moving, Of(id))
                     + Count(turn.skipped, Of(id)) + Cardinality(SessionsOf(id))
                     + Count(channel.sent, Handing(id))
      /\ Count(turn.skipped, Of(id)) \in Nat /\ Cardinality(SessionsOf(id)) \in Nat
      /\ Count(turn.moving, Of(id)) \in Nat /\ Queued(queue, id) \in Nat
      /\ Count(channel.sent, Handing(id)) \in Nat /\ queue.done[id] \in Nat
  BY Numbers
<1>2. /\ Places(id)' = Queued(queue', id) + Count(turn'.moving, Of(id))
                      + Count(turn'.skipped, Of(id)) + Cardinality(SessionsOf(id)')
                      + Count(channel'.sent, Handing(id))
      /\ Count(turn'.skipped, Of(id)) \in Nat /\ Cardinality(SessionsOf(id)') \in Nat
      /\ Count(turn'.moving, Of(id)) \in Nat /\ Queued(queue', id) \in Nat
      /\ Count(channel'.sent, Handing(id)) \in Nat /\ queue'.done[id] \in Nat
  BY NumbersNext
<1> QED BY <1>1, <1>2 DEF Tallied

\* What the other places lose, the queues and the outcomes get.
LEMMA Settle ==
  ASSUME TypeOK, TypeOK', NEW id \in Jobs, NEW x \in Int,
         Places(id)' = Places(id) + (Queued(queue', id) - Queued(queue, id)) - x,
         Queued(queue', id) + queue'.done[id] = Queued(queue, id) + queue.done[id] + x,
         Queued(queue', id) <= Queued(queue, id) + x
  PROVE  /\ queue'.done[id] + Places(id)' = queue.done[id] + Places(id)
         /\ Places(id)' <= Places(id)
<1>1. Tallied(id)
  BY Tally
<1>2. /\ Places(id) \in Nat /\ Places(id)' \in Nat
      /\ Queued(queue, id) \in Nat /\ Queued(queue', id) \in Nat
      /\ queue.done[id] \in Nat /\ queue'.done[id] \in Nat
  BY <1>1 DEF Tallied
<1>3. Places(id)' <= Places(id)
  BY <1>2
<1>4. queue'.done[id] + Places(id)' = queue.done[id] + Places(id)
  BY <1>2
<1> QED BY <1>3, <1>4

\* A job that moves is on a queue, or its outcome is known.
LEMMA MoveAccounts ==
  ASSUME TypeOK, Matched, Accounts, Move
  PROVE  Accounts'
<1>1. /\ TypeOK' /\ Head(turn.moving) \in Entries /\ turn.moving # <<>>
      /\ turn'.moving = Tail(turn.moving) /\ turn'.skipped = turn.skipped
      /\ turn'.batch = turn.batch /\ turn'.seen = turn.seen
      /\ turn.moving \in Seq(Entries) /\ queue \in Queues
  BY MoveTypes, TurnFields DEF TypeOK
<1>2. UNCHANGED <<active, tasks, channel, given>> /\ Steady
  BY NoneAdjusted DEF Move, ghosts
<1>3. \A id : SessionsOf(id)' = SessionsOf(id)
  BY <1>2, SteadyMatched
<1> DEFINE e == Head(turn.moving)
<1>4. ASSUME NEW id \in Jobs
      PROVE  /\ Queued(queue', id) + queue'.done[id]
                  = Queued(queue, id) + queue.done[id] + Same(e.id, id)
             /\ Queued(queue', id) <= Queued(queue, id) + Same(e.id, id)
  <2>1. e \in Entries /\ e.id \in Jobs
    <3>1. e \in Entries
      BY <1>1
    <3> HIDE DEF e
    <3> QED BY <3>1 DEF Entries
  <2>2. \/ queue' = [queue EXCEPT !.waiting = Append(@, e)]
        \/ queue' = Take(queue, Entry(e.id, Ready))
        \/ queue' = Outcome(queue, e.id)
    BY MoveTypes
  <2> HIDE DEF e
  <2>3. /\ Queued(queue, id) \in Nat /\ queue.done[id] \in Nat /\ Same(e.id, id) \in Nat
        /\ Count(queue.ready, Of(id)) \in Nat /\ Count(queue.waiting, Of(id)) \in Nat
    BY <1>1, Numbers, QueuedNat DEF Same
  <2>4. CASE queue' = [queue EXCEPT !.waiting = Append(@, e)]
    <3>1. /\ queue'.ready = queue.ready /\ queue'.waiting = Append(queue.waiting, e)
          /\ queue'.done = queue.done /\ queue.waiting \in Seq(Entries)
      BY <1>1, <2>4 DEF Queues
    <3>2. Count(queue'.waiting, Of(id)) = Count(queue.waiting, Of(id)) + One(e, Of(id))
      BY <2>1, <3>1, CountAppend
    <3>3. One(e, Of(id)) = Same(e.id, id)
      BY <2>1, OneEntry
    <3> QED BY <2>3, <3>1, <3>2, <3>3 DEF Queued
  <2>5. CASE queue' = Take(queue, Entry(e.id, Ready))
    <3> DEFINE n == Entry(e.id, Ready)
    <3>1. n \in Entries /\ n.id = e.id
      BY <2>1 DEF Entry, Entries, Ready
    <3> HIDE DEF n
    <3>2. queue' = Take(queue, n)
      BY <2>5 DEF n
    <3> QED BY <1>1, <3>1, <3>2, TakeCount
  <2>6. CASE queue' = Outcome(queue, e.id)
    <3>1. Queued(queue', id) = Queued(queue, id) /\ queue'.done[id] = queue.done[id] + Same(e.id, id)
      BY <1>1, <2>1, <2>6, OutcomeCount
    <3> QED BY <2>3, <3>1
  <2> QED BY <2>2, <2>4, <2>5, <2>6
<1>5. ASSUME NEW id \in Jobs
      PROVE  /\ queue'.done[id] + Places(id)' = queue.done[id] + Places(id)
             /\ Places(id)' <= Places(id)
  <2> DEFINE x == Same(e.id, id)
  <2>1. Count(turn.moving, Of(id)) = x + Count(turn'.moving, Of(id)) /\ x \in Nat
    BY <1>1, HeadCount
  <2>2. /\ Count(turn'.skipped, Of(id)) = Count(turn.skipped, Of(id))
        /\ Cardinality(SessionsOf(id)') = Cardinality(SessionsOf(id))
        /\ Count(channel'.sent, Handing(id)) = Count(channel.sent, Handing(id))
    BY <1>1, <1>2, <1>3
  <2>3. /\ Queued(queue', id) + queue'.done[id] = Queued(queue, id) + queue.done[id] + x
        /\ Queued(queue', id) <= Queued(queue, id) + x
    BY <1>4
  <2> HIDE DEF x
  <2>4. Tallied(id)
    BY <1>1, Tally
  <2>5. Places(id)' = Places(id) + (Queued(queue', id) - Queued(queue, id)) - x
    BY <2>1, <2>2, <2>4 DEF Tallied
  <2>6. x \in Int
    BY <2>1
  <2> QED BY <1>1, <2>3, <2>5, <2>6, Settle
<1> QED BY <1>1, <1>2, <1>5, Moves

\* No place but the queues, and no outcome, changes.
LEMMA SameElsewhere ==
  ASSUME TypeOK, TypeOK', NEW id \in Jobs, turn'.moving = turn.moving,
         turn'.skipped = turn.skipped, SessionsOf(id)' = SessionsOf(id),
         channel'.sent = channel.sent
  PROVE  Places(id)' = Places(id) + (Queued(queue', id) - Queued(queue, id)) - 0
<1>1. Tallied(id)
  BY Tally
<1> QED BY <1>1 DEF Tallied

\* The jobs that were skipped are ready again.
LEMMA AdmitDoneAccounts ==
  ASSUME TypeOK, Matched, Accounts, AdmitDone
  PROVE  Accounts'
<1>1. /\ TypeOK' /\ queue'.ready = turn.skipped \o queue.ready /\ queue'.waiting = queue.waiting
      /\ queue'.done = queue.done /\ turn'.batch = turn.batch /\ turn'.seen = turn.seen
      /\ turn'.moving = turn.moving /\ turn'.skipped = <<>>
  BY AdmitDoneTypes
<1>2. UNCHANGED <<active, tasks, channel, given>> /\ Steady
  BY NoneAdjusted DEF AdmitDone, ghosts
<1>3. \A id : SessionsOf(id)' = SessionsOf(id)
  BY <1>2, SteadyMatched
<1>4. ASSUME NEW id \in Jobs
      PROVE  /\ queue'.done[id] + Places(id)' = queue.done[id] + Places(id)
             /\ Places(id)' <= Places(id)
  <2> DEFINE x == Count(turn.skipped, Of(id))
  <2>1. Tallied(id)
    BY <1>1, Tally
  <2>2. x \in Nat /\ Count(turn'.skipped, Of(id)) = 0
    BY <1>1, <2>1, CountEmpty DEF Tallied
  <2>3. Queued(queue', id) = Queued(queue, id) + x
    <3> DEFINE k == turn.skipped
               r == queue.ready
    <3>1. k \in Seq(Entries) /\ r \in Seq(Entries) /\ queue \in Queues
      BY TurnFields DEF TypeOK, Queues
    <3> HIDE DEF k, r
    <3>2. Count(k \o r, Of(id)) = Count(k, Of(id)) + Count(r, Of(id))
      BY <3>1, CountConcat
    <3>3. Count(queue.ready, Of(id)) \in Nat /\ Count(queue.waiting, Of(id)) \in Nat
      BY <3>1, QueuedNat
    <3>4. Count(queue'.ready, Of(id)) = x + Count(queue.ready, Of(id))
      BY <1>1, <3>2 DEF k, r
    <3> HIDE DEF x
    <3> QED BY <1>1, <2>2, <3>3, <3>4 DEF Queued
  <2>4. /\ Count(turn'.moving, Of(id)) = Count(turn.moving, Of(id))
        /\ Cardinality(SessionsOf(id)') = Cardinality(SessionsOf(id))
        /\ Count(channel'.sent, Handing(id)) = Count(channel.sent, Handing(id))
        /\ x = Count(turn.skipped, Of(id))
    BY <1>1, <1>2, <1>3
  <2> HIDE DEF x
  <2>5. Places(id)' = Places(id) + (Queued(queue', id) - Queued(queue, id)) - x
    BY <2>1, <2>2, <2>4 DEF Tallied
  <2>6. /\ Queued(queue, id) \in Nat /\ queue.done[id] \in Nat
        /\ queue'.done[id] = queue.done[id]
    BY <1>1, <2>1 DEF Tallied
  <2>7. /\ x \in Int /\ Queued(queue', id) <= Queued(queue, id) + x
        /\ Queued(queue', id) + queue'.done[id] = Queued(queue, id) + queue.done[id] + x
    BY <2>2, <2>3, <2>6
  <2> QED BY <1>1, <2>5, <2>7, Settle
<1> QED BY <1>1, <1>2, <1>4, Moves

\* What is handed back has its outcome.
LEMMA DecideAccounts ==
  ASSUME TypeOK, Matched, Accounts, Decide
  PROVE  Accounts'
<1>1. TypeOK' /\ Unmoved(turn, turn')
  BY DecideTypes
<1>2. UNCHANGED <<active, tasks, channel, given>> /\ Steady
  BY NoneAdjusted DEF Decide, ghosts
<1>3. \A id : SessionsOf(id)' = SessionsOf(id)
  BY <1>2, SteadyMatched
<1>4. CASE queue' = queue
  BY <1>1, <1>2, <1>4, MovesNone
<1>5. CASE /\ queue'.ready = <<>> /\ queue'.waiting = <<>>
           /\ \A id \in Jobs : queue'.done[id] = queue.done[id] + Queued(queue, id)
  <2>1. ASSUME NEW id \in Jobs
        PROVE  /\ queue'.done[id] + Places(id)' = queue.done[id] + Places(id)
               /\ Places(id)' <= Places(id)
    <3>1. Tallied(id)
      BY <1>1, Tally
    <3>2. Queued(queue', id) = 0
      BY <1>5, CountEmpty DEF Queued
    <3>3. Places(id)' = Places(id) + (Queued(queue', id) - Queued(queue, id)) - 0
      BY <1>1, <1>2, <1>3, SameElsewhere DEF Unmoved
    <3>6. Queued(queue, id) \in Nat /\ queue.done[id] \in Nat
      BY <3>1 DEF Tallied
    <3>4. /\ Queued(queue', id) <= Queued(queue, id) + 0
          /\ Queued(queue', id) + queue'.done[id] = Queued(queue, id) + queue.done[id] + 0
      BY <1>5, <3>2, <3>6
    <3> DEFINE z == 0
    <3>5. /\ Places(id)' = Places(id) + (Queued(queue', id) - Queued(queue, id)) - z
          /\ Queued(queue', id) <= Queued(queue, id) + z /\ z \in Int
          /\ Queued(queue', id) + queue'.done[id] = Queued(queue, id) + queue.done[id] + z
      BY <3>3, <3>4
    <3> HIDE DEF z
    <3> QED BY <1>1, <3>5, Settle
  <2> QED BY <1>1, <1>2, <2>1, Moves DEF Unmoved
<1> QED BY <1>4, <1>5, DecideTypes

\* Sets of one task and of none.
LEMMA SmallSets ==
  /\ Cardinality({}) = 0
  /\ \A t : Cardinality({t}) = 1
BY FS_EmptySet, FS_Singleton

\* A job in line that is skipped, or gets a session.
LEMMA AdmitAccounts ==
  ASSUME TypeOK, Matched, Accounts, Admit
  PROVE  /\ Accounts' /\ SessionsOf(Head(queue.ready).id) = {}
<1> DEFINE e == Head(queue.ready)
<1>1. /\ TypeOK' /\ queue.ready # <<>> /\ e \in Entries
      /\ queue'.ready = Tail(queue.ready) /\ queue'.waiting = queue.waiting
      /\ queue'.done = queue.done
      /\ turn'.batch = turn.batch /\ turn'.seen = turn.seen /\ turn'.moving = turn.moving
      /\ UNCHANGED <<channel, given>>
  BY AdmitTypes DEF Admit, ghosts
<1>2. e.id \in Jobs
  <2> HIDE DEF e
  <2> QED BY <1>1 DEF Entries
<1>3. queue \in Queues /\ queue.ready \in Seq(Entries) /\ turn.skipped \in Seq(Entries)
  BY TurnFields DEF TypeOK, Queues
<1>4. ASSUME NEW id \in Jobs
      PROVE  /\ Queued(queue, id) = Queued(queue', id) + Same(e.id, id)
             /\ Queued(queue', id) \in Nat /\ Same(e.id, id) \in Nat
  <2>1. /\ Count(queue.ready, Of(id)) = Same(e.id, id) + Count(queue'.ready, Of(id))
        /\ Count(queue'.ready, Of(id)) \in Nat /\ Same(e.id, id) \in Nat
    BY <1>1, <1>3, HeadCount
  <2>2. Count(queue.waiting, Of(id)) \in Nat
    BY <1>3, QueuedNat
  <2> HIDE DEF e
  <2> QED BY <1>1, <2>1, <2>2 DEF Queued
<1>5. SessionsOf(e.id) = {}
  <2>1. Queued(queue, e.id) >= 1
    <3>1. Same(e.id, e.id) = 1
      BY DEF Same
    <3> QED BY <1>2, <1>4, <3>1
  <2>2. Places(e.id) <= 1
    BY <1>2 DEF Accounts, Single
  <2>3. Cardinality(SessionsOf(e.id)) = 0
    <3> HIDE DEF e
    <3>1. /\ Places(e.id) = Queued(queue, e.id) + Count(turn.moving, Of(e.id))
                         + Count(turn.skipped, Of(e.id)) + Cardinality(SessionsOf(e.id))
                         + Count(channel.sent, Handing(e.id))
          /\ Count(turn.skipped, Of(e.id)) \in Nat /\ Cardinality(SessionsOf(e.id)) \in Nat
          /\ Count(turn.moving, Of(e.id)) \in Nat /\ Queued(queue, e.id) \in Nat
          /\ Count(channel.sent, Handing(e.id)) \in Nat
      BY <1>2, Numbers
    <3> QED BY <2>1, <2>2, <3>1
  <2>4. IsFiniteSet(SessionsOf(e.id))
    <3>1. SessionsOf(e.id) \subseteq Slots /\ MaxActive \in Nat
      BY SchedulerAssumption DEF SessionsOf, Live
    <3> QED BY <3>1, UpTo, FS_Subset DEF Slots
  <2> QED BY <2>3, <2>4, FS_EmptySet
<1>6. ASSUME NEW id \in Jobs,
             (Count(turn'.skipped, Of(id)) - Count(turn.skipped, Of(id)))
             + (Cardinality(SessionsOf(id)') - Cardinality(SessionsOf(id))) = Same(e.id, id)
      PROVE  /\ queue'.done[id] + Places(id)' = queue.done[id] + Places(id)
             /\ Places(id)' <= Places(id)
  <2> DEFINE x == 0 - Same(e.id, id)
  <2>1. Tallied(id)
    BY <1>1, Tally
  <2>2. /\ Queued(queue, id) = Queued(queue', id) + Same(e.id, id)
        /\ Queued(queue', id) \in Nat /\ Same(e.id, id) \in Nat
    BY <1>4
  <2>3. /\ Count(turn'.moving, Of(id)) = Count(turn.moving, Of(id))
        /\ Count(channel'.sent, Handing(id)) = Count(channel.sent, Handing(id))
    BY <1>1
  <2>4. Places(id)' = Places(id) + (Queued(queue', id) - Queued(queue, id)) + Same(e.id, id)
    <3> HIDE DEF e
    <3> QED BY <1>6, <2>1, <2>2, <2>3 DEF Tallied
  <2>5. /\ queue.done[id] \in Nat /\ queue'.done[id] = queue.done[id] /\ Places(id) \in Nat
    BY <1>1, <2>1 DEF Tallied
  <2> HIDE DEF e
  <2>6. /\ Places(id)' = Places(id) + (Queued(queue', id) - Queued(queue, id)) - x
        /\ Queued(queue', id) <= Queued(queue, id) + x /\ x \in Int
    BY <2>2, <2>4, <2>5
  <2>7. Queued(queue', id) + queue'.done[id] = Queued(queue, id) + queue.done[id] + x
    BY <2>2, <2>5
  <2> HIDE DEF x
  <2> QED BY <1>1, <2>6, <2>7, Settle
<1>7. CASE /\ turn'.skipped = Append(turn.skipped, e)
           /\ UNCHANGED <<active, tasks, used, origins>>
  <2>1. ASSUME NEW id \in Jobs
        PROVE  (Count(turn'.skipped, Of(id)) - Count(turn.skipped, Of(id)))
               + (Cardinality(SessionsOf(id)') - Cardinality(SessionsOf(id))) = Same(e.id, id)
    <3>1. SessionsOf(id)' = SessionsOf(id)
      BY <1>7 DEF SessionsOf, Live
    <3>2. Tallied(id)
      BY <1>1, Tally
    <3>3. Count(turn'.skipped, Of(id)) = Count(turn.skipped, Of(id)) + One(e, Of(id))
      BY <1>1, <1>3, <1>7, CountAppend
    <3>4. One(e, Of(id)) = Same(e.id, id)
      <4> HIDE DEF e
      <4> QED BY <1>1, OneEntry
    <3>5. Same(e.id, id) \in Nat
      BY <1>4
    <3>6. Cardinality(SessionsOf(id)') = Cardinality(SessionsOf(id))
      BY <3>1
    <3>7. /\ Count(turn.skipped, Of(id)) \in Nat /\ Cardinality(SessionsOf(id)) \in Nat
      BY <3>2 DEF Tallied
    <3> HIDE DEF e
    <3> QED BY <3>3, <3>4, <3>5, <3>6, <3>7
  <2>2. \A id \in Jobs : /\ queue'.done[id] + Places(id)' = queue.done[id] + Places(id)
                         /\ Places(id)' <= Places(id)
    BY <1>6, <2>1
  <2>3. Accounts'
    BY <1>1, <2>2, Moves
  <2> QED BY <1>5, <2>3
<1>8. CASE /\ turn'.skipped = turn.skipped
           /\ \E t \in Slots \ Live, grant \in 1 .. Connections : Spawn(e, t, grant)
  <2>1. PICK t \in Slots \ Live, grant \in 1 .. Connections : Spawn(e, t, grant)
    BY <1>8
  <2>0. PICK f \in Entries : f = e
    BY <1>1
  <2>2. /\ SessionsOf(f.id)' = {t} /\ SessionsOf(f.id) = {}
        /\ \A id \in Jobs : id # f.id => SessionsOf(id)' = SessionsOf(id)
    <3>1. SessionsOf(f.id) = {} /\ Spawn(f, t, grant)
      BY <1>5, <2>0, <2>1
    <3> HIDE DEF e
    <3> QED BY <2>1, <3>1, SpawnMatched
  <2>3. ASSUME NEW id \in Jobs
        PROVE  (Count(turn'.skipped, Of(id)) - Count(turn.skipped, Of(id)))
               + (Cardinality(SessionsOf(id)') - Cardinality(SessionsOf(id))) = Same(e.id, id)
    <3>1. Tallied(id)
      BY <1>1, Tally
    <3>2. /\ Count(turn.skipped, Of(id)) \in Nat /\ Cardinality(SessionsOf(id)) \in Nat
      BY <3>1 DEF Tallied
    <3>3. Count(turn'.skipped, Of(id)) = Count(turn.skipped, Of(id))
      BY <1>8
    <3> HIDE DEF e
    <3>4. CASE e.id = id
      <4>0. SessionsOf(id)' = {t} /\ SessionsOf(id) = {}
        BY <2>0, <2>2, <3>4
      <4>1. Cardinality(SessionsOf(id)') = 1 /\ Cardinality(SessionsOf(id)) = 0
        BY <4>0, SmallSets
      <4> QED BY <3>2, <3>3, <3>4, <4>1 DEF Same
    <3>5. CASE e.id # id
      <4>1. Cardinality(SessionsOf(id)') = Cardinality(SessionsOf(id))
        BY <2>0, <2>2, <3>5
      <4> QED BY <3>2, <3>3, <3>5, <4>1 DEF Same
    <3> QED BY <3>4, <3>5
  <2>4. \A id \in Jobs : /\ queue'.done[id] + Places(id)' = queue.done[id] + Places(id)
                         /\ Places(id)' <= Places(id)
    BY <1>6, <2>3
  <2>5. Accounts'
    BY <1>1, <2>4, Moves
  <2> QED BY <1>5, <2>5
<1> QED BY <1>7, <1>8, AdmitTypes

\* A session that ended is on a queue, or its outcome is known.
LEMMA JoinAccounts ==
  ASSUME TypeOK, Matched, Accounts, Join, NEW t \in Slots, Joined(t)
  PROVE  Accounts'
<1> DEFINE n == Entry(tasks[t].id, tasks[t].end.at)
           j == tasks[t].id
<1>1. /\ TypeOK' /\ turn'.batch = turn.batch /\ turn'.seen = turn.seen
      /\ turn'.moving = turn.moving /\ turn'.skipped = turn.skipped
  BY JoinTypes DEF Unmoved
<1>2. UNCHANGED <<channel, given>> /\ queue \in Queues
  BY DEF Join, ghosts, TypeOK
<1>3. n \in Entries /\ queue' = Take(queue, n) /\ n.id = j /\ j \in Jobs
  BY LiveSessions DEF Joined, Entry
<1>4. /\ \A id \in Jobs : SessionsOf(id)' = SessionsOf(id) \ {t}
      /\ SessionsOf(j) = {t} /\ t \in Live
  BY JoinMatched DEF Joined
<1> HIDE DEF n
<1>5. ASSUME NEW id \in Jobs
      PROVE  /\ queue'.done[id] + Places(id)' = queue.done[id] + Places(id)
             /\ Places(id)' <= Places(id)
  <2> DEFINE x == Same(j, id)
  <2>1. Tallied(id)
    BY <1>1, Tally
  <2>2. Cardinality(SessionsOf(id)) = Cardinality(SessionsOf(id)') + x /\ x \in Int
    <3>1. CASE id = j
      <4>1. SessionsOf(id) = {t} /\ SessionsOf(id)' = {}
        BY <1>4, <3>1
      <4>2. Cardinality(SessionsOf(id)) = 1 /\ Cardinality(SessionsOf(id)') = 0
        BY <4>1, SmallSets
      <4> QED BY <3>1, <4>2 DEF Same
    <3>2. CASE id # j
      <4>1. SessionsOf(id)' = SessionsOf(id)
        BY <1>4, <3>2 DEF SessionsOf
      <4>2. Cardinality(SessionsOf(id)) \in Nat /\ x = 0
        BY <2>1, <3>2 DEF Tallied, Same
      <4> HIDE DEF x
      <4> QED BY <4>1, <4>2
    <3> QED BY <3>1, <3>2
  <2>3. /\ Queued(queue', id) + queue'.done[id] = Queued(queue, id) + queue.done[id] + x
        /\ Queued(queue', id) <= Queued(queue, id) + x
    BY <1>2, <1>3, TakeCount
  <2>4. /\ Count(turn'.moving, Of(id)) = Count(turn.moving, Of(id))
        /\ Count(turn'.skipped, Of(id)) = Count(turn.skipped, Of(id))
        /\ Count(channel'.sent, Handing(id)) = Count(channel.sent, Handing(id))
    BY <1>1, <1>2
  <2> HIDE DEF x
  <2>5. Places(id)' = Places(id) + (Queued(queue', id) - Queued(queue, id)) - x
    BY <2>1, <2>2, <2>4 DEF Tallied
  <2> QED BY <1>1, <2>2, <2>3, <2>5, Settle
<1> QED BY <1>1, <1>2, <1>5, Moves

\* A job that is handed over is on a queue; one that is stopped has its outcome.
LEMMA OnCommandAccounts ==
  ASSUME TypeOK, Matched, Accounts, OnCommand
  PROVE  Accounts'
<1>1. /\ TypeOK' /\ Steady /\ Heeded /\ Unmoved(turn, turn')
      /\ turn'.batch = turn.batch /\ turn'.seen = turn.seen
      /\ turn'.moving = turn.moving /\ turn'.skipped = turn.skipped
  BY OnCommandTypes DEF Unmoved
<1>2. UNCHANGED <<active, given>> /\ queue \in Queues /\ channel.sent \in Seq(Commands)
  BY DEF OnCommand, ghosts, TypeOK
<1>3. \A id : SessionsOf(id)' = SessionsOf(id)
  BY <1>1, <1>2, SteadyMatched
<1>4. CASE queue' = queue /\ channel' = channel
  BY <1>1, <1>2, <1>4, MovesNone
<1>5. CASE ~(queue' = queue /\ channel' = channel)
  <2> DEFINE c == Head(channel.sent)
  <2>1. /\ channel.sent # <<>> /\ c \in Commands /\ channel'.sent = Tail(channel.sent)
        /\ \/ /\ c.kind = "Admit" /\ Entry(c.id, c.at) \in Entries
              /\ queue' = Take(queue, Entry(c.id, c.at))
           \/ c.kind # "Admit" /\ queue' = queue
           \/ /\ c.kind # "Admit" /\ c.id \in Jobs /\ Holds(queue.ready \o queue.waiting, c.id)
              /\ queue' = Outcome(Without(queue, c.id), c.id)
    BY <1>1, <1>5 DEF Heeded
  <2>2. ASSUME NEW id \in Jobs
        PROVE  /\ queue'.done[id] + Places(id)' = queue.done[id] + Places(id)
               /\ Places(id)' <= Places(id)
    <3> DEFINE x == One(c, Handing(id))
    <3>1. Tallied(id)
      BY <1>1, Tally
    <3>2. Count(channel.sent, Handing(id)) = x + Count(channel'.sent, Handing(id))
      BY <1>2, <2>1, CountTail
    <3>3. x \in Int
      BY DEF One
    <3>a. /\ Queued(queue, id) \in Nat /\ queue.done[id] \in Nat
      BY <3>1 DEF Tallied
    <3>b. \/ /\ c.kind = "Admit" /\ Entry(c.id, c.at) \in Entries
             /\ queue' = Take(queue, Entry(c.id, c.at)) /\ c \in Commands
          \/ c.kind # "Admit" /\ queue' = queue
          \/ /\ c.kind # "Admit" /\ c.id \in Jobs /\ Holds(queue.ready \o queue.waiting, c.id)
             /\ queue' = Outcome(Without(queue, c.id), c.id)
      BY <2>1
    <3>4. /\ Queued(queue', id) + queue'.done[id] = Queued(queue, id) + queue.done[id] + x
          /\ Queued(queue', id) <= Queued(queue, id) + x
      <4> HIDE DEF c
      <4>1. CASE /\ c.kind = "Admit" /\ Entry(c.id, c.at) \in Entries
                 /\ queue' = Take(queue, Entry(c.id, c.at)) /\ c \in Commands
        <5> DEFINE n == Entry(c.id, c.at)
        <5>1. n \in Entries /\ queue' = Take(queue, n) /\ n.id = c.id
          BY <4>1 DEF Entry
        <5>2. x = Same(n.id, id)
          <6>1. c \in [kind : {"Admit", "Stop"}, id : Jobs, at : Int]
            BY <4>1 DEF Commands
          <6>2. c \in Handing(id) <=> c.id = id
            BY <4>1, <6>1 DEF Handing
          <6> QED BY <5>1, <6>2 DEF One, Same
        <5> HIDE DEF n, x
        <5> QED BY <1>2, <5>1, <5>2, TakeCount
      <4>2. CASE c.kind # "Admit"
        <5>1. x = 0
          BY <4>2 DEF One, Handing
        <5> HIDE DEF x
        <5>2. CASE queue' = queue
          BY <3>a, <5>1, <5>2
        <5>3. CASE /\ c.id \in Jobs /\ Holds(queue.ready \o queue.waiting, c.id)
                   /\ queue' = Outcome(Without(queue, c.id), c.id)
          <6> DEFINE q == Without(queue, c.id)
                     y == Same(c.id, id)
          <6>1. /\ q \in Queues /\ Queued(queue, id) = Queued(q, id) + y /\ q.done = queue.done
            BY <1>2, <5>3, WithoutCount
          <6>2. queue' = Outcome(q, c.id) /\ y \in Nat
            BY <5>3 DEF Same
          <6> HIDE DEF q
          <6>3. /\ Queued(queue', id) = Queued(q, id) /\ queue'.done[id] = q.done[id] + y
            BY <5>3, <6>1, <6>2, OutcomeCount
          <6>4. Queued(q, id) \in Nat
            BY <6>1, QueuedNat
          <6> HIDE DEF y
          <6>5. Queued(queue', id) <= Queued(queue, id) + x
            BY <3>a, <5>1, <6>1, <6>2, <6>3, <6>4
          <6>6. Queued(queue', id) + queue'.done[id] = Queued(queue, id) + queue.done[id] + x
            BY <3>a, <5>1, <6>1, <6>2, <6>3, <6>4
          <6> QED BY <6>5, <6>6
        <5> QED BY <3>b, <4>2, <5>2, <5>3
      <4> QED BY <3>b, <4>1, <4>2
    <3>5. /\ Count(turn'.moving, Of(id)) = Count(turn.moving, Of(id))
          /\ Count(turn'.skipped, Of(id)) = Count(turn.skipped, Of(id))
          /\ Cardinality(SessionsOf(id)') = Cardinality(SessionsOf(id))
      BY <1>1, <1>3
    <3> HIDE DEF x
    <3>6. Places(id)' = Places(id) + (Queued(queue', id) - Queued(queue, id)) - x
      BY <3>1, <3>2, <3>3, <3>5 DEF Tallied
    <3> QED BY <1>1, <3>3, <3>4, <3>6, Settle
  <2> QED BY <1>1, <1>2, <2>2, Moves
<1> QED BY <1>4, <1>5

\* The list of a run: a job that was seen is refused, and another one is in no place yet.
LEMMA IntakeAccounts ==
  ASSUME TypeOK, Matched, Accounts, Intake
  PROVE  Accounts'
<1>1. TypeOK' /\ turn \in Turns /\ queue \in Queues /\ turn.batch \in Seq(Entries)
  BY IntakeTypes, TurnFields DEF TypeOK
<1>2. UNCHANGED <<active, tasks, channel, given>> /\ Steady
  BY NoneAdjusted DEF Intake, ghosts
<1>3. \A id : SessionsOf(id)' = SessionsOf(id)
  BY <1>2, SteadyMatched
<1>4. ASSUME NEW id \in Jobs
      PROVE  /\ given[id] = queue.done[id] + Places(id) + Count(turn.batch, Of(id))
             /\ Places(id) <= 1
             /\ id \notin turn.seen /\ Count(turn.batch, Of(id)) > 0 => Places(id) = 0
  BY DEF Accounts, Balanced, Single, Fresh
<1>5. CASE turn.batch = <<>>
  <2>1. turn' = [turn EXCEPT !.pc = "deliver", !.seen = {}] /\ queue' = queue
    BY <1>5 DEF Intake
  <2>2. turn'.batch = <<>> /\ turn'.moving = turn.moving /\ turn'.skipped = turn.skipped
    BY <1>1, <1>5, <2>1 DEF Turns
  <2>3. ASSUME NEW id \in Jobs
        PROVE  /\ given'[id] = queue'.done[id] + Places(id)' + Count(turn'.batch, Of(id))
               /\ Places(id)' <= 1
               /\ Count(turn'.batch, Of(id)) = 0
    <3>1. Places(id)' = Places(id)
      BY <1>2, <1>3, <2>1, <2>2 DEF Places
    <3>2. Count(turn.batch, Of(id)) = Count(turn'.batch, Of(id)) /\ Count(turn'.batch, Of(id)) = 0
      BY <1>5, <2>2, CountEmpty
    <3> QED BY <1>2, <1>4, <2>1, <3>1, <3>2
  <2> QED BY <2>3 DEF Accounts, Balanced, Single, Fresh
<1>6. CASE turn.batch # <<>>
  <2> DEFINE e == Head(turn.batch)
             b == Tail(turn.batch)
  <2>1. e \in Entries /\ b \in Seq(Entries) /\ e.id \in Jobs
    <3>1. e \in Entries /\ b \in Seq(Entries)
      BY <1>1, <1>6, HeadTailProperties
    <3> HIDE DEF e, b
    <3> QED BY <3>1 DEF Entries
  <2>2. /\ turn' = [turn EXCEPT !.batch = b, !.seen = turn.seen \cup {e.id}]
        /\ \/ queue' = Outcome(queue, e.id)
           \/ e.id \notin turn.seen /\ queue' = Take(queue, e)
    BY <1>6 DEF Intake
  <2>3. ASSUME NEW id \in Jobs
        PROVE  /\ Count(turn.batch, Of(id)) = Same(e.id, id) + Count(b, Of(id))
               /\ Count(b, Of(id)) \in Nat /\ Same(e.id, id) \in Nat
    BY <1>1, <1>6, HeadCount
  <2> HIDE DEF e, b
  <2>4. /\ turn'.batch = b /\ turn'.seen = turn.seen \cup {e.id}
        /\ turn'.moving = turn.moving /\ turn'.skipped = turn.skipped
    BY <1>1, <2>2 DEF Turns
  <2>5. ASSUME NEW id \in Jobs
        PROVE  /\ given'[id] = queue'.done[id] + Places(id)' + Count(turn'.batch, Of(id))
               /\ Places(id)' <= 1
               /\ id \notin turn'.seen /\ Count(turn'.batch, Of(id)) > 0 => Places(id)' = 0
    <3> DEFINE x == Same(e.id, id)
               p == Places(id)
               n == Places(id)'
               o == Queued(queue, id)
               w == Queued(queue', id)
               d == queue.done[id]
               k == Count(turn.batch, Of(id))
               l == Count(turn'.batch, Of(id))
    <3>1. Tallied(id)
      BY <1>1, Tally
    <3>2. n = p + (w - o) - 0
      BY <1>1, <1>2, <1>3, <2>4, SameElsewhere
    <3>3. /\ p \in Nat /\ n \in Nat /\ o \in Nat /\ w \in Nat /\ d \in Nat
          /\ queue'.done[id] \in Nat
      BY <3>1 DEF Tallied
    <3>4. k = x + l /\ l \in Nat /\ x \in Nat
      BY <2>3, <2>4
    <3>5. given'[id] = d + p + k /\ p <= 1 /\ (id \notin turn.seen /\ k > 0 => p = 0)
      BY <1>2, <1>4
    <3>6. id \notin turn'.seen => x = 0 /\ id \notin turn.seen
      BY <2>4 DEF Same
    <3>7. /\ w + queue'.done[id] = o + d + x
          /\ w <= o \/ (id \notin turn.seen /\ w <= o + x)
          /\ x = 0 => w <= o
      <4>1. CASE queue' = Outcome(queue, e.id)
        <5>1. w = o /\ queue'.done[id] = d + x
          BY <1>1, <2>1, <4>1, OutcomeCount
        <5> HIDE DEF x, o, w, d
        <5> QED BY <3>3, <3>4, <5>1
      <4>2. CASE e.id \notin turn.seen /\ queue' = Take(queue, e)
        <5>1. w + queue'.done[id] = o + d + x /\ w <= o + x
          BY <1>1, <2>1, <4>2, TakeCount
        <5>2. x = 0 \/ id \notin turn.seen
          BY <4>2 DEF Same
        <5> HIDE DEF x, o, w, d
        <5> QED BY <3>3, <3>4, <5>1, <5>2
      <4> QED BY <2>2, <4>1, <4>2
    <3> HIDE DEF x, p, n, o, w, d, k, l
    <3>8. given'[id] = queue'.done[id] + n + l
      BY <3>2, <3>3, <3>4, <3>5, <3>7
    <3>9. n <= 1
      <4>1. CASE w <= o
        BY <3>2, <3>3, <3>5, <4>1
      <4>2. CASE id \notin turn.seen /\ w <= o + x /\ x # 0
        <5>1. k > 0
          BY <3>4, <4>2
        <5>2. p = 0 /\ x = 1
          <6>1. x \in {0, 1}
            BY DEF x, Same
          <6> QED BY <3>5, <4>2, <5>1, <6>1
        <5> QED BY <3>2, <3>3, <4>2, <5>2
      <4> QED BY <3>7, <4>1, <4>2
    <3>10. id \notin turn'.seen /\ l > 0 => n = 0
      <4> SUFFICES ASSUME id \notin turn'.seen, l > 0 PROVE n = 0
        OBVIOUS
      <4>1. x = 0 /\ id \notin turn.seen
        BY <3>6
      <4>2. k > 0
        BY <3>4, <4>1
      <4>3. p = 0 /\ w <= o
        BY <3>5, <3>7, <4>1, <4>2
      <4> QED BY <3>2, <3>3, <4>3
    <3> QED BY <3>8, <3>9, <3>10 DEF n, l
  <2> QED BY <2>5 DEF Accounts, Balanced, Single, Fresh
<1> QED BY <1>5, <1>6

\* A job is handed over when it was never given, so that it is in no place.
LEMMA SenderAccounts ==
  ASSUME TypeOK, Matched, Accounts, Send \/ Hangup \/ Tick
  PROVE  Accounts'
<1>1. /\ TypeOK' /\ Steady /\ Posted /\ UNCHANGED <<turn, queue, active>>
      /\ channel.sent \in Seq(Commands) /\ given \in [Jobs -> Nat]
  BY SenderTypes DEF TypeOK
<1>2. \A id : SessionsOf(id)' = SessionsOf(id)
  BY <1>1, SteadyMatched
<1>3. CASE channel'.sent = channel.sent /\ given' = given
  BY <1>1, <1>3, MovesNone DEF Unmoved
<1>4. ASSUME NEW c \in Commands, channel'.sent = Append(channel.sent, c), NEW id \in Jobs
      PROVE  Places(id)' = Places(id) + One(c, Handing(id)) /\ Places(id) \in Nat
  <2>1. Count(channel'.sent, Handing(id)) = Count(channel.sent, Handing(id)) + One(c, Handing(id))
    BY <1>1, <1>4, CountAppend
  <2>2. Tallied(id)
    BY <1>1, Tally
  <2>3. /\ Queued(queue', id) = Queued(queue, id) /\ turn'.moving = turn.moving
        /\ turn'.skipped = turn.skipped /\ SessionsOf(id)' = SessionsOf(id)
        /\ One(c, Handing(id)) \in Nat
    BY <1>1, <1>2 DEF One
  <2> QED BY <2>1, <2>2, <2>3 DEF Tallied
<1>5. CASE \E c \in Commands :
             c.kind # "Admit" /\ channel'.sent = Append(channel.sent, c) /\ given' = given
  <2>1. PICK c \in Commands :
          c.kind # "Admit" /\ channel'.sent = Append(channel.sent, c) /\ given' = given
    BY <1>5
  <2>2. \A id \in Jobs : Places(id)' = Places(id) /\ Places(id) \in Nat
    <3> SUFFICES ASSUME NEW id \in Jobs PROVE Places(id)' = Places(id) /\ Places(id) \in Nat
      OBVIOUS
    <3>1. One(c, Handing(id)) = 0
      BY <2>1 DEF One, Handing
    <3> QED BY <1>4, <2>1, <3>1
  <2>3. \A id \in Jobs : /\ queue'.done[id] + Places(id)' = queue.done[id] + Places(id)
                         /\ Places(id)' <= Places(id)
    BY <1>1, <2>2
  <2> QED BY <1>1, <2>1, <2>3, Moves
<1>6. CASE \E i \in Jobs, c \in Commands :
             /\ given[i] = 0 /\ c \in Handing(i) /\ channel'.sent = Append(channel.sent, c)
             /\ given' = [given EXCEPT ![i] = 1]
  <2>1. PICK i \in Jobs, c \in Commands :
          /\ given[i] = 0 /\ c \in Handing(i) /\ channel'.sent = Append(channel.sent, c)
          /\ given' = [given EXCEPT ![i] = 1]
    BY <1>6
  <2>2. ASSUME NEW id \in Jobs
        PROVE  /\ given'[id] = queue'.done[id] + Places(id)' + Count(turn'.batch, Of(id))
               /\ Places(id)' <= 1
               /\ id \notin turn'.seen /\ Count(turn'.batch, Of(id)) > 0 => Places(id)' = 0
    <3>1. /\ given[id] = queue.done[id] + Places(id) + Count(turn.batch, Of(id))
          /\ Places(id) <= 1
          /\ id \notin turn.seen /\ Count(turn.batch, Of(id)) > 0 => Places(id) = 0
      BY DEF Accounts, Balanced, Single, Fresh
    <3>2. queue' = queue /\ turn' = turn
      BY <1>1
    <3>3. CASE id = i
      <4>1. One(c, Handing(id)) = 1 /\ given[id] = 0 /\ given'[id] = 1
        BY <1>1, <2>1, <3>3 DEF One
      <4>2. /\ queue.done[id] \in Nat /\ Count(turn.batch, Of(id)) \in Nat /\ Places(id) \in Nat
            /\ Places(id)' = Places(id) + One(c, Handing(id))
        BY <1>4, <2>1, Numbers
      <4>3. queue.done[id] = 0 /\ Count(turn.batch, Of(id)) = 0 /\ Places(id) = 0
        BY <3>1, <4>1, <4>2
      <4> QED BY <3>2, <4>1, <4>2, <4>3
    <3>4. CASE id # i
      <4>1. One(c, Handing(id)) = 0
        BY <2>1, <3>4 DEF One, Handing
      <4>2. Places(id)' = Places(id) /\ given'[id] = given[id]
        BY <1>1, <1>4, <2>1, <3>4, <4>1
      <4> QED BY <3>1, <3>2, <4>2
    <3> QED BY <3>3, <3>4
  <2> QED BY <2>2 DEF Accounts, Balanced, Single, Fresh
<1> QED BY <1>1, <1>3, <1>5, <1>6 DEF Posted

-----------------------------------------------------------------------------
(***************************************************************************)
(* The inductive invariant.                                                *)
(***************************************************************************)

\* At first every job given is in the list of the run, and no session runs.
LEMMA InitInv ==
  ASSUME Init
  PROVE  IInv
<1>1. TypeOK
  BY InitTypes
<1>2. /\ turn.moving = <<>> /\ turn.skipped = <<>> /\ turn.now = 0
      /\ queue.ready = <<>> /\ queue.waiting = <<>> /\ channel.sent = <<>>
      /\ \A id \in Jobs : queue.done[id] = 0 /\ given[id] = Count(turn.batch, Of(id))
  BY DEF Init
<1>3. Live = {} /\ \A id : SessionsOf(id) = {}
  BY DEF Live, SessionsOf, Init
<1>4. ASSUME NEW id \in Jobs PROVE Places(id) = 0
  <2>1. Cardinality(SessionsOf(id)) = 0
    BY <1>3, SmallSets
  <2>2. \A K : Count(<<>>, K) = 0
    BY CountEmpty
  <2> QED BY <1>2, <2>1, <2>2 DEF Places
<1>5. Balanced /\ Single /\ Fresh
  <2>1. \A id \in Jobs : Count(turn.batch, Of(id)) \in Nat
    BY <1>1, Numbers
  <2> QED BY <1>2, <1>4, <2>1 DEF Balanced, Single, Fresh
<1>6. Emptied
  BY <1>2 DEF Emptied
<1>7. Matched
  BY <1>3 DEF Matched, IsActive, Init
<1>8. Counted
  <2>1. GrantsOf({}) = 0
    BY ConnsNone DEF GrantsOf, Conns
  <2>2. used = 0 /\ \A o \in Origins : origins[o].in_flight = 0
    BY DEF Init, Default
  <2>3. \A o \in Origins : {t \in Live : OriginOf[tasks[t].id] = o} = {}
    BY <1>3
  <2>4. Connections \in Nat /\ OriginConnections \in Nat
    BY SchedulerAssumption, LimitsAssumption
  <2> QED BY <1>3, <2>1, <2>2, <2>3, <2>4 DEF Counted
<1>9. Floored
  BY <1>2 DEF Floored, Init
<1> QED BY <1>1, <1>5, <1>6, <1>7, <1>8, <1>9 DEF IInv

\* A step that leaves the sessions, their grants and the delays alone.
LEMMA QuietStep ==
  ASSUME IInv, TypeOK', Accounts', Emptied', Steady, UNCHANGED <<active, used, origins, asked>>,
         clock' >= clock, turn'.now <= clock'
  PROVE  IInv'
<1>1. Matched'
  BY SteadyMatched DEF IInv
<1>2. Counted'
  BY SteadyCounted DEF IInv
<1>3. Floored'
  <2>1. clock \in Nat /\ clock' \in Nat /\ asked \in [Origins -> Int]
    BY DEF IInv, TypeOK
  <2> QED BY <2>1 DEF IInv, Floored
<1> QED BY <1>1, <1>2, <1>3 DEF IInv, Accounts

\* The steps of a turn that start and end no session.
LEMMA TurnInv ==
  ASSUME IInv,
         \/ Intake \/ Deliver \/ Promote \/ Move \/ ReadClock \/ AdmitDone \/ Decide
         \/ OnCommand \/ Sleep
  PROVE  IInv'
<1>1. /\ TypeOK /\ Matched /\ Counted /\ Accounts /\ Emptied /\ Floored /\ turn \in Turns
      /\ turn.now \in Nat /\ clock \in Nat /\ turn.now <= clock
  BY TurnFields DEF IInv, Accounts, TypeOK, Floored
<1>0. UNCHANGED <<active, used, origins, asked, clock>>
  BY DEF Intake, Deliver, Promote, Move, ReadClock, AdmitDone, Decide, OnCommand, Sleep, ghosts
<1>2. UNCHANGED <<active, used, origins, asked, clock>> /\ clock' >= clock
  BY <1>0, <1>1
<1>3. CASE Intake
  <2>1. TypeOK' /\ Accounts' /\ Steady
    BY <1>1, <1>3, IntakeTypes, IntakeAccounts, NoneAdjusted DEF Intake
  <2>2. turn'.now = turn.now /\ turn'.moving = turn.moving
    BY <1>1, <1>3 DEF Intake, Turns
  <2>3. turn.moving = <<>>
    BY <1>1, <1>3 DEF Intake, Emptied
  <2> QED BY <1>1, <1>2, <2>1, <2>2, <2>3, QuietStep DEF Emptied
<1>4. CASE Deliver
  <2>1. /\ TypeOK' /\ Steady /\ Unmoved(turn, turn') /\ turn'.now = turn.now
        /\ turn'.pc = turn.pc /\ queue' = queue /\ channel' = channel /\ given' = given
    BY <1>1, <1>4, DeliverTypes DEF Deliver, ghosts
  <2>2. Accounts'
    BY <1>1, <1>2, <2>1, MovesNone
  <2>3. Emptied'
    BY <1>1, <2>1 DEF Emptied, Unmoved
  <2> QED BY <1>1, <1>2, <2>1, <2>2, <2>3, QuietStep
<1>5. CASE Promote
  <2>1. TypeOK' /\ Accounts' /\ Steady /\ turn.pc = "deliver"
    BY <1>1, <1>5, PromoteTypes, PromoteAccounts, NoneAdjusted DEF Promote, Delivered
  <2>2. CASE turn' = [turn EXCEPT !.pc = "decide"]
    <3>1. turn'.moving = turn.moving /\ turn'.now = turn.now
      BY <1>1, <2>2 DEF Turns
    <3>2. Emptied'
      BY <1>1, <2>1, <3>1 DEF Emptied
    <3> QED BY <1>1, <1>2, <2>1, <3>1, <3>2, QuietStep
  <2>3. CASE turn'.now = clock /\ turn'.pc = "move"
    <3>1. Emptied'
      BY <2>3 DEF Emptied
    <3> QED BY <1>1, <1>2, <2>1, <2>3, <3>1, QuietStep
  <2> QED BY <1>1, <1>5, <2>2, <2>3, PromoteTypes
<1>6. CASE Move
  <2>1. /\ TypeOK' /\ Accounts' /\ Steady /\ turn'.now = turn.now /\ turn'.pc = turn.pc
        /\ turn.pc = "move"
    BY <1>1, <1>6, MoveTypes, MoveAccounts, NoneAdjusted DEF Move
  <2>2. Emptied'
    BY <2>1 DEF Emptied
  <2> QED BY <1>1, <1>2, <2>1, <2>2, QuietStep
<1>7. CASE ReadClock
  <2>1. /\ TypeOK' /\ turn'.now = clock /\ Unmoved(turn, turn') /\ turn.moving = <<>>
        /\ Steady /\ queue' = queue /\ channel' = channel /\ given' = given
    BY <1>1, <1>7, ReadClockTypes, NoneAdjusted DEF ReadClock, ghosts, Unmoved
  <2>2. Accounts'
    BY <1>1, <1>2, <2>1, MovesNone
  <2>3. Emptied'
    BY <2>1 DEF Emptied, Unmoved
  <2> QED BY <1>1, <1>2, <2>1, <2>2, <2>3, QuietStep
<1>8. CASE AdmitDone
  <2>1. /\ TypeOK' /\ Accounts' /\ Steady /\ turn'.now = 0 /\ turn'.moving = turn.moving
        /\ turn.pc = "admit"
    BY <1>1, <1>8, AdmitDoneTypes, AdmitDoneAccounts, NoneAdjusted DEF AdmitDone
  <2>2. Emptied'
    BY <1>1, <2>1 DEF Emptied
  <2> QED BY <1>1, <1>2, <2>1, <2>2, QuietStep
<1>9. CASE Decide
  <2>1. /\ TypeOK' /\ Accounts' /\ Steady /\ turn'.now = turn.now /\ turn'.moving = turn.moving
        /\ turn.pc = "decide"
    BY <1>1, <1>9, DecideTypes, DecideAccounts, NoneAdjusted DEF Decide, Unmoved
  <2>2. Emptied'
    BY <1>1, <2>1 DEF Emptied
  <2> QED BY <1>1, <1>2, <2>1, <2>2, QuietStep
<1>10. CASE OnCommand
  <2>1. /\ TypeOK' /\ Accounts' /\ Steady /\ turn'.now = turn.now /\ turn'.moving = turn.moving
        /\ turn.pc = "select"
    BY <1>1, <1>10, OnCommandTypes, OnCommandAccounts DEF OnCommand, Unmoved
  <2>2. Emptied'
    BY <1>1, <2>1 DEF Emptied
  <2> QED BY <1>1, <1>2, <2>1, <2>2, QuietStep
<1>11. CASE Sleep
  <2>1. /\ TypeOK' /\ Steady /\ turn'.now = turn.now /\ Unmoved(turn, turn')
        /\ turn.pc = "select" /\ queue' = queue /\ channel' = channel /\ given' = given
    BY <1>1, <1>11, SleepTypes DEF Sleep, ghosts
  <2>2. Accounts'
    BY <1>1, <1>2, <2>1, MovesNone
  <2>3. Emptied'
    BY <1>1, <2>1 DEF Emptied, Unmoved
  <2> QED BY <1>1, <1>2, <2>1, <2>2, <2>3, QuietStep
<1> QED BY <1>3, <1>4, <1>5, <1>6, <1>7, <1>8, <1>9, <1>10, <1>11

\* admit: a job that starts has no session yet, and finds its origin's delay over.
LEMMA AdmitInv ==
  ASSUME IInv, Admit
  PROVE  IInv'
<1>1. /\ TypeOK /\ Matched /\ Counted /\ Accounts /\ Emptied /\ Floored /\ clock \in Nat
      /\ turn.now <= clock
  BY DEF IInv, Accounts, TypeOK, Floored
<1>2. /\ TypeOK' /\ Accounts' /\ turn'.now = turn.now /\ turn'.moving = turn.moving
      /\ turn'.pc = turn.pc /\ UNCHANGED <<clock, asked>>
  BY <1>1, AdmitTypes, AdmitAccounts DEF Admit, ghosts
<1>3. Emptied'
  BY <1>1, <1>2 DEF Emptied
<1>4. CASE UNCHANGED <<active, tasks, used, origins>>
  BY <1>1, <1>2, <1>3, <1>4, NoneAdjusted, QuietStep
<1>5. ASSUME NEW e \in Entries, NEW t \in Slots \ Live, NEW grant \in 1 .. Connections,
             SessionsOf(e.id) = {}, Affordable(e, t, grant), Spawn(e, t, grant)
      PROVE  IInv'
  <2>1. Matched'
    BY <1>1, <1>5, SpawnMatched
  <2>2. Counted'
    BY <1>1, <1>5, SpawnCounted
  <2>3. Floored'
    <3> DEFINE p == OriginOf[e.id]
    <3>1. p \in Origins /\ grant \in Nat /\ origins \in [Origins -> Governed]
      <4>1. e.id \in Jobs
        BY DEF Entries
      <4> QED BY <1>1, <4>1, SchedulerAssumption DEF TypeOK
    <3>2. origins' = [origins EXCEPT ![p] = Granted(@, grant)]
      BY <1>5 DEF Spawn
    <3>3. Granted(origins[p], grant).floor_until = origins[p].floor_until
      BY <3>1, GrantedOK
    <3> HIDE DEF p
    <3>4. \A o \in Origins : origins'[o].floor_until = origins[o].floor_until
      BY <3>1, <3>2, <3>3
    <3> QED BY <1>1, <1>2, <3>4 DEF Floored
  <2> QED BY <1>2, <1>3, <2>1, <2>2, <2>3 DEF IInv, Accounts
<1>6. CASE \E t \in Slots \ Live, grant \in 1 .. Connections :
             /\ Affordable(Head(queue.ready), t, grant)
             /\ Spawn(Head(queue.ready), t, grant)
  <2>1. PICK e \in Entries : e = Head(queue.ready)
    BY <1>1, AdmitTypes
  <2>2. SessionsOf(e.id) = {}
    BY <1>1, <2>1, AdmitAccounts
  <2>3. PICK t \in Slots \ Live, grant \in 1 .. Connections :
          Affordable(e, t, grant) /\ Spawn(e, t, grant)
    BY <1>6, <2>1
  <2> QED BY <1>5, <2>2, <2>3
<1> QED BY <1>1, <1>4, <1>6, AdmitTypes

\* finish: the grant goes back to both books, and the delay of the origin stays.
LEMMA JoinInv ==
  ASSUME IInv, Join
  PROVE  IInv'
<1>1. /\ TypeOK /\ Matched /\ Counted /\ Accounts /\ Emptied /\ Floored /\ clock \in Nat
      /\ turn.now <= clock
  BY DEF IInv, Accounts, TypeOK, Floored
<1>2. PICK t \in Slots : Joined(t)
  BY <1>1, JoinEffect
<1>3. /\ TypeOK' /\ Unmoved(turn, turn') /\ turn'.now = turn.now /\ Accounts' /\ Matched'
      /\ Counted' /\ turn.pc = "select" /\ UNCHANGED <<clock, asked>>
  BY <1>1, <1>2, JoinTypes, JoinAccounts, JoinMatched, JoinCounted DEF Join, ghosts
<1>4. Emptied'
  BY <1>1, <1>3 DEF Emptied, Unmoved
<1>5. Floored'
  <2>1. \A o \in Origins : Kept(origins[o], origins'[o], clock)
    BY <1>2 DEF Joined
  <2>2. \A o \in Origins : origins[o].floor_until \in Int /\ asked[o] \in Int
    BY <1>1 DEF TypeOK, Governed
  <2> QED BY <1>1, <1>3, <2>1, <2>2 DEF Floored, Kept
<1> QED BY <1>3, <1>4, <1>5 DEF IInv, Accounts

\* The sessions, the senders and the clock.
LEMMA OthersInv ==
  ASSUME IInv,
         \/ \E t \in Slots : Report(t) \/ Obey(t) \/ EndSession(t) \/ Return(t)
         \/ Send \/ Hangup \/ Tick
  PROVE  IInv'
<1>1. /\ TypeOK /\ Matched /\ Counted /\ Accounts /\ Emptied /\ Floored /\ clock \in Nat
      /\ turn.now <= clock /\ turn.now \in Nat
  BY TurnFields DEF IInv, Accounts, TypeOK, Floored
<1>2. ASSUME NEW t \in Slots, Report(t) PROVE IInv'
  <2>1. /\ TypeOK' /\ Floored' /\ Steady
        /\ \A o \in Origins : origins'[o].in_flight = origins[o].in_flight
    BY <1>1, <1>2, ReportTypes
  <2>2. UNCHANGED <<turn, queue, active, used, channel, given>>
    BY <1>2 DEF Report, loop
  <2>3. Accounts'
    BY <1>1, <2>1, <2>2, MovesNone DEF Unmoved
  <2>4. Matched' /\ Counted' /\ Emptied'
    BY <1>1, <2>1, <2>2, SteadyMatched, SteadyCounted DEF Emptied
  <2> QED BY <2>1, <2>3, <2>4 DEF IInv, Accounts
<1>3. ASSUME NEW t \in Slots, Obey(t) \/ EndSession(t) \/ Return(t) PROVE IInv'
  <2>1. /\ TypeOK' /\ Steady
        /\ UNCHANGED <<clock, origins, channel, given, asked, turn, queue, active, used>>
    BY <1>1, <1>3, SessionTypes
  <2>2. Accounts'
    BY <1>1, <2>1, MovesNone DEF Unmoved
  <2>3. Emptied' /\ clock' >= clock /\ turn'.now <= clock'
    BY <1>1, <2>1 DEF Emptied
  <2> QED BY <2>1, <2>2, <2>3, QuietStep
<1>4. CASE Send \/ Hangup \/ Tick
  <2>1. /\ TypeOK' /\ Steady /\ UNCHANGED <<origins, asked, turn, active, used>>
        /\ clock' \in Nat /\ clock' >= clock
    BY <1>1, <1>4, SenderTypes
  <2>2. Accounts'
    BY <1>1, <1>4, SenderAccounts
  <2>3. Emptied' /\ turn'.now <= clock'
    BY <1>1, <2>1 DEF Emptied
  <2> QED BY <2>1, <2>2, <2>3, QuietStep
<1> QED BY <1>2, <1>3, <1>4

\* A step that changes nothing.
LEMMA StutterInv ==
  ASSUME IInv, UNCHANGED vars
  PROVE  IInv'
<1>1. UNCHANGED <<clock, turn, queue, active, tasks, deferred, used, flags, origins, channel,
                  given, asked>>
  BY DEF vars
<1>2. TypeOK'
  BY <1>1 DEF IInv, TypeOK
<1>3. /\ TypeOK /\ Matched /\ Accounts /\ Emptied /\ Floored /\ clock \in Nat
      /\ turn.now <= clock
  BY DEF IInv, Accounts, TypeOK, Floored
<1>4. Steady /\ Unmoved(turn, turn')
  BY <1>1, NoneAdjusted DEF Unmoved
<1>5. Accounts'
  BY <1>1, <1>2, <1>3, <1>4, MovesNone
<1>6. Emptied' /\ clock' >= clock /\ turn'.now <= clock'
  BY <1>1, <1>3 DEF Emptied
<1> QED BY <1>1, <1>2, <1>4, <1>5, <1>6, QuietStep

\* Every step keeps it.
LEMMA NextInv ==
  ASSUME IInv, [Next]_vars
  PROVE  IInv'
<1>1. CASE Turn
  BY <1>1, TurnInv, AdmitInv, JoinInv DEF Turn
<1>2. CASE \/ \E t \in Slots : Report(t) \/ Obey(t) \/ EndSession(t) \/ Return(t)
           \/ Send \/ Hangup \/ Tick
  BY <1>2, OthersInv
<1>3. CASE UNCHANGED vars
  BY <1>3, StutterInv
<1> QED BY <1>1, <1>2, <1>3 DEF Next

\* The books of the loop, of the governor and of what was given agree at every moment.
THEOREM Inductive == Spec => []IInv
<1>1. Init => IInv
  BY InitInv
<1>2. IInv /\ [Next]_vars => IInv'
  BY NextInv
<1> QED BY <1>1, <1>2, PTL DEF Spec

-----------------------------------------------------------------------------
(***************************************************************************)
(* The properties.                                                         *)
(***************************************************************************)

\* scheduler.rs, admit and finish: the loop and the governor count the connections that
\* the sessions have, neither passes its ceiling, and no job has two sessions.
THEOREM GrantsAreAlwaysCounted == Spec => []GrantsAreCounted
<1>1. IInv => GrantsAreCounted
  BY DEF IInv, Counted, Matched, GrantsAreCounted
<1> QED BY <1>1, Inductive, PTL

\* Of a job, the five lists hold what each of them holds.
LEMMA FiveLists ==
  ASSUME NEW a \in Seq(Entries), NEW b \in Seq(Entries), NEW c \in Seq(Entries),
         NEW d \in Seq(Entries), NEW e \in Seq(Entries), NEW K
  PROVE  /\ Count(a \o b \o c \o d \o e, K)
              = Count(a, K) + Count(b, K) + Count(c, K) + Count(d, K) + Count(e, K)
         /\ Count(a, K) \in Nat /\ Count(b, K) \in Nat /\ Count(c, K) \in Nat
         /\ Count(d, K) \in Nat /\ Count(e, K) \in Nat
<1> DEFINE x == a \o b
           y == x \o c
           z == y \o d
<1>1. x \in Seq(Entries)
  OBVIOUS
<1>2. Count(x, K) = Count(a, K) + Count(b, K)
  BY CountConcat
<1> HIDE DEF x
<1>3. y \in Seq(Entries)
  BY <1>1
<1>4. Count(y, K) = Count(x, K) + Count(c, K)
  BY <1>1, CountConcat
<1> HIDE DEF y
<1>5. z \in Seq(Entries)
  BY <1>3
<1>6. Count(z, K) = Count(y, K) + Count(d, K)
  BY <1>3, CountConcat
<1> HIDE DEF z
<1>7. Count(z \o e, K) = Count(z, K) + Count(e, K)
  BY <1>5, CountConcat
<1>8. /\ Count(a, K) \in Nat /\ Count(b, K) \in Nat /\ Count(c, K) \in Nat
      /\ Count(d, K) \in Nat /\ Count(e, K) \in Nat
  BY CountNat
<1>9. z \o e = a \o b \o c \o d \o e
  BY DEF x, y, z
<1> QED BY <1>2, <1>4, <1>6, <1>7, <1>8, <1>9

\* scheduler.rs, run: a job that was given is in exactly one place, or has its outcome.
THEOREM EveryJobComesBackOnce == Spec => []ComesBackOnce
<1>1. IInv => ComesBackOnce
  <2> SUFFICES ASSUME IInv, NEW id \in Jobs
               PROVE  given[id] =
                        queue.done[id]
                        + Count(queue.ready \o queue.waiting \o turn.moving \o turn.skipped
                                \o turn.batch, Of(id))
                        + Cardinality({t \in Live : tasks[t].id = id})
                        + Count(channel.sent, Handing(id))
    BY DEF ComesBackOnce
  <2>1. /\ queue.ready \in Seq(Entries) /\ queue.waiting \in Seq(Entries)
        /\ turn.moving \in Seq(Entries) /\ turn.skipped \in Seq(Entries)
        /\ turn.batch \in Seq(Entries)
    BY TurnFields DEF IInv, TypeOK, Queues
  <2> DEFINE a == Count(queue.ready, Of(id))
             b == Count(queue.waiting, Of(id))
             c == Count(turn.moving, Of(id))
             d == Count(turn.skipped, Of(id))
             e == Count(turn.batch, Of(id))
             s == Cardinality(SessionsOf(id))
             h == Count(channel.sent, Handing(id))
             all == Count(queue.ready \o queue.waiting \o turn.moving \o turn.skipped
                          \o turn.batch, Of(id))
  <2>2. all = a + b + c + d + e /\ a \in Nat /\ b \in Nat /\ c \in Nat /\ d \in Nat /\ e \in Nat
    <3> DEFINE K == Of(id)
               sa == queue.ready
               sb == queue.waiting
               sc == turn.moving
               sd == turn.skipped
               se == turn.batch
    <3>1. /\ sa \in Seq(Entries) /\ sb \in Seq(Entries) /\ sc \in Seq(Entries)
          /\ sd \in Seq(Entries) /\ se \in Seq(Entries)
      BY <2>1
    <3> HIDE DEF sa, sb, sc, sd, se, K
    <3>2. /\ Count(sa \o sb \o sc \o sd \o se, K)
               = Count(sa, K) + Count(sb, K) + Count(sc, K) + Count(sd, K) + Count(se, K)
          /\ Count(sa, K) \in Nat /\ Count(sb, K) \in Nat /\ Count(sc, K) \in Nat
          /\ Count(sd, K) \in Nat /\ Count(se, K) \in Nat
      BY <3>1, FiveLists
    <3> QED BY <3>2 DEF sa, sb, sc, sd, se, K
  <2>3. s \in Nat /\ h \in Nat /\ queue.done[id] \in Nat
    BY Numbers DEF IInv
  <2>4. given[id] = queue.done[id] + (a + b + c + d + s + h) + e
    BY DEF IInv, Balanced, Places
  <2>5. s = Cardinality({t \in Live : tasks[t].id = id})
    BY DEF SessionsOf
  <2> HIDE DEF a, b, c, d, e, s, h, all
  <2>6. given[id] = queue.done[id] + all + s + h
    BY <2>2, <2>3, <2>4
  <2> QED BY <2>5, <2>6 DEF all, h
<1> QED BY <1>1, Inductive, PTL

\* origin.rs, admit: no session starts before the delay that its server asked for is over.
THEOREM DelaysAreAlwaysObserved == Spec => DelaysAreObserved
<1> DEFINE Observed == \A t \in Slots : tasks[t] = NoTask /\ tasks'[t] # NoTask =>
                         clock >= asked[OriginOf[tasks'[t].id]]
<1>1. ASSUME IInv, [Next]_vars
      PROVE  Observed
  <2>1. TypeOK /\ Matched /\ Accounts /\ Counted /\ Floored
    BY <1>1 DEF IInv, Accounts
  <2>2. CASE Live' \subseteq Live
    BY <2>2 DEF Live
  <2>3. CASE Admit
    <3>1. CASE tasks' = tasks
      BY <3>1
    <3>2. CASE \E t \in Slots \ Live, grant \in 1 .. Connections :
                 /\ Affordable(Head(queue.ready), t, grant)
                 /\ Spawn(Head(queue.ready), t, grant)
      <4>1. PICK e \in Entries : e = Head(queue.ready)
        BY <2>1, <2>3, AdmitTypes
      <4>2. SessionsOf(e.id) = {}
        BY <2>1, <2>3, <4>1, AdmitAccounts
      <4>3. PICK t \in Slots \ Live, grant \in 1 .. Connections :
              Affordable(e, t, grant) /\ Spawn(e, t, grant)
        BY <3>2, <4>1
      <4>4. Live' = Live \cup {t} /\ tasks'[t].id = e.id
        BY <2>1, <4>2, <4>3, SpawnMatched
      <4>5. OriginOf[e.id] \in Origins
        <5>1. e.id \in Jobs
          BY DEF Entries
        <5> QED BY <5>1, SchedulerAssumption
      <4>6. clock >= asked[OriginOf[e.id]]
        <5> DEFINE p == OriginOf[e.id]
        <5>1. /\ origins[p].floor_until \in Int /\ asked[p] \in Int /\ clock \in Nat
              /\ turn.now \in Nat
          BY <2>1, <4>5, Fields, TurnFields DEF TypeOK
        <5>2. origins[p].floor_until <= turn.now
          BY <4>3 DEF Affordable
        <5>3. turn.now <= clock /\ (asked[p] <= origins[p].floor_until \/ asked[p] <= clock)
          BY <2>1, <4>5 DEF Floored
        <5> HIDE DEF p
        <5>4. clock >= asked[p]
          BY <5>1, <5>2, <5>3
        <5> QED BY <5>4 DEF p
      <4> QED BY <4>4, <4>6 DEF Live
    <3> QED BY <2>1, <2>3, <3>1, <3>2, AdmitTypes
  <2>4. CASE Join
    <3>1. PICK t \in Slots : Joined(t)
      BY <2>1, <2>4, JoinEffect
    <3>2. Live' = Live \ {t}
      BY <2>1, <3>1, JoinMatched
    <3> QED BY <2>2, <3>2
  <2>5. CASE \/ Intake \/ Promote \/ Move \/ ReadClock \/ AdmitDone \/ Decide
             \/ UNCHANGED vars
    <3>1. tasks' = tasks
      BY <2>5 DEF Intake, Promote, Move, ReadClock, AdmitDone, Decide, vars
    <3> QED BY <3>1
  <2>6. CASE \/ Deliver \/ OnCommand \/ Sleep \/ Send \/ Hangup \/ Tick
             \/ \E t \in Slots : Report(t) \/ Obey(t) \/ EndSession(t) \/ Return(t)
    <3>1. Steady
      BY <2>1, <2>6, DeliverTypes, OnCommandTypes, SleepTypes, SenderTypes, ReportTypes, SessionTypes
    <3> QED BY <2>2, <3>1 DEF Steady
  <2> QED BY <1>1, <2>3, <2>4, <2>5, <2>6 DEF Next, Turn
<1>2. IInv /\ [Next]_vars => [Observed]_vars
  BY <1>1
<1> QED BY <1>2, Inductive, PTL DEF Spec, DelaysAreObserved
=============================================================================
