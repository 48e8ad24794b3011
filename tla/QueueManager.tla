---------------------------- MODULE QueueManager ----------------------------
(***************************************************************************)
(* The download manager of crates/download-engine/src/manager.rs with its  *)
(* encrypted snapshot (queue_store.rs) and the inbox of proposals in front *)
(* of it (intake.rs).  One actor owns every job: it takes one command or   *)
(* one finished worker, saves the whole queue, answers, and starts what is *)
(* eligible.  A save may fail, and fail with the snapshot stored; a crash  *)
(* ends the process between any two steps.                                 *)
(*                                                                         *)
(* A refused command changes nothing, so that only the accepted ones are   *)
(* actions here.  What a worker does to its own directory is Transfer.     *)
(***************************************************************************)
EXTENDS Integers, Sequences, FiniteSets, SequencesExt

CONSTANTS
  Requests,      \* [key, proposed, prio, dir, origin, url, digest, sound]: see below
  Links,         \* what a link may be refreshed to: [raw, normal]
  Priorities, Rates,
  MaxActive, MaxJobs, MaxPerOrigin, MaxAttempts, MaxReceipts, MaxPending,  \* Config
  MaxUrl, MaxBytes, MaxRate,                                               \* limits of options
  MaxCommands, MaxFaults, MaxOpens, MaxIds                                 \* bounds

\* A request: key 0 asks without an idempotency key; url is the length of the link's text as
\* it was given; digest tells whether a SHA-256 was given, and sound whether its policy, its
\* name and its sizes pass validate_options (they never change).  Every request allows
\* MaxBytes.  A link of Links has the origin and the path of every request; raw is the length
\* of the text asked for, normal that of the text the parsed link prints.
ASSUME QueueAssumption ==
  /\ {MaxActive, MaxJobs, MaxPerOrigin, MaxAttempts} \subseteq Nat \ {0}
  /\ {MaxReceipts, MaxPending, MaxCommands, MaxFaults, MaxOpens, MaxIds} \subseteq Nat
  /\ {MaxUrl, MaxBytes, MaxRate} \subseteq Nat
ASSUME RequestAssumption ==
  /\ \A r \in Requests : r.prio \in Priorities /\ r.url \in Nat
  /\ \A l \in Links : {l.raw, l.normal} \subseteq Nat

\* No link is too long once it is normalised that was not too long as it was given.  The
\* code does not see to it: percent-encoding makes a text longer.
LinksFit == \A l \in Links : l.raw <= MaxUrl => l.normal <= MaxUrl

VARIABLES
  disk,      \* <<>> or <<snapshot>>: queue_snapshot
  actor,     \* the actor's state: see Down
  workers,   \* [id, cancel]: the join set, until a result is taken from it
  inbox,     \* the proposals, in the order they came
  accepted,  \* the requests with a key that were answered with a job: [req, id]
  told,      \* the answer given in the last step
  progress,  \* the bytes of each job, a counter its worker writes and the actor reads
  column,    \* the same, as the stored snapshot has it
  budget

vars == <<disk, actor, workers, inbox, accepted, told, progress, column, budget>>

-----------------------------------------------------------------------------
Silence == [op |-> "none", id |-> 0, ok |-> FALSE]
Down ==
  [pc |-> "down", jobs |-> <<>>, queue |-> <<>>, last |-> 0, receipts |-> {}, rate |-> 0,
   live |-> {}, open |-> FALSE, closing |-> FALSE, failure |-> FALSE, dirty |-> FALSE,
   ack |-> Silence, asked |-> {}]
Nothing == [id \in 1 .. MaxIds |-> 0]

Init ==
  /\ disk = <<>> /\ actor = Down /\ workers = {} /\ inbox = <<>>
  /\ accepted = {} /\ told = Silence /\ progress = Nothing /\ column = Nothing
  /\ budget = [commands |-> MaxCommands, faults |-> MaxFaults, opens |-> MaxOpens]

Spend(what) == budget[what] > 0 /\ budget' = [budget EXCEPT ![what] = @ - 1]
Quiet       == told' = Silence

\* What a filter leaves of a sequence: the entries at some positions, in their order.
\* (SelectSeq says the same, by a recursion that proofs cannot follow.)
Nth(I, k) == CHOOSE i \in I : Cardinality({j \in I : j <= i}) = k
At(s, I)  == [k \in 1 .. Cardinality(I) |-> s[Nth(I, k)]]

Names(jobs)        == [i \in DOMAIN jobs |-> jobs[i].id]
Ids(jobs)          == ToSet(Names(jobs))
Pos(jobs, id)      == CHOOSE i \in DOMAIN jobs : jobs[i].id = id
Job(jobs, id)      == jobs[Pos(jobs, id)]
Put(jobs, j)       == [jobs EXCEPT ![Pos(jobs, j.id)] = j]
Without(queue, id) == At(queue, {i \in DOMAIN queue : queue[i] # id})
Busy(j)            == j.state \in {"Running", "Pausing"}

-----------------------------------------------------------------------------
(***************************************************************************)
(* The snapshot: what encode writes and decode accepts.                    *)
(***************************************************************************)
SavedJob(j) ==
  [id |-> j.id, req |-> j.req, prio |-> j.prio, state |-> j.state, attempts |-> j.attempts,
   rate |-> j.rate, link |-> j.link]
Snapshot(a) ==
  [jobs |-> [i \in DOMAIN a.jobs |-> SavedJob(a.jobs[i])], queue |-> a.queue, last |-> a.last,
   receipts |-> a.receipts, rate |-> a.rate]

\* The bounds of the options a job carries: valid_limit (0 is none), the text of the link,
\* and what else validate_options and RequestPolicy::new ask of a request.
ValidLimit(rate) == rate \in 0 .. MaxRate
ValidLink(url)   == url <= MaxUrl

\* decode, what it asks of each job's own columns and of how the parts fit together.
Readable(j, bytes) == ValidLink(j.link) /\ j.req.sound /\ bytes <= MaxBytes
Consistent(s) ==
  /\ Len(s.jobs) <= MaxJobs /\ IsInjective(Names(s.jobs))
  /\ \A i \in DOMAIN s.jobs : s.jobs[i].attempts <= MaxAttempts
  /\ Len(s.queue) <= Len(s.jobs) /\ IsInjective(s.queue) /\ ToSet(s.queue) \subseteq Ids(s.jobs)
  /\ Cardinality(s.receipts) <= MaxReceipts
  /\ \A p, q \in s.receipts : p.key = q.key \/ p.id = q.id => p = q
  /\ \A p \in s.receipts : p.removed = (p.id \notin Ids(s.jobs)) /\ p.id <= s.last
  /\ \A i \in DOMAIN s.jobs : s.jobs[i].id <= s.last
Decodes(s, bytes) ==
  /\ ValidLimit(s.rate) /\ Consistent(s)
  /\ \A i \in DOMAIN s.jobs : Readable(s.jobs[i], bytes[s.jobs[i].id])

\* Manager::open goes on to validate_options, and to the directories, each for one job (that
\* they still resolve, and to the same paths, is the file system's part).
Apart(jobs) == \A i, k \in DOMAIN jobs : jobs[i].req.dir = jobs[k].req.dir => i = k
Opens(s, bytes) ==
  /\ Decodes(s, bytes) /\ Apart(s.jobs)
  /\ \A i \in DOMAIN s.jobs : ValidLimit(s.jobs[i].rate)

\* The limits in force: the global one, and each job's.
Limits(s) == {<<0, s.rate>>} \cup {<<id, Job(s.jobs, id).rate>> : id \in Ids(s.jobs)}

\* save_state: stored and acknowledged, or an error whatever was stored.
SaveOk(a)  == disk' = <<Snapshot(a)>> /\ column' = progress /\ UNCHANGED budget
SaveErr(a) ==
  /\ \/ UNCHANGED <<disk, column>>
     \/ disk' = <<Snapshot(a)>> /\ column' = progress
  /\ Spend("faults")

-----------------------------------------------------------------------------
(***************************************************************************)
(* Manager::open and launch: jobs in the order of the queue, none at work. *)
(***************************************************************************)
\* Mutant: a job goes on where it was.
RecoveredAsSaved(state) == IF state = "Running" THEN "Queued" ELSE state
Recovered(state) == IF state \in {"Completed", "Failed", "Paused"} THEN state ELSE "Paused"

Reopened(s) == [id |-> s.id, req |-> s.req, prio |-> s.prio, state |-> Recovered(s.state),
                attempts |-> s.attempts, rate |-> s.rate, link |-> s.link, due |-> FALSE,
                waiting |-> FALSE]

Unranked(jobs, queue) == {i \in DOMAIN jobs : jobs[i].id \notin ToSet(queue)}
ByRank(s) == s.queue \o At(Names(s.jobs), Unranked(s.jobs, s.queue))

Launched(s) ==
  [Down EXCEPT !.pc = "top",
     !.jobs = [i \in DOMAIN ByRank(s) |-> Reopened(Job(s.jobs, ByRank(s)[i]))],
     !.queue = ByRank(s), !.last = s.last, !.receipts = s.receipts, !.rate = s.rate,
     !.live = Limits(s), !.open = TRUE, !.dirty = TRUE]

Open ==
  /\ actor = Down /\ Spend("opens")
  /\ LET saved == IF disk = <<>> THEN Snapshot(Down) ELSE disk[1] IN
     /\ Opens(saved, column)
     /\ disk' = <<saved>> /\ actor' = Launched(saved) /\ progress' = column
  /\ Quiet /\ UNCHANGED <<workers, inbox, accepted, column>>

-----------------------------------------------------------------------------
(***************************************************************************)
(* The loop of run up to its select.                                       *)
(***************************************************************************)
\* stop: the order of the queue is kept for the next time.
Stopped(j) ==
  CASE j.state \in {"Queued", "RetryWaiting"} -> [j EXCEPT !.state = "Paused", !.due = FALSE]
    [] j.state = "Running" -> [j EXCEPT !.state = "Pausing"]
    [] OTHER -> j
Stop(a) == [a EXCEPT !.closing = TRUE, !.jobs = [i \in DOMAIN @ |-> Stopped(@[i])]]
CancelAll(a) == {[w EXCEPT !.cancel = @ \/ Job(a.jobs, w.id).state = "Running"] : w \in workers}

HungUp(a)  == IF a.open \/ a.closing THEN a ELSE [Stop(a) EXCEPT !.dirty = TRUE]
Failing(a) == [Stop(a) EXCEPT !.failure = TRUE, !.open = FALSE]

\* The retries whose time has come go to the end of the queue.
Due(j)    == j.state = "RetryWaiting" /\ j.due
Again(j)  == IF Due(j) THEN [j EXCEPT !.state = "Queued", !.due = FALSE] ELSE j
DueIn(jobs) == {i \in DOMAIN jobs : Due(jobs[i])}
Promoted(a) ==
  IF a.closing \/ DueIn(a.jobs) = {} THEN a
  ELSE [a EXCEPT !.queue = @ \o At(Names(a.jobs), DueIn(a.jobs)), !.dirty = TRUE,
          !.jobs = [i \in DOMAIN @ |-> Again(@[i])]]

\* Mutant: the answer does not ask how the save went.
AnswerDone(a) == IF a.ack = Silence THEN Silence ELSE [a.ack EXCEPT !.ok = TRUE]
Answer(a)     == IF a.ack = Silence THEN Silence ELSE [a.ack EXCEPT !.ok = ~a.failure]

\* An answered enqueue is a promise; the inbox forgets the proposal it came from.
Promises(reply, jobs) ==
  accepted \cup {[req |-> j.req, id |-> j.id] :
    j \in {k \in ToSet(jobs) : reply.op = "Enqueue" /\ reply.ok /\ k.id = reply.id /\ k.req.key # 0}}
Remaining(reply, jobs) ==
  At(inbox, {i \in DOMAIN inbox : [req |-> inbox[i], id |-> reply.id] \notin Promises(reply, jobs)})

\* next_eligible: the first of the highest priority whose origin has room.
BusyAt(jobs, origin) == {id \in Ids(jobs) : Busy(Job(jobs, id)) /\ Job(jobs, id).req.origin = origin}
Active(a, origin)    == Cardinality(BusyAt(a.jobs, origin))
Eligible(a) ==
  {i \in DOMAIN a.queue :
     LET j == Job(a.jobs, a.queue[i])
     IN  j.state = "Queued" /\ Active(a, j.req.origin) < MaxPerOrigin}
NextEligible(a) ==
  {i \in Eligible(a) : \A k \in Eligible(a) :
     LET pi == Job(a.jobs, a.queue[i]).prio
         pk == Job(a.jobs, a.queue[k]).prio
     IN  pi > pk \/ (pi = pk /\ i <= k)}

\* How the loop goes on: another start, the end, or the select.
CanStart(a, ws) == ~a.closing /\ Cardinality(ws) < MaxActive /\ Eligible(a) # {}
Onward(a, ws) ==
  [a EXCEPT !.pc = IF CanStart(a, ws) THEN "start"
                   ELSE IF a.closing /\ ws = {} THEN "end" ELSE "select"]

Turn ==
  /\ actor.pc = "top"
  /\ LET a == Promoted(HungUp(actor)) IN
     \E b \in {a, Failing(a)} :
       /\ IF ~a.dirty \/ a.failure THEN b = a /\ UNCHANGED <<disk, column, budget>>
          ELSE IF b = a THEN SaveOk(a) ELSE SaveErr(a)
       /\ workers' = IF b.closing THEN CancelAll(actor) ELSE workers
       /\ actor' = Onward([b EXCEPT !.ack = Silence, !.dirty = @ /\ a.failure,
                             !.live = IF a.dirty /\ ~b.failure THEN Limits(a) ELSE @], workers)
       /\ told' = Answer(b)
       /\ accepted' = Promises(Answer(b), b.jobs) /\ inbox' = Remaining(Answer(b), b.jobs)
  /\ UNCHANGED progress

Begun(j) == [j EXCEPT !.state = "Running", !.attempts = @ + 1]
Started(a, i) ==
  [a EXCEPT !.jobs = Put(@, Begun(Job(@, a.queue[i]))), !.queue = RemoveAt(@, i)]

\* No worker exists for the job that was being started.
Unstarted(a, id) == [a EXCEPT !.jobs = Put(@, [Job(@, id) EXCEPT !.state = "Paused"])]

Start ==
  /\ actor.pc = "start"
  /\ \E i \in NextEligible(actor) :
     LET a  == Started(actor, i)
         id == actor.queue[i] IN
     \/ /\ SaveErr(a) /\ workers' = CancelAll(actor)
        /\ actor' = Onward(Unstarted(Failing(a), id), workers)
     \/ /\ SaveOk(a) /\ ~a.open /\ workers' = CancelAll(actor)
        /\ actor' = Onward(Unstarted([Stop(a) EXCEPT !.dirty = TRUE], id), workers)
     \/ /\ SaveOk(a) /\ a.open /\ workers' = workers \cup {[id |-> id, cancel |-> FALSE]}
        /\ actor' = Onward(a, workers')
  /\ Quiet /\ UNCHANGED <<inbox, accepted, progress>>

\* The last save, and the end of the actor.
Finish ==
  /\ actor.pc = "end"
  /\ \/ (~actor.dirty \/ actor.failure) /\ UNCHANGED <<disk, column, budget>>
     \/ actor.dirty /\ ~actor.failure /\ (SaveOk(actor) \/ SaveErr(actor))
  /\ actor' = Down /\ progress' = Nothing
  /\ Quiet /\ UNCHANGED <<workers, inbox, accepted>>

-----------------------------------------------------------------------------
(***************************************************************************)
(* The select: a finished worker, a command, the end of the commands, or   *)
(* the tick, which matters when a retry is due.                            *)
(***************************************************************************)
\* finish, and the retry of what may be tried again.
Retries(j, result) ==
  /\ ~actor.closing /\ j.state = "Running" /\ j.attempts < MaxAttempts /\ result = "network"
Ended(j, result) ==
  [j EXCEPT !.waiting = FALSE,
     !.state = CASE result = "done" -> "Completed"
                 [] result = "cancelled" /\ j.state = "Pausing" -> "Paused"
                 [] Retries(j, result) -> "RetryWaiting"
                 [] OTHER -> "Failed"]

\* Any outcome of the worker; cancelled only if it was told to.
Results(w) == {"done", "network", "fatal"} \cup (IF w.cancel THEN {"cancelled"} ELSE {})

Join(w, result) ==
  /\ actor.pc = "select"
  /\ workers' = workers \ {w}
  /\ LET j == Job(actor.jobs, w.id)
         e == Ended(j, result)
         Reply == [op |-> "Pause", id |-> w.id, ok |-> FALSE] IN
     /\ actor' = [actor EXCEPT !.pc = "top", !.dirty = TRUE, !.jobs = Put(@, e),
                    !.ack = IF j.waiting /\ e.state # "Failed" THEN Reply ELSE @]
     /\ told' = IF j.waiting /\ e.state = "Failed" THEN Reply ELSE Silence
  /\ \E bytes \in 0 .. MaxBytes :
       progress' = IF result = "done" THEN [progress EXCEPT ![w.id] = bytes] ELSE progress
  /\ UNCHANGED <<disk, column, inbox, accepted, budget>>

\* A checkpoint of a worker: the transfer refuses what is larger than the request allows.
Report(w) ==
  /\ \E bytes \in 0 .. MaxBytes : progress' = [progress EXCEPT ![w.id] = bytes]
  /\ Quiet /\ UNCHANGED <<disk, column, actor, workers, inbox, accepted, budget>>

\* What every accepted command does: it marks the state and leaves its answer behind.
Receive(op, id, a) ==
  /\ actor.pc = "select" /\ ~actor.closing /\ Spend("commands")
  /\ actor' = [a EXCEPT !.pc = "top", !.dirty = TRUE, !.ack = [op |-> op, id |-> id, ok |-> FALSE]]
  /\ Quiet /\ UNCHANGED <<disk, column, inbox, accepted>>

NewJob(id, r) ==
  [id |-> id, req |-> r, prio |-> r.prio, state |-> "Queued", attempts |-> 0, rate |-> 0,
   link |-> r.url, due |-> FALSE, waiting |-> FALSE]
ReceiptOf(r) == {p \in actor.receipts : p.key = r.key}

\* Inbox::approve asks with the key of its proposal.
Stands(r) == r.proposed => Contains(inbox, r)

Enqueue(r) ==
  /\ Stands(r) /\ r.sound /\ ValidLink(r.url)
  /\ r.key # 0 => ReceiptOf(r) = {} /\ Cardinality(actor.receipts) < MaxReceipts
  /\ Len(actor.jobs) < MaxJobs /\ actor.last < MaxIds
  /\ \A i \in DOMAIN actor.jobs : actor.jobs[i].req.dir # r.dir
  /\ LET id == actor.last + 1 IN
     Receive("Enqueue", id,
       [actor EXCEPT !.last = id, !.jobs = Append(@, NewJob(id, r)), !.queue = Append(@, id),
          !.asked = @ \cup {id},
          !.receipts = IF r.key = 0 THEN @
                       ELSE @ \cup {[key |-> r.key, req |-> r, id |-> id, removed |-> FALSE]}])
  /\ progress' = [progress EXCEPT ![actor.last + 1] = 0] /\ UNCHANGED workers

\* The same request again is the same job, at once; its receipt was saved before.
Replay(r) ==
  /\ actor.pc = "select" /\ ~actor.closing /\ r.key # 0 /\ Stands(r) /\ Spend("commands")
  /\ \E p \in ReceiptOf(r) :
       /\ p.req = r /\ ~p.removed
       /\ told' = [op |-> "Enqueue", id |-> p.id, ok |-> TRUE]
       /\ accepted' = accepted \cup {[req |-> r, id |-> p.id]}
  /\ inbox' = Without(inbox, r)
  /\ actor' = [actor EXCEPT !.pc = "top"]
  /\ UNCHANGED <<disk, column, workers, progress>>

Pause(id) ==
  /\ id \in Ids(actor.jobs)
  /\ LET j == Job(actor.jobs, id) IN
     /\ j.state \in {"Queued", "RetryWaiting", "Paused"}
     /\ Receive("Pause", id,
          [actor EXCEPT !.jobs = Put(@, [j EXCEPT !.state = "Paused", !.due = FALSE]),
             !.queue = IF j.state = "Paused" THEN @ ELSE Without(@, id)])
  /\ UNCHANGED <<workers, progress>>

\* Mutant: a pause does not wait for the worker.
PauseRunningAtOnce(id) ==
  /\ id \in Ids(actor.jobs) /\ Job(actor.jobs, id).state = "Running"
  /\ Receive("Pause", id, [actor EXCEPT !.jobs = Put(@, [Job(@, id) EXCEPT !.state = "Paused"])])
  /\ workers' = {[w EXCEPT !.cancel = @ \/ w.id = id] : w \in workers}
  /\ UNCHANGED progress

\* The answer waits for the worker.
PauseRunning(id) ==
  /\ id \in Ids(actor.jobs) /\ Job(actor.jobs, id).state = "Running"
  /\ actor.pc = "select" /\ ~actor.closing /\ Spend("commands")
  /\ actor' = [actor EXCEPT !.pc = "top", !.dirty = TRUE,
                 !.jobs = Put(@, [Job(@, id) EXCEPT !.state = "Pausing", !.waiting = TRUE])]
  /\ workers' = {[w EXCEPT !.cancel = @ \/ w.id = id] : w \in workers}
  /\ Quiet /\ UNCHANGED <<disk, column, inbox, accepted, progress>>

Resting(j) == j.state \in {"Paused", "Failed"}
Requeued(j) == [j EXCEPT !.state = "Queued", !.attempts = 0, !.due = FALSE]

\* Mutant: the place a recovered job has in the queue is not given up.
ResumeTwice(id) ==
  /\ id \in Ids(actor.jobs) /\ Resting(Job(actor.jobs, id))
  /\ Receive("Resume", id, [actor EXCEPT !.jobs = Put(@, Requeued(Job(@, id))),
                              !.queue = Append(@, id), !.asked = @ \cup {id}])
  /\ UNCHANGED <<workers, progress>>

Resume(id) ==
  /\ id \in Ids(actor.jobs) /\ Resting(Job(actor.jobs, id))
  /\ Receive("Resume", id, [actor EXCEPT !.jobs = Put(@, Requeued(Job(@, id))),
                              !.queue = Append(Without(@, id), id), !.asked = @ \cup {id}])
  /\ UNCHANGED <<workers, progress>>

\* In the order of the queue, and of the jobs where they have lost their place.
Lost(a) == {i \in Unranked(a.jobs, a.queue) : Resting(a.jobs[i])}

ResumeAll ==
  /\ Receive("ResumeAll", 0,
       [actor EXCEPT
          !.jobs = [i \in DOMAIN @ |-> IF Resting(@[i]) THEN Requeued(@[i]) ELSE @[i]],
          !.queue = @ \o At(Names(actor.jobs), Lost(actor)),
          !.asked = @ \cup {id \in Ids(actor.jobs) : Resting(Job(actor.jobs, id))}])
  /\ UNCHANGED <<workers, progress>>

\* Mutant: the receipts are left alone.
ForgetQuietly(id) ==
  /\ id \in Ids(actor.jobs) /\ ~Busy(Job(actor.jobs, id))
  /\ Receive("Forget", id, [actor EXCEPT !.jobs = RemoveAt(@, Pos(@, id)),
                                         !.queue = Without(@, id)])
  /\ UNCHANGED <<workers, progress>>

Forget(id) ==
  /\ id \in Ids(actor.jobs) /\ ~Busy(Job(actor.jobs, id))
  /\ Receive("Forget", id,
       [actor EXCEPT !.jobs = RemoveAt(@, Pos(@, id)), !.queue = Without(@, id),
          !.receipts = {IF p.id = id THEN [p EXCEPT !.removed = TRUE] ELSE p : p \in @}])
  /\ UNCHANGED <<workers, progress>>

\* A priority, a limit, a fresh link: settings of a job.
SetPriority(id, prio) ==
  /\ id \in Ids(actor.jobs) /\ Job(actor.jobs, id).state \in {"Queued", "Paused", "Failed", "RetryWaiting"}
  /\ Receive("SetPriority", id, [actor EXCEPT !.jobs = Put(@, [Job(@, id) EXCEPT !.prio = prio])])
  /\ UNCHANGED <<workers, progress>>

JobRate(id, rate) ==
  /\ id \in Ids(actor.jobs) /\ ValidLimit(rate)
  /\ Receive("JobRate", id, [actor EXCEPT !.jobs = Put(@, [Job(@, id) EXCEPT !.rate = rate])])
  /\ UNCHANGED <<workers, progress>>

\* The text asked for is parsed, and what the parsed link prints is stored.  Whether the
\* directory allows it (Transfer!RefreshUrl) may go either way.
Relinked(j, l) == [j EXCEPT !.state = "Paused", !.link = l.normal]
Refresh(id, l) ==
  /\ id \in Ids(actor.jobs)
  /\ LET j == Job(actor.jobs, id) IN
     Resting(j) /\ j.req.digest /\ ValidLink(j.link) /\ ValidLink(l.raw)
  /\ Receive("Refresh", id, [actor EXCEPT !.jobs = Put(@, Relinked(Job(@, id), l))])
  /\ UNCHANGED <<workers, progress>>

GlobalRate(rate) ==
  /\ ValidLimit(rate)
  /\ Receive("GlobalRate", 0, [actor EXCEPT !.rate = rate])
  /\ UNCHANGED <<workers, progress>>

Command ==
  \/ \E r \in Requests : Enqueue(r) \/ Replay(r)
  \/ \E id \in 1 .. MaxIds :
       \/ Pause(id) \/ PauseRunning(id) \/ Resume(id) \/ Forget(id)
       \/ \E l \in Links : Refresh(id, l)
       \/ \E p \in Priorities : SetPriority(id, p)
       \/ \E r \in Rates : JobRate(id, r)
  \/ ResumeAll
  \/ \E r \in Rates : GlobalRate(r)

EndOfCommands ==
  /\ actor.pc = "select" /\ ~actor.open /\ ~actor.closing
  /\ actor' = [Stop(actor) EXCEPT !.pc = "top", !.dirty = TRUE] /\ workers' = CancelAll(actor)
  /\ Quiet /\ UNCHANGED <<disk, column, progress, inbox, accepted, budget>>

Tick ==
  /\ actor.pc = "select" /\ Promoted(actor) # actor
  /\ actor' = [actor EXCEPT !.pc = "top"]
  /\ Quiet /\ UNCHANGED <<disk, column, progress, workers, inbox, accepted, budget>>

-----------------------------------------------------------------------------
(***************************************************************************)
(* The inbox, the clock, and the end of the process.                       *)
(***************************************************************************)
Propose(r) ==
  /\ r.proposed /\ Len(inbox) < MaxPending /\ \A i \in DOMAIN inbox : inbox[i].key # r.key
  /\ inbox' = Append(inbox, r) /\ Spend("commands")
  /\ Quiet /\ UNCHANGED <<disk, column, progress, actor, workers, accepted>>

\* Rejected, or too old.
Drop ==
  /\ inbox # <<>> /\ \E i \in DOMAIN inbox : inbox' = RemoveAt(inbox, i)
  /\ Quiet /\ UNCHANGED <<disk, column, progress, actor, workers, accepted, budget>>

\* The clock is read at every turn; what passes before the next one passes here.
Elapse ==
  /\ actor.pc = "select"
  /\ \E i \in DOMAIN actor.jobs :
       /\ actor.jobs[i].state = "RetryWaiting" /\ ~actor.jobs[i].due
       /\ actor' = [actor EXCEPT !.jobs[i].due = TRUE]
  /\ Quiet /\ UNCHANGED <<disk, column, progress, workers, inbox, accepted, budget>>

\* The handle is shut down or dropped.
HangUp ==
  /\ actor.pc # "down" /\ actor.open /\ actor' = [actor EXCEPT !.open = FALSE]
  /\ Quiet /\ UNCHANGED <<disk, column, progress, workers, inbox, accepted, budget>>

Crash ==
  /\ actor.pc # "down"
  /\ actor' = Down /\ workers' = {} /\ inbox' = <<>> /\ progress' = Nothing
  /\ Quiet /\ UNCHANGED <<disk, column, accepted, budget>>

Loop ==
  \/ Turn \/ Start \/ Finish \/ EndOfCommands \/ Tick
  \/ \E w \in workers : Report(w) \/ \E result \in Results(w) : Join(w, result)

Next ==
  \/ Open \/ Loop \/ Command
  \/ \E r \in Requests : Propose(r)
  \/ Drop \/ Elapse \/ HangUp \/ Crash

Spec == Init /\ [][Next]_vars

-----------------------------------------------------------------------------
(***************************************************************************)
(* Properties.                                                             *)
(***************************************************************************)
States == {"Queued", "Running", "Pausing", "Paused", "Completed", "Failed", "RetryWaiting"}

\* The loop is at one of its points, the inbox within its limit and every job in a state,
\* and a slot is taken by every job at work until its worker has been joined: no more
\* workers than the limits allow, in all and for an origin, and never two for one job.
TypeOK ==
  /\ actor.pc \in {"down", "top", "start", "select", "end"} /\ Len(inbox) <= MaxPending
  /\ \A i \in DOMAIN actor.jobs : actor.jobs[i].state \in States
  /\ \A w \in workers : w.id \in Ids(actor.jobs) /\ Busy(Job(actor.jobs, w.id))
  /\ \A j \in ToSet(actor.jobs) : Busy(j) => Cardinality({w \in workers : w.id = j.id}) = 1
  /\ Cardinality(workers) <= MaxActive
  /\ \A r \in Requests : Active(actor, r.origin) <= MaxPerOrigin

\* Whatever was saved, at whatever point of the loop, passes the checks of decode and of
\* Manager::open: no job twice in the queue, none in it that is gone, no receipt at odds with
\* its job, no two jobs in one directory, no link, limit or progress out of its bounds.  It
\* holds while no refreshed link outgrows the bound when it is normalised (LinksFit): the
\* bound is on the text as it was given (Manager::open's is on the text stored).
SavedOpens == disk # <<>> => Opens(disk[1], column)

\* When a command is answered with success, the database holds what the memory holds and
\* the limits in force are the saved ones; a paused job has no worker any more.
AnswersAreDurable ==
  told.ok =>
    /\ disk = <<Snapshot(actor)>> /\ actor.live = Limits(disk[1])
    /\ told.op = "Pause" =>
         /\ \A w \in workers : w.id # told.id
         /\ Job(actor.jobs, told.id).state \in {"Paused", "Completed"}

\* A request that was answered with a job is that job for good: its receipt outlives
\* crashes and the job itself, and no other request is answered with it.
AcceptedIsKept ==
  /\ \A a \in accepted : \E p \in disk[1].receipts :
       p.key = a.req.key /\ p.id = a.id /\ (p.removed \/ a.id \in Ids(disk[1].jobs))
  /\ \A a, b \in accepted : a.req.key = b.req.key \/ a.id = b.id => a = b

\* Nothing starts on its own when the queue is opened: a worker is at a job that was
\* enqueued or resumed since then.
RecoveredWaits == \A w \in workers : w.id \in actor.asked
=============================================================================
