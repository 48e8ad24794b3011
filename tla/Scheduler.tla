----------------------------- MODULE Scheduler ------------------------------
(***************************************************************************)
(* crates/runtime/src/scheduler.rs over origin.rs: who runs, with how many *)
(* connections, and what the loop waits for.  One turn of the loop reads   *)
(* the clock three times with awaits in between: promote_due, admit and    *)
(* next_deadline are steps of their own, a job or a control at a time, and *)
(* sessions, senders and the clock move between them.                      *)
(*                                                                         *)
(* A job is its identity and where it stands: ready (queued, verifying or  *)
(* publishing), waiting for a tick, or at rest.  A session is a task that  *)
(* reports to the governor, reads its control channel, and ends; what it   *)
(* does in between is Session's subject.  Pause and Cancel are one control *)
(* here: either makes the session wind down, or takes the job off a queue. *)
(***************************************************************************)
EXTENDS OriginGovernor, SequencesExt

CONSTANTS
  Jobs, Origins, OriginOf,     \* OriginOf: the origin each job's source is bound to
  MaxActive, Connections, PerJob, Resident,   \* SchedulerConfig
  ControlCapacity,             \* of a session's control channel (4 in the code)
  Batches,                     \* the lists of jobs a run may be given
  RetryAfter,                  \* the delays a server asks for, 0 for none
  MaxClock,      \* bounds: the clock,
  MaxTrouble,    \* what sessions report, jobs that come back and commits that fail,
  MaxCommands    \* and commands

ASSUME SchedulerAssumption ==
  /\ IsFiniteSet(Jobs) /\ OriginOf \in [Jobs -> Origins] /\ Resident \in BOOLEAN
  /\ {MaxActive, Connections, ControlCapacity} \subseteq Nat \ {0}
  /\ PerJob \in 1 .. Connections
  /\ {MaxClock, MaxTrouble, MaxCommands} \subseteq Nat
  /\ RetryAfter \subseteq Nat
  /\ Batches \subseteq Seq([id : Jobs, at : Int])

VARIABLES
  clock,     \* Clock::now_ms
  turn,      \* [pc, batch, seen, left, now, moving, skipped, started, deadline]: its locals
  queue,     \* [ready, waiting, done]; done counts a job's outcomes
  active,    \* job -> [task, grant]
  tasks,     \* the session tasks: task -> [id, grant, inbox, told, end]
  deferred,  \* controls a full channel refused
  used,      \* connections granted, as the loop counts them
  flags,     \* [open, stopping]
  origins,   \* the governor's map
  channel,   \* the commands on their way, and whether a sender is left
  given,     \* job -> how often it was given to the scheduler
  asked,     \* origin -> until when its server asked to be left alone
  budget     \* what the environment has left

vars == <<clock, turn, queue, active, tasks, deferred, used, flags, origins, channel, given,
          asked, budget>>

loop      == <<turn, queue, active, deferred, used, flags>>
ghosts    == <<given, asked>>

-----------------------------------------------------------------------------
Slots      == 1 .. MaxActive
Ready      == 0
Rest       == -1
NoDeadline == -1
NoActive   == [task |-> 0, grant |-> 0]
Running    == [kind |-> "running", at |-> Rest]
NoTask     == [id |-> 0, grant |-> 0, inbox |-> 0, told |-> FALSE, end |-> Running]

Entry(id, at) == [id |-> id, at |-> at]
Live          == {t \in Slots : tasks[t] # NoTask}
Ended         == {t \in Live : tasks[t].end # Running}
IsActive(id)  == active[id] # NoActive

\* How many entries of a sequence are of a kind: the jobs of one identity, the commands
\* that hand over one.
Count(s, kind) == Cardinality({i \in DOMAIN s : s[i] \in kind})
Of(id)         == [id : {id}, at : Int]
Handing(id)    == [kind : {"Admit"}, id : {id}, at : Int]

Spend(what) ==
  /\ budget[what] > 0
  /\ budget' = [budget EXCEPT ![what] = @ - 1]

Init ==
  /\ clock = 1
  /\ turn \in [pc : {"intake"}, batch : Batches, seen : {{}}, left : {0}, now : {0},
               moving : {<<>>}, skipped : {<<>>}, started : {FALSE}, deadline : {NoDeadline}]
  /\ queue = [ready |-> <<>>, waiting |-> <<>>, done |-> [id \in Jobs |-> 0]]
  /\ active = [id \in Jobs |-> NoActive]
  /\ tasks = [t \in Slots |-> NoTask]
  /\ deferred = <<>> /\ used = 0
  /\ flags = [open |-> TRUE, stopping |-> FALSE]
  /\ origins = [o \in Origins |-> Default]
  /\ channel = [sent |-> <<>>, held |-> TRUE]
  /\ given = [id \in Jobs |-> Count(turn.batch, Of(id))]
  /\ asked = [o \in Origins |-> 0]
  /\ budget = [trouble |-> MaxTrouble, commands |-> MaxCommands]

-----------------------------------------------------------------------------
(***************************************************************************)
(* Queue.                                                                  *)
(***************************************************************************)
Outcome(q, id) == [q EXCEPT !.done[id] = @ + 1]

Take(q, e) ==
  IF e.at = Rest       THEN Outcome(q, e.id)
  ELSE IF e.at = Ready THEN [q EXCEPT !.ready = Append(@, e)]
  ELSE                      [q EXCEPT !.waiting = Append(@, e)]

Holds(s, id) == \E i \in DOMAIN s : s[i].id = id
First(s, id) == CHOOSE i \in DOMAIN s : s[i].id = id /\ \A k \in 1 .. i - 1 : s[k].id # id

\* remove: the ready queue is searched first.
Without(q, id) ==
  IF Holds(q.ready, id) THEN [q EXCEPT !.ready = RemoveAt(@, First(@, id))]
  ELSE [q EXCEPT !.waiting = RemoveAt(@, First(@, id))]

(***************************************************************************)
(* The jobs the run was given.  A second job of one identity is refused;   *)
(* one that a crash left in mid-air is recovered, or lost to this pass.    *)
(***************************************************************************)
Intake ==
  /\ turn.pc = "intake"
  /\ IF turn.batch = <<>>
       THEN turn' = [turn EXCEPT !.pc = "deliver", !.seen = {}] /\ UNCHANGED <<queue, budget>>
       ELSE LET e == Head(turn.batch) IN
            /\ turn' = [turn EXCEPT !.batch = Tail(@), !.seen = @ \cup {e.id}]
            /\ \/ /\ queue' = IF e.id \in turn.seen THEN Outcome(queue, e.id) ELSE Take(queue, e)
                  /\ UNCHANGED budget
               \/ e.id \notin turn.seen /\ Spend("trouble") /\ queue' = Outcome(queue, e.id)
  /\ UNCHANGED <<clock, active, tasks, deferred, used, flags, origins, channel, ghosts>>

-----------------------------------------------------------------------------
(***************************************************************************)
(* deliver: each control that was refused is sent again; one whose session *)
(* has ended has nothing to stop.                                          *)
(***************************************************************************)
\* try_send fails on a full channel and on one whose session has ended.
Accepts(t) == tasks[t].end = Running /\ tasks[t].inbox < ControlCapacity

\* The control goes to the session, or behind the ones in line.
Post(id, line) ==
  LET t == active[id].task IN
  IF Accepts(t) THEN tasks' = [tasks EXCEPT ![t].inbox = @ + 1] /\ deferred' = line
  ELSE UNCHANGED tasks /\ deferred' = Append(line, id)

Deliver ==
  /\ turn.pc = "deliver" /\ turn.left > 0
  /\ turn' = [turn EXCEPT !.left = @ - 1]
  /\ LET id == Head(deferred) IN
     IF IsActive(id) THEN Post(id, Tail(deferred))
     ELSE UNCHANGED tasks /\ deferred' = Tail(deferred)
  /\ UNCHANGED <<clock, queue, active, used, flags, origins, channel, ghosts, budget>>

(***************************************************************************)
(* promote_due takes the waiting jobs off their queue, and puts each back, *)
(* or commits that its retry is due; the commit may fail.  A run that is   *)
(* stopping only delivers.                                                 *)
(***************************************************************************)
Delivered == turn.pc = "deliver" /\ turn.left = 0

Drain ==
  /\ turn' = [turn EXCEPT !.pc = "move", !.now = clock, !.moving = queue.waiting]
  /\ queue' = [queue EXCEPT !.waiting = <<>>]

\* Mutant: jobs are promoted and admitted under a shutdown, too.
PromoteAlways ==
  /\ Delivered /\ Drain
  /\ UNCHANGED <<clock, active, tasks, deferred, used, flags, origins, channel, ghosts, budget>>

Promote ==
  /\ Delivered
  /\ \/ /\ flags.stopping
        /\ turn' = [turn EXCEPT !.pc = "decide"] /\ UNCHANGED queue
     \/ ~flags.stopping /\ Drain
  /\ UNCHANGED <<clock, active, tasks, deferred, used, flags, origins, channel, ghosts, budget>>

Due(e, now) == e.at <= now

Move ==
  /\ turn.pc = "move" /\ turn.moving # <<>>
  /\ turn' = [turn EXCEPT !.moving = Tail(@)]
  /\ LET e == Head(turn.moving) IN
     \/ /\ ~Due(e, turn.now) /\ UNCHANGED budget
        /\ queue' = [queue EXCEPT !.waiting = Append(@, e)]
     \/ /\ Due(e, turn.now) /\ UNCHANGED budget
        /\ queue' = Take(queue, Entry(e.id, Ready))
     \/ /\ Due(e, turn.now) /\ Spend("trouble")
        /\ queue' = Outcome(queue, e.id)
  /\ UNCHANGED <<clock, active, tasks, deferred, used, flags, origins, channel, ghosts>>

(***************************************************************************)
(* admit, one job at a time: in queue order, until the engine is full; a   *)
(* job its origin does not take now keeps its place.                       *)
(***************************************************************************)
ReadClock ==
  /\ turn.pc = "move" /\ turn.moving = <<>>
  /\ turn' = [turn EXCEPT !.pc = "admit", !.now = clock]
  /\ UNCHANGED <<clock, queue, active, tasks, deferred, used, flags, origins, channel, ghosts,
                 budget>>

Want == Least(PerJob, Connections - used)

Full == Cardinality({id \in Jobs : IsActive(id)}) >= MaxActive \/ used >= Connections

Spawn(e, t, grant) ==
  /\ active' = [active EXCEPT ![e.id] = [task |-> t, grant |-> grant]]
  /\ tasks' = [tasks EXCEPT ![t] = [NoTask EXCEPT !.id = e.id, !.grant = grant]]
  /\ used' = used + grant
  /\ origins' = [origins EXCEPT ![OriginOf[e.id]] = Granted(@, grant)]

Admit ==
  /\ turn.pc = "admit" /\ queue.ready # <<>> /\ ~Full
  /\ LET e     == Head(queue.ready)
         grant == Grant(origins[OriginOf[e.id]], Want, turn.now)
     IN  /\ queue' = [queue EXCEPT !.ready = Tail(@)]
         /\ \/ /\ grant = 0
               /\ turn' = [turn EXCEPT !.skipped = Append(@, e)]
               /\ UNCHANGED <<active, tasks, used, origins>>
            \/ /\ grant > 0
               /\ turn' = [turn EXCEPT !.started = TRUE]
               /\ \E t \in Slots \ Live :
                    (\A u \in Slots \ Live : t <= u) /\ Spawn(e, t, grant)
  /\ UNCHANGED <<clock, deferred, flags, channel, ghosts, budget>>

\* Mutant: the skipped jobs are not put back.
AdmitDoneDropping ==
  /\ turn.pc = "admit" /\ (queue.ready = <<>> \/ Full)
  /\ turn' = [turn EXCEPT !.pc = "decide", !.now = 0, !.skipped = <<>>]
  /\ UNCHANGED <<clock, queue, active, tasks, deferred, used, flags, origins, channel, ghosts,
                 budget>>

AdmitDone ==
  /\ turn.pc = "admit" /\ (queue.ready = <<>> \/ Full)
  /\ queue' = [queue EXCEPT !.ready = turn.skipped \o @]
  /\ turn' = [turn EXCEPT !.pc = "decide", !.now = 0, !.skipped = <<>>]
  /\ UNCHANGED <<clock, active, tasks, deferred, used, flags, origins, channel, ghosts, budget>>

(***************************************************************************)
(* next_deadline, and whether there is anything to wait for.               *)
(***************************************************************************)
Deadlines(now) ==
  {t \in {queue.waiting[i].at : i \in DOMAIN queue.waiting} \cup
         {ReadyAt(origins[OriginOf[queue.ready[i].id]]) : i \in DOMAIN queue.ready} : t > now}

Earliest(times) == IF times = {} THEN NoDeadline
                   ELSE CHOOSE t \in times : \A u \in times : t <= u

Awaited    == Resident /\ flags.open
QueueEmpty == queue.ready = <<>> /\ queue.waiting = <<>>

Decide ==
  /\ turn.pc = "decide"
  /\ LET deadline == Earliest(Deadlines(clock))
         finished == flags.stopping \/ (QueueEmpty /\ ~Awaited)
         stranded == ~turn.started /\ deadline = NoDeadline /\ ~Awaited
     IN  IF Live = {} /\ (finished \/ stranded)
           THEN /\ turn' = [turn EXCEPT !.pc = "returned"]
                /\ queue' = [ready |-> <<>>, waiting |-> <<>>, done |-> [id \in Jobs |->
                     queue.done[id] + Count(queue.ready \o queue.waiting, Of(id))]]
           ELSE /\ turn' = [turn EXCEPT !.pc = "select", !.started = FALSE, !.deadline = deadline]
                /\ UNCHANGED queue
  /\ UNCHANGED <<clock, active, tasks, deferred, used, flags, origins, channel, ghosts, budget>>

-----------------------------------------------------------------------------
(***************************************************************************)
(* select, biased: a session that ended, else a command, else the deadline.*)
(***************************************************************************)
Again ==
  turn' = [turn EXCEPT !.pc = "deliver", !.left = Len(deferred'), !.deadline = NoDeadline]

\* Mutant: a session that fails keeps its grant.
FinishUnlessFailed(id, end) ==
  IF ~IsActive(id) \/ end = "failed" THEN UNCHANGED <<active, used, origins>>
  ELSE /\ active' = [active EXCEPT ![id] = NoActive]
       /\ used' = used - active[id].grant
       /\ origins' = [origins EXCEPT ![OriginOf[id]] = Released(@, active[id].grant, clock)]

\* finish: the grant goes back, and a publication speaks for the origin.
Finish(id, end) ==
  IF ~IsActive(id) THEN UNCHANGED <<active, used, origins>>
  ELSE /\ active' = [active EXCEPT ![id] = NoActive]
       /\ used' = used - active[id].grant
       /\ origins' = [origins EXCEPT ![OriginOf[id]] =
            LET released == Released(@, active[id].grant, clock)
            IN  IF end = "published" THEN Succeeded(released, clock) ELSE released]

Join ==
  /\ turn.pc = "select" /\ Ended # {}
  /\ \E t \in Ended :
       LET id == tasks[t].id IN
       /\ Finish(id, tasks[t].end.kind)
       /\ tasks' = [tasks EXCEPT ![t] = NoTask]
       /\ queue' = Take(queue, Entry(id, tasks[t].end.at))
  /\ UNCHANGED <<clock, deferred, flags, channel, ghosts, budget>>
  /\ Again

Order(c) ==
  IF IsActive(c.id)
    THEN Post(c.id, deferred) /\ UNCHANGED queue
    ELSE /\ queue' = IF Holds(queue.ready \o queue.waiting, c.id)
                       THEN Outcome(Without(queue, c.id), c.id) ELSE queue
         /\ UNCHANGED <<tasks, deferred>>

\* Pauses what is running, in the order of a hash map; the rest is handed back.
Shutdown ==
  LET told == {id \in Jobs : IsActive(id) /\ Accepts(active[id].task)}
  IN  /\ tasks' = [t \in Slots |-> IF t \in {active[id].task : id \in told}
                                     THEN [tasks[t] EXCEPT !.inbox = @ + 1] ELSE tasks[t]]
      /\ \E refused \in SetToSeqs({id \in Jobs : IsActive(id)} \ told) :
           deferred' = deferred \o refused

OnCommand ==
  /\ turn.pc = "select" /\ Ended = {} /\ flags.open
  /\ \/ /\ channel.sent = <<>> /\ ~channel.held
        /\ flags' = [flags EXCEPT !.open = FALSE]
        /\ UNCHANGED <<channel, queue, tasks, deferred>>
     \/ /\ channel.sent # <<>>
        /\ channel' = [channel EXCEPT !.sent = Tail(@)]
        /\ LET c == Head(channel.sent) IN
           \/ /\ c.kind = "Admit" /\ queue' = Take(queue, Entry(c.id, c.at))
              /\ UNCHANGED <<tasks, deferred, flags>>
           \/ /\ c.kind = "Stop" /\ Order(c)
              /\ UNCHANGED flags
           \/ /\ c.kind = "Shutdown" /\ Shutdown
              /\ flags' = [flags EXCEPT !.stopping = TRUE]
              /\ UNCHANGED queue
  /\ UNCHANGED <<clock, active, used, origins, ghosts, budget>>
  /\ Again

Sleep ==
  /\ turn.pc = "select" /\ Ended = {}
  /\ ~(flags.open /\ (channel.sent # <<>> \/ ~channel.held))
  /\ turn.deadline # NoDeadline /\ clock >= turn.deadline
  /\ UNCHANGED <<clock, queue, active, tasks, deferred, used, flags, origins, channel, ghosts,
                 budget>>
  /\ Again

-----------------------------------------------------------------------------
(***************************************************************************)
(* The sessions.                                                           *)
(***************************************************************************)
Report(t) ==
  /\ t \in Live \ Ended /\ Spend("trouble")
  /\ LET o == OriginOf[tasks[t].id] IN
     \/ /\ origins' = [origins EXCEPT ![o] = Succeeded(@, clock)] /\ UNCHANGED asked
     \/ /\ origins' = [origins EXCEPT ![o] = Failed(@, clock)] /\ UNCHANGED asked
     \/ \E retry_after \in RetryAfter :
          /\ origins' = [origins EXCEPT ![o] = Throttled(@, retry_after, clock)]
          /\ asked' = [asked EXCEPT ![o] = IF retry_after = 0 THEN @
                                           ELSE Greatest(@, clock + Asked(retry_after))]
  /\ UNCHANGED <<clock, tasks, channel, given, loop>>

\* The session reads its channel; it then winds down.
Obey(t) ==
  /\ t \in Live \ Ended /\ tasks[t].inbox > 0
  /\ tasks' = [tasks EXCEPT ![t].inbox = @ - 1, ![t].told = TRUE]
  /\ UNCHANGED <<clock, origins, channel, ghosts, budget, loop>>

EndsWith(t, kind, at) == tasks' = [tasks EXCEPT ![t].end = [kind |-> kind, at |-> at]]

\* It ends at rest, or fails (an error and a panic are one outcome here); or it moved and
\* wants to run again.
EndSession(t) ==
  /\ t \in Live \ Ended
  /\ \E kind \in {"published", "settled", "failed"} : EndsWith(t, kind, Rest)
  /\ UNCHANGED <<clock, origins, channel, ghosts, budget, loop>>

Return(t) ==
  /\ t \in Live \ Ended /\ Spend("trouble")
  /\ \E at \in {Ready, clock + 1} : EndsWith(t, "settled", at)
  /\ UNCHANGED <<clock, origins, channel, ghosts, loop>>

(***************************************************************************)
(* The senders and the clock.                                              *)
(***************************************************************************)
Sent(kind, id, at) ==
  channel' = [channel EXCEPT !.sent = Append(@, [kind |-> kind, id |-> id, at |-> at])]

\* Service::add hands over a job whose record is Queued, and each job once: its source is
\* bound for one request in the life of the engine (Admission's HandedOnce).
Send ==
  /\ channel.held /\ turn.pc # "returned" /\ Spend("commands")
  /\ \/ \E id \in Jobs :
          /\ given[id] = 0 /\ Sent("Admit", id, Ready)
          /\ given' = [given EXCEPT ![id] = 1]
     \/ (\E id \in Jobs : Sent("Stop", id, Rest)) /\ UNCHANGED given
     \/ Sent("Shutdown", 0, Rest) /\ UNCHANGED given
  /\ UNCHANGED <<clock, tasks, origins, asked, loop>>

Hangup ==
  /\ channel.held
  /\ channel' = [channel EXCEPT !.held = FALSE]
  /\ UNCHANGED <<clock, tasks, origins, ghosts, budget, loop>>

Tick ==
  /\ clock < MaxClock
  /\ clock' = clock + 1
  /\ UNCHANGED <<tasks, origins, channel, ghosts, budget, loop>>

Turn ==
  \/ Intake \/ Deliver \/ Promote \/ Move \/ ReadClock \/ Admit \/ AdmitDone \/ Decide
  \/ Join \/ OnCommand \/ Sleep

Next ==
  \/ Turn
  \/ \E t \in Slots : Report(t) \/ Obey(t) \/ EndSession(t) \/ Return(t)
  \/ Send \/ Hangup \/ Tick

Spec == Init /\ [][Next]_vars

\* The loop is polled, the clock runs, and a session that was told to stop reads its
\* channel and ends; one that was not may run for as long as it likes.
Fairness ==
  /\ WF_vars(Turn) /\ WF_vars(Tick)
  /\ \A t \in Slots : WF_vars(Obey(t)) /\ WF_vars(EndSession(t) /\ tasks[t].told)

FairSpec == Spec /\ Fairness

-----------------------------------------------------------------------------
(***************************************************************************)
(* Properties.                                                             *)
(***************************************************************************)
\* The connections of some sessions: as many of each as it was granted.
GrantsOf(S) == Cardinality({c \in S \X (1 .. Connections) : c[2] <= tasks[c[1]].grant})

\* The loop and the governor count the connections the sessions really have, however the
\* sessions end, and neither ceiling is passed; each session is the one that the loop knows
\* under its job, so that no job has two.
GrantsAreCounted ==
  /\ used = GrantsOf(Live) /\ used <= Connections
  /\ \A t \in Live : active[tasks[t].id] = [task |-> t, grant |-> tasks[t].grant]
  /\ \A o \in Origins :
       /\ origins[o].in_flight = GrantsOf({t \in Live : OriginOf[tasks[t].id] = o})
       /\ origins[o].in_flight <= OriginConnections

\* scheduler.rs, run: every job given comes back exactly once, whether it ran, waited,
\* failed or was never started.  A job that was given is in one place at any time.
ComesBackOnce ==
  \A id \in Jobs :
    given[id] =
      queue.done[id]
      + Count(queue.ready \o queue.waiting \o turn.moving \o turn.skipped \o turn.batch, Of(id))
      + Cardinality({t \in Live : tasks[t].id = id})
      + Count(channel.sent, Handing(id))

\* The server's own delay is never shortened, by no success of another job and by no
\* origin that was forgotten: no session starts before it is over.
DelaysAreObserved ==
  [][\A t \in Slots : tasks[t] = NoTask /\ tasks'[t] # NoTask =>
       clock >= asked[OriginOf[tasks'[t].id]]]_vars

\* Shutdown pauses what is running and the run returns.
ShutdownReturns == flags.stopping ~> turn.pc = "returned"

\* scheduler.rs:3: a retry deadline is slept through exactly.  A job whose deadline has
\* passed does not wait on, unless the run is over.
DueJobsMove ==
  \A id \in Jobs :
    Holds(queue.waiting \o turn.moving, id) ~> ~Holds(queue.waiting \o turn.moving, id)
=============================================================================
