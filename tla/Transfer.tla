------------------------------ MODULE Transfer ------------------------------
(***************************************************************************)
(* One download of the older engine: download_controlled                   *)
(* (crates/download-engine/src/lib.rs) with its parallel ranges and its    *)
(* streams of unknown length, over the job directory of                    *)
(* crates/transfer-store/src/lib.rs: the part file, the row of SQLite, and *)
(* the published name, which is a link to the part file.                   *)
(*                                                                         *)
(* The file has a few units.  A unit names its URL, the version of the     *)
(* file there and its place, so that bytes of different representations    *)
(* never look alike; a strong tag names the version, and two URLs may use  *)
(* the same tags.  Every error drops the Store, so that its fields are     *)
(* those of the directory; an attempt may end with an error, or with its   *)
(* process, between any two steps.                                         *)
(***************************************************************************)
EXTENDS Integers, Sequences, FiniteSets, SequencesExt, ResumePolicy

CONSTANTS
  Urls, Versions, Total,   \* where the file may come from, in which versions, its units
  Threshold,               \* checkpoint_bytes
  Connections,             \* parallel_connections
  MaxAttempts, MaxFaults, MaxPower, MaxChanges, MaxStrangers  \* bounds

ASSUME TransferAssumption ==
  /\ Urls \subseteq Nat \ {0} /\ Versions \subseteq Nat \ {0} /\ 1 \in Urls /\ 1 \in Versions
  /\ Total \in Nat \ {0} /\ Connections \in Nat \ {0} /\ Threshold \in Nat

ASSUME BoundsAssumption ==
  MaxAttempts \in Nat /\ MaxFaults \in Nat /\ MaxPower \in Nat /\ MaxChanges \in Nat
  /\ MaxStrangers \in Nat

VARIABLES
  dir,      \* the job directory and its files: see NoDir
  run,      \* the attempt: see Idle
  opts,     \* [url, refresh, expected, parallel, max]: Options, refresh 0 when there is none;
            \* and unix: the build, since only there sync_directory does anything
  server,   \* the version it has now
  cancel,   \* the watch channel
  result,   \* of the last attempt
  folder,   \* the destination of exports: what stands at the name and at its next spelling
  budget

vars == <<dir, run, opts, server, cancel, result, folder, budget>>

-----------------------------------------------------------------------------
Unit(u, v, i) == 100 * u + 10 * v + i
Lost          == 0      \* what a unit may be after the power failed
Content(u, v) == [i \in 1 .. Total |-> Unit(u, v, i)]
Whole         == {Content(u, v) : u \in Urls, v \in Versions}
Expected      == Content(1, 1)   \* what expected_sha256 is the digest of
Free          == <<-1>>
Foreign       == <<-2>>

NoRow == [orig |-> 0, final |-> 0, tag |-> NoField, total |-> 0, committed |-> 0,
          digest |-> <<>>, phase |-> 0, unknown |-> FALSE]
NoDir == [made |-> "none", row |-> NoRow, part |-> <<>>, synced |-> 0, out |-> Free,
          outSynced |-> TRUE]
Idle  == [pc |-> "idle", body |-> <<>>, final |-> 0, tag |-> NoField, got |-> {}, then |-> "none",
          unknown |-> FALSE, reported |-> 0, job |-> "Queued"]

Init ==
  /\ dir = NoDir /\ run = Idle /\ server = 1 /\ cancel = FALSE /\ result = "none"
  /\ opts \in [url : {1}, refresh : {0}, expected : BOOLEAN, parallel : BOOLEAN,
              max : {Total - 1, Total}, unix : BOOLEAN]
  /\ folder = <<Free, Free>>
  /\ budget = [attempts |-> MaxAttempts, faults |-> MaxFaults, power |-> MaxPower,
               changes |-> MaxChanges, strangers |-> MaxStrangers]

Spend(what) == budget[what] > 0 /\ budget' = [budget EXCEPT ![what] = @ - 1]
At(pc)      == run' = [run EXCEPT !.pc = pc]
End(how)    == run' = Idle /\ result' = how /\ cancel' = FALSE
Goes        == UNCHANGED <<cancel, result>>
World       == <<opts, server, folder, budget>>

-----------------------------------------------------------------------------
(***************************************************************************)
(* The start of an attempt: Store::open, the binding to the request, and   *)
(* what the state of the directory allows.                                 *)
(***************************************************************************)
PartSound ==
  /\ Len(dir.part) >= dir.row.committed
  /\ SubSeq(dir.part, 1, dir.row.committed) = dir.row.digest
  /\ dir.row.phase > 0 => Len(dir.part) = dir.row.committed

Sound == PartSound /\ (dir.row.phase = 3 => dir.out = dir.row.digest)

\* Only bytes absent from the receipt are discarded.
Truncated ==
  [dir EXCEPT !.part = SubSeq(@, 1, dir.row.committed), !.synced = dir.row.committed]

Bound ==
  /\ dir.row.orig = opts.url \/ dir.row.orig = opts.refresh
  /\ dir.row.total <= opts.max

Resumable ==
  /\ ~dir.row.unknown
  /\ dir.row.committed > 0 => dir.row.committed < dir.row.total /\ dir.row.tag # NoField

Begin ==
  /\ run = Idle /\ Spend("attempts")
  /\ IF dir.made = "none"
       THEN At("request") /\ Goes /\ UNCHANGED dir
     ELSE IF dir.made = "half" \/ ~Sound
       THEN End("failed") /\ UNCHANGED dir
     ELSE /\ dir' = Truncated
          /\ IF Bound /\ (dir.row.phase > 0 \/ Resumable)
               THEN /\ run' = [Idle EXCEPT !.pc = IF dir.row.phase > 0 THEN "ready" ELSE "request",
                                 !.reported = dir.row.committed]
                    /\ Goes
               ELSE End("failed")
  /\ UNCHANGED <<opts, server, folder>>

-----------------------------------------------------------------------------
(***************************************************************************)
(* The response.                                                           *)
(***************************************************************************)
Kept  == dir.row.committed
Fresh == dir.made = "none"

\* The headers of a response for the units from "start"; any field may be off.
Headers(tag, start) ==
  {[identity |-> TRUE, tag |-> tag, start |-> s, end |-> Total, total |-> t, length |-> Total - s] :
     s \in {start, 0}, t \in {Total, Total + 1}}

\* A new download, a directory without bytes, and one to go on with.
AcceptsNew(status, unknown) == status = 200 /\ (unknown \/ Total <= opts.max)
AcceptsEmpty(status, tag) == status = 200 /\ (dir.row.tag # NoField => tag = dir.row.tag)

AcceptsRange(status, tag) ==
  LET q == Request(Kept, dir.row.total, dir.row.total, dir.row.tag)
  IN  \E h \in Headers(tag, Kept) : RequestAllowed(q) /\ Evaluate(q, status, h) = "ReadRange"

SameResource(final) == final = dir.row.final \/ opts.refresh # 0

Accepts(status, final, tag, unknown) ==
  IF Fresh THEN AcceptsNew(status, unknown)
  ELSE /\ SameResource(final) /\ ~unknown
       /\ IF Kept > 0 THEN AcceptsRange(status, tag) ELSE AcceptsEmpty(status, tag)

Job(event) == Evented(run.job, event)

Respond ==
  /\ run.pc = "request" /\ ~cancel
  /\ \E final \in Urls, tag \in {server, NoField}, status \in {200, 206, 416}, unknown \in BOOLEAN :
       /\ Accepts(status, final, tag, unknown)
       /\ run' = [run EXCEPT !.body = SubSeq(Content(final, server), Kept + 1, Total),
                    !.final = final, !.tag = tag, !.unknown = unknown,
                    !.job = Commanded(@, "Start"), !.pc = IF Fresh THEN "create" ELSE "accepted"]
  /\ Goes /\ UNCHANGED <<dir, World>>

\* A status, a header or a redirect the checks refuse, no space, or no answer in time.
Refused ==
  /\ run.pc \in {"request", "create"} /\ Spend("faults") /\ End("failed")
  /\ UNCHANGED <<dir, opts, server, folder>>

\* create_inner: the directory, its files, and only then the row.
Create ==
  /\ run.pc = "create" /\ dir' = [dir EXCEPT !.made = "half"] /\ At("insert")
  /\ Goes /\ UNCHANGED World

Insert ==
  /\ run.pc = "insert"
  /\ dir' = [dir EXCEPT !.made = "made",
       !.row = [NoRow EXCEPT !.orig = opts.url, !.final = run.final, !.tag = run.tag,
                  !.unknown = run.unknown, !.total = IF run.unknown THEN opts.max ELSE Total]]
  /\ At(IF run.unknown THEN "body" ELSE "accepted")
  /\ Goes /\ UNCHANGED World

\* rebind_urls for a link that was refreshed; then ranges, where they pay.
Rebound == opts.refresh = 0 \/ (dir.row.orig = opts.url /\ dir.row.final = run.final)

Rebind ==
  /\ run.pc = "accepted" /\ ~Rebound
  /\ IF dir.row.tag = NoField THEN End("failed") /\ UNCHANGED dir
     ELSE /\ dir' = [dir EXCEPT !.row.orig = opts.url, !.row.final = run.final]
          /\ UNCHANGED run /\ Goes
  /\ UNCHANGED World

InParallel == opts.parallel /\ Total - Kept > 1 /\ dir.row.tag # NoField

Proceed ==
  /\ run.pc = "accepted" /\ Rebound
  /\ run' = [run EXCEPT !.pc = IF InParallel THEN "first" ELSE "body", !.job = Job("ProbeSucceeded")]
  /\ Goes /\ UNCHANGED <<dir, World>>

-----------------------------------------------------------------------------
(***************************************************************************)
(* The body, one slice after the other.                                    *)
(***************************************************************************)
\* Mutant: the receipt does not wait for the file.
CheckpointUnsynced ==
  /\ run.pc = "point"
  /\ dir' = [dir EXCEPT !.row.committed = Len(dir.part), !.row.digest = dir.part]
  /\ IF run.then \in {"cancelled", "failed"} THEN End(run.then)
     ELSE run' = [run EXCEPT !.pc = run.then, !.then = "none", !.reported = Len(dir.part)] /\ Goes
  /\ UNCHANGED World

\* Store::checkpoint: the file is synced, the receipt follows, and then whoever asked.
Checkpoint ==
  /\ run.pc = "point"
  /\ dir' = [dir EXCEPT !.synced = Len(dir.part), !.row.committed = Len(dir.part),
                        !.row.digest = dir.part]
  /\ IF run.then \in {"cancelled", "failed"} THEN End(run.then)
     ELSE run' = [run EXCEPT !.pc = run.then, !.then = "none", !.reported = Len(dir.part)] /\ Goes
  /\ UNCHANGED World

Point(then) == run' = [run EXCEPT !.pc = "point", !.then = then]

\* append, and a checkpoint when enough has come.
AppendUnit(unit, r) ==
  /\ dir' = [dir EXCEPT !.part = Append(@, unit)]
  /\ run' = IF Len(dir.part) + 1 - Kept >= Threshold
              THEN [r EXCEPT !.pc = "point", !.then = r.pc] ELSE r

Read ==
  /\ run.pc = "body" /\ ~cancel /\ run.body # <<>> /\ Len(dir.part) < dir.row.total
  /\ AppendUnit(Head(run.body), [run EXCEPT !.body = Tail(@)])
  /\ Goes /\ UNCHANGED World

\* A stream of unknown length past the limit keeps what it has.
PastTheLimit ==
  /\ run.pc = "body" /\ ~cancel /\ run.body # <<>> /\ Len(dir.part) >= dir.row.total
  /\ Point("failed") /\ Goes /\ UNCHANGED <<dir, World>>

\* The connection breaks, before or after the last unit.
Cut ==
  /\ run.pc \in {"body", "window"} /\ Spend("faults") /\ Point("failed")
  /\ Goes /\ UNCHANGED <<dir, opts, server, folder>>

\* More or fewer bytes than announced, an error in the first range, an I/O error, a
\* process that dies: the attempt is over as it stands.
Break ==
  /\ run # Idle /\ Spend("faults") /\ End("failed")
  /\ UNCHANGED <<dir, opts, server, folder>>

\* The signal is obeyed wherever the attempt waits, with a checkpoint once there is a Store.
Obey ==
  /\ cancel
  /\ \/ run.pc \in {"request", "ready", "first"} /\ End("cancelled")
     \/ run.pc \in {"body", "window", "flush"} /\ Point("cancelled") /\ Goes
  /\ UNCHANGED <<dir, World>>

\* The body ended cleanly; mark_transfer_complete starts with a checkpoint.
CleanEnd ==
  /\ run.pc \in {"body", "flush"} /\ ~cancel
  /\ IF run.pc = "body" THEN run.body = <<>> ELSE run.got = {} /\ Len(dir.part) = Total
  /\ Point("mark") /\ Goes /\ UNCHANGED <<dir, World>>

-----------------------------------------------------------------------------
(***************************************************************************)
(* parallel::transfer: one range to see whether the server gives ranges,   *)
(* then windows of them, appended in order.                                *)
(***************************************************************************)
\* Fetch::range of the unit after offset k; the version is the server's at that time.
Fetched(k, tag, final) ==
  LET q == Request(k, k + 1, Total, dir.row.tag)
      h == [identity |-> TRUE, tag |-> tag, start |-> k, end |-> k + 1, total |-> Total, length |-> 1]
  IN  final = dir.row.final /\ RequestAllowed(q) /\ Evaluate(q, 206, h) = "ReadRange"

First ==
  /\ run.pc = "first" /\ ~cancel
  /\ \/ server = dir.row.tag /\ At("body") /\ UNCHANGED dir     \* a whole answer: no ranges here
     \/ \E final \in Urls :
          /\ Fetched(Len(dir.part), server, final)
          /\ AppendUnit(Unit(final, server, Len(dir.part) + 1), [run EXCEPT !.pc = "window", !.body = <<>>])
  /\ Goes /\ UNCHANGED World

Window == {k \in Len(dir.part) .. Total - 1 : k < Len(dir.part) + Connections}

FetchRange ==
  /\ run.pc = "window"
  /\ \E k \in Window, final \in Urls :
       /\ ~\E g \in run.got : g.at = k
       /\ Fetched(k, server, final)
       /\ run' = [run EXCEPT !.got = @ \cup {[at |-> k, unit |-> Unit(final, server, k + 1)]}]
  /\ Goes /\ UNCHANGED <<dir, World>>

Joined ==
  /\ run.pc = "window" /\ Cardinality(run.got) = Cardinality(Window) /\ At("flush")
  /\ Goes /\ UNCHANGED <<dir, World>>

\* As the ranges lie, not as they came.
NextOf(g) == \A h \in run.got : g.at <= h.at

Flush ==
  /\ run.pc = "flush" /\ ~cancel
  /\ \/ \E g \in run.got : NextOf(g) /\ AppendUnit(g.unit, [run EXCEPT !.got = @ \ {g}])
     \/ run.got = {} /\ Len(dir.part) < Total /\ At("window") /\ UNCHANGED dir
  /\ Goes /\ UNCHANGED World

-----------------------------------------------------------------------------
(***************************************************************************)
(* The end: one worker, which no signal interrupts.                        *)
(***************************************************************************)
Mark ==
  /\ run.pc = "mark"
  /\ IF dir.row.unknown \/ Len(dir.part) = dir.row.total
       THEN /\ dir' = [dir EXCEPT !.row.phase = 1, !.row.total = Len(dir.part), !.row.unknown = FALSE]
            /\ run' = [run EXCEPT !.pc = "intend",
                         !.job = IF run.unknown THEN @ ELSE Job("TransferFinished")]
            /\ Goes
       ELSE End("failed") /\ UNCHANGED dir
  /\ UNCHANGED World

\* Published or ready to be: the stored phase decides.
Ready ==
  /\ run.pc = "ready" /\ ~cancel /\ At(IF dir.row.phase = 1 THEN "intend" ELSE "link")
  /\ Goes /\ UNCHANGED <<dir, World>>

AsExpected == opts.expected => dir.part = Expected

\* finalize_inner: a file without an intent is never adopted.
Intend ==
  /\ run.pc = "intend"
  /\ IF dir.out = Free /\ AsExpected
       THEN dir' = [dir EXCEPT !.row.phase = 2] /\ At("link") /\ Goes
       ELSE End("failed") /\ UNCHANGED dir
  /\ UNCHANGED World

\* Mutant: what is in the way is removed, and then the name is free.
LinkAfterRemoving ==
  /\ run.pc = "link" /\ AsExpected
  /\ IF dir.out = Free
       THEN dir' = [dir EXCEPT !.out = dir.part, !.outSynced = FALSE] /\ At("settle")
       ELSE dir' = [dir EXCEPT !.out = Free] /\ UNCHANGED run
  /\ Goes /\ UNCHANGED World

\* publish up to the link: a file that stands there is ours, or in the way.
Link ==
  /\ run.pc = "link"
  /\ IF ~AsExpected \/ (dir.out # Free /\ dir.out # dir.part) \/ (dir.out = Free /\ dir.row.phase = 3)
       THEN End("failed") /\ UNCHANGED dir
     ELSE /\ IF dir.out = Free THEN dir' = [dir EXCEPT !.out = dir.part, !.outSynced = FALSE]
             ELSE UNCHANGED dir
          /\ At("settle") /\ Goes
  /\ UNCHANGED World

\* The last events of the attempt that went through the machine.
Agreed == run.job = "Verifying" => Evented(Job("Verified"), "PublishSucceeded") = "Completed"

\* Mutant: the directory is not synced.
SettleUnsynced ==
  /\ run.pc = "settle" /\ dir' = [dir EXCEPT !.row.phase = 3] /\ End("done") /\ UNCHANGED World

\* The file and, on Unix, the directory are synced before the receipt.
Settle ==
  /\ run.pc = "settle"
  /\ dir' = [dir EXCEPT !.synced = Len(dir.part), !.outSynced = @ \/ opts.unix, !.row.phase = 3]
  /\ End(IF Agreed THEN "done" ELSE "failed") /\ UNCHANGED World

-----------------------------------------------------------------------------
(***************************************************************************)
(* Around it: the manager's refresh of a link, the export of a finished    *)
(* file, the user, the server, other programs and the power.               *)
(***************************************************************************)
\* Paused or failed, to a link of the same origin and path, as often as one likes; the row
\* may still name the link before the last refresh.  Store::open truncates as in Begin.
RefreshUrl(url) ==
  /\ run = Idle /\ opts.expected
  /\ \/ dir.made = "none" /\ opts' = [opts EXCEPT !.url = url, !.refresh = 0] /\ UNCHANGED dir
     \/ /\ dir.made = "made" /\ Sound /\ dir.row.phase = 0 /\ ~dir.row.unknown
        /\ dir.row.tag # NoField /\ dir.row.orig \in {opts.url, opts.refresh}
        /\ dir' = Truncated
        /\ opts' = [opts EXCEPT !.url = url, !.refresh = dir.row.orig]
  /\ UNCHANGED <<run, server, cancel, result, folder, budget>>

\* export_completed: a verified copy under a free name.
FreeName(rename) == {n \in (IF rename THEN 1 .. 2 ELSE {1}) :
                       folder[n] = Free /\ \A m \in 1 .. n - 1 : folder[m] # Free}

Export ==
  /\ run = Idle /\ dir.made = "made" /\ Sound /\ dir.row.phase = 3
  /\ \E rename \in BOOLEAN : \E n \in FreeName(rename) : folder' = [folder EXCEPT ![n] = dir.out]
  /\ UNCHANGED <<dir, run, opts, server, cancel, result, budget>>

Cancel ==
  /\ run # Idle /\ ~cancel /\ cancel' = TRUE
  /\ UNCHANGED <<dir, run, opts, server, result, folder, budget>>

Change ==
  /\ server + 1 \in Versions /\ Spend("changes") /\ server' = server + 1
  /\ UNCHANGED <<dir, run, opts, cancel, result, folder>>

Stranger ==
  /\ Spend("strangers")
  /\ \/ dir.made = "made" /\ dir.out = Free /\ dir' = [dir EXCEPT !.out = Foreign] /\ UNCHANGED folder
     \/ folder[1] = Free /\ folder' = [folder EXCEPT ![1] = Foreign] /\ UNCHANGED dir
  /\ UNCHANGED <<run, opts, server, cancel, result>>

\* Unsynced units are lost or garbage, an unsynced name may be gone, SQLite keeps what it
\* committed.
PowerLoss ==
  /\ Spend("power") /\ run' = Idle /\ cancel' = FALSE /\ UNCHANGED result
  /\ \E n \in dir.synced .. Len(dir.part), bad \in BOOLEAN, gone \in BOOLEAN :
       dir' = [dir EXCEPT
         !.part = [i \in 1 .. n |-> IF bad /\ i > dir.synced THEN Lost ELSE dir.part[i]],
         !.out = IF gone /\ ~dir.outSynced THEN Free ELSE @, !.outSynced = TRUE]
  /\ UNCHANGED <<opts, server, folder>>

Next ==
  \/ Begin \/ Respond \/ Refused \/ Create \/ Insert \/ Rebind \/ Proceed
  \/ Read \/ PastTheLimit \/ Cut \/ Break \/ Obey \/ CleanEnd \/ Checkpoint
  \/ First \/ FetchRange \/ Joined \/ Flush
  \/ Mark \/ Ready \/ Intend \/ Link \/ Settle
  \/ (\E url \in Urls : RefreshUrl(url)) \/ Export \/ Cancel \/ Change \/ Stranger \/ PowerLoss

Spec == Init /\ [][Next]_vars

-----------------------------------------------------------------------------
(***************************************************************************)
(* Properties.                                                             *)
(***************************************************************************)
\* What is published or exported is the whole of one representation, and the expected one
\* if a digest was given, whatever was resumed, refreshed, fetched in ranges or cut off.
PublishedIsWhole ==
  \A file \in {dir.out, folder[1], folder[2]} :
    file \in {Free, Foreign} \/ (file \in Whole /\ (opts.expected => file = Expected))

\* The receipt in the row never claims bytes that the file does not hold for certain, so
\* that open never finds its own part file corrupt, and no progress is reported beyond it.
CommittedIsStable ==
  dir.made = "made" =>
    /\ dir.row.committed <= dir.synced /\ PartSound
    /\ dir.row.committed <= dir.row.total /\ run.reported <= dir.row.committed

\* A finished download stands at its name, with the bytes of the receipt: on Unix, where the
\* directory is synced before the receipt, also after the power failed; elsewhere as long as
\* it did not fail (transfer-store/README.md claims no more).  And the attempt's own state
\* machine agreed to every step on the way.
CompletedStands ==
  /\ dir.row.phase = 3 \/ result = "done" =>
       /\ opts.unix \/ budget.power = MaxPower => dir.out \in Whole /\ dir.out = dir.row.digest
       /\ opts.unix => dir.outSynced
  /\ run.job # Illegal

\* The job directory keeps the promise of Publication: a free name is taken at once and
\* whole, no step of an attempt touches what stands there, whoever put it there, and the
\* receipt says published only while the whole file stands there.
Promise == INSTANCE Publication WITH
  dest   <- dir.out,
  ending <- IF dir.row.phase = 3 THEN "completed" ELSE "open",
  seen   <- {dir.out} \cup (IF dir.outSynced THEN {} ELSE {Free}),
  losses <- MaxPower - budget.power,
  others <- MaxStrangers - budget.strangers

KeepsPromise == Promise!Spec
=============================================================================
