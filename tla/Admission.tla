----------------------------- MODULE Admission ------------------------------
(***************************************************************************)
(* How a request becomes a job, and a job is found again: AddDownload      *)
(* (crates/application/src/lib.rs) over the repository's receipts and      *)
(* references (crates/adapters/persistence/src/lib.rs, references.rs),     *)
(* under its two callers, the resident service                             *)
(* (crates/bins/daemon/src/service.rs), which answers many clients at      *)
(* once, and the one-shot engine (crates/bins/daemon/src/lib.rs), which    *)
(* is started with a batch or continues what the directory remembers.      *)
(*                                                                         *)
(* Each transaction is a step; what a handler read before an await it uses *)
(* after it.  One engine at a time owns the directory; a crash ends it     *)
(* between any two transactions.  A job's state is what the callers tell   *)
(* apart: Transferring stands for every state of a job in work, Paused for *)
(* every state at rest that is not final, Completed for the final ones.    *)
(***************************************************************************)
EXTENDS Integers, FiniteSets, Sequences

CONSTANTS
  Clients,      \* handlers that run at once; the one-shot engine uses one
  Requests,     \* [url, allow, destination, max, expected, sensitive]
  PathOf,       \* a destination as it is spelled -> the spelling it resolves to
  Cleartext,    \* the links that are not encrypted
  Maxes,        \* the size limits an engine may be started with
  Batches,      \* the lists of requests the one-shot engine is given
  MaxJobs, MaxReceipts,                        \* Limits
  MaxIds, MaxBoots, MaxAdds, MaxFaults, MaxRemovals   \* bounds

Elements(s) == {s[i] : i \in DOMAIN s}

IsRequest(r) ==
  r \in [url : {r.url}, allow : BOOLEAN, destination : {r.destination}, max : {r.max},
         expected : {r.expected}, sensitive : BOOLEAN]

ASSUME AdmissionAssumption ==
  /\ {MaxJobs, MaxReceipts} \subseteq Nat
  /\ \A r \in Requests : IsRequest(r)
  /\ \A b \in Batches : b \in Seq(Elements(b)) /\ \A r \in Elements(b) : IsRequest(r)

VARIABLES
  repo,      \* [last, jobs, receipts, sources, destinations]: the database
  engine,    \* the process: see Down
  clients,   \* client -> [pc, req, id, seen]
  accepted,  \* the answers given: [key, spec, id, sensitive]
  budget     \* what the environment has left

vars == <<repo, engine, clients, accepted, budget>>

-----------------------------------------------------------------------------
Down  == [mode |-> "down", max |-> 0, allow |-> FALSE, bound |-> {}, registry |-> {},
          held |-> {}, failed |-> {}, answered |-> {}, intent |-> "Start", record |-> <<>>,
          admit |-> <<>>, prepare |-> {}]
NoReq == [url |-> 0, allow |-> FALSE, destination |-> 0, max |-> 0, expected |-> 0,
          sensitive |-> FALSE]
Free  == [pc |-> "free", req |-> NoReq, id |-> 0, seen |-> "none"]

Serve(r) == [pc |-> "receipt", req |-> r, id |-> 0, seen |-> "none"]

Init ==
  /\ repo = [last |-> 0, jobs |-> {}, receipts |-> {}, sources |-> {}, destinations |-> {}]
  /\ engine = Down
  /\ clients = [c \in Clients |-> Free]
  /\ accepted = {}
  /\ budget = [boots |-> MaxBoots, adds |-> MaxAdds, faults |-> MaxFaults,
               removals |-> MaxRemovals]

Spend(what) ==
  /\ budget[what] > 0
  /\ budget' = [budget EXCEPT ![what] = @ - 1]

Smaller(a, b) == IF a <= b THEN a ELSE b

\* A source is a link and whether it may be fetched in the clear, which takes the request
\* and the engine.
SourceOf(r) == [url |-> r.url, allow |-> r.allow /\ engine.allow]

\* What to fetch and where it lands, as asked; the expected digest is not part of it.
Key(r) == <<SourceOf(r), r.destination, r.max>>

\* The resident engine lowers a request's limit to its own; the key keeps what was asked.
SpecOf(r) == [source |-> SourceOf(r), destination |-> r.destination, expected |-> r.expected,
              max |-> Smaller(r.max, engine.max)]

At(c, pc) == clients' = [clients EXCEPT ![c].pc = pc]

\* A refusal ends the handler, and the whole one-shot run.
Refuse(c) ==
  /\ clients' = [clients EXCEPT ![c] = Free]
  /\ engine' = IF engine.mode = "batch" THEN Down ELSE engine

-----------------------------------------------------------------------------
(***************************************************************************)
(* Service::add up to its first await: another reference must not already  *)
(* name the path, and the transport binds a source once in its life,       *)
(* whatever becomes of the request.                                        *)
(***************************************************************************)
ClaimedByOther(d) ==
  \E t \in engine.registry : t.destination # d /\ t.path = PathOf[d]

Fetchable(source) == source.url \in Cleartext => source.allow

\* Mutant: a source may be bound again.
BindableAgain(source) == Fetchable(source)

Bindable(source) == Fetchable(source) /\ source \notin engine.bound

Add(c) ==
  /\ engine.mode = "resident" /\ clients[c] = Free /\ Spend("adds")
  /\ \E r \in Requests :
       /\ ~ClaimedByOther(r.destination) /\ Bindable(SourceOf(r))
       /\ engine' = [engine EXCEPT !.bound = @ \cup {SourceOf(r)}]
       /\ clients' = [clients EXCEPT ![c] = Serve(r)]
  /\ UNCHANGED <<repo, accepted>>

(***************************************************************************)
(* AddDownload::execute.                                                   *)
(***************************************************************************)
ReceiptsOf(key) == {p \in repo.receipts : p.key = key}
AfterAdmission  == IF engine.mode = "batch" THEN "admitted" ELSE "record"

\* replay: the same key with another specification, or of a removed job, is refused.
Replay(c, p) ==
  IF p.spec # SpecOf(clients[c].req) \/ p.removed THEN Refuse(c)
  ELSE /\ clients' = [clients EXCEPT ![c].pc = AfterAdmission, ![c].id = p.id]
       /\ UNCHANGED engine

Receipt(c) ==
  /\ clients[c].pc = "receipt"
  /\ LET found == ReceiptsOf(Key(clients[c].req)) IN
     \/ found = {} /\ At(c, "reserve") /\ UNCHANGED engine
     \/ \E p \in found : Replay(c, p)
  /\ UNCHANGED <<repo, accepted, budget>>

\* Mutant: the identity is only read.
ReserveIdUnsaved(c) ==
  /\ clients[c].pc = "reserve" /\ repo.last < MaxIds
  /\ clients' = [clients EXCEPT ![c].pc = "commit", ![c].id = repo.last + 1]
  /\ UNCHANGED <<repo, engine, accepted, budget>>

\* reserve_id: its own transaction, so that a crash leaves a gap and never a reuse.
ReserveId(c) ==
  /\ clients[c].pc = "reserve" /\ repo.last < MaxIds
  /\ repo' = [repo EXCEPT !.last = @ + 1]
  /\ \/ /\ clients' = [clients EXCEPT ![c].pc = "commit", ![c].id = repo.last + 1]
        /\ UNCHANGED <<engine, budget>>
     \/ Spend("faults") /\ Refuse(c)
  /\ UNCHANGED accepted

Taken(key, id) ==
  ReceiptsOf(key) # {} \/ (\E j \in repo.jobs : j.id = id) \/ (\E p \in repo.receipts : p.id = id)

FullUp == Cardinality(repo.jobs) >= MaxJobs \/ Cardinality(repo.receipts) >= MaxReceipts

Inserted(c) ==
  LET r == clients[c].req IN
  [repo EXCEPT
     !.jobs = @ \cup {[id |-> clients[c].id, spec |-> SpecOf(r), state |-> "Queued"]},
     !.receipts = @ \cup {[key |-> Key(r), spec |-> SpecOf(r), id |-> clients[c].id,
                           removed |-> FALSE]}]

\* commit_add: one transaction, and an answer that may be lost.  After a conflict the
\* receipt of the other one is read.
CommitAdd(c) ==
  /\ clients[c].pc = "commit"
  /\ IF Taken(Key(clients[c].req), clients[c].id)
       THEN (\E p \in ReceiptsOf(Key(clients[c].req)) : Replay(c, p)) /\ UNCHANGED <<repo, budget>>
     ELSE IF FullUp
       THEN Refuse(c) /\ UNCHANGED <<repo, budget>>
     ELSE \/ repo' = Inserted(c) /\ At(c, AfterAdmission) /\ UNCHANGED <<engine, budget>>
          \/ Spend("faults") /\ repo' \in {repo, Inserted(c)} /\ Refuse(c)
  /\ UNCHANGED accepted

\* A read that fails ends the handler.
Unreadable(c) ==
  /\ clients[c].pc \in {"receipt", "load"}
  /\ Spend("faults") /\ Refuse(c)
  /\ UNCHANGED <<repo, accepted>>

-----------------------------------------------------------------------------
(***************************************************************************)
(* References.  A row marked sensitive keeps its link off the disk for     *)
(* good.  The resident engine stores the path a destination resolves to,   *)
(* the one-shot engine the path as it was spelled.                         *)
(***************************************************************************)
Row(r) == [source |-> SourceOf(r), url |-> ~r.sensitive, sensitive |-> r.sensitive]

Upsert(rows, row) ==
  IF \E s \in rows : s.source = row.source /\ s.sensitive THEN rows
  ELSE {s \in rows : s.source # row.source} \cup {row}

Place(r) ==
  [destination |-> r.destination,
   path |-> IF engine.mode = "batch" THEN r.destination ELSE PathOf[r.destination]]

Placed(rows, place) == {t \in rows : t.destination # place.destination} \cup {place}

Remembering(r) ==
  [repo EXCEPT !.sources = Upsert(@, Row(r)), !.destinations = Placed(@, Place(r))]

\* Mutant: the answer does not wait for the references.
RecordLater(c) ==
  /\ clients[c].pc = "record" /\ At(c, "load")
  /\ UNCHANGED <<repo, engine, accepted, budget>>

\* ReferenceStore::record; then the registry follows what the database holds.
Record(c) ==
  /\ clients[c].pc = "record"
  /\ LET r == clients[c].req IN
     \/ /\ repo' = Remembering(r)
        /\ engine' = [engine EXCEPT !.registry = Placed(@, Place(r))]
        /\ At(c, "load") /\ UNCHANGED budget
     \/ Spend("faults") /\ repo' \in {repo, Remembering(r)} /\ Refuse(c)
  /\ UNCHANGED accepted

Load(c) ==
  /\ clients[c].pc = "load"
  /\ LET found == {j \in repo.jobs : j.id = clients[c].id} IN
     \/ found = {} /\ Refuse(c)
     \/ \E j \in found : clients' = [clients EXCEPT ![c].pc = "hand", ![c].seen = j.state]
                         /\ UNCHANGED engine
  /\ UNCHANGED <<repo, accepted, budget>>

Answer(c) == [key |-> Key(clients[c].req), spec |-> SpecOf(clients[c].req), id |-> clients[c].id,
              sensitive |-> clients[c].req.sensitive]

\* A queued job, and no other, goes to the scheduler; the client has its answer.
Hand(c) ==
  /\ clients[c].pc = "hand"
  /\ engine' = [engine EXCEPT !.held = IF clients[c].seen = "Queued"
                                         THEN @ \cup {clients[c].id} ELSE @,
                              !.answered = @ \cup {clients[c].id}]
  /\ accepted' = accepted \cup {Answer(c)}
  /\ clients' = [clients EXCEPT ![c] = Free]
  /\ UNCHANGED <<repo, budget>>

-----------------------------------------------------------------------------
(***************************************************************************)
(* Resident::open and Service::restore.  A link that was kept off the disk *)
(* cannot be bound, nor one this run's policy does not allow; of several   *)
(* jobs with one source the first is bound, and the others are passed by.  *)
(***************************************************************************)
Linked(j) == \E s \in repo.sources : s.source = j.spec.source /\ s.url

Allowed(j, allow) == Linked(j) /\ (j.spec.source.allow => allow)

FirstOfSource(j) == \A k \in repo.jobs : k.spec.source = j.spec.source => j.id <= k.id

\* Mutant: a retry is somebody else's business.
RestoresQueued(j) == j.state = "Queued"
Restores(j) == j.state \in {"Queued", "RetryWait"}

OpenResident ==
  /\ engine.mode = "down" /\ Spend("boots")
  /\ \E max \in Maxes, allow \in BOOLEAN :
       LET bound == {j \in repo.jobs : Allowed(j, allow) /\ FirstOfSource(j)} IN
       engine' = [Down EXCEPT !.mode = "resident", !.max = max, !.allow = allow,
                    !.registry = repo.destinations, !.bound = {j.spec.source : j \in bound},
                    !.held = {j.id : j \in {k \in bound : Restores(k)}}]
  /\ UNCHANGED <<repo, clients, accepted>>

(***************************************************************************)
(* Engine::open_many, with a batch or with what reopen finds: every name   *)
(* and every source once, then the references of all, then the admission   *)
(* of each, then drive.                                                    *)
(***************************************************************************)
Opens(batch, allow) ==
  /\ batch # <<>>
  /\ \A i, k \in DOMAIN batch :
       batch[i].destination = batch[k].destination \/ batch[i].url = batch[k].url => i = k
  /\ \A i \in DOMAIN batch : Fetchable([url |-> batch[i].url, allow |-> allow])

\* reopen asks again for every remembered job with a stored link, the earliest for each
\* stored path, under the limit and the policy of this run.
Continuable == {j \in repo.jobs : Linked(j) /\ \E t \in repo.destinations :
                                                t.destination = j.spec.destination}

StoredPath(j) == (CHOOSE t \in repo.destinations : t.destination = j.spec.destination).path

Remembered(j, max) ==
  [url |-> j.spec.source.url, allow |-> TRUE, destination |-> StoredPath(j), max |-> max,
   expected |-> j.spec.expected, sensitive |-> FALSE]

Continued(max) ==
  LET kept   == {j \in Continuable : \A k \in Continuable :
                   StoredPath(k) = StoredPath(j) => j.id <= k.id}
      Nth(i) == CHOOSE j \in kept : Cardinality({k \in kept : k.id <= j.id}) = i
  IN  [i \in 1 .. Cardinality(kept) |-> Remembered(Nth(i), max)]

OpenMany ==
  /\ engine.mode = "down" /\ Spend("boots")
  /\ \E max \in Maxes, allow \in BOOLEAN, intent \in {"Start", "Resume"} :
       \E batch \in {Continued(max)} \cup
                    {[i \in DOMAIN b |-> [b[i] EXCEPT !.max = max, !.allow = TRUE]] : b \in Batches} :
         /\ Opens(batch, allow)
         /\ engine' = [Down EXCEPT !.mode = "batch", !.max = max, !.allow = allow,
                                   !.intent = intent, !.record = batch, !.admit = batch]
  /\ UNCHANGED <<repo, clients, accepted>>

RecordNext ==
  /\ engine.mode = "batch" /\ engine.record # <<>>
  /\ \/ /\ repo' = Remembering(Head(engine.record))
        /\ engine' = [engine EXCEPT !.record = Tail(@)]
        /\ UNCHANGED budget
     \/ Spend("faults") /\ engine' = Down /\ repo' \in {repo, Remembering(Head(engine.record))}
  /\ UNCHANGED <<clients, accepted>>

\* The one-shot engine admits one request after the other, in the place of one client.
AdmitNext(c) ==
  /\ engine.mode = "batch" /\ engine.record = <<>> /\ engine.admit # <<>>
  /\ \A d \in Clients : clients[d] = Free
  /\ clients' = [clients EXCEPT ![c] = Serve(Head(engine.admit))]
  /\ engine' = [engine EXCEPT !.admit = Tail(@)]
  /\ UNCHANGED <<repo, accepted, budget>>

Admitted(c) ==
  /\ clients[c].pc = "admitted"
  /\ engine' = [engine EXCEPT !.prepare = @ \cup {clients[c].id}]
  /\ accepted' = accepted \cup {Answer(c)}
  /\ clients' = [clients EXCEPT ![c] = Free]
  /\ UNCHANGED <<repo, budget>>

\* recover: a job in work is paused, a stop or a cancellation that was interrupted is
\* carried out, which may lead back to work (a verification).
Recovered(state) ==
  IF state = "Transferring" THEN {"Paused", "Queued", "RetryWait", "Transferring", "Completed"}
  ELSE {state}

\* prepare: a stopped job stays stopped unless the operator asks for it to go on, and then
\* it is queued, or verified if all its bytes are there.
Prepared(state) ==
  UNION {IF engine.intent = "Resume" /\ s = "Paused" THEN {"Queued", "Transferring"} ELSE {s} :
           s \in Recovered(state)}

Runnable(state) ==
  \/ state \in {"Queued", "RetryWait"}
  \/ engine.intent = "Resume" /\ state \in {"Transferring", "Publishing"}

Moved(id, state) ==
  [repo EXCEPT !.jobs = {IF j.id = id THEN [j EXCEPT !.state = state] ELSE j : j \in @}]

Prepare ==
  /\ engine.mode = "batch" /\ engine.record = <<>> /\ engine.admit = <<>>
  /\ \A c \in Clients : clients[c] = Free
  /\ \E id \in engine.prepare :
       LET found == {j \in repo.jobs : j.id = id} IN
       \/ found = {} /\ engine' = Down /\ UNCHANGED repo
       \/ \E j \in found : \E state \in Prepared(j.state) :
            /\ repo' = Moved(id, state)
            /\ engine' = [engine EXCEPT !.prepare = @ \ {id},
                 !.held = IF Runnable(state) THEN @ \cup {id} ELSE @]
  /\ UNCHANGED <<clients, accepted, budget>>

-----------------------------------------------------------------------------
(***************************************************************************)
(* The scheduler at work on the jobs it was handed, the operator who       *)
(* removes one, and the end of the process.                                *)
(***************************************************************************)
Follows == [Queued |-> {"Transferring", "Paused", "Completed"},
            RetryWait |-> {"Queued", "Paused", "Completed"},
            Transferring |-> {"Queued", "RetryWait", "Publishing", "Paused", "Completed"},
            Publishing |-> {"Completed", "Paused"}, Paused |-> {}, Completed |-> {}]

\* A session that fails leaves the record as it is and the scheduler without the job.
Work ==
  /\ engine.prepare = {}
  /\ \E j \in repo.jobs :
       /\ j.id \in engine.held
       /\ \/ \E state \in Follows[j.state] :
               /\ repo' = Moved(j.id, state)
               /\ engine' = [engine EXCEPT !.held = IF state \in {"Paused", "Completed"}
                                                      THEN @ \ {j.id} ELSE @]
               /\ UNCHANGED budget
          \/ /\ Spend("faults") /\ UNCHANGED repo
             /\ engine' = [engine EXCEPT !.held = @ \ {j.id}, !.failed = @ \cup {j.id}]
  /\ UNCHANGED <<clients, accepted>>

\* SqliteRepository::remove: the row goes, the receipt stays as a tombstone.
Remove ==
  /\ engine.mode # "down" /\ Spend("removals")
  /\ \E p \in repo.receipts, j \in repo.jobs :
       /\ ~p.removed /\ j.id = p.id /\ j.state \notin {"Transferring", "Publishing"}
       /\ repo' = [repo EXCEPT !.jobs = @ \ {j},
                               !.receipts = (@ \ {p}) \cup {[p EXCEPT !.removed = TRUE]}]
  /\ UNCHANGED <<engine, clients, accepted>>

\* The process ends, in order or not: what is in memory is gone, and so are the answers.
Exit ==
  /\ engine.mode # "down"
  /\ engine' = Down /\ clients' = [c \in Clients |-> Free]
  /\ UNCHANGED <<repo, accepted, budget>>

Handler(c) ==
  Add(c) \/ Receipt(c) \/ ReserveId(c) \/ CommitAdd(c) \/ Unreadable(c)
  \/ Record(c) \/ Load(c) \/ Hand(c) \/ AdmitNext(c) \/ Admitted(c)

Next ==
  \/ \E c \in Clients : Handler(c)
  \/ OpenResident \/ OpenMany \/ RecordNext \/ Prepare
  \/ Work \/ Remove \/ Exit

Spec == Init /\ [][Next]_vars

-----------------------------------------------------------------------------
(***************************************************************************)
(* Properties.                                                             *)
(***************************************************************************)

\* load_receipt and execute never find the repository corrupt, whatever races, is lost
\* or is removed: a receipt has its job unless it is a tombstone, no identity serves two
\* receipts, and racing clients do not pass the limits.  No admission meets a conflict:
\* identities are used once, and a source is bound for one handler only.
ReceiptsAreSound ==
  /\ Cardinality(repo.jobs) <= MaxJobs /\ Cardinality(repo.receipts) <= MaxReceipts
  /\ \A p \in repo.receipts :
       LET found == {j \in repo.jobs : j.id = p.id}
       IN  IF p.removed THEN found = {} ELSE \E j \in found : j.spec = p.spec
  /\ \A p, q \in repo.receipts : p.key = q.key \/ p.id = q.id => p = q
  /\ \A j \in repo.jobs : \E p \in repo.receipts : p.id = j.id
  /\ \A c \in Clients : clients[c].pc = "commit" => ~Taken(Key(clients[c].req), clients[c].id)

\* An answer is never taken back: before and after a crash, in whichever engine, the key of
\* an answered request has its receipt, with the same job and the same specification, and
\* its source and its destination are recorded.  The link of a source that was accepted as
\* sensitive is in no row of that source, whoever asks for it later without saying so.  A
\* source is a link under a permission: the same link under the other one is another source,
\* with a row of its own, and LinksStayOff is about that.
AcceptedIsRemembered ==
  \A a \in accepted :
    \E p \in repo.receipts :
      /\ p.key = a.key /\ p.id = a.id /\ p.spec = a.spec
      /\ p.removed \/ (/\ \E s \in repo.sources : s.source = a.spec.source
                       /\ \E t \in repo.destinations : t.destination = a.spec.destination)
      /\ a.sensitive => \A s \in repo.sources : s.source = a.spec.source => ~s.url

\* Which jobs a resident engine holds, as long as their sessions do not fail: every queued
\* job it has itself answered for, with or without a stored link; and of the jobs accepted
\* by any engine before it, those queued or waiting for a retry whose link is stored and
\* allowed, unless an earlier job, removed since or not, has the same source.  It claims
\* nothing of the others: of those in work at the start see RememberedJobsStart, and of a
\* job asked for again while it waits for a retry see AddedAreTaken.
QueuedAreHeld ==
  engine.mode = "resident" =>
    \A j \in repo.jobs : j.id \notin engine.failed =>
      /\ j.state = "Queued" /\ j.id \in engine.answered => j.id \in engine.held
      /\ /\ \E a \in accepted : a.id = j.id
         /\ j.state \in {"Queued", "RetryWait"} /\ Allowed(j, engine.allow)
         => \/ j.id \in engine.held
            \/ \E p \in repo.receipts : p.id < j.id /\ p.spec.source = j.spec.source

\* The scheduler's Admit does not look whether it has the job already: no handler is ever
\* about to hand over a job the scheduler holds, or one that another handler hands over.
HandedOnce ==
  \A c \in Clients :
    clients[c].pc = "hand" /\ clients[c].seen = "Queued" =>
      /\ clients[c].id \notin engine.held
      /\ \A d \in Clients : clients[d].pc = "hand" /\ clients[d].id = clients[c].id => d = c

\* daemon/src/lib.rs:665: of two remembered jobs that cannot both be continued the later one
\* is left behind, and the rest of the directory keeps working.
DirectoryContinues ==
  \A max \in Maxes : Continued(max) # <<>> => Opens(Continued(max), TRUE)

\* references.rs:32: a later run that forgets the flag cannot write the credential that an
\* earlier one withheld.
LinksStayOff ==
  \A a \in accepted : a.sensitive =>
    \A s \in repo.sources : s.source.url = a.spec.source.url => ~s.url

\* service.rs:393: what is admitted and not given to the queue is finished or resting.
AddedAreTaken ==
  engine.mode = "resident" =>
    \A j \in repo.jobs :
      j.id \in engine.answered \ engine.failed =>
        j.id \in engine.held \/ j.state \in {"Paused", "Completed"}

\* service.rs:217: jobs the directory remembered start straight away.
RememberedJobsStart ==
  engine.mode = "resident" =>
    \A j \in repo.jobs :
      /\ \E a \in accepted : a.id = j.id
      /\ j.state \notin {"Paused", "Completed"} /\ Allowed(j, engine.allow)
      /\ j.id \notin engine.failed
      => j.id \in engine.held
=============================================================================
