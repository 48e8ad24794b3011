-------------------------- MODULE AdmissionProofs ---------------------------
(***************************************************************************)
(* Proofs about Admission, for any number of clients, requests, identities *)
(* and restarts.                                                           *)
(*                                                                         *)
(* The properties compare the repository with what was answered; what      *)
(* keeps them true is that of the handlers of one source only one is past  *)
(* its binding (SourcesApart), so that what a handler read when it looked  *)
(* for its receipt is still so when it commits.  The batch engine binds    *)
(* nothing and is safe for another reason: it serves one request at a time *)
(* (Modes).                                                                *)
(***************************************************************************)
EXTENDS Admission, FiniteSetTheorems, SequenceTheorems, WellFoundedInduction, TLAPS

-----------------------------------------------------------------------------
(***************************************************************************)
(* The inductive invariant.                                                *)
(***************************************************************************)
Serving(c) == clients[c].pc # "free"

Pcs == {"free", "receipt", "reserve", "commit", "admitted", "record", "load", "hand"}

\* The shape of the state: every record has its fields, identities were handed out, and a
\* source's row has its link unless it is sensitive.
RepoOK ==
  /\ repo \in [last : Nat, jobs : {repo.jobs}, receipts : {repo.receipts},
               sources : {repo.sources}, destinations : {repo.destinations}]
  /\ IsFiniteSet(repo.jobs) /\ IsFiniteSet(repo.receipts)
  /\ \A j \in repo.jobs : j \in [id : 1 .. repo.last, spec : {j.spec}, state : {j.state}]
  /\ \A p \in repo.receipts :
       p \in [key : {p.key}, spec : {p.spec}, id : 1 .. repo.last, removed : BOOLEAN]
  /\ \A s \in repo.sources :
       s \in [source : {s.source}, url : BOOLEAN, sensitive : BOOLEAN] /\ s.url = ~s.sensitive
  /\ \A s, t \in repo.sources : s.source = t.source => s = t

EngineOK ==
  /\ engine \in [mode : {"down", "resident", "batch"}, max : {engine.max}, allow : BOOLEAN,
                 bound : {engine.bound}, registry : {engine.registry}, held : {engine.held},
                 failed : {engine.failed}, answered : {engine.answered},
                 intent : {engine.intent}, record : {engine.record},
                 admit : {engine.admit}, prepare : {engine.prepare}]
  /\ \A b \in {engine.record, engine.admit} :
       b \in Seq(Elements(b)) /\ \A r \in Elements(b) : IsRequest(r)

ClientsOK ==
  /\ clients = [c \in Clients |-> clients[c]]
  /\ \A c \in Clients :
       /\ clients[c] \in [pc : Pcs, req : {clients[c].req}, id : Nat, seen : {clients[c].seen}]
       /\ IsRequest(clients[c].req)
       /\ ~Serving(c) => clients[c] = Free

\* No handler outlives its engine, and the one-shot engine admits one request at a time,
\* after it has recorded all of them.
ModeFor(c) ==
  /\ engine.mode = "batch" => clients[c].pc \notin {"record", "load", "hand"}
  /\ engine.mode = "resident" => clients[c].pc # "admitted"

Modes ==
  /\ \A c \in Clients : ModeFor(c)
  /\ engine.mode = "down" => \A c \in Clients : ~Serving(c)
  /\ engine.mode = "batch" =>
       /\ \A c, d \in Clients : Serving(c) /\ Serving(d) => c = d
       /\ \A c \in Clients : Serving(c) => engine.record = <<>>

\* A source is bound for one handler.
SourcesApart ==
  engine.mode = "resident" =>
    \A c \in Clients : Serving(c) =>
      /\ SourceOf(clients[c].req) \in engine.bound
      /\ \A d \in Clients :
           Serving(d) /\ SourceOf(clients[d].req) = SourceOf(clients[c].req) => c = d

\* What a handler is about to commit is new: its key and its identity.
ReservedFor(c) ==
  /\ clients[c].pc \in {"reserve", "commit"} => ReceiptsOf(Key(clients[c].req)) = {}
  /\ clients[c].pc = "commit" =>
       /\ clients[c].id \in 1 .. repo.last
       /\ \A j \in repo.jobs : j.id # clients[c].id
       /\ \A p \in repo.receipts : p.id # clients[c].id
       /\ \A d \in Clients : clients[d].pc = "commit" /\ clients[d].id = clients[c].id => c = d

Reserved == \A c \in Clients : ReservedFor(c)

\* Jobs and receipts.
JobsApart == \A j, k \in repo.jobs : j.id = k.id => j = k

Limits == Cardinality(repo.jobs) <= MaxJobs /\ Cardinality(repo.receipts) <= MaxReceipts

Receipts ==
  /\ \A p \in repo.receipts : p.removed => \A j \in repo.jobs : j.id # p.id
  /\ \A p \in repo.receipts : ~p.removed => \E j \in repo.jobs : j.id = p.id /\ j.spec = p.spec
  /\ \A p, q \in repo.receipts : p.key = q.key \/ p.id = q.id => p = q
  /\ \A j \in repo.jobs : \E p \in repo.receipts : p.id = j.id

\* A request that was admitted has its receipt, whatever is removed.
HasReceipt(key, spec, id) ==
  \E p \in repo.receipts : p.key = key /\ p.spec = spec /\ p.id = id

AdmissionFor(c) ==
  clients[c].pc \in {"record", "load", "hand", "admitted"} =>
    HasReceipt(Key(clients[c].req), SpecOf(clients[c].req), clients[c].id)

Admissions == \A c \in Clients : AdmissionFor(c)

\* What it takes to fetch it is in the database, marked sensitive if it has to be.
Rowed(source, destination, sensitive) ==
  /\ \E s \in repo.sources : s.source = source /\ (sensitive => s.sensitive)
  /\ \E t \in repo.destinations : t.destination = destination

RowedRequest(r) == Rowed(SourceOf(r), r.destination, r.sensitive)

RecordedFor(c) ==
  clients[c].pc \in {"load", "hand"} \/ (engine.mode = "batch" /\ Serving(c)) =>
    RowedRequest(clients[c].req)

Recorded ==
  /\ \A c \in Clients : RecordedFor(c)
  /\ engine.mode = "batch" =>
       \A r \in Elements(engine.admit) : RowedRequest(r) \/ r \in Elements(engine.record)

Answers ==
  \A a \in accepted :
    /\ HasReceipt(a.key, a.spec, a.id)
    /\ Rowed(a.spec.source, a.spec.destination, a.sensitive)

\* The scheduler's jobs and those that were answered for have receipts; in a resident engine
\* the sources of what is held are bound, and no handler is at work on one.
HeldKnown ==
  /\ \A h \in engine.held \cup engine.prepare \cup engine.answered :
       \E p \in repo.receipts : p.id = h
  /\ engine.mode = "resident" =>
       \A p \in repo.receipts : p.id \in engine.held =>
         /\ p.spec.source \in engine.bound
         /\ \A c \in Clients : Serving(c) => SourceOf(clients[c].req) # p.spec.source

\* A job that is in work, or ever was, has a row for its source.
HasRow(source) == \E s \in repo.sources : s.source = source

WorkIsRecorded ==
  \A j \in repo.jobs :
    j.state # "Queued" \/ j.id \in engine.held \/ j.id \in engine.prepare => HasRow(j.spec.source)

\* A resident engine has bound every source it may bind.  A handler whose source was not
\* bound before it came finds jobs that were never in work, or whose link is not known.
Sensitive(source) == \E s \in repo.sources : s.source = source /\ s.sensitive

Bounds ==
  engine.mode = "resident" =>
    /\ \A j \in repo.jobs : Allowed(j, engine.allow) => j.spec.source \in engine.bound
    /\ \A c \in Clients : Serving(c) =>
         \A j \in repo.jobs : j.spec.source = SourceOf(clients[c].req) =>
           j.state = "Queued" \/ Sensitive(j.spec.source)

\* What a handler has seen of its job still is the job's state.
SeenFor(c) ==
  clients[c].pc = "hand" =>
    \A j \in repo.jobs : j.id = clients[c].id => j.state = clients[c].seen

SeenIsCurrent == \A c \in Clients : SeenFor(c)

\* The two halves of QueuedAreHeld: what this engine answered for, and what any has accepted.
AnsweredHeld ==
  engine.mode = "resident" =>
    \A j \in repo.jobs :
      j.state = "Queued" /\ j.id \in engine.answered /\ j.id \notin engine.failed =>
        j.id \in engine.held

WaitingHeld ==
  engine.mode = "resident" =>
    \A j \in repo.jobs :
      /\ \E a \in accepted : a.id = j.id
      /\ j.state \in {"Queued", "RetryWait"} /\ Allowed(j, engine.allow)
      /\ j.id \notin engine.failed
      => \/ j.id \in engine.held
         \/ \E p \in repo.receipts : p.id < j.id /\ p.spec.source = j.spec.source

IInv ==
  /\ RepoOK /\ EngineOK /\ ClientsOK
  /\ Modes /\ SourcesApart /\ Reserved
  /\ JobsApart /\ Limits /\ Receipts
  /\ Admissions /\ Recorded /\ Answers
  /\ HeldKnown /\ WorkIsRecorded /\ Bounds /\ SeenIsCurrent
  /\ AnsweredHeld /\ WaitingHeld

-----------------------------------------------------------------------------
(***************************************************************************)
(* Facts that several steps share.                                         *)
(***************************************************************************)

\* What the repository and the answers promise by themselves stays with them.
LEMMA SameStore ==
  ASSUME IInv, repo' = repo
  PROVE  /\ RepoOK' /\ JobsApart' /\ Limits' /\ Receipts'
         /\ accepted' = accepted => Answers'
<1>1. RepoOK' /\ JobsApart' /\ Limits' /\ Receipts'
  BY DEF IInv, RepoOK, JobsApart, Limits, Receipts
<1>2. accepted' = accepted => Answers'
  BY DEF IInv, Answers, HasReceipt, Rowed
<1> QED BY <1>1, <1>2

\* An engine of the same mode, limit and policy, and the sources it bound at least.
SameEngine ==
  /\ engine'.mode = engine.mode /\ engine'.max = engine.max /\ engine'.allow = engine.allow
  /\ engine.bound \subseteq engine'.bound

\* When the process is gone, only what the repository and the answers promise is left.
LEMMA AllDown ==
  ASSUME engine' = Down, clients' = [c \in Clients |-> Free]
  PROVE  /\ EngineOK' /\ ClientsOK' /\ Modes' /\ SourcesApart' /\ Reserved' /\ Admissions'
         /\ Recorded' /\ HeldKnown' /\ Bounds' /\ SeenIsCurrent'
         /\ AnsweredHeld' /\ WaitingHeld'
<1>1. /\ engine'.mode = "down" /\ engine'.held = {} /\ engine'.prepare = {}
      /\ engine'.answered = {}
      /\ engine'.record = <<>> /\ engine'.admit = <<>>
  BY DEF Down
<1>2. \A c \in Clients : clients'[c] = Free /\ clients'[c].pc = "free"
  BY DEF Free
<1>3. EngineOK'
  <2>1. <<>> \in Seq(Elements(<<>>)) /\ \A r \in Elements(<<>>) : IsRequest(r)
    BY DEF Elements
  <2> QED BY <2>1, <1>1 DEF EngineOK, Down, Elements
<1>4. ClientsOK'
  BY <1>2 DEF ClientsOK, Free, NoReq, IsRequest, Pcs, Serving
<1>5. Modes' /\ SourcesApart'
  BY <1>1, <1>2 DEF Modes, ModeFor, SourcesApart, Serving
<1>6. Reserved' /\ Admissions' /\ SeenIsCurrent'
  BY <1>2 DEF Reserved, ReservedFor, Admissions, AdmissionFor, SeenIsCurrent, SeenFor
<1>7. Recorded'
  BY <1>1, <1>2 DEF Recorded, RecordedFor, Serving
<1>8. HeldKnown' /\ Bounds' /\ AnsweredHeld' /\ WaitingHeld'
  BY <1>1 DEF HeldKnown, Bounds, AnsweredHeld, WaitingHeld
<1> QED BY <1>3, <1>4, <1>5, <1>6, <1>7, <1>8

\* A refusal frees the handler; in the one-shot engine nobody else is served.
LEMMA Refusal ==
  ASSUME IInv, NEW c \in Clients, Serving(c), Refuse(c)
  PROVE  \/ engine' = Down /\ clients' = [d \in Clients |-> Free]
         \/ engine' = engine /\ clients' = [clients EXCEPT ![c] = Free]
<1>1. CASE engine.mode = "batch"
  <2>1. \A d \in Clients : d # c => clients[d] = Free
    BY <1>1 DEF IInv, Modes, ClientsOK
  <2>2. clients' = [d \in Clients |-> Free]
    BY <2>1 DEF IInv, ClientsOK, Refuse
  <2> QED BY <1>1, <2>2 DEF Refuse
<1>2. CASE engine.mode # "batch"
  BY <1>2 DEF Refuse
<1> QED BY <1>1, <1>2

\* A free handler has the fields of a handler.
LEMMA FreeShape == Free \in [pc : Pcs, req : {Free.req}, id : Nat, seen : {Free.seen}]
                   /\ IsRequest(Free.req) /\ Free.pc = "free"
BY DEF Free, NoReq, IsRequest, Pcs

\* In the same engine, a request is for the same source, key and specification.
LEMMA SameTerms ==
  ASSUME SameEngine, NEW d, clients'[d].req = clients[d].req
  PROVE  /\ SourceOf(clients[d].req)' = SourceOf(clients[d].req)
         /\ Key(clients[d].req)' = Key(clients[d].req)
         /\ SpecOf(clients[d].req)' = SpecOf(clients[d].req)
BY DEF SameEngine, SourceOf, Key, SpecOf

-----------------------------------------------------------------------------
(***************************************************************************)
(* The handlers.                                                           *)
(***************************************************************************)

\* A handler goes on with its request; the others stand still.
Turned(c) ==
  /\ clients' = [d \in Clients |-> clients'[d]]
  /\ \A d \in Clients : d # c => clients'[d] = clients[d]
  /\ clients'[c] \in [pc : Pcs \ {"free"}, req : {clients[c].req}, id : Nat,
                      seen : {clients'[c].seen}]

\* What a handler may do to the repository: hand out an identity, add the receipt and the
\* job it was about to commit, and write the row of its source.
Grown(c) ==
  /\ RepoOK' /\ JobsApart' /\ Limits' /\ Receipts'
  /\ repo.last <= repo'.last
  /\ repo.receipts \subseteq repo'.receipts /\ repo.jobs \subseteq repo'.jobs
  /\ \A p \in repo'.receipts \ repo.receipts :
       /\ clients[c].pc = "commit" /\ p.id = clients[c].id
       /\ p.key = Key(clients[c].req) /\ p.spec = SpecOf(clients[c].req)
  /\ \A j \in repo'.jobs \ repo.jobs :
       /\ clients[c].pc = "commit" /\ j.id = clients[c].id
       /\ j.spec = SpecOf(clients[c].req) /\ j.state = "Queued"
  /\ \A s \in repo'.sources \ repo.sources : s.source = SourceOf(clients[c].req)
  /\ \A s \in repo.sources : \E t \in repo'.sources :
       t.source = s.source /\ (s.sensitive => t.sensitive)
  /\ \A t \in repo.destinations : \E u \in repo'.destinations : u.destination = t.destination

\* A step that leaves the repository alone keeps what was promised about it.
LEMMA NotGrown ==
  ASSUME IInv, repo' = repo, NEW c
  PROVE  Grown(c)
BY SameStore DEF Grown, IInv, RepoOK

\* Nothing that was promised about the repository is lost in such a step.
LEMMA GrownKeeps ==
  ASSUME IInv, NEW c \in Clients, Serving(c), Grown(c)
  PROVE  /\ \A key, spec, id : HasReceipt(key, spec, id) => HasReceipt(key, spec, id)'
         /\ \A so, de, se : Rowed(so, de, se) => Rowed(so, de, se)'
         /\ \A so : (HasRow(so) => HasRow(so)') /\ (Sensitive(so) => Sensitive(so)')
         /\ accepted' = accepted => Answers'
<1>1. \A key, spec, id : HasReceipt(key, spec, id) => HasReceipt(key, spec, id)'
  BY DEF HasReceipt, Grown
<1>2. \A so, de, se : Rowed(so, de, se) => Rowed(so, de, se)'
  BY DEF Rowed, Grown
<1>3. \A so : (HasRow(so) => HasRow(so)') /\ (Sensitive(so) => Sensitive(so)')
  BY DEF HasRow, Sensitive, Grown
<1>4. accepted' = accepted => Answers'
  BY <1>1, <1>2 DEF IInv, Answers
<1> QED BY <1>1, <1>2, <1>3, <1>4

\* What is inserted is new to the scheduler: jobs in work keep their rows.
LEMMA GrownWork ==
  ASSUME IInv, NEW c \in Clients, Serving(c), Grown(c),
         engine'.held \subseteq engine.held, engine'.prepare \subseteq engine.prepare
  PROVE  WorkIsRecorded'
<1>1. \A so : HasRow(so) => HasRow(so)'
  BY GrownKeeps
<1>2. SUFFICES ASSUME NEW j \in repo'.jobs,
                      j.state # "Queued" \/ j.id \in engine'.held \/ j.id \in engine'.prepare
               PROVE  HasRow(j.spec.source)'
  BY DEF WorkIsRecorded
<1>3. j \in repo.jobs
  BY <1>2 DEF IInv, Grown, HeldKnown, Reserved, ReservedFor
<1> QED BY <1>1, <1>2, <1>3 DEF IInv, WorkIsRecorded

\* An accepted job whose link cannot be bound never becomes one whose link can: its row is
\* there, and is sensitive.
LEMMA AcceptedStaysUnlinked ==
  ASSUME IInv, RepoOK', NEW j \in repo.jobs, NEW k, k.spec = j.spec,
         NEW a \in accepted, a.id = j.id, Linked(k)',
         \A so : Sensitive(so) => Sensitive(so)'
  PROVE  Linked(j)
<1>1. PICK p \in repo.receipts : p.id = a.id /\ p.spec = a.spec
  BY DEF IInv, Answers, HasReceipt
<1>2. a.spec = j.spec
  BY <1>1 DEF IInv, Receipts, RepoOK, JobsApart
<1>3. PICK s \in repo.sources : s.source = j.spec.source
  BY <1>2 DEF IInv, Answers, Rowed
<1>4. SUFFICES ASSUME ~s.url PROVE FALSE
  BY <1>3 DEF Linked
<1>5. Sensitive(j.spec.source)'
  BY <1>3, <1>4 DEF IInv, RepoOK, Sensitive
<1>6. PICK t \in repo'.sources : t.source = j.spec.source /\ t.sensitive
  BY <1>5 DEF Sensitive
<1>7. PICK u \in repo'.sources : u.source = j.spec.source /\ u.url
  BY DEF Linked
<1>8. t = u
  BY <1>6, <1>7 DEF RepoOK
<1>9. t.url = ~t.sensitive
  BY DEF RepoOK
<1> QED BY <1>6, <1>7, <1>8, <1>9

\* A step of one handler within its engine: what it relies on from now on has to hold then.
LEMMA HandlerStep ==
  ASSUME IInv, NEW c \in Clients, Serving(c), Grown(c), EngineOK', accepted' = accepted,
         SameEngine, engine'.bound = engine.bound, engine'.held = engine.held,
         engine'.failed = engine.failed, engine'.prepare = engine.prepare,
         engine'.answered = engine.answered,
         engine'.record = engine.record, engine'.admit = engine.admit,
         \/ clients' = [clients EXCEPT ![c] = Free]
         \/ Turned(c) /\ ModeFor(c)' /\ ReservedFor(c)' /\ AdmissionFor(c)' /\ RecordedFor(c)'
            /\ SeenFor(c)'
  PROVE  IInv'
<1>1. RepoOK' /\ JobsApart' /\ Limits' /\ Receipts' /\ Answers' /\ WorkIsRecorded'
  BY GrownKeeps, GrownWork DEF Grown
<1>2. /\ \A d \in Clients : d # c => clients'[d] = clients[d]
      /\ clients' = [d \in Clients |-> clients'[d]]
      /\ Serving(c)' => clients'[c].req = clients[c].req
      /\ ~Serving(c)' => clients'[c] = Free
      /\ ModeFor(c)' /\ ReservedFor(c)' /\ AdmissionFor(c)' /\ RecordedFor(c)' /\ SeenFor(c)'
  <2>1. CASE clients' = [clients EXCEPT ![c] = Free]
    <3>1. clients'[c] = Free /\ clients'[c].pc = "free"
      BY <2>1, FreeShape DEF IInv, ClientsOK
    <3>2. ModeFor(c)' /\ ReservedFor(c)' /\ AdmissionFor(c)' /\ RecordedFor(c)' /\ SeenFor(c)'
      BY <3>1 DEF ModeFor, ReservedFor, AdmissionFor, RecordedFor, SeenFor, Serving
    <3> QED BY <2>1, <3>1, <3>2 DEF IInv, ClientsOK, Serving
  <2>2. CASE Turned(c)
    BY <2>2, FreeShape DEF Turned, Serving
  <2> QED BY <2>1, <2>2
<1>3. \A d \in Clients : Serving(d)' =>
        /\ Serving(d)
        /\ SourceOf(clients[d].req)' = SourceOf(clients[d].req)
        /\ Key(clients[d].req)' = Key(clients[d].req)
        /\ SpecOf(clients[d].req)' = SpecOf(clients[d].req)
        /\ clients'[d].req = clients[d].req
  <2> SUFFICES ASSUME NEW d \in Clients, Serving(d)'
               PROVE  Serving(d) /\ clients'[d].req = clients[d].req
    BY SameTerms
  <2> QED BY <1>2 DEF Serving
<1>4. ClientsOK'
  <2>1. CASE clients' = [clients EXCEPT ![c] = Free]
    BY <1>2, <2>1, FreeShape DEF IInv, ClientsOK, Serving
  <2>2. CASE Turned(c)
    BY <1>2, <2>2 DEF IInv, ClientsOK, Serving, Turned
  <2> QED BY <2>1, <2>2
<1>5. Modes'
  BY <1>2, <1>3 DEF IInv, Modes, ModeFor, Serving, SameEngine
<1>6. SourcesApart'
  BY <1>3 DEF IInv, SourcesApart, SameEngine
<1>7. Reserved'
  <2> SUFFICES ASSUME NEW d \in Clients, d # c, clients[d].pc \in {"reserve", "commit"}
               PROVE  ReservedFor(d)'
    BY <1>2 DEF Reserved, ReservedFor
  <2>1. clients'[d] = clients[d] /\ Serving(d) /\ Key(clients[d].req)' = Key(clients[d].req)
    BY <1>2, <1>3 DEF Serving
  <2>2. Key(clients[c].req) # Key(clients[d].req)
    BY <2>1 DEF IInv, EngineOK, Modes, SourcesApart, Key
  <2>3. ReceiptsOf(Key(clients[d].req))' = {}
    BY <2>1, <2>2 DEF IInv, Reserved, ReservedFor, ReceiptsOf, Grown
  <2>4. clients[d].pc = "commit" =>
          /\ clients[d].id \in 1 .. repo'.last
          /\ \A j \in repo'.jobs : j.id # clients[d].id
          /\ \A p \in repo'.receipts : p.id # clients[d].id
    BY DEF IInv, Reserved, ReservedFor, Grown, RepoOK
  <2>5. clients[d].pc = "commit" =>
          \A e \in Clients : clients'[e].pc = "commit" /\ clients'[e].id = clients[d].id => d = e
    BY <1>2, <2>1 DEF IInv, Reserved, ReservedFor
  <2> QED BY <2>1, <2>3, <2>4, <2>5 DEF ReservedFor
<1>8. Admissions'
  <2> SUFFICES ASSUME NEW d \in Clients, d # c, Serving(d)'
               PROVE  AdmissionFor(d)'
    BY <1>2 DEF Admissions, AdmissionFor, Serving
  <2> QED BY <1>2, <1>3, GrownKeeps DEF IInv, Admissions, AdmissionFor
<1>9. Recorded'
  <2>1. \A d \in Clients : RecordedFor(d)'
    <3> SUFFICES ASSUME NEW d \in Clients, d # c, Serving(d)'
                 PROVE  RecordedFor(d)'
      BY <1>2 DEF RecordedFor, Serving
    <3> QED BY <1>2, <1>3, GrownKeeps
            DEF IInv, Recorded, RecordedFor, RowedRequest, SameEngine, Serving
  <2>2. \A r : RowedRequest(r) => RowedRequest(r)'
    <3> SUFFICES ASSUME NEW r, RowedRequest(r) PROVE RowedRequest(r)'
      OBVIOUS
    <3>1. SourceOf(r)' = SourceOf(r)
      BY DEF SourceOf, SameEngine
    <3> QED BY <3>1, GrownKeeps DEF RowedRequest
  <2> QED BY <2>1, <2>2 DEF IInv, Recorded, SameEngine, Elements
<1>10. HeldKnown'
  BY <1>3 DEF IInv, HeldKnown, SameEngine, Grown, Reserved, ReservedFor
<1>11. Bounds'
  <2> SUFFICES ASSUME engine.mode = "resident" PROVE Bounds'
    BY DEF Bounds, SameEngine
  <2>1. SourceOf(clients[c].req) \in engine.bound
    BY DEF IInv, SourcesApart
  <2>2. \A j \in repo'.jobs : Allowed(j, engine.allow)' => j.spec.source \in engine.bound
    <3> SUFFICES ASSUME NEW j \in repo'.jobs, Allowed(j, engine.allow)',
                        j.spec.source # SourceOf(clients[c].req)
                 PROVE  j.spec.source \in engine.bound
      BY <2>1
    <3>1. j \in repo.jobs
      BY DEF Grown, SpecOf
    <3>2. Allowed(j, engine.allow)
      BY DEF Allowed, Linked, Grown, SameEngine
    <3> QED BY <3>1, <3>2 DEF IInv, Bounds
  <2>3. \A d \in Clients : Serving(d)' =>
          \A j \in repo'.jobs : j.spec.source = SourceOf(clients[d].req) =>
            j.state = "Queued" \/ Sensitive(j.spec.source)'
    BY <1>3, GrownKeeps DEF IInv, Bounds, Grown
  <2> QED BY <1>3, <2>2, <2>3 DEF Bounds, SameEngine
<1>12. SeenIsCurrent'
  <2> SUFFICES ASSUME NEW d \in Clients, d # c, clients[d].pc = "hand"
               PROVE  SeenFor(d)'
    BY <1>2 DEF SeenIsCurrent, SeenFor
  <2>1. \A j \in repo'.jobs : j.id = clients[d].id => j \in repo.jobs
    BY DEF IInv, Admissions, AdmissionFor, HasReceipt, Reserved, ReservedFor, Grown
  <2> QED BY <1>2, <2>1 DEF IInv, SeenIsCurrent, SeenFor
<1>13. AnsweredHeld'
  <2>1. \A j \in repo'.jobs : j.id \in engine.answered => j \in repo.jobs
    BY DEF IInv, HeldKnown, Reserved, ReservedFor, Grown
  <2> QED BY <2>1 DEF IInv, AnsweredHeld, SameEngine
<1>14. WaitingHeld'
  <2> SUFFICES ASSUME engine.mode = "resident", NEW j \in repo'.jobs,
                      NEW a \in accepted, a.id = j.id,
                      j.state \in {"Queued", "RetryWait"}, Allowed(j, engine.allow)',
                      j.id \notin engine.failed, j.id \notin engine.held
               PROVE  \E p \in repo'.receipts : p.id < j.id /\ p.spec.source = j.spec.source
    BY DEF WaitingHeld, SameEngine
  <2>1. j \in repo.jobs
    BY DEF IInv, Answers, HasReceipt, Reserved, ReservedFor, Grown
  <2>2. Allowed(j, engine.allow)
    <3>1. Linked(j)' /\ (j.spec.source.allow => engine.allow)
      BY DEF Allowed, SameEngine
    <3>2. Linked(j)
      BY <1>1, <2>1, <3>1, GrownKeeps, AcceptedStaysUnlinked
    <3> QED BY <3>1, <3>2 DEF Allowed
  <2> QED BY <2>1, <2>2 DEF IInv, WaitingHeld, Grown
<1> QED BY <1>1, <1>4, <1>5, <1>6, <1>7, <1>8, <1>9, <1>10, <1>11, <1>12, <1>13, <1>14 DEF IInv

\* A handler that is refused, whatever it wrote before, takes nothing with it.
LEMMA RefuseStep ==
  ASSUME IInv, NEW c \in Clients, Serving(c), Refuse(c), Grown(c), accepted' = accepted
  PROVE  IInv'
<1>1. CASE engine' = Down /\ clients' = [d \in Clients |-> Free]
  <2>1. engine'.held \subseteq engine.held /\ engine'.prepare \subseteq engine.prepare
    BY <1>1 DEF Down
  <2> QED BY <1>1, <2>1, AllDown, GrownKeeps, GrownWork DEF IInv, Grown
<1>2. CASE engine' = engine /\ clients' = [clients EXCEPT ![c] = Free]
  BY <1>2, HandlerStep DEF IInv, EngineOK, SameEngine
<1> QED BY <1>1, <1>2, Refusal

\* Service::add binds a source nobody has, so the new handler is alone with it, and finds
\* only jobs whose link the engine could not bind.
LEMMA AddStep ==
  ASSUME IInv, NEW c \in Clients, Add(c)
  PROVE  IInv'
<1>1. PICK r \in Requests :
        /\ engine.mode = "resident" /\ clients[c] = Free
        /\ SourceOf(r) \notin engine.bound
        /\ engine' = [engine EXCEPT !.bound = @ \cup {SourceOf(r)}]
        /\ clients' = [clients EXCEPT ![c] = Serve(r)]
        /\ repo' = repo /\ accepted' = accepted
  BY DEF Add, Bindable
<1>2. /\ clients' = [d \in Clients |-> clients'[d]]
      /\ clients'[c] = [pc |-> "receipt", req |-> r, id |-> 0, seen |-> "none"]
      /\ \A d \in Clients : d # c => clients'[d] = clients[d]
      /\ ~Serving(c) /\ IsRequest(r)
  <2>1. DOMAIN clients = Clients
    BY DEF IInv, ClientsOK
  <2>2. ~Serving(c) /\ IsRequest(r)
    BY <1>1, AdmissionAssumption DEF Free, Serving
  <2> QED BY <1>1, <2>1, <2>2 DEF Serve
<1>3. /\ SameEngine
      /\ engine'.bound = engine.bound \cup {SourceOf(r)}
      /\ engine'.held = engine.held /\ engine'.failed = engine.failed
      /\ engine'.record = engine.record /\ engine'.admit = engine.admit
      /\ engine'.prepare = engine.prepare /\ engine'.answered = engine.answered
  BY <1>1 DEF IInv, EngineOK, SameEngine
<1>4. SourceOf(r)' = SourceOf(r) /\ Key(r)' = Key(r) /\ SpecOf(r)' = SpecOf(r)
  BY <1>3 DEF SameEngine, SourceOf, Key, SpecOf
<1>5. \A d \in Clients : d # c =>
        /\ SourceOf(clients[d].req)' = SourceOf(clients[d].req)
        /\ Key(clients[d].req)' = Key(clients[d].req)
        /\ SpecOf(clients[d].req)' = SpecOf(clients[d].req)
  BY <1>2, <1>3 DEF SameEngine, SourceOf, Key, SpecOf
<1>6. RepoOK' /\ JobsApart' /\ Limits' /\ Receipts' /\ Answers'
  BY <1>1, SameStore
<1>7. EngineOK'
  BY <1>1 DEF IInv, EngineOK
<1>8. ClientsOK'
  BY <1>2 DEF IInv, ClientsOK, Serving, Pcs
<1>9. Modes'
  BY <1>1, <1>2, <1>3 DEF IInv, Modes, ModeFor, Serving, SameEngine
<1>10. SourcesApart'
  BY <1>1, <1>2, <1>3, <1>4, <1>5 DEF IInv, SourcesApart, Serving, SameEngine
<1>11. Reserved'
  BY <1>1, <1>2, <1>5 DEF IInv, Reserved, ReservedFor, ReceiptsOf
<1>12. Admissions'
  BY <1>1, <1>2, <1>5 DEF IInv, Admissions, AdmissionFor, HasReceipt
<1>13. Recorded'
  BY <1>1, <1>2, <1>3, <1>5 DEF IInv, Recorded, RecordedFor, Rowed, RowedRequest, SameEngine
<1>14. HeldKnown'
  BY <1>1, <1>2, <1>3, <1>4, <1>5 DEF IInv, HeldKnown, Serving, SameEngine
<1>15. WorkIsRecorded'
  BY <1>1, <1>3 DEF IInv, WorkIsRecorded, HasRow
<1>16. Bounds'
  <2>1. \A j \in repo.jobs : j.spec.source = SourceOf(r) =>
          j.state = "Queued" \/ Sensitive(j.spec.source)
    <3> SUFFICES ASSUME NEW j \in repo.jobs, j.spec.source = SourceOf(r), j.state # "Queued"
                 PROVE  Sensitive(j.spec.source)
      OBVIOUS
    <3>1. j.spec.source.allow => engine.allow
      <4>1. SourceOf(r).allow = (r.allow /\ engine.allow)
        BY DEF SourceOf
      <4> QED BY <4>1
    <3>2. ~Linked(j)
      BY <1>1, <3>1 DEF IInv, Bounds, Allowed
    <3>3. PICK s \in repo.sources : s.source = j.spec.source
      BY DEF IInv, WorkIsRecorded, HasRow
    <3> QED BY <3>2, <3>3 DEF IInv, RepoOK, Linked, Sensitive
  <2> QED
    BY <1>1, <1>2, <1>3, <1>4, <1>5, <2>1
    DEF IInv, Bounds, Serving, SameEngine, Allowed, Linked, Sensitive
<1>17. SeenIsCurrent'
  BY <1>1, <1>2 DEF IInv, SeenIsCurrent, SeenFor
<1>18. AnsweredHeld' /\ WaitingHeld'
  BY <1>1, <1>3 DEF IInv, AnsweredHeld, WaitingHeld, Allowed, Linked, SameEngine
<1> QED BY <1>6, <1>7, <1>8, <1>9, <1>10, <1>11, <1>12, <1>13, <1>14, <1>15, <1>16, <1>17, <1>18
        DEF IInv
\* A step that only moves the handler on.
LEMMA MoveStep ==
  ASSUME IInv, NEW c \in Clients, Serving(c), Grown(c), accepted' = accepted, engine' = engine,
         Turned(c), ModeFor(c)', ReservedFor(c)', AdmissionFor(c)', RecordedFor(c)', SeenFor(c)'
  PROVE  IInv'
BY HandlerStep DEF IInv, EngineOK, SameEngine

\* In the same engine a handler's request is for the same source, key and specification.
LEMMA TurnedTerms ==
  ASSUME SameEngine, NEW c \in Clients, Turned(c)
  PROVE  /\ SourceOf(clients[c].req)' = SourceOf(clients[c].req)
         /\ Key(clients[c].req)' = Key(clients[c].req)
         /\ SpecOf(clients[c].req)' = SpecOf(clients[c].req)
         /\ clients'[c].req = clients[c].req
<1>1. clients'[c].req = clients[c].req
  BY DEF Turned
<1> QED BY <1>1, SameTerms

\* In the one-shot engine a request was recorded before it is admitted.
LEMMA BatchRecorded ==
  ASSUME IInv, NEW c \in Clients, Serving(c), Grown(c), SameEngine, Turned(c),
         clients'[c].pc \notin {"load", "hand"}
  PROVE  RecordedFor(c)'
<1>1. engine.mode = "batch" => RowedRequest(clients[c].req)
  BY DEF IInv, Recorded, RecordedFor
<1>2. RowedRequest(clients[c].req) => RowedRequest(clients[c].req)'
  BY TurnedTerms, GrownKeeps DEF RowedRequest
<1> QED BY <1>1, <1>2 DEF RecordedFor, SameEngine

\* replay: the receipt of the same key and specification is the job's.
LEMMA ReplayStep ==
  ASSUME IInv, NEW c \in Clients, Serving(c), NEW p \in ReceiptsOf(Key(clients[c].req)),
         Replay(c, p), repo' = repo, accepted' = accepted
  PROVE  IInv'
<1>1. Grown(c)
  BY NotGrown
<1>2. CASE Refuse(c)
  BY <1>1, <1>2, RefuseStep
<1>3. CASE /\ p.spec = SpecOf(clients[c].req)
           /\ clients' = [clients EXCEPT ![c].pc = AfterAdmission, ![c].id = p.id]
           /\ engine' = engine
  <2>1. p.id \in Nat /\ AfterAdmission \in {"record", "admitted"}
    BY DEF IInv, RepoOK, ReceiptsOf, AfterAdmission
  <2>2. clients'[c].pc = AfterAdmission /\ clients'[c].id = p.id /\ Turned(c)
    BY <1>3, <2>1 DEF IInv, ClientsOK, Turned, Pcs
  <2>3. SameEngine
    BY <1>3 DEF SameEngine
  <2>4. AdmissionFor(c)'
    <3>1. p \in repo.receipts /\ p.key = Key(clients[c].req)
      BY DEF ReceiptsOf
    <3>2. p.key = Key(clients[c].req)' /\ p.spec = SpecOf(clients[c].req)'
      BY <1>3, <2>2, <2>3, <3>1, TurnedTerms
    <3> QED BY <2>2, <3>1, <3>2 DEF AdmissionFor, HasReceipt
  <2>5. RecordedFor(c)'
    BY <1>1, <2>1, <2>2, <2>3, BatchRecorded
  <2>6. ModeFor(c)'
    BY <1>3, <2>2 DEF ModeFor, AfterAdmission
  <2>7. ReservedFor(c)' /\ SeenFor(c)'
    BY <2>1, <2>2 DEF ReservedFor, SeenFor
  <2> QED BY <1>1, <1>3, <2>2, <2>4, <2>5, <2>6, <2>7, MoveStep
<1> QED BY <1>2, <1>3 DEF Replay

\* load_receipt: the answer that is remembered, or none.
LEMMA ReceiptStep ==
  ASSUME IInv, NEW c \in Clients, Receipt(c)
  PROVE  IInv'
<1>1. Serving(c) /\ repo' = repo /\ accepted' = accepted /\ Grown(c)
  BY NotGrown DEF Receipt, Serving
<1>2. CASE ReceiptsOf(Key(clients[c].req)) = {} /\ At(c, "reserve") /\ engine' = engine
  <2>1. clients'[c].pc = "reserve" /\ Turned(c)
    BY <1>2 DEF IInv, ClientsOK, Turned, Pcs, At
  <2>2. SameEngine
    BY <1>2 DEF SameEngine
  <2>3. ReservedFor(c)'
    BY <1>1, <1>2, <2>1, <2>2, TurnedTerms DEF ReservedFor, ReceiptsOf
  <2>4. RecordedFor(c)'
    BY <1>1, <2>1, <2>2, BatchRecorded
  <2>5. ModeFor(c)' /\ AdmissionFor(c)' /\ SeenFor(c)'
    BY <2>1 DEF ModeFor, AdmissionFor, SeenFor
  <2> QED BY <1>1, <1>2, <2>1, <2>3, <2>4, <2>5, MoveStep
<1>3. CASE \E p \in ReceiptsOf(Key(clients[c].req)) : Replay(c, p)
  BY <1>1, <1>3, ReplayStep
<1> QED BY <1>2, <1>3 DEF Receipt

\* A receipt that cannot be read ends the handler.
LEMMA UnreadableStep ==
  ASSUME IInv, NEW c \in Clients, Unreadable(c)
  PROVE  IInv'
<1>1. Serving(c) /\ Refuse(c) /\ repo' = repo /\ accepted' = accepted
  BY DEF Unreadable, Serving
<1> QED BY <1>1, NotGrown, RefuseStep

\* The job is read as it is; from here on nobody else may change it.
LEMMA LoadStep ==
  ASSUME IInv, NEW c \in Clients, Load(c)
  PROVE  IInv'
<1>1. /\ Serving(c) /\ repo' = repo /\ accepted' = accepted /\ clients[c].pc = "load"
      /\ Grown(c)
  BY NotGrown DEF Load, Serving
<1>2. CASE Refuse(c)
  BY <1>1, <1>2, RefuseStep
<1>3. CASE \E j \in repo.jobs :
             /\ j.id = clients[c].id
             /\ clients' = [clients EXCEPT ![c].pc = "hand", ![c].seen = j.state]
             /\ engine' = engine
  <2>1. PICK j \in repo.jobs :
             /\ j.id = clients[c].id
             /\ clients' = [clients EXCEPT ![c].pc = "hand", ![c].seen = j.state]
             /\ engine' = engine
    BY <1>3
  <2>2. /\ clients'[c].pc = "hand" /\ clients'[c].seen = j.state
        /\ clients'[c].id = clients[c].id /\ Turned(c)
    BY <2>1 DEF IInv, ClientsOK, Turned, Pcs
  <2>3. SameEngine
    BY <2>1 DEF SameEngine
  <2>4. AdmissionFor(c)'
    BY <1>1, <2>2, <2>3, TurnedTerms DEF IInv, Admissions, AdmissionFor, HasReceipt
  <2>5. RecordedFor(c)'
    <3>1. RowedRequest(clients[c].req)
      BY <1>1 DEF IInv, Recorded, RecordedFor
    <3> QED BY <1>1, <2>2, <2>3, <3>1, TurnedTerms DEF RecordedFor, RowedRequest, Rowed
  <2>6. ModeFor(c)' /\ ReservedFor(c)'
    BY <1>1, <2>1, <2>2 DEF IInv, Modes, ModeFor, ReservedFor
  <2>7. SeenFor(c)'
    BY <1>1, <2>1, <2>2 DEF IInv, JobsApart, SeenFor
  <2> QED BY <1>1, <2>1, <2>2, <2>4, <2>5, <2>6, <2>7, MoveStep
<1> QED BY <1>2, <1>3 DEF Load

\* reserve_id hands out an identity nobody has, and one that is never handed out again.
LEMMA ReserveIdStep ==
  ASSUME IInv, NEW c \in Clients, ReserveId(c)
  PROVE  IInv'
<1>1. /\ Serving(c) /\ clients[c].pc = "reserve" /\ accepted' = accepted
      /\ repo' = [repo EXCEPT !.last = @ + 1]
  BY DEF ReserveId, Serving
<1>2. /\ repo'.last = repo.last + 1 /\ repo.last \in Nat
      /\ repo'.jobs = repo.jobs /\ repo'.receipts = repo.receipts
      /\ repo'.sources = repo.sources /\ repo'.destinations = repo.destinations
      /\ repo' \in [last : Nat, jobs : {repo'.jobs}, receipts : {repo'.receipts},
                    sources : {repo'.sources}, destinations : {repo'.destinations}]
  BY <1>1 DEF IInv, RepoOK
<1>3. Grown(c)
  <2>1. RepoOK'
    BY <1>2 DEF IInv, RepoOK
  <2>2. JobsApart' /\ Limits' /\ Receipts'
    BY <1>2 DEF IInv, JobsApart, Limits, Receipts
  <2> QED BY <1>2, <2>1, <2>2 DEF Grown
<1>4. CASE /\ clients' = [clients EXCEPT ![c].pc = "commit", ![c].id = repo.last + 1]
           /\ engine' = engine
  <2>1. clients'[c].pc = "commit" /\ clients'[c].id = repo.last + 1 /\ Turned(c)
    <3>1. repo.last + 1 \in Nat
      BY <1>2
    <3> QED BY <1>4, <3>1 DEF IInv, ClientsOK, Turned, Pcs
  <2>2. SameEngine
    BY <1>4 DEF SameEngine
  <2>3. ReservedFor(c)'
    <3>1. ReceiptsOf(Key(clients[c].req))' = {}
      BY <1>1, <1>2, <2>1, <2>2, TurnedTerms DEF IInv, Reserved, ReservedFor, ReceiptsOf
    <3>2. \A j \in repo.jobs : j.id # repo.last + 1
      BY <1>2 DEF IInv, RepoOK
    <3>3. \A p \in repo.receipts : p.id # repo.last + 1
      BY <1>2 DEF IInv, RepoOK
    <3>4. \A d \in Clients : clients'[d].pc = "commit" /\ clients'[d].id = repo.last + 1 => c = d
      BY <1>2, <2>1 DEF IInv, Reserved, ReservedFor, Turned
    <3> QED BY <1>2, <2>1, <3>1, <3>2, <3>3, <3>4 DEF ReservedFor
  <2>4. RecordedFor(c)'
    BY <1>1, <1>3, <2>1, <2>2, BatchRecorded
  <2>5. ModeFor(c)' /\ AdmissionFor(c)' /\ SeenFor(c)'
    BY <2>1 DEF ModeFor, AdmissionFor, SeenFor
  <2> QED BY <1>1, <1>3, <1>4, <2>1, <2>3, <2>4, <2>5, MoveStep
<1>5. CASE Refuse(c)
  BY <1>1, <1>3, <1>5, RefuseStep
<1> QED BY <1>4, <1>5 DEF ReserveId

\* One more element makes a finite set larger by one at most.
LEMMA AddedOne ==
  ASSUME NEW S, IsFiniteSet(S), NEW x
  PROVE  /\ IsFiniteSet(S \cup {x}) /\ Cardinality(S) \in Nat /\ Cardinality(S \cup {x}) \in Nat
         /\ Cardinality(S \cup {x}) <= Cardinality(S) + 1
<1>1. Cardinality(S) \in Nat
  BY FS_CardinalityType
<1>2. /\ IsFiniteSet(S \cup {x})
      /\ Cardinality(S \cup {x}) = Cardinality(S) \/ Cardinality(S \cup {x}) = Cardinality(S) + 1
  BY FS_AddElement
<1> QED BY <1>1, <1>2

\* commit_add inserts one job and its receipt, under the limits it has checked.
LEMMA InsertedGrown ==
  ASSUME IInv, NEW c \in Clients, clients[c].pc = "commit", ~FullUp, repo' = Inserted(c)
  PROVE  /\ Grown(c)
         /\ \E p \in repo'.receipts :
              /\ p.key = Key(clients[c].req) /\ p.spec = SpecOf(clients[c].req)
              /\ p.id = clients[c].id
<1> DEFINE job == [id |-> clients[c].id, spec |-> SpecOf(clients[c].req), state |-> "Queued"]
           rec == [key |-> Key(clients[c].req), spec |-> SpecOf(clients[c].req),
                   id |-> clients[c].id, removed |-> FALSE]
<1>1. /\ repo'.jobs = repo.jobs \cup {job} /\ repo'.receipts = repo.receipts \cup {rec}
      /\ repo'.last = repo.last
      /\ repo'.sources = repo.sources /\ repo'.destinations = repo.destinations
      /\ repo' \in [last : Nat, jobs : {repo'.jobs}, receipts : {repo'.receipts},
                    sources : {repo'.sources}, destinations : {repo'.destinations}]
  BY DEF IInv, RepoOK, Inserted
<1>2. /\ job.id = clients[c].id /\ job.spec = SpecOf(clients[c].req) /\ job.state = "Queued"
      /\ rec.id = clients[c].id /\ rec.spec = SpecOf(clients[c].req)
      /\ rec.key = Key(clients[c].req) /\ rec.removed = FALSE
  OBVIOUS
<1>3. /\ clients[c].id \in 1 .. repo.last
      /\ \A j \in repo.jobs : j.id # clients[c].id
      /\ \A p \in repo.receipts : p.id # clients[c].id /\ p.key # Key(clients[c].req)
  BY DEF IInv, Reserved, ReservedFor, ReceiptsOf
<1>4. /\ job \in [id : 1 .. repo.last, spec : {job.spec}, state : {job.state}]
      /\ rec \in [key : {rec.key}, spec : {rec.spec}, id : 1 .. repo.last, removed : BOOLEAN]
  BY <1>3
<1> HIDE DEF job, rec
<1>5. /\ IsFiniteSet(repo'.jobs) /\ Cardinality(repo'.jobs) <= Cardinality(repo.jobs) + 1
      /\ IsFiniteSet(repo'.receipts)
      /\ Cardinality(repo'.receipts) <= Cardinality(repo.receipts) + 1
      /\ Cardinality(repo.jobs) \in Nat /\ Cardinality(repo.receipts) \in Nat
      /\ Cardinality(repo'.jobs) \in Nat /\ Cardinality(repo'.receipts) \in Nat
  <2>1. IsFiniteSet(repo.jobs) /\ IsFiniteSet(repo.receipts)
    BY DEF IInv, RepoOK
  <2>2. /\ IsFiniteSet(repo.jobs \cup {job}) /\ Cardinality(repo.jobs) \in Nat
        /\ Cardinality(repo.jobs \cup {job}) \in Nat
        /\ Cardinality(repo.jobs \cup {job}) <= Cardinality(repo.jobs) + 1
    BY <2>1, AddedOne
  <2>3. /\ IsFiniteSet(repo.receipts \cup {rec}) /\ Cardinality(repo.receipts) \in Nat
        /\ Cardinality(repo.receipts \cup {rec}) \in Nat
        /\ Cardinality(repo.receipts \cup {rec}) <= Cardinality(repo.receipts) + 1
    BY <2>1, AddedOne
  <2> QED BY <1>1, <2>2, <2>3
<1>6. RepoOK'
  BY <1>1, <1>4, <1>5 DEF IInv, RepoOK
<1>7. JobsApart'
  BY <1>1, <1>2, <1>3 DEF IInv, JobsApart
<1>8. Limits'
  <2>1. MaxJobs \in Nat /\ MaxReceipts \in Nat
    BY AdmissionAssumption
  <2>2. Cardinality(repo.jobs) < MaxJobs /\ Cardinality(repo.receipts) < MaxReceipts
    BY <1>5, <2>1 DEF FullUp
  <2> QED BY <1>5, <2>1, <2>2 DEF Limits
<1>9. Receipts'
  BY <1>1, <1>2, <1>3 DEF IInv, Receipts
<1>10. Grown(c)
  BY <1>1, <1>2, <1>6, <1>7, <1>8, <1>9 DEF Grown, IInv, RepoOK
<1> QED BY <1>1, <1>2, <1>10

\* The commit of an admission.
LEMMA CommitAddStep ==
  ASSUME IInv, NEW c \in Clients, CommitAdd(c)
  PROVE  IInv'
<1>1. Serving(c) /\ clients[c].pc = "commit" /\ accepted' = accepted
  BY DEF CommitAdd, Serving
<1>2. CASE (\E p \in ReceiptsOf(Key(clients[c].req)) : Replay(c, p)) /\ repo' = repo
  BY <1>1, <1>2, ReplayStep
<1>3. CASE Refuse(c) /\ repo' = repo
  BY <1>1, <1>3, NotGrown, RefuseStep
<1>4. CASE ~FullUp /\ repo' = Inserted(c) /\ Refuse(c)
  BY <1>1, <1>4, InsertedGrown, RefuseStep
<1>5. CASE ~FullUp /\ repo' = Inserted(c) /\ At(c, AfterAdmission) /\ engine' = engine
  <2>1. AfterAdmission \in {"record", "admitted"}
    BY DEF AfterAdmission
  <2>2. clients'[c].pc = AfterAdmission /\ clients'[c].id = clients[c].id /\ Turned(c)
    BY <1>5, <2>1 DEF IInv, ClientsOK, Turned, Pcs, At
  <2>3. SameEngine
    BY <1>5 DEF SameEngine
  <2>4. AdmissionFor(c)'
    BY <1>1, <1>5, <2>2, <2>3, InsertedGrown, TurnedTerms DEF AdmissionFor, HasReceipt
  <2>5. RecordedFor(c)'
    BY <1>1, <1>5, <2>1, <2>2, <2>3, InsertedGrown, BatchRecorded
  <2>6. ModeFor(c)'
    BY <1>5, <2>2 DEF ModeFor, AfterAdmission
  <2>7. ReservedFor(c)' /\ SeenFor(c)'
    BY <2>1, <2>2 DEF ReservedFor, SeenFor
  <2> QED BY <1>1, <1>5, <2>2, <2>4, <2>5, <2>6, <2>7, InsertedGrown, MoveStep
<1> QED BY <1>2, <1>3, <1>4, <1>5 DEF CommitAdd

-----------------------------------------------------------------------------
(***************************************************************************)
(* References.                                                             *)
(***************************************************************************)

\* record_source and record_destination: the request has its rows, a row marked sensitive
\* keeps its mark, and no row goes without another of its kind in its place.
LEMMA RememberRows ==
  ASSUME IInv, NEW r, IsRequest(r), repo' = Remembering(r)
  PROVE  /\ RepoOK' /\ JobsApart' /\ Limits' /\ Receipts'
         /\ repo'.last = repo.last /\ repo'.jobs = repo.jobs /\ repo'.receipts = repo.receipts
         /\ \A s \in repo'.sources \ repo.sources : s.source = SourceOf(r)
         /\ \A s \in repo.sources : \E t \in repo'.sources :
              t.source = s.source /\ (s.sensitive => t.sensitive)
         /\ \A t \in repo.destinations :
              \E u \in repo'.destinations : u.destination = t.destination
         /\ \E s \in repo'.sources : s.source = SourceOf(r) /\ (r.sensitive => s.sensitive)
         /\ \E t \in repo'.destinations : t.destination = r.destination
<1>1. /\ repo'.last = repo.last /\ repo'.jobs = repo.jobs /\ repo'.receipts = repo.receipts
      /\ repo'.sources = Upsert(repo.sources, Row(r))
      /\ repo'.destinations = Placed(repo.destinations, Place(r))
      /\ repo' \in [last : Nat, jobs : {repo'.jobs}, receipts : {repo'.receipts},
                    sources : {repo'.sources}, destinations : {repo'.destinations}]
  BY DEF IInv, RepoOK, Remembering
<1>2. /\ Row(r).source = SourceOf(r) /\ Row(r).sensitive = r.sensitive
      /\ Row(r) \in [source : {Row(r).source}, url : BOOLEAN, sensitive : BOOLEAN]
      /\ Row(r).url = ~Row(r).sensitive
      /\ r.sensitive \in BOOLEAN
  BY DEF Row, IsRequest
<1>3. \A s \in repo.sources :
        s \in [source : {s.source}, url : BOOLEAN, sensitive : BOOLEAN] /\ s.url = ~s.sensitive
  BY DEF IInv, RepoOK
<1>4. /\ \A s \in repo'.sources : s \in repo.sources \/ s = Row(r)
      /\ \A s, t \in repo'.sources : s.source = t.source => s = t
      /\ \A s \in repo.sources : \E t \in repo'.sources :
           t.source = s.source /\ (s.sensitive => t.sensitive)
      /\ \E s \in repo'.sources : s.source = SourceOf(r) /\ (r.sensitive => s.sensitive)
  <2>1. CASE \E s \in repo.sources : s.source = Row(r).source /\ s.sensitive
    <3>1. repo'.sources = repo.sources
      BY <1>1, <2>1 DEF Upsert
    <3> QED BY <1>2, <2>1, <3>1 DEF IInv, RepoOK
  <2>2. CASE ~\E s \in repo.sources : s.source = Row(r).source /\ s.sensitive
    <3>1. repo'.sources = {s \in repo.sources : s.source # Row(r).source} \cup {Row(r)}
      BY <1>1, <2>2 DEF Upsert
    <3> QED BY <1>2, <2>2, <3>1 DEF IInv, RepoOK
  <2> QED BY <2>1, <2>2
<1>5. RepoOK'
  BY <1>1, <1>2, <1>3, <1>4 DEF IInv, RepoOK
<1>6. JobsApart' /\ Limits' /\ Receipts'
  BY <1>1 DEF IInv, JobsApart, Limits, Receipts
<1>7. /\ \A t \in repo.destinations : \E u \in repo'.destinations : u.destination = t.destination
      /\ \E t \in repo'.destinations : t.destination = r.destination
  <2>1. Place(r).destination = r.destination
    BY DEF Place
  <2> QED BY <1>1, <2>1 DEF Placed
<1> QED BY <1>1, <1>2, <1>4, <1>5, <1>6, <1>7

\* The handler remembers the source and the destination of its job.
LEMMA RecordStep ==
  ASSUME IInv, NEW c \in Clients, Record(c)
  PROVE  IInv'
<1>1. Serving(c) /\ clients[c].pc = "record" /\ accepted' = accepted /\ IsRequest(clients[c].req)
  BY DEF Record, Serving, IInv, ClientsOK
<1>2. repo' \in {repo, Remembering(clients[c].req)} => Grown(c)
  <2>1. CASE repo' = repo
    BY <2>1, NotGrown
  <2>2. CASE repo' = Remembering(clients[c].req)
    BY <1>1, <2>2, RememberRows DEF Grown, IInv, RepoOK
  <2> QED BY <2>1, <2>2
<1>3. CASE Refuse(c) /\ repo' \in {repo, Remembering(clients[c].req)}
  BY <1>1, <1>2, <1>3, RefuseStep
<1>4. CASE /\ repo' = Remembering(clients[c].req) /\ At(c, "load")
           /\ engine' = [engine EXCEPT !.registry = Placed(@, Place(clients[c].req))]
  <2>1. /\ SameEngine /\ engine'.bound = engine.bound /\ engine'.held = engine.held
        /\ engine'.failed = engine.failed /\ engine'.prepare = engine.prepare
        /\ engine'.answered = engine.answered
        /\ engine'.record = engine.record /\ engine'.admit = engine.admit
        /\ EngineOK'
    BY <1>4 DEF IInv, EngineOK, SameEngine
  <2>2. clients'[c].pc = "load" /\ clients'[c].id = clients[c].id /\ Turned(c)
    BY <1>4 DEF IInv, ClientsOK, Turned, Pcs, At
  <2>3. AdmissionFor(c)'
    <3>1. HasReceipt(Key(clients[c].req), SpecOf(clients[c].req), clients[c].id)
      BY <1>1 DEF IInv, Admissions, AdmissionFor
    <3>2. HasReceipt(Key(clients[c].req), SpecOf(clients[c].req), clients[c].id)'
      BY <1>1, <1>4, <2>1, <2>2, <3>1, RememberRows, TurnedTerms DEF HasReceipt
    <3> QED BY <3>2 DEF AdmissionFor
  <2>4. RecordedFor(c)'
    <3>1. RowedRequest(clients[c].req)'
      BY <1>1, <1>4, <2>1, <2>2, RememberRows, TurnedTerms DEF RowedRequest, Rowed
    <3> QED BY <3>1 DEF RecordedFor
  <2>5. ModeFor(c)'
    BY <1>1, <2>1, <2>2 DEF IInv, Modes, ModeFor, SameEngine
  <2>6. ReservedFor(c)' /\ SeenFor(c)'
    BY <2>2 DEF ReservedFor, SeenFor
  <2> QED BY <1>1, <1>2, <1>4, <2>1, <2>2, <2>3, <2>4, <2>5, <2>6, HandlerStep
<1> QED BY <1>3, <1>4 DEF Record

-----------------------------------------------------------------------------
(***************************************************************************)
(* The end of an admission.                                                *)
(***************************************************************************)
LEMMA JobOfReceipt ==
  ASSUME IInv, NEW p \in repo.receipts, NEW j \in repo.jobs, j.id = p.id
  PROVE  j.spec = p.spec
<1>1. ~p.removed
  BY DEF IInv, Receipts
<1> QED BY <1>1 DEF IInv, Receipts, JobsApart

\* The answer that is given now is remembered.
LEMMA AnswerRemembered ==
  ASSUME IInv, NEW c \in Clients, RecordedFor(c), RowedRequest(clients[c].req), AdmissionFor(c),
         clients[c].pc \in {"hand", "admitted"}, repo' = repo,
         accepted' = accepted \cup {Answer(c)}
  PROVE  Answers'
<1>1. /\ Answer(c).key = Key(clients[c].req) /\ Answer(c).spec = SpecOf(clients[c].req)
      /\ Answer(c).id = clients[c].id /\ Answer(c).sensitive = clients[c].req.sensitive
      /\ Answer(c).spec.source = SourceOf(clients[c].req)
      /\ Answer(c).spec.destination = clients[c].req.destination
  BY DEF Answer, SpecOf
<1>2. /\ HasReceipt(Answer(c).key, Answer(c).spec, Answer(c).id)
      /\ Rowed(Answer(c).spec.source, Answer(c).spec.destination, Answer(c).sensitive)
  BY <1>1 DEF AdmissionFor, RowedRequest
<1>3. \A a \in accepted' : /\ HasReceipt(a.key, a.spec, a.id)
                           /\ Rowed(a.spec.source, a.spec.destination, a.sensitive)
  BY <1>2 DEF IInv, Answers
<1> QED BY <1>3 DEF Answers, HasReceipt, Rowed

\* Where one handler has come to its end and the others stand still.
LEMMA Leaving ==
  ASSUME IInv, NEW c \in Clients, clients' = [clients EXCEPT ![c] = Free]
  PROVE  /\ ClientsOK' /\ clients'[c] = Free /\ clients'[c].pc = "free" /\ ~Serving(c)'
         /\ \A d \in Clients : d # c => clients'[d] = clients[d]
         /\ \A d \in Clients : Serving(d)' => d # c /\ Serving(d)
<1>1. /\ clients'[c] = Free /\ clients'[c].pc = "free" /\ ~Serving(c)'
      /\ \A d \in Clients : d # c => clients'[d] = clients[d]
      /\ clients' = [d \in Clients |-> clients'[d]]
  BY FreeShape DEF IInv, ClientsOK, Serving
<1>2. ClientsOK'
  BY <1>1, FreeShape DEF IInv, ClientsOK, Serving
<1> QED BY <1>1, <1>2 DEF Serving

\* A job is handed over by the only handler of its source, as it stands in the repository.
LEMMA HandStep ==
  ASSUME IInv, NEW c \in Clients, Hand(c)
  PROVE  IInv'
<1>1. /\ Serving(c) /\ clients[c].pc = "hand" /\ repo' = repo
      /\ accepted' = accepted \cup {Answer(c)}
      /\ clients' = [clients EXCEPT ![c] = Free]
      /\ engine' = [engine EXCEPT !.held = IF clients[c].seen = "Queued"
                                             THEN @ \cup {clients[c].id} ELSE @,
                                  !.answered = @ \cup {clients[c].id}]
  BY DEF Hand, Serving
<1>2. engine.mode = "resident"
  BY <1>1 DEF IInv, EngineOK, Modes, ModeFor
<1>3. /\ SameEngine /\ EngineOK' /\ engine'.bound = engine.bound
      /\ engine'.failed = engine.failed /\ engine'.prepare = engine.prepare
      /\ engine'.record = engine.record /\ engine'.admit = engine.admit
      /\ engine'.held = IF clients[c].seen = "Queued" THEN engine.held \cup {clients[c].id}
                        ELSE engine.held
      /\ engine'.answered = engine.answered \cup {clients[c].id}
  BY <1>1 DEF IInv, EngineOK, SameEngine
<1>4. /\ ClientsOK' /\ clients'[c] = Free /\ clients'[c].pc = "free" /\ ~Serving(c)'
      /\ \A d \in Clients : d # c => clients'[d] = clients[d]
      /\ \A d \in Clients : Serving(d)' => d # c /\ Serving(d)
  BY <1>1, Leaving
<1>5. \A d \in Clients : d # c =>
        /\ SourceOf(clients[d].req)' = SourceOf(clients[d].req)
        /\ Key(clients[d].req)' = Key(clients[d].req)
        /\ SpecOf(clients[d].req)' = SpecOf(clients[d].req)
  BY <1>3, <1>4, SameTerms
<1>6. PICK p \in repo.receipts :
        /\ p.key = Key(clients[c].req) /\ p.spec = SpecOf(clients[c].req)
        /\ p.id = clients[c].id
  BY <1>1 DEF IInv, Admissions, AdmissionFor, HasReceipt
<1>7. p.spec.source = SourceOf(clients[c].req) /\ RowedRequest(clients[c].req)
  BY <1>1, <1>6 DEF IInv, Recorded, RecordedFor, SpecOf
<1>8. RepoOK' /\ JobsApart' /\ Limits' /\ Receipts'
  BY <1>1, SameStore
<1>9. Answers'
  BY <1>1, <1>7, AnswerRemembered DEF IInv, Admissions, Recorded
<1>10. Modes'
  BY <1>2, <1>3, <1>4 DEF IInv, Modes, ModeFor, SameEngine
<1>11. SourcesApart'
  BY <1>3, <1>4, <1>5 DEF IInv, SourcesApart, SameEngine
<1>12. Reserved'
  BY <1>1, <1>4, <1>5 DEF IInv, Reserved, ReservedFor, ReceiptsOf
<1>13. Admissions'
  BY <1>1, <1>4, <1>5 DEF IInv, Admissions, AdmissionFor, HasReceipt
<1>14. Recorded'
  BY <1>1, <1>2, <1>3, <1>4, <1>5
  DEF IInv, Recorded, RecordedFor, RowedRequest, Rowed, SameEngine
<1>15. HeldKnown'
  <2>1. \A h \in engine'.held \cup engine'.prepare \cup engine'.answered :
          \E q \in repo.receipts : q.id = h
    BY <1>3, <1>6 DEF IInv, HeldKnown
  <2>2. ASSUME NEW q \in repo.receipts, q.id \in engine'.held
        PROVE  /\ q.spec.source \in engine.bound
               /\ \A d \in Clients : Serving(d)' => SourceOf(clients[d].req)' # q.spec.source
    <3>1. CASE q.id \in engine.held
      BY <1>2, <1>4, <1>5, <3>1 DEF IInv, HeldKnown
    <3>2. CASE q.id = clients[c].id
      <4>1. q = p
        BY <1>6, <3>2 DEF IInv, Receipts
      <4> QED BY <1>1, <1>2, <1>4, <1>5, <1>7, <4>1 DEF IInv, SourcesApart
    <3> QED BY <1>3, <2>2, <3>1, <3>2
  <2> QED BY <1>1, <1>3, <2>1, <2>2 DEF HeldKnown
<1>16. WorkIsRecorded'
  <2>1. \A j \in repo.jobs : j.id = clients[c].id => HasRow(j.spec.source)
    BY <1>6, <1>7, JobOfReceipt DEF RowedRequest, Rowed, HasRow
  <2> QED BY <1>1, <1>3, <2>1 DEF IInv, WorkIsRecorded, HasRow
<1>17. Bounds'
  BY <1>1, <1>3, <1>4, <1>5 DEF IInv, Bounds, SameEngine, Allowed, Linked, Sensitive
<1>18. SeenIsCurrent'
  BY <1>1, <1>4 DEF IInv, SeenIsCurrent, SeenFor
<1>19. AnsweredHeld'
  <2>1. \A j \in repo.jobs : j.id = clients[c].id /\ j.state = "Queued" => j.id \in engine'.held
    BY <1>1, <1>3 DEF IInv, SeenIsCurrent, SeenFor
  <2> QED BY <1>1, <1>2, <1>3, <2>1 DEF IInv, AnsweredHeld, SameEngine
<1>20. WaitingHeld'
  <2> SUFFICES ASSUME NEW j \in repo.jobs, NEW a \in accepted', a.id = j.id,
                      j.state \in {"Queued", "RetryWait"}, Allowed(j, engine.allow),
                      j.id \notin engine.failed, j.id \notin engine'.held
               PROVE  \E q \in repo.receipts : q.id < j.id /\ q.spec.source = j.spec.source
    BY <1>1, <1>3 DEF WaitingHeld, SameEngine, Allowed, Linked
  <2>1. CASE a \in accepted
    BY <1>2, <1>3, <2>1 DEF IInv, WaitingHeld
  <2>2. CASE a = Answer(c)
    <3>1. j.id = clients[c].id
      BY <2>2 DEF Answer
    <3>2. j.state = clients[c].seen /\ clients[c].seen # "Queued"
      BY <1>1, <1>3, <3>1 DEF IInv, SeenIsCurrent, SeenFor
    <3>3. j.spec.source = SourceOf(clients[c].req)
      BY <1>6, <1>7, <3>1, JobOfReceipt
    <3>4. PICK s \in repo.sources : s.source = j.spec.source /\ s.sensitive
      BY <1>1, <1>2, <3>2, <3>3 DEF IInv, Bounds, Sensitive
    <3>5. PICK t \in repo.sources : t.source = j.spec.source /\ t.url
      BY DEF Allowed, Linked
    <3>6. s = t /\ s.url = ~s.sensitive
      BY <3>4, <3>5 DEF IInv, RepoOK
    <3> QED BY <3>4, <3>5, <3>6
  <2> QED BY <1>1, <2>1, <2>2
<1> QED BY <1>3, <1>4, <1>8, <1>9, <1>10, <1>11, <1>12, <1>13, <1>14, <1>15, <1>16, <1>17, <1>18,
           <1>19, <1>20 DEF IInv

\* The one-shot engine keeps what it admitted for prepare.
LEMMA AdmittedStep ==
  ASSUME IInv, NEW c \in Clients, Admitted(c)
  PROVE  IInv'
<1>1. /\ Serving(c) /\ clients[c].pc = "admitted" /\ repo' = repo
      /\ accepted' = accepted \cup {Answer(c)}
      /\ clients' = [clients EXCEPT ![c] = Free]
      /\ engine' = [engine EXCEPT !.prepare = @ \cup {clients[c].id}]
  BY DEF Admitted, Serving
<1>2. engine.mode = "batch"
  BY <1>1 DEF IInv, EngineOK, Modes, ModeFor
<1>3. /\ SameEngine /\ EngineOK' /\ engine'.mode = "batch"
      /\ engine'.record = engine.record /\ engine'.admit = engine.admit
      /\ engine'.held = engine.held /\ engine'.prepare = engine.prepare \cup {clients[c].id}
      /\ engine'.answered = engine.answered
  BY <1>1, <1>2 DEF IInv, EngineOK, SameEngine
<1>4. ClientsOK' /\ \A d \in Clients : ~Serving(d)' /\ clients'[d].pc = "free"
  <2>1. \A d \in Clients : d # c => ~Serving(d)
    BY <1>1, <1>2 DEF IInv, Modes
  <2> QED BY <1>1, <2>1, Leaving DEF Serving
<1>5. PICK p \in repo.receipts :
        /\ p.key = Key(clients[c].req) /\ p.spec = SpecOf(clients[c].req)
        /\ p.id = clients[c].id
  BY <1>1 DEF IInv, Admissions, AdmissionFor, HasReceipt
<1>6. p.spec.source = SourceOf(clients[c].req) /\ RowedRequest(clients[c].req)
  BY <1>1, <1>2, <1>5 DEF IInv, Recorded, RecordedFor, SpecOf
<1>7. RepoOK' /\ JobsApart' /\ Limits' /\ Receipts'
  BY <1>1, SameStore
<1>8. Answers'
  BY <1>1, <1>6, AnswerRemembered DEF IInv, Admissions, Recorded
<1>9. Modes' /\ SourcesApart' /\ Bounds' /\ AnsweredHeld' /\ WaitingHeld'
  BY <1>3, <1>4 DEF Modes, ModeFor, SourcesApart, Bounds, AnsweredHeld, WaitingHeld
<1>10. Reserved' /\ Admissions' /\ SeenIsCurrent'
  BY <1>4 DEF Reserved, ReservedFor, Admissions, AdmissionFor, SeenIsCurrent, SeenFor
<1>11. Recorded'
  <2>1. \A r : RowedRequest(r) => RowedRequest(r)'
    BY <1>1, <1>3 DEF RowedRequest, Rowed, SourceOf, SameEngine
  <2> QED BY <1>2, <1>3, <1>4, <2>1 DEF IInv, Recorded, RecordedFor, Elements
<1>12. HeldKnown'
  BY <1>1, <1>3, <1>5 DEF IInv, HeldKnown
<1>13. WorkIsRecorded'
  <2>1. \A j \in repo.jobs : j.id = clients[c].id => HasRow(j.spec.source)
    BY <1>5, <1>6, JobOfReceipt DEF RowedRequest, Rowed, HasRow
  <2> QED BY <1>1, <1>3, <2>1 DEF IInv, WorkIsRecorded, HasRow
<1> QED BY <1>3, <1>4, <1>7, <1>8, <1>9, <1>10, <1>11, <1>12, <1>13 DEF IInv

-----------------------------------------------------------------------------
(***************************************************************************)
(* The one-shot engine.                                                    *)
(***************************************************************************)
LEMMA TailOf ==
  ASSUME NEW b, b \in Seq(Elements(b)), b # <<>>
  PROVE  /\ Head(b) \in Elements(b)
         /\ Tail(b) \in Seq(Elements(Tail(b))) /\ Elements(Tail(b)) \subseteq Elements(b)
         /\ \A r \in Elements(b) : r = Head(b) \/ r \in Elements(Tail(b))
<1> DEFINE t == Tail(b)
<1>1. /\ Len(b) \in Nat \ {0} /\ DOMAIN b = 1 .. Len(b)
  BY EmptySeq, LenProperties
<1>2. /\ t \in Seq(Elements(b)) /\ Len(t) = Len(b) - 1 /\ DOMAIN t = 1 .. Len(b) - 1
      /\ \A i \in 1 .. Len(b) - 1 : t[i] = b[i + 1]
      /\ Head(b) = b[1]
  BY <1>1, HeadTailProperties, LenProperties
<1> HIDE DEF t
<1>3. Head(b) \in Elements(b)
  BY <1>1, <1>2 DEF Elements
<1>4. \A r \in Elements(b) : r = Head(b) \/ r \in Elements(t)
  <2> SUFFICES ASSUME NEW i \in 1 .. Len(b), i # 1
               PROVE  b[i] \in Elements(t)
    BY <1>1, <1>2 DEF Elements
  <2>1. i - 1 \in DOMAIN t /\ t[i - 1] = b[i]
    BY <1>1, <1>2
  <2> QED BY <2>1 DEF Elements
<1>5. Elements(t) \subseteq Elements(b)
  BY <1>1, <1>2 DEF Elements
<1>6. t \in Seq(Elements(t))
  <2>1. Len(b) - 1 \in Nat /\ t = [i \in 1 .. Len(b) - 1 |-> t[i]]
    BY <1>1, <1>2, LenProperties
  <2>2. t \in [1 .. Len(b) - 1 -> Elements(t)]
    BY <1>2, <2>1 DEF Elements
  <2> QED BY <2>1, <2>2, SeqDef
<1> QED BY <1>3, <1>4, <1>5, <1>6 DEF t

\* The one-shot engine takes the next of its requests up.
LEMMA AdmitNextStep ==
  ASSUME IInv, NEW c \in Clients, AdmitNext(c)
  PROVE  IInv'
<1>0. PICK r : r = Head(engine.admit)
  OBVIOUS
<1>1. /\ engine.mode = "batch" /\ engine.record = <<>> /\ engine.admit # <<>>
      /\ \A d \in Clients : clients[d] = Free
      /\ clients' = [clients EXCEPT ![c] = Serve(r)]
      /\ engine' = [engine EXCEPT !.admit = Tail(@)]
      /\ repo' = repo /\ accepted' = accepted
  BY <1>0 DEF AdmitNext
<1>2. /\ r \in Elements(engine.admit) /\ IsRequest(r)
      /\ Tail(engine.admit) \in Seq(Elements(Tail(engine.admit)))
      /\ Elements(Tail(engine.admit)) \subseteq Elements(engine.admit)
      /\ \A q \in Elements(Tail(engine.admit)) : IsRequest(q)
  BY <1>0, <1>1, TailOf DEF IInv, EngineOK
<1>3. /\ SameEngine /\ engine'.mode = "batch" /\ engine'.admit = Tail(engine.admit)
      /\ engine'.record = engine.record /\ engine'.answered = engine.answered
      /\ engine'.held = engine.held /\ engine'.prepare = engine.prepare
  BY <1>1 DEF IInv, EngineOK, SameEngine
<1>4. EngineOK'
  BY <1>1, <1>2, <1>3 DEF IInv, EngineOK
<1>5. /\ clients'[c] = Serve(r)
      /\ clients' = [d \in Clients |-> clients'[d]]
      /\ \A d \in Clients : d # c => clients'[d] = Free
  BY <1>1 DEF IInv, ClientsOK
<1>6. /\ clients'[c].pc = "receipt" /\ clients'[c].req = r
      /\ \A d \in Clients : d # c => clients'[d].pc = "free"
      /\ clients'[c] \in [pc : Pcs, req : {r}, id : Nat, seen : {clients'[c].seen}]
  BY <1>5, FreeShape DEF Serve, Pcs
<1>7. ClientsOK'
  BY <1>2, <1>5, <1>6, FreeShape DEF ClientsOK, Serving
<1>8. RepoOK' /\ JobsApart' /\ Limits' /\ Receipts' /\ Answers'
  BY <1>1, SameStore
<1>9. Modes' /\ SourcesApart' /\ Bounds' /\ AnsweredHeld' /\ WaitingHeld'
  BY <1>1, <1>3, <1>6 DEF Modes, ModeFor, SourcesApart, Bounds, AnsweredHeld, WaitingHeld, Serving
<1>10. Reserved' /\ Admissions' /\ SeenIsCurrent'
  <2>1. \A d \in Clients : clients'[d].pc \in {"free", "receipt"}
    BY <1>6
  <2> QED BY <2>1 DEF Reserved, ReservedFor, Admissions, AdmissionFor, SeenIsCurrent, SeenFor
<1>11. Recorded'
  <2>1. \A q : RowedRequest(q) => RowedRequest(q)'
    BY <1>1, <1>3 DEF RowedRequest, Rowed, SourceOf, SameEngine
  <2>2. \A q \in Elements(engine.admit) : RowedRequest(q)
    BY <1>1 DEF IInv, Recorded, Elements
  <2>3. RowedRequest(clients[c].req)'
    <3>1. RowedRequest(r)'
      BY <1>2, <2>1, <2>2
    <3> QED BY <1>6, <3>1 DEF RowedRequest, Rowed, SourceOf
  <2>4. \A d \in Clients : RecordedFor(d)'
    BY <1>6, <2>3 DEF RecordedFor, Serving
  <2>5. \A q \in Elements(engine'.admit) : RowedRequest(q)'
    BY <1>2, <1>3, <2>1, <2>2
  <2> QED BY <2>4, <2>5 DEF Recorded, Elements
<1>12. HeldKnown' /\ WorkIsRecorded'
  BY <1>1, <1>3 DEF IInv, HeldKnown, WorkIsRecorded, HasRow
<1> QED BY <1>4, <1>7, <1>8, <1>9, <1>10, <1>11, <1>12 DEF IInv

\* open_many opens with as many references to record as requests to admit, of which none
\* is recorded yet.
LEMMA OpenManyStep ==
  ASSUME IInv, OpenMany
  PROVE  IInv'
<1>0. PICK max \in Maxes, allow \in BOOLEAN, intent \in {"Start", "Resume"} :
        \E batch \in {Continued(max)} \cup
                    {[i \in DOMAIN b |-> [b[i] EXCEPT !.max = max, !.allow = TRUE]] : b \in Batches} :
          engine' = [Down EXCEPT !.mode = "batch", !.max = max, !.allow = allow,
                                 !.intent = intent, !.record = batch, !.admit = batch]
  BY DEF OpenMany
<1>1. PICK batch :
        /\ batch \in {Continued(max)} \cup
             {[i \in DOMAIN b |-> [b[i] EXCEPT !.max = max, !.allow = TRUE]] : b \in Batches}
        /\ engine' = [Down EXCEPT !.mode = "batch", !.max = max, !.allow = allow,
                                  !.intent = intent, !.record = batch, !.admit = batch]
  BY <1>0
<1>2. engine.mode = "down" /\ repo' = repo /\ clients' = clients /\ accepted' = accepted
  BY DEF OpenMany
<1>3. batch \in Seq(Elements(batch)) /\ \A r \in Elements(batch) : IsRequest(r)
  <2>1. CASE batch = Continued(max)
    <3> DEFINE kept == {j \in Continuable : \A k \in Continuable :
                          StoredPath(k) = StoredPath(j) => j.id <= k.id}
               Nth(i) == CHOOSE j \in kept : Cardinality({k \in kept : k.id <= j.id}) = i
               n == Cardinality(kept)
    <3>1. n \in Nat
      <4>1. kept \in SUBSET repo.jobs /\ IsFiniteSet(repo.jobs)
        BY DEF IInv, RepoOK, Continuable
      <4> QED BY <4>1, FS_Subset, FS_CardinalityType
    <3>2. batch = [i \in 1 .. n |-> Remembered(Nth(i), max)]
      BY <2>1 DEF Continued
    <3> HIDE DEF Nth, n
    <3>3. \A r \in Elements(batch) : IsRequest(r)
      <4>1. \A x : IsRequest(Remembered(x, max))
        BY DEF Remembered, IsRequest
      <4> QED BY <3>2, <4>1 DEF Elements
    <3>4. batch \in [1 .. n -> Elements(batch)]
      BY <3>2 DEF Elements
    <3> QED BY <3>1, <3>3, <3>4, SeqDef
  <2>2. ASSUME NEW b \in Batches,
               batch = [i \in DOMAIN b |-> [b[i] EXCEPT !.max = max, !.allow = TRUE]]
        PROVE  batch \in Seq(Elements(batch)) /\ \A r \in Elements(batch) : IsRequest(r)
    <3>1. b \in Seq(Elements(b)) /\ \A r \in Elements(b) : IsRequest(r)
      BY AdmissionAssumption
    <3>2. Len(b) \in Nat /\ DOMAIN b = 1 .. Len(b)
      BY <3>1, LenProperties
    <3>3. \A i \in DOMAIN b : IsRequest(b[i])
      BY <3>1 DEF Elements
    <3>4. \A i \in DOMAIN b : IsRequest([b[i] EXCEPT !.max = max, !.allow = TRUE])
      BY <3>3 DEF IsRequest
    <3>5. \A r \in Elements(batch) : IsRequest(r)
      BY <2>2, <3>4 DEF Elements
    <3>6. batch \in [1 .. Len(b) -> Elements(batch)]
      BY <2>2, <3>2 DEF Elements
    <3> QED BY <3>2, <3>5, <3>6, SeqDef
  <2> QED BY <1>1, <2>1, <2>2
<1>4. /\ engine'.mode = "batch" /\ engine'.record = batch /\ engine'.admit = batch
      /\ engine'.held = {} /\ engine'.prepare = {} /\ engine'.answered = {}
  BY <1>1 DEF Down
<1>5. EngineOK'
  <2>1. engine' \in [mode : {"batch"}, max : {engine'.max}, allow : BOOLEAN,
                     bound : {engine'.bound}, registry : {engine'.registry},
                     held : {engine'.held}, failed : {engine'.failed},
                     answered : {engine'.answered},
                     intent : {engine'.intent}, record : {engine'.record},
                     admit : {engine'.admit}, prepare : {engine'.prepare}]
    BY <1>1, ZenonT(60) DEF Down
  <2>2. \A b \in {engine'.record, engine'.admit} :
          b \in Seq(Elements(b)) /\ \A r \in Elements(b) : IsRequest(r)
    BY <1>3, <1>4
  <2> QED BY <2>1, <2>2 DEF EngineOK
<1>6. \A c \in Clients : ~Serving(c)' /\ clients'[c].pc = "free"
  BY <1>2 DEF IInv, Modes, Serving
<1>7. RepoOK' /\ JobsApart' /\ Limits' /\ Receipts' /\ Answers' /\ ClientsOK'
  BY <1>2, SameStore DEF IInv, ClientsOK, Serving
<1>8. Modes' /\ SourcesApart' /\ Bounds' /\ AnsweredHeld' /\ WaitingHeld' /\ HeldKnown'
  BY <1>4, <1>6 DEF Modes, ModeFor, SourcesApart, Bounds, AnsweredHeld, WaitingHeld, HeldKnown
<1>9. Reserved' /\ Admissions' /\ SeenIsCurrent'
  BY <1>6 DEF Reserved, ReservedFor, Admissions, AdmissionFor, SeenIsCurrent, SeenFor
<1>10. Recorded'
  BY <1>4, <1>6 DEF Recorded, RecordedFor, Elements
<1>11. WorkIsRecorded'
  BY <1>2, <1>4 DEF IInv, WorkIsRecorded, HasRow
<1> QED BY <1>5, <1>7, <1>8, <1>9, <1>10, <1>11 DEF IInv

\* The references of a batch are recorded one by one, and a fault may end the run before or
\* after a row is written.
LEMMA RecordNextStep ==
  ASSUME IInv, RecordNext
  PROVE  IInv'
<1>0. PICK r : r = Head(engine.record)
  OBVIOUS
<1>1. /\ engine.mode = "batch" /\ engine.record # <<>>
      /\ clients' = clients /\ accepted' = accepted
      /\ repo' \in {repo, Remembering(r)}
      /\ \/ engine' = [engine EXCEPT !.record = Tail(@)] /\ repo' = Remembering(r)
         \/ engine' = Down
  BY <1>0 DEF RecordNext
<1>2. /\ r \in Elements(engine.record) /\ IsRequest(r)
      /\ Tail(engine.record) \in Seq(Elements(Tail(engine.record)))
      /\ \A q \in Elements(Tail(engine.record)) : IsRequest(q)
      /\ \A q \in Elements(engine.record) : q = r \/ q \in Elements(Tail(engine.record))
  BY <1>0, <1>1, TailOf DEF IInv, EngineOK
<1>3. \A c \in Clients : ~Serving(c) /\ clients[c] = Free
  BY <1>1 DEF IInv, Modes, ClientsOK
<1>4. /\ RepoOK' /\ JobsApart' /\ Limits' /\ Receipts'
      /\ repo'.jobs = repo.jobs /\ repo'.receipts = repo.receipts
      /\ \A s \in repo.sources : \E t \in repo'.sources :
           t.source = s.source /\ (s.sensitive => t.sensitive)
      /\ \A t \in repo.destinations : \E u \in repo'.destinations : u.destination = t.destination
  BY <1>1, <1>2, SameStore, RememberRows
<1>5. /\ \A so, de, se : Rowed(so, de, se) => Rowed(so, de, se)'
      /\ \A so : HasRow(so) => HasRow(so)'
  BY <1>4 DEF Rowed, HasRow
<1>6. Answers'
  BY <1>1, <1>4, <1>5 DEF IInv, Answers, HasReceipt
<1>7. CASE engine' = Down
  <2>1. clients' = [c \in Clients |-> Free]
    BY <1>1, <1>3 DEF IInv, ClientsOK
  <2>2. WorkIsRecorded'
    BY <1>4, <1>5, <1>7 DEF IInv, WorkIsRecorded, Down
  <2> QED BY <1>4, <1>6, <1>7, <2>1, <2>2, AllDown DEF IInv
<1>8. CASE engine' = [engine EXCEPT !.record = Tail(@)] /\ repo' = Remembering(r)
  <2>1. /\ SameEngine /\ engine'.mode = "batch" /\ engine'.record = Tail(engine.record)
        /\ engine'.admit = engine.admit /\ engine'.answered = engine.answered
        /\ engine'.held = engine.held /\ engine'.prepare = engine.prepare
    BY <1>1, <1>8 DEF IInv, EngineOK, SameEngine
  <2>2. EngineOK'
    BY <1>2, <1>8, <2>1 DEF IInv, EngineOK
  <2>3. ClientsOK' /\ \A c \in Clients : ~Serving(c)' /\ clients'[c].pc = "free"
    BY <1>1, <1>3 DEF IInv, ClientsOK, Serving
  <2>4. Modes' /\ SourcesApart' /\ Bounds' /\ AnsweredHeld' /\ WaitingHeld'
    BY <2>1, <2>3 DEF Modes, ModeFor, SourcesApart, Bounds, AnsweredHeld, WaitingHeld
  <2>5. Reserved' /\ Admissions' /\ SeenIsCurrent'
    BY <2>3 DEF Reserved, ReservedFor, Admissions, AdmissionFor, SeenIsCurrent, SeenFor
  <2>6. Recorded'
    <3>1. \A q : RowedRequest(q) => RowedRequest(q)'
      <4> SUFFICES ASSUME NEW q, RowedRequest(q) PROVE RowedRequest(q)'
        OBVIOUS
      <4>1. SourceOf(q)' = SourceOf(q)
        BY <2>1 DEF SourceOf, SameEngine
      <4> QED BY <1>5, <4>1 DEF RowedRequest
    <3>2. RowedRequest(r)'
      <4>1. SourceOf(r)' = SourceOf(r)
        BY <2>1 DEF SourceOf, SameEngine
      <4> QED BY <1>2, <1>8, <4>1, RememberRows DEF RowedRequest, Rowed
    <3>3. \A q \in Elements(engine.admit) : RowedRequest(q) \/ q \in Elements(engine.record)
      BY <1>1 DEF IInv, Recorded
    <3>4. \A q \in Elements(engine'.admit) :
            RowedRequest(q)' \/ q \in Elements(engine'.record)
      BY <1>2, <2>1, <3>1, <3>2, <3>3
    <3> QED BY <2>3, <3>4 DEF Recorded, RecordedFor, Elements
  <2>7. HeldKnown' /\ WorkIsRecorded'
    BY <1>4, <1>5, <2>1 DEF IInv, HeldKnown, WorkIsRecorded
  <2> QED BY <1>4, <1>6, <2>2, <2>3, <2>4, <2>5, <2>6, <2>7 DEF IInv
<1> QED BY <1>1, <1>7, <1>8

-----------------------------------------------------------------------------
(***************************************************************************)
(* Jobs in work.                                                           *)
(***************************************************************************)

\* A transition changes the state of one job, and nothing else in the repository.
LEMMA MovedStore ==
  ASSUME IInv, NEW id, NEW state, repo' = Moved(id, state)
  PROVE  /\ RepoOK' /\ JobsApart' /\ Limits' /\ Receipts'
         /\ repo'.last = repo.last /\ repo'.receipts = repo.receipts
         /\ repo'.sources = repo.sources /\ repo'.destinations = repo.destinations
         /\ \A j \in repo'.jobs : \E k \in repo.jobs :
              /\ j.id = k.id /\ j.spec = k.spec
              /\ j.id # id => j = k
              /\ j.id = id => j.state = state
<1> DEFINE f == [j \in repo.jobs |-> IF j.id = id THEN [j EXCEPT !.state = state] ELSE j]
<1>1. /\ repo'.jobs = {f[j] : j \in repo.jobs}
      /\ repo'.last = repo.last /\ repo'.receipts = repo.receipts
      /\ repo'.sources = repo.sources /\ repo'.destinations = repo.destinations
      /\ repo' \in [last : Nat, jobs : {repo'.jobs}, receipts : {repo'.receipts},
                    sources : {repo'.sources}, destinations : {repo'.destinations}]
  BY DEF IInv, RepoOK, Moved
<1>2. \A j \in repo.jobs :
        /\ f[j].id = j.id /\ f[j].spec = j.spec
        /\ j.id # id => f[j] = j
        /\ j.id = id => f[j].state = state
        /\ f[j] \in [id : 1 .. repo.last, spec : {f[j].spec}, state : {f[j].state}]
  BY DEF IInv, RepoOK
<1>3. f \in Surjection(repo.jobs, repo'.jobs)
  BY <1>1 DEF Surjection
<1> HIDE DEF f
<1>4. IsFiniteSet(repo'.jobs) /\ Cardinality(repo'.jobs) <= Cardinality(repo.jobs)
  <2>1. IsFiniteSet(repo.jobs)
    BY DEF IInv, RepoOK
  <2> QED BY <1>3, <2>1, FS_Surjection
<1>5. Cardinality(repo.jobs) \in Nat /\ Cardinality(repo'.jobs) \in Nat /\ MaxJobs \in Nat
  BY <1>4, FS_CardinalityType, AdmissionAssumption DEF IInv, RepoOK
<1>6. RepoOK'
  BY <1>1, <1>2, <1>4 DEF IInv, RepoOK
<1>7. JobsApart'
  BY <1>1, <1>2 DEF IInv, JobsApart
<1>8. Limits'
  BY <1>1, <1>4, <1>5 DEF IInv, Limits
<1>9. Receipts'
  <2>1. \A j \in repo'.jobs : \E k \in repo.jobs : j.id = k.id
    BY <1>1, <1>2
  <2>2. \A k \in repo.jobs : \E j \in repo'.jobs : j.id = k.id /\ j.spec = k.spec
    BY <1>1, <1>2
  <2>3. Receipts /\ repo'.receipts = repo.receipts
    BY <1>1 DEF IInv
  <2>4. \A p \in repo'.receipts : ~p.removed => \E j \in repo'.jobs : j.id = p.id /\ j.spec = p.spec
    BY <2>2, <2>3 DEF Receipts
  <2>5. \A p \in repo'.receipts : p.removed => \A j \in repo'.jobs : j.id # p.id
    BY <2>1, <2>3 DEF Receipts
  <2>6. \A j \in repo'.jobs : \E p \in repo'.receipts : p.id = j.id
    BY <2>1, <2>3 DEF Receipts
  <2> QED BY <2>3, <2>4, <2>5, <2>6 DEF Receipts
<1> QED BY <1>1, <1>2, <1>6, <1>7, <1>8, <1>9

\* A job whose state changes while handlers are at work is one the scheduler holds, and no
\* handler has seen it or asks for its source.
LEMMA MovedStep ==
  ASSUME IInv, NEW id, NEW state, repo' = Moved(id, state), EngineOK', SameEngine,
         engine'.bound = engine.bound, engine'.record = engine.record,
         engine'.admit = engine.admit, engine'.held \subseteq engine.held \cup {id},
         engine'.prepare \subseteq engine.prepare, engine'.answered = engine.answered,
         engine.mode = "resident" => id \in engine.held,
         id \in engine.held \cup engine.prepare,
         engine.mode = "resident" =>
           /\ engine.held \ {id} \subseteq engine'.held
           /\ state \in {"Queued", "RetryWait"} => id \in engine'.held
           /\ engine'.failed = engine.failed,
         clients' = clients, accepted' = accepted
  PROVE  IInv'
<1>1. /\ RepoOK' /\ JobsApart' /\ Limits' /\ Receipts'
      /\ repo'.last = repo.last /\ repo'.receipts = repo.receipts
      /\ repo'.sources = repo.sources /\ repo'.destinations = repo.destinations
  BY MovedStore
<1>2. \A j \in repo'.jobs : \E k \in repo.jobs :
        /\ j.id = k.id /\ j.spec = k.spec
        /\ j.id # id => j = k
        /\ j.id = id => j.state = state
  BY MovedStore
<1>3. \A c \in Clients :
        /\ SourceOf(clients[c].req)' = SourceOf(clients[c].req)
        /\ Key(clients[c].req)' = Key(clients[c].req)
        /\ SpecOf(clients[c].req)' = SpecOf(clients[c].req)
  BY SameTerms
<1>4. /\ \A so, de, se : Rowed(so, de, se) => Rowed(so, de, se)'
      /\ \A so : HasRow(so) => HasRow(so)'
      /\ \A so : Sensitive(so) => Sensitive(so)'
      /\ \A key, spec, i : HasReceipt(key, spec, i) => HasReceipt(key, spec, i)'
  BY <1>1 DEF Rowed, HasRow, Sensitive, HasReceipt
<1>5. PICK q \in repo.receipts : q.id = id
  BY DEF IInv, HeldKnown
<1>6. ClientsOK' /\ Modes' /\ SourcesApart' /\ Answers'
  BY <1>3, <1>4 DEF IInv, ClientsOK, Modes, ModeFor, SourcesApart, Answers, Serving, SameEngine
<1>7. Reserved'
  <2>1. \A c \in Clients : ReceiptsOf(Key(clients[c].req))' = ReceiptsOf(Key(clients[c].req))
    BY <1>1, <1>3 DEF ReceiptsOf
  <2> QED BY <1>1, <1>2, <2>1 DEF IInv, Reserved, ReservedFor
<1>8. Admissions'
  BY <1>3, <1>4 DEF IInv, Admissions, AdmissionFor
<1>9. Recorded'
  <2>1. \A r : RowedRequest(r) => RowedRequest(r)'
    <3> SUFFICES ASSUME NEW r, RowedRequest(r) PROVE RowedRequest(r)'
      OBVIOUS
    <3>1. SourceOf(r)' = SourceOf(r)
      BY DEF SourceOf, SameEngine
    <3> QED BY <1>4, <3>1 DEF RowedRequest
  <2>2. \A c \in Clients : RecordedFor(c)'
    BY <1>3, <1>4 DEF IInv, Recorded, RecordedFor, RowedRequest, Serving, SameEngine
  <2> QED BY <2>1, <2>2 DEF IInv, Recorded, Elements, SameEngine
<1>10. HeldKnown'
  <2>1. \A h \in engine'.held \cup engine'.prepare \cup engine'.answered :
          \E p \in repo'.receipts : p.id = h
    BY <1>1, <1>5 DEF IInv, HeldKnown
  <2> QED BY <1>1, <1>3, <2>1 DEF IInv, HeldKnown, Serving, SameEngine
<1>11. WorkIsRecorded'
  BY <1>2, <1>4 DEF IInv, WorkIsRecorded
<1>12. engine.mode = "resident" =>
         \A k \in repo.jobs : k.id = id =>
           \A c \in Clients : Serving(c) => SourceOf(clients[c].req) # k.spec.source
  BY <1>5, JobOfReceipt DEF IInv, HeldKnown
<1>13. Bounds'
  <2>1. engine.mode = "resident" =>
          \A j \in repo'.jobs : Allowed(j, engine.allow)' => j.spec.source \in engine.bound
    BY <1>1, <1>2 DEF IInv, Bounds, Allowed, Linked, SameEngine
  <2>2. engine.mode = "resident" =>
          \A c \in Clients : Serving(c) =>
            \A j \in repo'.jobs : j.spec.source = SourceOf(clients[c].req) =>
              j.state = "Queued" \/ Sensitive(j.spec.source)'
    BY <1>2, <1>4, <1>12 DEF IInv, Bounds
  <2> QED BY <1>3, <2>1, <2>2 DEF Bounds, Serving, SameEngine
<1>14. SeenIsCurrent'
  <2> SUFFICES ASSUME NEW c \in Clients, clients[c].pc = "hand"
               PROVE  SeenFor(c)'
    BY DEF SeenIsCurrent, SeenFor
  <2>1. engine.mode = "resident" /\ Serving(c)
    BY DEF IInv, EngineOK, Modes, ModeFor, Serving
  <2>2. PICK p \in repo.receipts : p.id = clients[c].id /\ p.spec = SpecOf(clients[c].req)
    BY DEF IInv, Admissions, AdmissionFor, HasReceipt
  <2>3. clients[c].id # id
    <3>1. p.spec.source = SourceOf(clients[c].req)
      BY <2>2 DEF SpecOf
    <3> QED BY <2>1, <2>2, <3>1 DEF IInv, HeldKnown
  <2> QED BY <1>2, <2>3 DEF IInv, SeenIsCurrent, SeenFor
<1>15. AnsweredHeld'
  BY <1>2 DEF IInv, AnsweredHeld, SameEngine
<1>16. WaitingHeld'
  <2> SUFFICES ASSUME engine.mode = "resident", NEW j \in repo'.jobs,
                      NEW a \in accepted, a.id = j.id,
                      j.state \in {"Queued", "RetryWait"}, Allowed(j, engine.allow)',
                      j.id \notin engine.failed, j.id \notin engine'.held
               PROVE  \E p \in repo'.receipts : p.id < j.id /\ p.spec.source = j.spec.source
    BY DEF WaitingHeld, SameEngine
  <2>1. j \in repo.jobs /\ j.id # id /\ j.id \notin engine.held
    BY <1>2
  <2>2. Allowed(j, engine.allow)
    BY <1>1 DEF Allowed, Linked, SameEngine
  <2> QED BY <1>1, <2>1, <2>2 DEF IInv, WaitingHeld
<1> QED BY <1>1, <1>6, <1>7, <1>8, <1>9, <1>10, <1>11, <1>13, <1>14, <1>15, <1>16 DEF IInv

\* The one-shot engine hands over what it admitted.
LEMMA PrepareStep ==
  ASSUME IInv, Prepare
  PROVE  IInv'
<1>1. /\ engine.mode = "batch" /\ \A c \in Clients : clients[c] = Free
      /\ clients' = clients /\ accepted' = accepted
  BY DEF Prepare
<1>2. CASE engine' = Down /\ repo' = repo
  <2>1. clients' = [c \in Clients |-> Free]
    BY <1>1 DEF IInv, ClientsOK
  <2>2. WorkIsRecorded'
    BY <1>2 DEF IInv, WorkIsRecorded, HasRow, Down
  <2> QED BY <1>1, <1>2, <2>1, <2>2, AllDown, SameStore DEF IInv
<1>3. CASE \E id \in engine.prepare : \E state :
             /\ repo' = Moved(id, state)
             /\ engine' = [engine EXCEPT !.prepare = @ \ {id},
                             !.held = IF Runnable(state) THEN @ \cup {id} ELSE @]
  <2>a. PICK id \in engine.prepare : \E state :
             /\ repo' = Moved(id, state)
             /\ engine' = [engine EXCEPT !.prepare = @ \ {id},
                             !.held = IF Runnable(state) THEN @ \cup {id} ELSE @]
    BY <1>3
  <2>1. PICK state :
             /\ repo' = Moved(id, state)
             /\ engine' = [engine EXCEPT !.prepare = @ \ {id},
                             !.held = IF Runnable(state) THEN @ \cup {id} ELSE @]
    BY <2>a
  <2>2. /\ EngineOK' /\ SameEngine /\ engine'.bound = engine.bound
        /\ engine'.record = engine.record /\ engine'.admit = engine.admit
        /\ engine'.held \subseteq engine.held \cup {id}
        /\ engine'.prepare \subseteq engine.prepare /\ engine'.answered = engine.answered
    BY <2>1 DEF IInv, EngineOK, SameEngine
  <2> QED BY <1>1, <2>1, <2>2, MovedStep
<1> QED BY <1>2, <1>3 DEF Prepare

\* The scheduler moves only what it holds; a session that fails leaves the job failed.
LEMMA WorkStep ==
  ASSUME IInv, Work
  PROVE  IInv'
<1>1. PICK j \in repo.jobs :
        /\ j.id \in engine.held
        /\ \/ \E state \in Follows[j.state] :
                /\ repo' = Moved(j.id, state)
                /\ engine' = [engine EXCEPT !.held = IF state \in {"Paused", "Completed"}
                                                       THEN @ \ {j.id} ELSE @]
           \/ /\ repo' = repo
              /\ engine' = [engine EXCEPT !.held = @ \ {j.id}, !.failed = @ \cup {j.id}]
  BY DEF Work
<1>2. clients' = clients /\ accepted' = accepted
  BY DEF Work
<1>3. CASE \E state : /\ repo' = Moved(j.id, state)
                      /\ engine' = [engine EXCEPT !.held = IF state \in {"Paused", "Completed"}
                                                             THEN @ \ {j.id} ELSE @]
  <2>1. PICK state : /\ repo' = Moved(j.id, state)
                     /\ engine' = [engine EXCEPT !.held = IF state \in {"Paused", "Completed"}
                                                            THEN @ \ {j.id} ELSE @]
    BY <1>3
  <2>2. /\ EngineOK' /\ SameEngine /\ engine'.bound = engine.bound
        /\ engine'.record = engine.record /\ engine'.admit = engine.admit
        /\ engine'.failed = engine.failed /\ engine'.prepare = engine.prepare
        /\ engine'.answered = engine.answered
        /\ engine'.held = IF state \in {"Paused", "Completed"} THEN engine.held \ {j.id}
                          ELSE engine.held
    BY <2>1 DEF IInv, EngineOK, SameEngine
  <2>3. state \in {"Queued", "RetryWait"} => j.id \in engine'.held
    BY <1>1, <2>2
  <2> QED BY <1>1, <1>2, <2>1, <2>2, <2>3, MovedStep
<1>4. CASE /\ repo' = repo
           /\ engine' = [engine EXCEPT !.held = @ \ {j.id}, !.failed = @ \cup {j.id}]
  <2>1. /\ EngineOK' /\ SameEngine /\ engine'.bound = engine.bound
        /\ engine'.record = engine.record /\ engine'.admit = engine.admit
        /\ engine'.failed = engine.failed \cup {j.id} /\ engine'.prepare = engine.prepare
        /\ engine'.held = engine.held \ {j.id} /\ engine'.answered = engine.answered
    BY <1>4 DEF IInv, EngineOK, SameEngine
  <2>2. RepoOK' /\ JobsApart' /\ Limits' /\ Receipts' /\ Answers'
    BY <1>2, <1>4, SameStore
  <2>3. \A c \in Clients :
          /\ SourceOf(clients[c].req)' = SourceOf(clients[c].req)
          /\ Key(clients[c].req)' = Key(clients[c].req)
          /\ SpecOf(clients[c].req)' = SpecOf(clients[c].req)
    BY <1>2, <2>1, SameTerms
  <2>4. ClientsOK' /\ Modes' /\ SourcesApart'
    BY <1>2, <2>1, <2>3 DEF IInv, ClientsOK, Modes, ModeFor, SourcesApart, Serving, SameEngine
  <2>5. Reserved' /\ Admissions' /\ SeenIsCurrent'
    BY <1>2, <1>4, <2>3 DEF IInv, Reserved, ReservedFor, ReceiptsOf, Admissions, AdmissionFor,
                            HasReceipt, SeenIsCurrent, SeenFor
  <2>6. Recorded'
    <3>1. \A r : RowedRequest(r) => RowedRequest(r)'
      BY <1>4, <2>1 DEF RowedRequest, Rowed, SourceOf, SameEngine
    <3>2. \A c \in Clients : RecordedFor(c)'
      BY <1>2, <1>4, <2>1, <2>3
      DEF IInv, Recorded, RecordedFor, RowedRequest, Rowed, Serving, SameEngine
    <3> QED BY <2>1, <3>1, <3>2 DEF IInv, Recorded, Elements, SameEngine
  <2>7. HeldKnown'
    BY <1>2, <1>4, <2>1, <2>3 DEF IInv, HeldKnown, Serving, SameEngine
  <2>8. WorkIsRecorded'
    BY <1>4, <2>1 DEF IInv, WorkIsRecorded, HasRow
  <2>9. Bounds'
    BY <1>2, <1>4, <2>1, <2>3
    DEF IInv, Bounds, Allowed, Linked, Sensitive, Serving, SameEngine
  <2>10. AnsweredHeld' /\ WaitingHeld'
    BY <1>2, <1>4, <2>1 DEF IInv, AnsweredHeld, WaitingHeld, Allowed, Linked, SameEngine
  <2> QED BY <2>1, <2>2, <2>4, <2>5, <2>6, <2>7, <2>8, <2>9, <2>10 DEF IInv
<1> QED BY <1>1, <1>3, <1>4

\* remove takes the row of the job and leaves its receipt as a tombstone.
LEMMA RemoveStep ==
  ASSUME IInv, Remove
  PROVE  IInv'
<1>1. PICK p \in repo.receipts, j \in repo.jobs :
        /\ ~p.removed /\ j.id = p.id
        /\ repo' = [repo EXCEPT !.jobs = @ \ {j},
                                !.receipts = (@ \ {p}) \cup {[p EXCEPT !.removed = TRUE]}]
  BY DEF Remove
<1>2. engine' = engine /\ clients' = clients /\ accepted' = accepted
  BY DEF Remove
<1>3. PICK q : q = [p EXCEPT !.removed = TRUE]
  OBVIOUS
<1>4. /\ q.key = p.key /\ q.spec = p.spec /\ q.id = p.id /\ q.removed
      /\ q \in [key : {q.key}, spec : {q.spec}, id : 1 .. repo.last, removed : BOOLEAN]
  BY <1>3 DEF IInv, RepoOK
<1>5. /\ repo'.jobs = repo.jobs \ {j} /\ repo'.receipts = (repo.receipts \ {p}) \cup {q}
      /\ repo'.last = repo.last
      /\ repo'.sources = repo.sources /\ repo'.destinations = repo.destinations
      /\ repo' \in [last : Nat, jobs : {repo'.jobs}, receipts : {repo'.receipts},
                    sources : {repo'.sources}, destinations : {repo'.destinations}]
  BY <1>1, <1>3 DEF IInv, RepoOK
<1>6. /\ IsFiniteSet(repo'.jobs) /\ IsFiniteSet(repo'.receipts) /\ Limits'
  <2>1. IsFiniteSet(repo.jobs) /\ IsFiniteSet(repo.receipts) /\ Limits
    BY DEF IInv, RepoOK
  <2>2. /\ IsFiniteSet(repo.jobs \ {j}) /\ Cardinality(repo.jobs \ {j}) = Cardinality(repo.jobs) - 1
    BY <2>1, FS_RemoveElement
  <2>3. /\ IsFiniteSet(repo.receipts \ {p})
        /\ Cardinality(repo.receipts \ {p}) = Cardinality(repo.receipts) - 1
    BY <2>1, FS_RemoveElement
  <2>4. /\ IsFiniteSet((repo.receipts \ {p}) \cup {q})
        /\ Cardinality((repo.receipts \ {p}) \cup {q}) \in Nat
        /\ Cardinality((repo.receipts \ {p}) \cup {q}) <= Cardinality(repo.receipts \ {p}) + 1
    BY <2>3, AddedOne
  <2>5. /\ Cardinality(repo.jobs) \in Nat /\ Cardinality(repo.receipts) \in Nat
        /\ MaxJobs \in Nat /\ MaxReceipts \in Nat
    BY <2>1, FS_CardinalityType, AdmissionAssumption
  <2>6. Limits'
    <3> DEFINE a == Cardinality(repo.jobs)
               b == Cardinality(repo.receipts)
               e == Cardinality((repo.receipts \ {p}) \cup {q})
    <3>1. a - 1 <= MaxJobs /\ e <= MaxReceipts
      <4>1. a <= MaxJobs /\ b <= MaxReceipts /\ e <= (b - 1) + 1
        BY <2>1, <2>3, <2>4 DEF Limits
      <4>2. a \in Nat /\ b \in Nat /\ e \in Nat
        BY <2>4, <2>5
      <4> HIDE DEF a, b, e
      <4> QED BY <2>5, <4>1, <4>2
    <3> QED BY <1>5, <2>2, <3>1 DEF Limits
  <2> QED BY <1>5, <2>2, <2>4, <2>6
<1>7. RepoOK'
  BY <1>4, <1>5, <1>6 DEF IInv, RepoOK
<1>8. JobsApart'
  BY <1>5 DEF IInv, JobsApart
<1>9. Receipts'
  <2>1. /\ \A r \in repo'.receipts : r = q \/ (r \in repo.receipts /\ r.id # p.id /\ r.key # p.key)
        /\ \A k \in repo'.jobs : k \in repo.jobs /\ k.id # p.id
    BY <1>1, <1>5 DEF IInv, Receipts, JobsApart
  <2>2. \A r \in repo'.receipts : ~r.removed => \E k \in repo'.jobs : k.id = r.id /\ k.spec = r.spec
    BY <1>1, <1>4, <1>5, <2>1 DEF IInv, Receipts
  <2>3. \A k \in repo'.jobs : \E r \in repo'.receipts : r.id = k.id
    BY <1>5, <2>1 DEF IInv, Receipts
  <2>4. \A r \in repo'.receipts : r.removed => \A k \in repo'.jobs : k.id # r.id
    BY <1>4, <2>1 DEF IInv, Receipts
  <2>5. \A r, t \in repo'.receipts : r.key = t.key \/ r.id = t.id => r = t
    BY <1>4, <2>1 DEF IInv, Receipts
  <2> QED BY <2>2, <2>3, <2>4, <2>5 DEF Receipts
<1>10. /\ \A r \in repo.receipts : \E t \in repo'.receipts :
            t.key = r.key /\ t.spec = r.spec /\ t.id = r.id
       /\ \A t \in repo'.receipts : \E r \in repo.receipts :
            t.key = r.key /\ t.spec = r.spec /\ t.id = r.id
       /\ repo'.jobs \subseteq repo.jobs
  BY <1>4, <1>5
<1>11. \A c \in Clients :
         /\ SourceOf(clients[c].req)' = SourceOf(clients[c].req)
         /\ Key(clients[c].req)' = Key(clients[c].req)
         /\ SpecOf(clients[c].req)' = SpecOf(clients[c].req)
  BY <1>2, SameTerms DEF SameEngine
<1>12. EngineOK' /\ ClientsOK' /\ Modes' /\ SourcesApart'
  BY <1>2, <1>11 DEF IInv, EngineOK, ClientsOK, Modes, ModeFor, SourcesApart, Serving
<1>13. \A key, spec, id : HasReceipt(key, spec, id) => HasReceipt(key, spec, id)'
  BY <1>10 DEF HasReceipt
<1>14. Answers'
  BY <1>2, <1>5, <1>13 DEF IInv, Answers, Rowed
<1>15. Reserved'
  <2>1. \A c \in Clients : ReceiptsOf(Key(clients[c].req)) = {} => ReceiptsOf(Key(clients[c].req))' = {}
    BY <1>10, <1>11 DEF ReceiptsOf
  <2>2. \A c \in Clients : clients[c].pc = "commit" =>
          /\ clients[c].id \in 1 .. repo'.last
          /\ \A k \in repo'.jobs : k.id # clients[c].id
          /\ \A t \in repo'.receipts : t.id # clients[c].id
    BY <1>5, <1>10 DEF IInv, Reserved, ReservedFor
  <2>3. \A c, d \in Clients : clients[c].pc = "commit" /\ clients[d].pc = "commit"
                              /\ clients[d].id = clients[c].id => c = d
    BY DEF IInv, Reserved, ReservedFor
  <2>4. \A c \in Clients : clients[c].pc \in {"reserve", "commit"} => ReceiptsOf(Key(clients[c].req)) = {}
    BY DEF IInv, Reserved, ReservedFor
  <2> QED BY <1>2, <2>1, <2>2, <2>3, <2>4 DEF Reserved, ReservedFor
<1>16. Admissions'
  BY <1>2, <1>11, <1>13 DEF IInv, Admissions, AdmissionFor
<1>17. Recorded'
  <2>1. \A r : RowedRequest(r) => RowedRequest(r)'
    BY <1>2, <1>5 DEF RowedRequest, Rowed, SourceOf
  <2>2. \A c \in Clients : RecordedFor(c)'
    BY <1>2, <1>5, <1>11 DEF IInv, Recorded, RecordedFor, RowedRequest, Rowed, Serving
  <2> QED BY <1>2, <2>1, <2>2 DEF IInv, Recorded, Elements
<1>18. HeldKnown'
  BY <1>2, <1>10, <1>11 DEF IInv, HeldKnown, Serving
<1>19. WorkIsRecorded'
  BY <1>2, <1>5, <1>10 DEF IInv, WorkIsRecorded, HasRow
<1>20. Bounds'
  BY <1>2, <1>5, <1>10, <1>11 DEF IInv, Bounds, Allowed, Linked, Sensitive, Serving
<1>21. SeenIsCurrent'
  BY <1>2, <1>10 DEF IInv, SeenIsCurrent, SeenFor
<1>22. AnsweredHeld' /\ WaitingHeld'
  BY <1>2, <1>5, <1>10 DEF IInv, AnsweredHeld, WaitingHeld, Allowed, Linked
<1> QED BY <1>6, <1>7, <1>8, <1>9, <1>12, <1>14, <1>15, <1>16, <1>17, <1>18, <1>19, <1>20, <1>21,
           <1>22 DEF IInv

-----------------------------------------------------------------------------
(***************************************************************************)
(* The engine comes and goes.                                              *)
(***************************************************************************)

\* A non-empty set of identities has a least one.
LEMMA FirstIdentity ==
  ASSUME NEW S, S \subseteq Nat, S # {}
  PROVE  \E m \in S : \A n \in S : m <= n
<1> DEFINE R == OpToRel(<, Nat)
<1>1. PICK x \in S : \A y \in S : ~(<<y, x>> \in R)
  <2>1. IsWellFoundedOn(R, Nat)
    BY NatLessThanWellFounded
  <2> HIDE DEF R
  <2> QED BY <2>1, WFMin
<1>2. \A y \in S : ~(y < x)
  BY <1>1 DEF OpToRel
<1> QED BY <1>2

\* restore binds, of the jobs with one source, the first.
LEMMA SourceIsBound ==
  ASSUME IInv, NEW allow, NEW j \in repo.jobs, Allowed(j, allow)
  PROVE  \E k \in repo.jobs : Allowed(k, allow) /\ FirstOfSource(k) /\ k.spec.source = j.spec.source
<1> DEFINE S == {k.id : k \in {l \in repo.jobs : l.spec.source = j.spec.source}}
<1>1. S \subseteq Nat /\ S # {}
  BY DEF IInv, RepoOK
<1>2. PICK m \in S : \A n \in S : m <= n
  <2> HIDE DEF S
  <2> QED BY <1>1, FirstIdentity
<1>3. PICK k \in repo.jobs : k.spec.source = j.spec.source /\ k.id = m
  OBVIOUS
<1>4. FirstOfSource(k)
  BY <1>2, <1>3 DEF FirstOfSource
<1>5. Allowed(k, allow)
  BY <1>3 DEF Allowed, Linked
<1> QED BY <1>3, <1>4, <1>5

\* The resident engine starts and restores what the repository has.
LEMMA OpenResidentStep ==
  ASSUME IInv, OpenResident
  PROVE  IInv'
<1>0. PICK max \in Maxes, allow \in BOOLEAN :
        LET bound == {j \in repo.jobs : Allowed(j, allow) /\ FirstOfSource(j)} IN
        engine' = [Down EXCEPT !.mode = "resident", !.max = max, !.allow = allow,
                     !.registry = repo.destinations, !.bound = {j.spec.source : j \in bound},
                     !.held = {j.id : j \in {k \in bound : Restores(k)}}]
  BY DEF OpenResident
<1> DEFINE bound == {j \in repo.jobs : Allowed(j, allow) /\ FirstOfSource(j)}
<1>1. engine.mode = "down" /\ repo' = repo /\ clients' = clients /\ accepted' = accepted
  BY DEF OpenResident
<1>2. /\ engine'.mode = "resident" /\ engine'.allow = allow /\ engine'.prepare = {}
      /\ engine'.answered = {}
      /\ engine'.bound = {j.spec.source : j \in bound}
      /\ engine'.held = {j.id : j \in {k \in bound : Restores(k)}}
      /\ engine'.record = <<>> /\ engine'.admit = <<>>
      /\ engine' \in [mode : {"resident"}, max : {engine'.max}, allow : BOOLEAN,
                      bound : {engine'.bound}, registry : {engine'.registry},
                      held : {engine'.held}, failed : {engine'.failed},
                      answered : {engine'.answered},
                      intent : {engine'.intent}, record : {engine'.record},
                      admit : {engine'.admit}, prepare : {engine'.prepare}]
  BY <1>0, ZenonT(60) DEF Down
<1>3. EngineOK'
  <2>1. <<>> \in Seq(Elements(<<>>)) /\ \A r \in Elements(<<>>) : IsRequest(r)
    BY DEF Elements
  <2> QED BY <1>2, <2>1 DEF EngineOK, Elements
<1>4. ClientsOK' /\ \A c \in Clients : ~Serving(c)' /\ clients'[c].pc = "free"
  BY <1>1 DEF IInv, Modes, ClientsOK, Serving
<1>5. RepoOK' /\ JobsApart' /\ Limits' /\ Receipts' /\ Answers'
  BY <1>1, SameStore
<1>6. Modes' /\ SourcesApart'
  BY <1>2, <1>4 DEF Modes, ModeFor, SourcesApart
<1>7. Reserved' /\ Admissions' /\ SeenIsCurrent'
  BY <1>4 DEF Reserved, ReservedFor, Admissions, AdmissionFor, SeenIsCurrent, SeenFor
<1>8. Recorded'
  BY <1>2, <1>4 DEF Recorded, RecordedFor
<1>9. HeldKnown'
  <2>1. \A h \in engine'.held : \E p \in repo.receipts : p.id = h
    BY <1>2 DEF IInv, Receipts
  <2>2. \A p \in repo.receipts : p.id \in engine'.held => p.spec.source \in engine'.bound
    BY <1>2, JobOfReceipt
  <2> QED BY <1>1, <1>2, <1>4, <2>1, <2>2 DEF HeldKnown
<1>10. WorkIsRecorded'
  <2>1. \A j \in repo.jobs : j.id \in engine'.held => HasRow(j.spec.source)
    BY <1>2 DEF IInv, JobsApart, Allowed, Linked, HasRow
  <2> QED BY <1>1, <1>2, <2>1 DEF IInv, WorkIsRecorded, HasRow
<1>11. Bounds'
  <2>1. \A j \in repo.jobs : Allowed(j, allow) => j.spec.source \in engine'.bound
    <3> SUFFICES ASSUME NEW j \in repo.jobs, Allowed(j, allow)
                 PROVE  j.spec.source \in engine'.bound
      OBVIOUS
    <3>1. PICK k \in repo.jobs :
            Allowed(k, allow) /\ FirstOfSource(k) /\ k.spec.source = j.spec.source
      BY SourceIsBound
    <3> QED BY <1>2, <3>1
  <2> QED BY <1>1, <1>2, <1>4, <2>1 DEF Bounds, Allowed, Linked
<1>12. AnsweredHeld'
  BY <1>2 DEF AnsweredHeld
<1>13. WaitingHeld'
  <2> SUFFICES ASSUME NEW j \in repo.jobs, j.state \in {"Queued", "RetryWait"},
                      Allowed(j, allow), j.id \notin engine'.held
               PROVE  \E p \in repo.receipts : p.id < j.id /\ p.spec.source = j.spec.source
    BY <1>1, <1>2 DEF WaitingHeld, Allowed, Linked
  <2>1. ~FirstOfSource(j)
    BY <1>2 DEF Restores
  <2>2. PICK k \in repo.jobs : k.spec.source = j.spec.source /\ ~(j.id <= k.id)
    BY <2>1 DEF FirstOfSource
  <2>3. k.id < j.id
    BY <2>2 DEF IInv, RepoOK
  <2>4. PICK p \in repo.receipts : p.id = k.id
    BY DEF IInv, Receipts
  <2> QED BY <2>2, <2>3, <2>4, JobOfReceipt
<1> QED BY <1>3, <1>4, <1>5, <1>6, <1>7, <1>8, <1>9, <1>10, <1>11, <1>12, <1>13 DEF IInv

\* The engine stops or crashes, and its handlers with it.
LEMMA ExitStep ==
  ASSUME IInv, Exit
  PROVE  IInv'
<1>1. WorkIsRecorded'
  BY DEF Exit, IInv, WorkIsRecorded, HasRow, Down
<1> QED BY <1>1, AllDown, SameStore DEF Exit, IInv

-----------------------------------------------------------------------------
(***************************************************************************)
(* The theorems.                                                           *)
(***************************************************************************)
LEMMA AdmissionInit == Init => IInv
<1> SUFFICES ASSUME Init PROVE IInv
  OBVIOUS
<1>1. /\ repo.last = 0 /\ repo.jobs = {} /\ repo.receipts = {} /\ repo.sources = {}
      /\ repo.destinations = {} /\ accepted = {}
      /\ engine.mode = "down" /\ engine.held = {} /\ engine.prepare = {} /\ engine.answered = {}
      /\ engine.record = <<>> /\ engine.admit = <<>>
      /\ \A c \in Clients : clients[c] = Free /\ clients[c].pc = "free"
  BY DEF Init, Down, Free
<1>2. RepoOK /\ Limits
  <2>1. IsFiniteSet({}) /\ Cardinality({}) = 0
    BY FS_EmptySet
  <2>2. MaxJobs \in Nat /\ MaxReceipts \in Nat
    BY AdmissionAssumption
  <2>3. Limits
    BY <1>1, <2>1, <2>2 DEF Limits
  <2> QED BY <1>1, <2>1, <2>3 DEF RepoOK, Init
<1>3. EngineOK
  <2>1. <<>> \in Seq(Elements(<<>>)) /\ \A r \in Elements(<<>>) : IsRequest(r)
    BY DEF Elements
  <2> QED BY <1>1, <2>1 DEF EngineOK, Init, Down
<1>4. ClientsOK
  BY <1>1, FreeShape DEF ClientsOK, Serving, Init
<1>5. Modes /\ SourcesApart /\ Reserved /\ Admissions /\ Recorded /\ SeenIsCurrent
  BY <1>1 DEF Modes, ModeFor, SourcesApart, Reserved, ReservedFor, Admissions, AdmissionFor,
              Recorded, RecordedFor, SeenIsCurrent, SeenFor, Serving
<1>6. /\ JobsApart /\ Receipts /\ Answers /\ HeldKnown /\ WorkIsRecorded /\ Bounds
      /\ AnsweredHeld /\ WaitingHeld
  BY <1>1 DEF JobsApart, Receipts, Answers, HeldKnown, WorkIsRecorded, Bounds, AnsweredHeld,
              WaitingHeld
<1> QED BY <1>2, <1>3, <1>4, <1>5, <1>6 DEF IInv

\* A step of the admission, or none, keeps the invariant.
LEMMA AdmissionStep == IInv /\ [Next]_vars => IInv'
<1> SUFFICES ASSUME IInv, [Next]_vars PROVE IInv'
  OBVIOUS
<1>1. ASSUME NEW c \in Clients, Handler(c) PROVE IInv'
  BY <1>1, AddStep, ReceiptStep, ReserveIdStep, CommitAddStep, UnreadableStep, RecordStep, LoadStep,
     HandStep, AdmitNextStep, AdmittedStep DEF Handler
<1>2. ASSUME UNCHANGED vars PROVE IInv'
  <2>1. repo' = repo /\ engine' = engine /\ clients' = clients /\ accepted' = accepted
    BY <1>2 DEF vars
  <2>2. /\ RepoOK' /\ JobsApart' /\ Limits' /\ Receipts' /\ Answers'
        /\ EngineOK' /\ ClientsOK' /\ Modes'
    BY <2>1, SameStore DEF IInv, EngineOK, ClientsOK, Modes, ModeFor, Serving
  <2>3. SourcesApart' /\ HeldKnown' /\ WorkIsRecorded' /\ SeenIsCurrent'
    BY <2>1 DEF IInv, SourcesApart, HeldKnown, WorkIsRecorded, HasRow, SeenIsCurrent, SeenFor,
                Serving, SourceOf
  <2>4. Reserved' /\ Admissions'
    BY <2>1, SMTT(40) DEF IInv, Reserved, ReservedFor, Admissions, AdmissionFor, HasReceipt, ReceiptsOf,
                Key, SpecOf, SourceOf
  <2>5. Recorded'
    BY <2>1 DEF IInv, Recorded, RecordedFor, RowedRequest, Rowed, Serving, SourceOf
  <2>6. Bounds' /\ AnsweredHeld' /\ WaitingHeld'
    BY <2>1 DEF IInv, Bounds, Sensitive, Allowed, Linked, AnsweredHeld, WaitingHeld, Serving,
                SourceOf
  <2> QED BY <2>2, <2>3, <2>4, <2>5, <2>6 DEF IInv
<1> QED BY <1>1, <1>2, OpenResidentStep, OpenManyStep, RecordNextStep, PrepareStep, WorkStep,
           RemoveStep, ExitStep DEF Next

\* The invariant holds always.
LEMMA AdmissionInvariant == Spec => []IInv
BY AdmissionInit, AdmissionStep, PTL DEF Spec

\* load_receipt and execute never find the repository corrupt, and no admission meets a
\* conflict at its commit, with any number of clients, requests, jobs, crashes and removals.
THEOREM SoundReceipts == Spec => []ReceiptsAreSound
<1>1. IInv => ReceiptsAreSound
  <2> SUFFICES ASSUME IInv PROVE ReceiptsAreSound
    OBVIOUS
  <2>1. \A c \in Clients : clients[c].pc = "commit" => ~Taken(Key(clients[c].req), clients[c].id)
    BY DEF IInv, Reserved, ReservedFor, Taken
  <2> QED BY <2>1 DEF IInv, Limits, Receipts, ReceiptsAreSound
<1> QED BY <1>1, AdmissionInvariant, PTL

\* An answer is never taken back: before and after a crash, in whichever engine, its key has
\* its receipt with the same job, and its source and its destination are recorded.  The link
\* of a source accepted as sensitive is in no row of that source; a source is a link under a
\* permission, and the row of the same link under the other one is not meant.
THEOREM RememberedAnswers == Spec => []AcceptedIsRemembered
<1>1. IInv => AcceptedIsRemembered
  <2> SUFFICES ASSUME IInv, NEW a \in accepted
               PROVE  \E p \in repo.receipts :
                        /\ p.key = a.key /\ p.id = a.id /\ p.spec = a.spec
                        /\ \E s \in repo.sources : s.source = a.spec.source
                        /\ \E t \in repo.destinations : t.destination = a.spec.destination
                        /\ a.sensitive => \A s \in repo.sources :
                                            s.source = a.spec.source => ~s.url
    BY DEF AcceptedIsRemembered
  <2>1. /\ HasReceipt(a.key, a.spec, a.id)
        /\ Rowed(a.spec.source, a.spec.destination, a.sensitive)
    BY DEF IInv, Answers
  <2>2. a.sensitive => \A s \in repo.sources : s.source = a.spec.source => ~s.url
    BY <2>1 DEF IInv, RepoOK, Rowed
  <2> QED BY <2>1, <2>2 DEF HasReceipt, Rowed
<1> QED BY <1>1, AdmissionInvariant, PTL

\* A resident engine holds every queued job it answered for whose session did not fail, and,
\* of the jobs accepted before it that are queued or wait for a retry and whose link is stored
\* and allowed, the first of each source.
THEOREM NoneLeftWaiting == Spec => []QueuedAreHeld
<1>1. IInv => QueuedAreHeld
  BY DEF IInv, AnsweredHeld, WaitingHeld, QueuedAreHeld
<1> QED BY <1>1, AdmissionInvariant, PTL

\* Service::add hands no job to the scheduler that the scheduler holds or that another
\* handler is about to hand over, though Admit does not look.
THEOREM HandsOverOnce == Spec => []HandedOnce
<1>1. IInv => HandedOnce
  <2> SUFFICES ASSUME IInv, NEW c \in Clients, clients[c].pc = "hand"
               PROVE  /\ clients[c].id \notin engine.held
                      /\ \A d \in Clients : clients[d].pc = "hand" /\ clients[d].id = clients[c].id
                                             => d = c
    BY DEF HandedOnce
  <2>1. engine.mode = "resident" /\ Serving(c)
    BY DEF IInv, EngineOK, Modes, ModeFor, Serving
  <2>2. PICK p \in repo.receipts : p.id = clients[c].id /\ p.spec = SpecOf(clients[c].req)
    BY DEF IInv, Admissions, AdmissionFor, HasReceipt
  <2>3. p.spec.source = SourceOf(clients[c].req)
    BY <2>2 DEF SpecOf
  <2>4. clients[c].id \notin engine.held
    BY <2>1, <2>2, <2>3 DEF IInv, HeldKnown
  <2>5. ASSUME NEW d \in Clients, clients[d].pc = "hand", clients[d].id = clients[c].id
        PROVE  d = c
    <3>1. PICK q \in repo.receipts : q.id = clients[d].id /\ q.spec = SpecOf(clients[d].req)
      BY <2>5 DEF IInv, Admissions, AdmissionFor, HasReceipt
    <3>2. q = p
      BY <2>2, <2>5, <3>1 DEF IInv, Receipts
    <3>3. SourceOf(clients[d].req) = SourceOf(clients[c].req)
      BY <2>3, <3>1, <3>2 DEF SpecOf
    <3> QED BY <2>1, <2>5, <3>3 DEF IInv, SourcesApart, Serving
  <2> QED BY <2>4, <2>5
<1> QED BY <1>1, AdmissionInvariant, PTL

=============================================================================
