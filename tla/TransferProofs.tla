--------------------------- MODULE TransferProofs ---------------------------
(***************************************************************************)
(* Proofs about Transfer, for every file, every set of URLs and versions,  *)
(* every number of connections and every threshold.                        *)
(*                                                                         *)
(* The properties are about what stands at the name and in the row; what   *)
(* keeps them true is about the attempt.  IInv says, part by part: which   *)
(* step of an attempt meets which state of the directory (Stages); that    *)
(* the receipt describes synced bytes of the file (Receipt); how much is   *)
(* still to come (Lengths); that the ranges of a window lie side by side   *)
(* (Ranges); that what is in the file, what is in the receipt and what is  *)
(* still to be read are of one version at one URL wherever no digest would *)
(* tell (Unmixed); and that the name has nothing but a wanted file         *)
(* (Published).  A refreshed link may mix two versions, which is why       *)
(* Unmixed holds only without a digest and Published needs both.  Named    *)
(* says beside IInv what a finished download still has at its name: on     *)
(* Unix all of it, elsewhere what no loss of power took.                   *)
(***************************************************************************)
EXTENDS Transfer, SequenceTheorems, FiniteSetTheorems, TLAPS

\* The tags a field may have.
Tags == Versions \cup {NoField}

\* The rows, the directories and the attempts there can be.
Rows ==
  [orig : Int, final : Int, tag : Tags, total : Int, committed : Nat, digest : Seq(Int),
   phase : 0 .. 3, unknown : BOOLEAN]

Dirs ==
  [made : {"none", "half", "made"}, row : Rows, part : Seq(Int), synced : Nat, out : Seq(Int),
   outSynced : BOOLEAN]

\* Before the row, while units come, and once they are all there.
Early   == {"idle", "request", "create", "insert"}
Reading == {"accepted", "first", "body", "window", "flush", "point", "mark"}
Ending  == {"ready", "intend", "link", "settle"}
Thens   == {"none", "body", "window", "flush", "mark", "cancelled", "failed"}

Runs ==
  [pc : Early \cup Reading \cup Ending, body : Seq(Int), final : Int, tag : Tags,
   got : SUBSET [at : Int, unit : Int], then : Thens, unknown : BOOLEAN, reported : Nat,
   job : {"Queued", "Probing", "Downloading", "Verifying"}]

\* The options of a download.
Options == [url : Int, refresh : Int, expected : BOOLEAN, parallel : BOOLEAN,
            max : {Total - 1, Total}, unix : BOOLEAN]

\* What is left of the bounds.
Budgets == [attempts : Int, faults : Int, power : Int, changes : Int, strangers : Int]

\* Every variable has its type.
Shapes ==
  /\ dir \in Dirs /\ run \in Runs /\ opts \in Options /\ server \in Versions
  /\ DOMAIN folder = 1 .. 2

\* The step that an attempt goes on with, a checkpoint in between left out.
Where == IF run.pc = "point" THEN run.then ELSE run.pc

\* The first units of a file, and its last ones.
Prefix(s, u, v)       == \A i \in 1 .. Len(s) : s[i] = Unit(u, v, i)
Suffix(s, from, u, v) == \A i \in 1 .. Len(s) : s[i] = Unit(u, v, from + i)

\* A version that the tag does not rule out.
Tagged(tag, v) == v \in Versions /\ (tag # NoField => v = tag)

\* A file that may stand at the name.
Wanted(file) == file \in Whole /\ (opts.expected => file = Expected)

\* Where an attempt is, and what the directory is then.
Stages ==
  /\ dir.made # "made" => /\ run.pc \in Early /\ dir.row.phase = 0 /\ dir.row.committed = 0
                          /\ Len(dir.part) = 0 /\ dir.synced = 0 /\ dir.out = Free
                          /\ dir.row.digest = <<>> /\ dir.row.tag = NoField /\ run.reported = 0
  /\ run.pc = "create" => dir.made = "none"
  /\ run.pc = "insert" => dir.made = "half"
  /\ run.pc = "request" => /\ dir.made # "half"
                           /\ Len(dir.part) = dir.row.committed /\ dir.row.phase = 0
                           /\ dir.made = "made" => ~dir.row.unknown
                           /\ dir.row.committed > 0 => dir.row.tag # NoField
  /\ run.pc \in Reading => dir.row.phase = 0 /\ dir.row.unknown = run.unknown
  /\ run.pc = "ready" => dir.row.phase > 0
  /\ run.pc = "intend" => dir.row.phase = 1
  /\ run.pc \in {"link", "settle"} => dir.row.phase \in {2, 3}
  /\ run.pc = "mark" => dir.row.committed = Len(dir.part)
  /\ run.pc = "point" => run.then # "none"

\* The receipt.
Receipt ==
  dir.made = "made" =>
    /\ dir.row.committed <= dir.synced /\ dir.synced <= Len(dir.part)
    /\ Len(dir.part) <= dir.row.total
    /\ Len(dir.row.digest) = dir.row.committed
    /\ \A i \in 1 .. dir.row.committed : dir.row.digest[i] = dir.part[i]
    /\ dir.row.phase > 0 => Len(dir.part) = dir.row.committed /\ ~dir.row.unknown
    /\ dir.row.phase = 3 => Wanted(dir.row.digest)
    /\ dir.row.phase = 0 /\ ~dir.row.unknown => dir.row.total = Total
    /\ run.reported <= dir.row.committed

\* What is still to be read, and what the ranges brought.
Lengths ==
  /\ run.pc \in {"create", "insert"} => Len(run.body) = Total
  /\ run.pc \in Early => run.got = {}
  /\ Where \in {"accepted", "first", "body"} => Len(run.body) = Total - Len(dir.part)
                                                /\ run.got = {}
  /\ Where = "mark" => Len(dir.part) = Total
  /\ Where \in {"accepted", "first", "window", "flush"} => ~dir.row.unknown
  /\ Where \in {"first", "window", "flush"} => dir.row.tag # NoField

Ranges ==
  Where \in {"window", "flush"} =>
    /\ \A g \in run.got : /\ g.at \in Len(dir.part) .. Total - 1
                          /\ g.unit = Unit(dir.row.final, dir.row.tag, g.at + 1)
    /\ \A g, h \in run.got : g.at = h.at => g = h
    /\ Where = "window" => \A g \in run.got : g.at \in Window
    /\ Where = "flush" =>
         \A g \in run.got : \A k \in Len(dir.part) .. g.at : \E h \in run.got : h.at = k

\* One representation, where no digest would tell.
Unmixed ==
  ~opts.expected =>
    /\ opts.refresh = 0
    /\ run.pc \in {"create", "insert"} =>
         \E v \in Versions : Tagged(run.tag, v) /\ Prefix(run.body, run.final, v)
    /\ run.pc \in {"create", "insert"} => run.final \in Urls
    /\ dir.made = "made" =>
         /\ dir.row.final \in Urls
         /\ \E v \in Versions : /\ Tagged(dir.row.tag, v)
                                /\ Prefix(dir.row.digest, dir.row.final, v)
                                /\ run.pc \in Reading => Prefix(dir.part, dir.row.final, v)
                                /\ Where \in {"accepted", "first", "body"} =>
                                     Suffix(run.body, Len(dir.part), dir.row.final, v)
         /\ dir.row.phase > 0 => dir.row.digest \in Whole

\* The name, the exports, and what the last step of an attempt relies on.
Published ==
  /\ dir.out \in {Free, Foreign} \/ Wanted(dir.out)
  /\ \A n \in 1 .. 2 : folder[n] \in {Free, Foreign} \/ Wanted(folder[n])
  /\ run.pc = "settle" => dir.out = dir.part /\ Wanted(dir.part)
  /\ result = "done" => dir.row.phase = 3

\* The state machine of the attempt.
Machine ==
  /\ run.pc \in {"idle", "request", "ready"} => run.job = "Queued"
  /\ run.pc \in {"create", "insert", "accepted"} => run.job = "Probing"
  /\ run.pc \in Reading \ {"accepted"} =>
       run.job = IF run.unknown THEN "Probing" ELSE "Downloading"
  /\ run.pc = "accepted" => ~run.unknown
  /\ run.pc \in Ending => run.job # "Downloading"

\* The inductive invariant.
IInv == Shapes /\ Stages /\ Receipt /\ Lengths /\ Ranges /\ Unmixed /\ Published /\ Machine

\* What a finished download still has at its name.  It is inductive beside IInv.
Named ==
  /\ budget \in Budgets /\ budget.power <= MaxPower
  /\ dir.row.phase = 3 =>
       /\ opts.unix \/ budget.power = MaxPower => dir.out = dir.row.digest
       /\ opts.unix => dir.outSynced
-----------------------------------------------------------------------------
(***************************************************************************)
(* Sequences and contents.                                                 *)
(***************************************************************************)

\* Between attempts there is nothing but the directory.
LEMMA IdleFields ==
  /\ Idle \in Runs /\ Idle.pc = "idle" /\ Idle.job = "Queued" /\ Idle.reported = 0
  /\ Idle.got = {} /\ Idle.unknown = FALSE /\ Idle.then = "none" /\ Idle.body = <<>>
BY DEF Idle, Runs, Early, Tags, Thens

\* A unit is a positive number, so that no file is one of the marks.
LEMMA WholeFiles ==
  ASSUME NEW u \in Urls, NEW v \in Versions
  PROVE  /\ Content(u, v) \in Seq(Int) /\ Len(Content(u, v)) = Total
         /\ \A i \in 1 .. Total : Content(u, v)[i] = Unit(u, v, i)
         /\ Content(u, v) \in Whole /\ Content(u, v) \notin {Free, Foreign}
<1>1. \A i \in 1 .. Total : Unit(u, v, i) \in Nat
  BY TransferAssumption DEF Unit
<1>2. Content(u, v) \in Seq(Int) /\ Len(Content(u, v)) = Total
      /\ \A i \in 1 .. Total : Content(u, v)[i] = Unit(u, v, i)
  BY <1>1, TransferAssumption DEF Content
<1>3. Content(u, v)[1] \in Nat
  BY <1>1, <1>2, TransferAssumption
<1>4. Free[1] = -1 /\ Foreign[1] = -2
  BY DEF Free, Foreign
<1> QED
  BY <1>2, <1>3, <1>4 DEF Whole

\* What was asked for is one of the files.
LEMMA ExpectedIsWhole ==
  /\ Expected \in Whole /\ Expected \in Seq(Int)
  /\ Free \notin Whole /\ Foreign \notin Whole /\ Free # Foreign
  /\ \A f \in Whole : f \in Seq(Int) /\ Len(f) = Total
<1>1. Free[1] = -1 /\ Foreign[1] = -2
  BY DEF Free, Foreign
<1>2. ASSUME NEW f \in Whole
      PROVE  f \in Seq(Int) /\ Len(f) = Total /\ f \notin {Free, Foreign}
  <2>1. PICK u \in Urls, v \in Versions : f = Content(u, v)
    BY DEF Whole
  <2> QED
    BY <2>1, WholeFiles
<1>3. Expected \in Whole
  BY WholeFiles, TransferAssumption DEF Expected
<1>4. Free # Foreign
  BY <1>1
<1> QED
  BY <1>2, <1>3, <1>4

\* A sequence with all the units of one representation is that file.
LEMMA FullPrefix ==
  ASSUME NEW s \in Seq(Int), NEW u \in Urls, NEW v \in Versions, Len(s) = Total, Prefix(s, u, v)
  PROVE  s \in Whole
<1>1. s = Content(u, v)
  BY WholeFiles DEF Prefix
<1> QED
  BY <1>1, WholeFiles

\* The first n units of a sequence.
LEMMA FirstUnits ==
  ASSUME NEW s \in Seq(Int), NEW n \in 0 .. Len(s)
  PROVE  /\ SubSeq(s, 1, n) \in Seq(Int) /\ Len(SubSeq(s, 1, n)) = n
         /\ \A i \in 1 .. n : SubSeq(s, 1, n)[i] = s[i]
BY SubSeqProperties

\* Two sequences of one length with the same elements.
LEMMA SameUnits ==
  ASSUME NEW s \in Seq(Int), NEW t \in Seq(Int), Len(s) = Len(t),
         \A i \in 1 .. Len(s) : s[i] = t[i]
  PROVE  s = t
OBVIOUS

\* The receipt as Store::open reads it.
LEMMA ReceiptIsSound ==
  ASSUME Shapes, Receipt, dir.made = "made"
  PROVE  PartSound /\ dir.row.committed \in 0 .. Len(dir.part)
         /\ (dir.row.phase > 0 => dir.part = dir.row.digest)
<1>1. /\ dir.part \in Seq(Int) /\ dir.row.digest \in Seq(Int) /\ dir.row.committed \in Nat
      /\ dir.synced \in Nat /\ Len(dir.part) \in Nat
  BY DEF Shapes, Dirs, Rows
<1>2. dir.row.committed \in 0 .. Len(dir.part)
  BY <1>1 DEF Receipt
<1>3. SubSeq(dir.part, 1, dir.row.committed) = dir.row.digest
  BY <1>1, <1>2, FirstUnits, SameUnits DEF Receipt
<1>4. dir.row.phase > 0 => dir.part = dir.row.digest
  BY <1>1, SameUnits DEF Receipt
<1> QED
  BY <1>1, <1>2, <1>3, <1>4 DEF Receipt, PartSound

-----------------------------------------------------------------------------
(***************************************************************************)
(* Steps that end an attempt, and those around it.                         *)
(***************************************************************************)

\* The initial state.
LEMMA TransferInit == Init => IInv
<1> SUFFICES ASSUME Init PROVE IInv
  OBVIOUS
<1>1. /\ dir \in Dirs /\ dir.made = "none" /\ dir.row.phase = 0 /\ dir.row.committed = 0
      /\ dir.part = <<>> /\ dir.synced = 0 /\ dir.out = Free /\ dir.row.digest = <<>>
      /\ dir.row.tag = NoField
  BY DEF Init, NoDir, NoRow, Dirs, Rows, Tags, Free
<1>2. run = Idle
  BY DEF Init
<1>3. Shapes
  BY <1>1, <1>2, IdleFields, TransferAssumption DEF Init, Shapes, Options
<1>4. Stages
  BY <1>1, <1>2, IdleFields DEF Stages, Early, Reading
<1>5. Receipt /\ Ranges /\ Lengths
  BY <1>1, <1>2, IdleFields DEF Receipt, Ranges, Lengths, Where
<1>6. Unmixed /\ Machine
  BY <1>1, <1>2, IdleFields DEF Unmixed, Machine, Reading, Ending, Init
<1>7. Published
  BY <1>1, <1>2, IdleFields DEF Published, Init
<1> QED
  BY <1>3, <1>4, <1>5, <1>6, <1>7 DEF IInv

\* An attempt that is over leaves a directory that is in order.
LEMMA ToIdle ==
  ASSUME IInv, run' = Idle, dir' = dir, opts' = opts, server' = server, folder' = folder,
         result' = result \/ result' # "done"
  PROVE  IInv'
<1>1. Shapes'
  BY IdleFields DEF IInv, Shapes
<1>2. Stages'
  BY IdleFields DEF IInv, Stages, Early, Reading
<1>3. Receipt'
  BY IdleFields DEF IInv, Receipt, Wanted, Shapes, Dirs, Rows
<1>4. Lengths' /\ Ranges' /\ Machine'
  BY IdleFields DEF Ranges, Lengths, Where, Machine, Early, Reading, Ending
<1>5. Unmixed'
  BY IdleFields DEF IInv, Unmixed, Reading, Where, Tagged, Prefix
<1>6. Published'
  BY IdleFields DEF IInv, Published, Wanted
<1> QED
  BY <1>1, <1>2, <1>3, <1>4, <1>5, <1>6 DEF IInv

\* A step that leaves the directory, the attempt and the options alone.
LEMMA Aside ==
  ASSUME IInv, UNCHANGED <<dir, run, opts>>, server' \in Versions,
         result' = result \/ result' # "done",
         DOMAIN folder' = 1 .. 2,
         \A n \in 1 .. 2 : folder'[n] \in {Free, Foreign} \/ Wanted(folder'[n])
  PROVE  IInv'
<1>1. Shapes' /\ Stages' /\ Receipt'
  BY DEF IInv, Shapes, Stages, Receipt, Wanted
<1>2. Lengths' /\ Ranges' /\ Machine'
  BY DEF IInv, Ranges, Lengths, Where, Window, Machine
<1>3. Unmixed'
  BY DEF IInv, Unmixed, Where, Tagged, Prefix, Suffix
<1>4. Published'
  BY DEF IInv, Published, Wanted
<1> QED
  BY <1>1, <1>2, <1>3, <1>4 DEF IInv
\* Refused, Break and the obedience of an attempt without a Store.
LEMMA EndStep ==
  ASSUME IInv, Refused \/ Break \/ (Obey /\ run' = Idle)
  PROVE  IInv'
BY ToIdle DEF Refused, Break, Obey, End, Point, World, Spend, Goes

\* Cancel, Change and Export.
LEMMA AroundStep ==
  ASSUME IInv, Cancel \/ Change \/ Export
  PROVE  IInv'
<1>1. server \in Versions /\ DOMAIN folder = 1 .. 2
      /\ \A n \in 1 .. 2 : folder[n] \in {Free, Foreign} \/ Wanted(folder[n])
  BY DEF IInv, Shapes, Published
<1>2. CASE Cancel
  BY <1>1, <1>2, Aside DEF Cancel
<1>3. CASE Change
  BY <1>1, <1>3, Aside DEF Change
<1>4. CASE Export
  <2>1. PICK rename \in BOOLEAN : \E n \in FreeName(rename) : folder' = [folder EXCEPT ![n] = dir.out]
    BY <1>4 DEF Export
  <2>2. PICK n \in FreeName(rename) : folder' = [folder EXCEPT ![n] = dir.out]
    BY <2>1
  <2>3. n \in 1 .. 2
    BY DEF FreeName
  <2>4. Wanted(dir.out)
    BY <1>4 DEF Export, IInv, Receipt, Sound
  <2> QED
    BY <1>1, <1>4, <2>2, <2>3, <2>4, Aside DEF Export
<1> QED
  BY <1>2, <1>3, <1>4

\* Somebody takes the name, or one in the folder of exports.
LEMMA StrangerStep ==
  ASSUME IInv, Stranger
  PROVE  IInv'
<1>1. server \in Versions /\ DOMAIN folder = 1 .. 2
      /\ \A n \in 1 .. 2 : folder[n] \in {Free, Foreign} \/ Wanted(folder[n])
  BY DEF IInv, Shapes, Published
<1>2. UNCHANGED <<run, opts, server, result>>
  BY DEF Stranger
<1>3. CASE folder' = [folder EXCEPT ![1] = Foreign] /\ UNCHANGED dir
  BY <1>1, <1>2, <1>3, Aside
<1>4. CASE dir.made = "made" /\ dir.out = Free /\ dir' = [dir EXCEPT !.out = Foreign]
           /\ UNCHANGED folder
  <2>1. dir \in Dirs /\ Foreign \in Seq(Int)
    BY DEF IInv, Shapes, Foreign
  <2>2. /\ dir' \in Dirs /\ dir'.out = Foreign /\ dir'.made = dir.made /\ dir'.row = dir.row
        /\ dir'.part = dir.part /\ dir'.synced = dir.synced /\ dir'.outSynced = dir.outSynced
    BY <1>4, <2>1 DEF Dirs
  <2>3. ~Wanted(dir.out)
    BY <1>4, ExpectedIsWhole DEF Wanted
  <2>4. run.pc # "settle"
    BY <1>4, <2>3 DEF IInv, Published
  <2>5. Shapes' /\ Stages'
    BY <1>2, <1>4, <2>2 DEF IInv, Shapes, Stages
  <2>6. Receipt'
    BY <1>2, <1>4, <2>2 DEF IInv, Receipt, Wanted
  <2>7. Lengths' /\ Ranges' /\ Machine'
    BY <1>2, <2>2 DEF IInv, Ranges, Lengths, Where, Window, Machine
  <2>8. Unmixed'
    BY <1>2, <2>2 DEF IInv, Unmixed, Where, Tagged, Prefix, Suffix
  <2>9. Published'
    BY <1>2, <1>4, <2>2, <2>4 DEF IInv, Published, Wanted
  <2> QED
    BY <2>5, <2>6, <2>7, <2>8, <2>9 DEF IInv
<1> QED
  BY <1>3, <1>4 DEF Stranger

\* The power fails: what the receipt names was synced.
LEMMA PowerLossStep ==
  ASSUME IInv, PowerLoss
  PROVE  IInv'
<1>1. run' = Idle /\ UNCHANGED <<opts, server, folder, result>>
  BY DEF PowerLoss
<1>2. PICK n \in dir.synced .. Len(dir.part), bad \in BOOLEAN, gone \in BOOLEAN :
       dir' = [dir EXCEPT
         !.part = [i \in 1 .. n |-> IF bad /\ i > dir.synced THEN Lost ELSE dir.part[i]],
         !.out = IF gone /\ ~dir.outSynced THEN Free ELSE @, !.outSynced = TRUE]
  BY DEF PowerLoss
<1>3. /\ dir \in Dirs /\ dir.part \in Seq(Int) /\ dir.synced \in Nat /\ Len(dir.part) \in Nat
      /\ dir.row.committed \in Nat /\ dir.row.digest \in Seq(Int) /\ dir.row.total \in Int
  BY DEF IInv, Shapes, Dirs, Rows
<1>4. PICK q, x : /\ q = [i \in 1 .. n |-> IF bad /\ i > dir.synced THEN Lost ELSE dir.part[i]]
                  /\ x = IF gone /\ ~dir.outSynced THEN Free ELSE dir.out
  OBVIOUS
<1>5. /\ n \in Nat /\ q \in Seq(Int) /\ Len(q) = n
      /\ \A i \in 1 .. n : i <= dir.synced => q[i] = dir.part[i]
  BY <1>3, <1>4 DEF Lost
<1>6. x \in Seq(Int)
  BY <1>3, <1>4 DEF Free, Dirs
<1>7. /\ dir' \in Dirs /\ dir'.part = q /\ dir'.out = x /\ dir'.outSynced = TRUE
      /\ dir'.made = dir.made /\ dir'.row = dir.row /\ dir'.synced = dir.synced
  BY <1>2, <1>3, <1>4, <1>5, <1>6 DEF Dirs
<1>8. Shapes'
  BY <1>1, <1>7, IdleFields DEF IInv, Shapes
<1>9. Stages'
  BY <1>1, <1>3, <1>4, <1>5, <1>7, IdleFields DEF IInv, Stages, Early, Reading
<1>10. Receipt'
  <2>1. SUFFICES ASSUME dir.made = "made" PROVE Receipt'
    BY <1>7 DEF Receipt
  <2>2. /\ dir.row.committed <= dir.synced /\ dir.synced <= Len(dir.part)
        /\ Len(dir.part) <= dir.row.total
        /\ \A i \in 1 .. dir.row.committed : dir.row.digest[i] = dir.part[i]
        /\ dir.row.phase > 0 => Len(dir.part) = dir.row.committed /\ ~dir.row.unknown
        /\ dir.row.phase = 3 => Wanted(dir.row.digest)
        /\ Len(dir.row.digest) = dir.row.committed
        /\ dir.row.phase = 0 /\ ~dir.row.unknown => dir.row.total = Total
    BY <2>1 DEF IInv, Receipt
  <2>3. ASSUME NEW i \in 1 .. dir.row.committed PROVE dir.row.digest[i] = q[i]
    <3>1. i \in 1 .. n /\ i <= dir.synced
      BY <1>3, <2>2, SMTT(40)
    <3> QED
      BY <1>5, <2>2, <3>1
  <2>4. dir.row.phase > 0 => n = dir.row.committed /\ ~dir.row.unknown
    BY <1>3, <1>5, <2>2
  <2>6. dir.row.committed <= dir.synced /\ dir.synced <= n /\ n <= dir.row.total
    BY <1>3, <1>5, <2>2
  <2>7. Wanted(dir.row.digest)' = Wanted(dir.row.digest)
    BY <1>1, <1>7 DEF Wanted
  <2>8. run'.reported = 0
    BY <1>1, IdleFields
  <2> QED
    BY <1>3, <1>5, <1>7, <2>2, <2>3, <2>4, <2>6, <2>7, <2>8, SMTT(40) DEF Receipt
<1>11. Lengths' /\ Ranges' /\ Machine'
  BY <1>1, IdleFields DEF Ranges, Lengths, Where, Machine, Reading, Ending
<1>12. Unmixed'
  BY <1>1, <1>7, IdleFields DEF IInv, Unmixed, Reading, Where, Tagged, Prefix
<1>13. Published'
  BY <1>1, <1>4, <1>7, IdleFields DEF IInv, Published, Wanted
<1> QED
  BY <1>8, <1>9, <1>10, <1>11, <1>12, <1>13 DEF IInv

-----------------------------------------------------------------------------
(***************************************************************************)
(* The start of an attempt.                                                *)
(***************************************************************************)

\* The types of the fields that the steps use.
LEMMA Typed ==
  ASSUME Shapes
  PROVE  /\ dir \in Dirs /\ dir.row \in Rows /\ run \in Runs /\ opts \in Options
         /\ dir.part \in Seq(Int) /\ Len(dir.part) \in Nat /\ dir.synced \in Nat
         /\ dir.out \in Seq(Int) /\ dir.row.committed \in Nat /\ dir.row.total \in Int
         /\ dir.row.digest \in Seq(Int) /\ Len(dir.row.digest) \in Nat
         /\ dir.row.orig \in Int /\ dir.row.final \in Int /\ dir.row.tag \in Tags
         /\ dir.row.phase \in 0 .. 3 /\ dir.made \in {"none", "half", "made"}
         /\ run.pc \in Early \cup Reading \cup Ending /\ run.body \in Seq(Int)
         /\ Len(run.body) \in Nat /\ run.final \in Int /\ run.tag \in Tags
         /\ run.got \in SUBSET [at : Int, unit : Int] /\ run.then \in Thens /\ run.reported \in Nat
         /\ opts.url \in Int /\ opts.refresh \in Int /\ opts.max \in {Total - 1, Total}
BY SMTT(40) DEF Shapes, Dirs, Rows, Runs, Options

\* A step of the attempt that changes nothing else keeps what is about the directory.
LEMMA Onward ==
  ASSUME IInv, UNCHANGED <<dir, opts, server, folder, result>>, run' \in Runs,
         run'.reported = run.reported,
         run'.pc = "settle" => dir.out = dir.part /\ Wanted(dir.part)
  PROVE  Shapes' /\ Receipt' /\ Published'
<1>1. Shapes'
  BY DEF IInv, Shapes
<1>2. Receipt'
  BY DEF IInv, Receipt, Wanted
<1>3. Published'
  BY DEF IInv, Published, Wanted
<1> QED
  BY <1>1, <1>2, <1>3

\* Store::open cuts off what is not in the receipt, and the directory may be gone on with.
LEMMA TruncatedStep ==
  ASSUME IInv, dir.made = "made", dir' = Truncated, UNCHANGED <<server, folder>>,
         opts' \in Options, opts'.expected = opts.expected,
         ~opts.expected => opts'.refresh = 0,
         run' \in Runs, run'.pc \in {"idle", "request", "ready"}, run'.job = "Queued",
         run'.got = {}, run'.reported <= dir.row.committed,
         run'.pc = "ready" => dir.row.phase > 0,
         run'.pc = "request" => dir.row.phase = 0 /\ Resumable,
         result' = result \/ result' # "done"
  PROVE  IInv'
<1>1. /\ dir.made = "made" /\ Shapes /\ Receipt
      /\ dir.row.committed \in Nat /\ dir.row.digest \in Seq(Int) /\ dir.part \in Seq(Int)
      /\ dir \in Dirs /\ dir.row.total \in Int /\ Len(dir.part) \in Nat
      /\ dir.row.committed \in 0 .. Len(dir.part)
  BY Typed, ReceiptIsSound DEF IInv
<1>2. PICK q, n : q = SubSeq(dir.part, 1, n) /\ n = dir.row.committed
  OBVIOUS
<1>3. n \in Nat /\ q \in Seq(Int) /\ Len(q) = n /\ \A i \in 1 .. n : q[i] = dir.part[i]
  BY <1>1, <1>2, FirstUnits
<1>4. /\ dir' \in Dirs /\ dir'.part = q /\ dir'.synced = n /\ dir'.made = dir.made
      /\ dir'.row = dir.row /\ dir'.out = dir.out /\ dir'.outSynced = dir.outSynced
  BY <1>1, <1>2, <1>3 DEF Truncated, Dirs
<1>5. Shapes'
  BY <1>4 DEF IInv, Shapes
<1>6. Stages'
  BY <1>1, <1>2, <1>3, <1>4 DEF IInv, Stages, Early, Reading, Resumable
<1>7. Receipt'
  <2>1. /\ n <= Len(dir.part) /\ Len(dir.part) <= dir.row.total /\ Len(dir.row.digest) = n
        /\ \A i \in 1 .. n : dir.row.digest[i] = dir.part[i]
        /\ dir.row.phase > 0 => ~dir.row.unknown
        /\ dir.row.phase = 3 => Wanted(dir.row.digest)
        /\ dir.row.phase = 0 /\ ~dir.row.unknown => dir.row.total = Total
    BY <1>1, <1>2 DEF Receipt
  <2>2. Wanted(dir.row.digest)' = Wanted(dir.row.digest)
    BY <1>4 DEF Wanted
  <2>3. n <= dir.row.total
    BY <1>1, <1>3, <2>1
  <2>4. \A i \in 1 .. n : dir.row.digest[i] = q[i]
    BY <1>3, <2>1
  <2> QED
    BY <1>2, <1>3, <1>4, <2>1, <2>2, <2>3, <2>4 DEF Receipt
<1>8. Lengths' /\ Ranges' /\ Machine'
  BY DEF Lengths, Ranges, Where, Machine, Reading, Ending
<1>9. Unmixed'
  BY <1>4 DEF IInv, Unmixed, Reading, Where, Tagged, Prefix
<1>10. Published'
  BY <1>4 DEF IInv, Published, Wanted
<1> QED
  BY <1>5, <1>6, <1>7, <1>8, <1>9, <1>10 DEF IInv

\* Begin: the directory is refused, or gone on with.
LEMMA BeginStep ==
  ASSUME IInv, Begin
  PROVE  IInv'
<1>1. run = Idle /\ UNCHANGED <<opts, server, folder>>
  BY DEF Begin
<1>2. CASE End("failed") /\ UNCHANGED dir
  BY <1>1, <1>2, ToIdle DEF End
<1>3. CASE dir.made = "none" /\ At("request") /\ Goes /\ UNCHANGED dir
  <2>1. /\ run' \in Runs /\ run'.pc = "request" /\ run'.job = "Queued" /\ run'.got = {}
        /\ run'.reported = run.reported
    BY <1>1, <1>3, IdleFields DEF At, Runs, Early
  <2>2. UNCHANGED <<dir, opts, server, folder, result>>
    BY <1>1, <1>3 DEF Goes
  <2>3. Shapes' /\ Receipt' /\ Published'
    BY <2>1, <2>2, Onward
  <2>4. Stages'
    BY <1>3, <2>1, <2>2 DEF IInv, Stages, Early, Reading
  <2>5. Lengths' /\ Ranges' /\ Machine'
    BY <2>1 DEF Lengths, Ranges, Where, Machine, Reading, Ending
  <2>6. Unmixed'
    BY <1>3, <2>1, <2>2 DEF IInv, Unmixed
  <2> QED
    BY <2>3, <2>4, <2>5, <2>6 DEF IInv
<1>4. CASE dir.made \notin {"none", "half"} /\ dir' = Truncated
  <2>1. /\ dir.made = "made" /\ dir.row.committed \in Nat /\ dir.row.phase \in 0 .. 3
        /\ opts \in Options
    BY <1>4, Typed DEF IInv
  <2>2. PICK n : n = dir.row.committed
    OBVIOUS
  <2>3. n \in Nat
    BY <2>1, <2>2
  <2>4. \/ run' = Idle /\ result' # "done"
        \/ Goes /\ \E pc \in {"ready", "request"} :
             /\ run' = [Idle EXCEPT !.pc = pc, !.reported = n]
             /\ pc = "ready" => dir.row.phase > 0
             /\ pc = "request" => dir.row.phase = 0 /\ Resumable
    <3>1. CASE End("failed")
      BY <3>1 DEF End
    <3>2. CASE /\ dir.row.phase > 0 \/ Resumable
               /\ run' = [Idle EXCEPT !.pc = IF dir.row.phase > 0 THEN "ready" ELSE "request",
                                      !.reported = dir.row.committed]
               /\ Goes
      <4>1. PICK pc : pc = IF dir.row.phase > 0 THEN "ready" ELSE "request"
        OBVIOUS
      <4>2. /\ pc \in {"ready", "request"}
            /\ pc = "ready" => dir.row.phase > 0
            /\ pc = "request" => dir.row.phase = 0 /\ Resumable
        BY <2>1, <3>2, <4>1
      <4>3. run' = [Idle EXCEPT !.pc = pc, !.reported = n]
        BY <2>2, <3>2, <4>1
      <4> QED
        BY <3>2, <4>2, <4>3
    <3> QED
      BY <1>4, <3>1, <3>2 DEF Begin
  <2>5. CASE run' = Idle /\ result' # "done"
    BY <1>1, <1>4, <2>1, <2>5, IdleFields, TruncatedStep DEF IInv, Unmixed
  <2>6. CASE Goes /\ \E pc \in {"ready", "request"} :
               /\ run' = [Idle EXCEPT !.pc = pc, !.reported = n]
               /\ pc = "ready" => dir.row.phase > 0
               /\ pc = "request" => dir.row.phase = 0 /\ Resumable
    <3>1. PICK pc \in {"ready", "request"} :
            /\ run' = [Idle EXCEPT !.pc = pc, !.reported = n]
            /\ pc = "ready" => dir.row.phase > 0
            /\ pc = "request" => dir.row.phase = 0 /\ Resumable
      BY <2>6
    <3>2. /\ run' \in Runs /\ run'.pc = pc /\ run'.job = "Queued" /\ run'.reported = n
          /\ run'.got = {}
      BY <2>3, <3>1, IdleFields DEF Runs, Ending, Early
    <3>3. n <= n /\ result' = result
      BY <2>3, <2>6 DEF Goes
    <3> QED
      BY <1>1, <1>4, <2>1, <2>2, <3>1, <3>2, <3>3, TruncatedStep DEF IInv, Unmixed
  <2> QED
    BY <2>4, <2>5, <2>6
<1> QED
  BY <1>2, <1>3, <1>4 DEF Begin

\* RefreshUrl: only for a download whose digest is known.
LEMMA RefreshStep ==
  ASSUME IInv, NEW url \in Urls, RefreshUrl(url)
  PROVE  IInv'
<1>1. /\ UNCHANGED <<run, server, result, folder>> /\ opts.expected /\ run = Idle
      /\ opts \in Options /\ dir.row.orig \in Int /\ url \in Int
  BY Typed, TransferAssumption DEF RefreshUrl, IInv
<1>2. PICK r \in {0, dir.row.orig} : opts' = [opts EXCEPT !.url = url, !.refresh = r]
  BY DEF RefreshUrl
<1>6. r \in Int
  BY <1>1
<1>3. opts' \in Options /\ opts'.expected = opts.expected
  BY <1>1, <1>2, <1>6 DEF Options
<1>4. CASE UNCHANGED dir
  <2>1. Shapes' /\ Stages' /\ Receipt'
    BY <1>1, <1>3, <1>4 DEF IInv, Shapes, Stages, Receipt, Wanted
  <2>2. Lengths' /\ Ranges' /\ Machine'
    BY <1>1, <1>4 DEF IInv, Ranges, Lengths, Where, Window, Machine
  <2>3. Unmixed'
    BY <1>1, <1>3 DEF Unmixed
  <2>4. Published'
    BY <1>1, <1>3, <1>4 DEF IInv, Published, Wanted
  <2> QED
    BY <2>1, <2>2, <2>3, <2>4 DEF IInv
<1>5. CASE dir.made = "made" /\ dir' = Truncated
  <2>1. /\ run' = Idle /\ result' = result /\ UNCHANGED <<server, folder>>
        /\ (~opts.expected => opts'.refresh = 0) /\ dir.row.committed \in Nat
    BY <1>1, Typed DEF IInv
  <2> QED
    BY <1>3, <1>5, <2>1, IdleFields, TruncatedStep
<1> QED
  BY <1>4, <1>5 DEF RefreshUrl

\* The units of a file after the first k.
LEMMA LastUnits ==
  ASSUME NEW u \in Urls, NEW v \in Versions, NEW k \in 0 .. Total
  PROVE  LET s == SubSeq(Content(u, v), k + 1, Total)
         IN  s \in Seq(Int) /\ Len(s) = Total - k /\ Suffix(s, k, u, v)
<1>1. ASSUME NEW i \in k + 1 .. Total PROVE Content(u, v)[i] \in Int
  <2>1. i \in 1 .. Total
    BY TransferAssumption
  <2>2. u \in Int /\ v \in Int /\ i \in Int
    BY TransferAssumption
  <2>3. Unit(u, v, i) \in Int
    BY <2>2 DEF Unit
  <2> QED
    BY <2>1, <2>3, WholeFiles
<1>2. PICK s : s = SubSeq(Content(u, v), k + 1, Total)
  OBVIOUS
<1>3. /\ s \in Seq(Int) /\ Len(s) = (IF k + 1 <= Total THEN Total - (k + 1) + 1 ELSE 0)
      /\ \A i \in 1 .. Total - (k + 1) + 1 : s[i] = Content(u, v)[(k + 1) + i - 1]
  BY <1>1, <1>2, SubSeqProperties, TransferAssumption
<1>4. Len(s) = Total - k
  BY <1>3, TransferAssumption
<1>5. ASSUME NEW i \in 1 .. Total - k PROVE s[i] = Unit(u, v, k + i)
  <2>1. k + i \in 1 .. Total /\ (k + 1) + i - 1 = k + i /\ i \in 1 .. Total - (k + 1) + 1
    BY TransferAssumption
  <2> QED
    BY <1>3, <2>1, WholeFiles
<1> QED
  BY <1>2, <1>3, <1>4, <1>5 DEF Suffix

\* What the policy reads as a range has the tag that was asked for.
LEMMA SameTag ==
  ASSUME NEW q, NEW h, NEW status, Evaluate(q, status, h) = "ReadRange"
  PROVE  status = 206 /\ h.tag = q.tag /\ h.tag # NoField
<1>1. status # 200 /\ status # 416
  BY DEF Evaluate
<1>2. status = 206
  BY <1>1 DEF Evaluate
<1> QED
  BY <1>1, <1>2 DEF Evaluate, CheckPartial

\* Respond: the body is the rest of the representation that the receipt has the start of.
LEMMA RespondStep ==
  ASSUME IInv, Respond
  PROVE  IInv'
<1>1. run.pc = "request" /\ UNCHANGED <<dir, opts, server, folder, result>>
  BY DEF Respond, Goes, World
<1>2. PICK final \in Urls, tag \in {server, NoField}, status \in {200, 206, 416}, unknown \in BOOLEAN :
       /\ Accepts(status, final, tag, unknown)
       /\ run' = [run EXCEPT !.body = SubSeq(Content(final, server), Kept + 1, Total),
                    !.final = final, !.tag = tag, !.unknown = unknown,
                    !.job = Commanded(@, "Start"), !.pc = IF Fresh THEN "create" ELSE "accepted"]
  BY DEF Respond
<1>3. /\ dir.made = "none" \/ dir.made = "made"
      /\ Len(dir.part) = dir.row.committed /\ dir.row.phase = 0
      /\ dir.made = "made" => ~dir.row.unknown
      /\ dir.row.committed > 0 => dir.row.tag # NoField
      /\ dir.made = "none" => /\ Len(dir.part) = 0 /\ dir.row.committed = 0
      /\ run.job = "Queued" /\ server \in Versions
  BY <1>1, Typed DEF IInv, Stages, Machine, Shapes
<1>4. /\ run \in Runs /\ dir.row.committed \in Nat /\ Len(dir.part) \in Nat
      /\ dir.part \in Seq(Int) /\ dir.row.digest \in Seq(Int) /\ dir.row.total \in Int
  BY Typed DEF IInv
<1>5. Kept \in 0 .. Total
  BY <1>3, <1>4, TransferAssumption DEF Kept, IInv, Receipt
<1>6. PICK b : b = SubSeq(Content(final, server), Kept + 1, Total)
  OBVIOUS
<1>7. b \in Seq(Int) /\ Len(b) = Total - Kept /\ Suffix(b, Kept, final, server)
  BY <1>3, <1>5, <1>6, LastUnits
<1>8. Commanded(run.job, "Start") = "Probing"
  BY <1>3 DEF Commanded
<1>9. PICK pc : pc = IF Fresh THEN "create" ELSE "accepted"
  OBVIOUS
<1>10. run' = [run EXCEPT !.body = b, !.final = final, !.tag = tag, !.unknown = unknown,
                 !.job = "Probing", !.pc = pc]
  BY <1>2, <1>6, <1>8, <1>9
<1>11. pc \in {"create", "accepted"} /\ tag \in Tags /\ final \in Int
  BY <1>3, <1>9, TransferAssumption DEF Tags
<1>12. /\ run' \in Runs /\ run'.pc = pc /\ run'.body = b /\ run'.final = final /\ run'.tag = tag
       /\ run'.unknown = unknown /\ run'.job = "Probing" /\ run'.got = run.got
       /\ run'.then = run.then /\ run'.reported = run.reported
  BY <1>4, <1>7, <1>10, <1>11 DEF Runs, Early, Reading
<1>13. Shapes' /\ Receipt' /\ Published'
  BY <1>1, <1>11, <1>12, Onward
<1>14. CASE dir.made = "none"
  <2>1. pc = "create" /\ Kept = 0
    BY <1>3, <1>9, <1>14 DEF Fresh, Kept
  <2>2. Stages'
    BY <1>1, <1>12, <1>14, <2>1 DEF IInv, Stages, Early, Reading
  <2>3. Lengths' /\ Ranges' /\ Machine'
    <3>1. run.got = {}
      BY <1>1 DEF IInv, Lengths, Early
    <3> QED
      BY <1>7, <1>12, <2>1, <3>1, TransferAssumption
         DEF Lengths, Ranges, Where, Machine, Reading, Ending
  <2>4. Prefix(b, final, server) /\ Tagged(tag, server)
    BY <1>2, <1>3, <1>7, <2>1, TransferAssumption DEF Prefix, Suffix, Tagged
  <2>5. Unmixed'
    BY <1>1, <1>3, <1>12, <1>14, <2>1, <2>4 DEF IInv, Unmixed, Prefix, Tagged
  <2> QED
    BY <1>13, <2>2, <2>3, <2>5 DEF IInv
<1>15. CASE dir.made = "made"
  <2>1. /\ pc = "accepted" /\ SameResource(final) /\ ~unknown
        /\ IF Kept > 0 THEN AcceptsRange(status, tag) ELSE AcceptsEmpty(status, tag)
    BY <1>2, <1>9, <1>15 DEF Fresh, Accepts
  <2>2. Stages'
    <3>1. dir.row.unknown \in BOOLEAN
      BY DEF IInv, Shapes, Dirs, Rows
    <3>2. dir.row.unknown = unknown
      BY <1>3, <1>15, <2>1, <3>1, ZenonT(60)
    <3> QED
      BY <1>1, <1>3, <1>12, <1>15, <2>1, <3>2 DEF Stages, Early, Reading
  <2>3. Lengths' /\ Ranges'
    <3>1. run.got = {}
      BY <1>1 DEF IInv, Lengths, Early
    <3> QED
      BY <1>1, <1>3, <1>7, <1>12, <1>15, <2>1, <3>1 DEF Lengths, Ranges, Where, Kept
  <2>4. Machine'
    BY <1>12, <2>1 DEF Machine, Reading, Ending
  <2>5. Kept > 0 => tag = dir.row.tag
    <3>1. SUFFICES ASSUME Kept > 0 PROVE tag = dir.row.tag
      OBVIOUS
    <3>2. PICK h \in Headers(tag, Kept) :
            Evaluate(Request(Kept, dir.row.total, dir.row.total, dir.row.tag), status, h) = "ReadRange"
      BY <2>1, <3>1 DEF AcceptsRange
    <3> QED
      BY <3>2, SameTag DEF Headers, Request
  <2>6. Unmixed'
    <3>1. SUFFICES ASSUME ~opts.expected PROVE Unmixed'
      BY <1>1 DEF Unmixed
    <3>2. opts.refresh = 0 /\ dir.row.final \in Urls /\ final = dir.row.final
      BY <1>15, <2>1, <3>1 DEF IInv, Unmixed, SameResource
    <3>3. PICK v \in Versions : Tagged(dir.row.tag, v) /\ Prefix(dir.row.digest, dir.row.final, v)
      BY <1>15, <3>1 DEF IInv, Unmixed
    <3>4. \A i \in 1 .. dir.row.committed : dir.row.digest[i] = dir.part[i]
          /\ Len(dir.row.digest) = dir.row.committed
      BY <1>15 DEF IInv, Receipt
    <3>5. /\ Tagged(dir.row.tag, server) /\ Prefix(dir.row.digest, dir.row.final, server)
          /\ Prefix(dir.part, dir.row.final, server)
      <4>1. CASE Kept > 0
        <5>1. dir.row.tag # NoField /\ server = v
          BY <1>2, <1>3, <2>5, <3>3, <4>1 DEF Kept, Tagged
        <5> QED
          BY <1>3, <3>3, <3>4, <5>1 DEF Prefix
      <4>2. CASE Kept = 0
        <5>1. dir.row.tag # NoField => tag = dir.row.tag
          BY <2>1, <4>2 DEF AcceptsEmpty
        <5> QED
          BY <1>2, <1>3, <3>4, <4>2, <5>1, <1>15 DEF Prefix, Tagged, Kept, IInv, Receipt
      <4> QED
        BY <1>4, <4>1, <4>2 DEF Kept
    <3>6. Suffix(b, Len(dir.part), dir.row.final, server)
      BY <1>3, <1>7, <3>2 DEF Kept
    <3> QED
      BY <1>1, <1>3, <1>12, <2>1, <3>2, <3>5, <3>6 DEF Unmixed, Prefix, Suffix, Tagged, Where
  <2> QED
    BY <1>13, <2>2, <2>3, <2>4, <2>6 DEF IInv
<1> QED
  BY <1>3, <1>14, <1>15

\* Create: a directory without a row.
LEMMA CreateStep ==
  ASSUME IInv, Create
  PROVE  IInv'
<1>1. /\ run.pc = "create" /\ dir' = [dir EXCEPT !.made = "half"] /\ run' = [run EXCEPT !.pc = "insert"]
      /\ UNCHANGED <<opts, server, folder, result>>
  BY DEF Create, At, Goes, World
<1>2. dir \in Dirs /\ run \in Runs
  BY Typed DEF IInv
<1>3. /\ run' \in Runs /\ run'.pc = "insert" /\ run'.body = run.body /\ run'.final = run.final
      /\ run'.tag = run.tag /\ run'.got = run.got /\ run'.then = run.then
      /\ run'.unknown = run.unknown /\ run'.reported = run.reported /\ run'.job = run.job
  BY <1>1, <1>2 DEF Runs, Early
<1>4. /\ dir' \in Dirs /\ dir'.made = "half" /\ dir'.row = dir.row /\ dir'.part = dir.part
      /\ dir'.synced = dir.synced /\ dir'.out = dir.out /\ dir'.outSynced = dir.outSynced
  BY <1>1, <1>2 DEF Dirs
<1>5. Shapes'
  BY <1>1, <1>3, <1>4 DEF IInv, Shapes
<1>6. Stages' /\ Receipt'
  BY <1>1, <1>3, <1>4 DEF IInv, Stages, Receipt, Early, Reading
<1>7. Lengths' /\ Ranges' /\ Machine'
  BY <1>1, <1>3, <1>4 DEF IInv, Lengths, Ranges, Where, Machine, Early, Reading, Ending
<1>8. Unmixed'
  BY <1>1, <1>3, <1>4 DEF IInv, Unmixed, Prefix, Tagged
<1>9. Published'
  BY <1>1, <1>3, <1>4 DEF IInv, Published, Wanted
<1> QED
  BY <1>5, <1>6, <1>7, <1>8, <1>9 DEF IInv

\* Insert: the row of a directory without a unit.
LEMMA InsertStep ==
  ASSUME IInv, Insert
  PROVE  IInv'
<1>1. run.pc = "insert" /\ UNCHANGED <<opts, server, folder, result>>
  BY DEF Insert, Goes, World
<1>2. /\ dir \in Dirs /\ run \in Runs /\ run.final \in Int /\ run.tag \in Tags /\ opts.url \in Int
      /\ opts.max \in {Total - 1, Total} /\ run.unknown \in BOOLEAN
  BY Typed DEF IInv, Shapes, Runs
<1>3. /\ Len(dir.part) = 0 /\ dir.synced = 0 /\ dir.out = Free /\ run.reported = 0
      /\ run.job = "Probing" /\ run.got = {} /\ Len(run.body) = Total
      /\ dir.part \in Seq(Int)
  BY <1>1, <1>2 DEF IInv, Stages, Machine, Lengths, Early, Dirs
<1>4. PICK pc, t : /\ pc = (IF run.unknown THEN "body" ELSE "accepted")
                   /\ t = (IF run.unknown THEN opts.max ELSE Total)
  OBVIOUS
<1>5. PICK r : r = [NoRow EXCEPT !.orig = opts.url, !.final = run.final, !.tag = run.tag,
                      !.unknown = run.unknown, !.total = t]
  OBVIOUS
<1>6. t \in Nat /\ pc \in {"body", "accepted"} /\ (pc = "accepted" => ~run.unknown)
      /\ (~run.unknown => t = Total)
  BY <1>2, <1>4, TransferAssumption
<1>7. PICK o, f, g, u : o = opts.url /\ f = run.final /\ g = run.tag /\ u = run.unknown
  OBVIOUS
<1>20. NoRow \in Rows /\ r = [NoRow EXCEPT !.orig = o, !.final = f, !.tag = g, !.unknown = u, !.total = t]
  BY <1>5, <1>7 DEF NoRow, Rows, Tags
<1>21. o \in Int /\ f \in Int /\ g \in Tags /\ u \in BOOLEAN /\ t \in Int
  BY <1>2, <1>6, <1>7
<1>22. r \in Rows
  BY <1>20, <1>21 DEF Rows
<1>8. /\ r \in Rows /\ r.final = run.final /\ r.tag = run.tag /\ r.total = t /\ r.committed = 0
      /\ r.digest = <<>> /\ r.phase = 0
  BY <1>5, <1>22 DEF NoRow
<1>9. r.unknown = run.unknown
  BY <1>5 DEF NoRow
<1>10. dir' = [dir EXCEPT !.made = "made", !.row = r] /\ run' = [run EXCEPT !.pc = pc]
  BY <1>4, <1>5 DEF Insert, At
<1>11. /\ run' \in Runs /\ run'.pc = pc /\ run'.body = run.body /\ run'.final = run.final
       /\ run'.tag = run.tag /\ run'.got = run.got /\ run'.then = run.then
       /\ run'.unknown = run.unknown /\ run'.reported = run.reported /\ run'.job = run.job
  BY <1>2, <1>6, <1>10 DEF Runs, Reading
<1>12. /\ dir' \in Dirs /\ dir'.made = "made" /\ dir'.row = r /\ dir'.part = dir.part
       /\ dir'.synced = dir.synced /\ dir'.out = dir.out /\ dir'.outSynced = dir.outSynced
  BY <1>2, <1>8, <1>10 DEF Dirs
<1>13. Shapes'
  BY <1>1, <1>11, <1>12 DEF IInv, Shapes
<1>14. Stages'
  BY <1>6, <1>8, <1>9, <1>11, <1>12 DEF Stages, Reading
<1>15. Receipt'
  BY <1>3, <1>6, <1>8, <1>9, <1>11, <1>12 DEF Receipt
<1>16. Lengths' /\ Ranges'
  <2>3. Where' = pc /\ run'.got = {}
    BY <1>3, <1>6, <1>11 DEF Where
  <2>4. Len(run'.body) = Total /\ Len(dir'.part) = 0 /\ Total \in Nat
    BY <1>3, <1>11, <1>12, TransferAssumption, Zenon
  <2>1. Len(run'.body) = Total - Len(dir'.part)
    BY <2>4
  <2>2. pc = "accepted" => ~dir'.row.unknown
    BY <1>6, <1>9, <1>12, Zenon
  <2> QED
    BY <1>6, <1>11, <2>1, <2>2, <2>3 DEF Lengths, Ranges, Early
<1>17. Machine'
  BY <1>3, <1>4, <1>6, <1>11 DEF Machine, Reading, Ending
<1>18. Unmixed'
  <2>1. SUFFICES ASSUME ~opts.expected PROVE Unmixed'
    BY <1>1 DEF Unmixed
  <2>2. opts.refresh = 0 /\ run.final \in Urls
    BY <1>1, <2>1 DEF IInv, Unmixed
  <2>3. PICK v \in Versions : Tagged(run.tag, v) /\ Prefix(run.body, run.final, v)
    BY <1>1, <2>1 DEF IInv, Unmixed
  <2>4. /\ Prefix(r.digest, run.final, v) /\ Prefix(dir.part, run.final, v)
        /\ Suffix(run.body, Len(dir.part), run.final, v)
    BY <1>3, <1>8, <2>3, TransferAssumption DEF Prefix, Suffix
  <2> QED
    BY <1>1, <1>6, <1>8, <1>11, <1>12, <2>2, <2>3, <2>4 DEF Unmixed, Prefix, Suffix, Tagged, Where
<1>19. Published'
  BY <1>1, <1>3, <1>6, <1>8, <1>11, <1>12 DEF IInv, Published, Wanted, Stages
<1> QED
  BY <1>13, <1>14, <1>15, <1>16, <1>17, <1>18, <1>19 DEF IInv

\* Rebind: only a link that was refreshed has another URL, and then a digest is known.
LEMMA RebindStep ==
  ASSUME IInv, Rebind
  PROVE  IInv'
<1>1. /\ run.pc = "accepted" /\ opts.refresh # 0 /\ UNCHANGED <<opts, server, folder>>
  BY DEF Rebind, Rebound, World
<1>2. CASE End("failed") /\ UNCHANGED dir
  BY <1>1, <1>2, ToIdle DEF End
<1>3. CASE /\ dir' = [dir EXCEPT !.row.orig = opts.url, !.row.final = run.final]
           /\ UNCHANGED run /\ Goes
  <2>1. opts.expected
    BY <1>1 DEF IInv, Unmixed
  <2>2. /\ dir \in Dirs /\ dir.row \in Rows /\ opts.url \in Int /\ run.final \in Int
    BY Typed DEF IInv
  <2>3. PICK o, f : o = opts.url /\ f = run.final
    OBVIOUS
  <2>4. PICK r : r = [dir.row EXCEPT !.orig = o, !.final = f]
    OBVIOUS
  <2>5. /\ r \in Rows /\ r.tag = dir.row.tag /\ r.total = dir.row.total
        /\ r.committed = dir.row.committed /\ r.digest = dir.row.digest
        /\ r.phase = dir.row.phase /\ r.unknown = dir.row.unknown
    BY <2>2, <2>3, <2>4 DEF Rows
  <2>6. dir' = [dir EXCEPT !.row = r]
    BY <1>3, <2>2, <2>3, <2>4 DEF Dirs, Rows
  <2>7. /\ dir' \in Dirs /\ dir'.made = dir.made /\ dir'.row = r /\ dir'.part = dir.part
        /\ dir'.synced = dir.synced /\ dir'.out = dir.out /\ dir'.outSynced = dir.outSynced
    BY <2>2, <2>5, <2>6 DEF Dirs
  <2>8. UNCHANGED <<run, result>>
    BY <1>3 DEF Goes
  <2>9. Shapes'
    BY <1>1, <2>7, <2>8 DEF IInv, Shapes
  <2>10. Stages'
    BY <2>5, <2>7, <2>8 DEF IInv, Stages
  <2>11. Receipt'
    BY <1>1, <2>5, <2>7, <2>8 DEF IInv, Receipt, Wanted
  <2>12. Lengths' /\ Ranges' /\ Machine'
    BY <1>1, <2>5, <2>7, <2>8 DEF IInv, Lengths, Ranges, Where, Machine
  <2>13. Unmixed'
    BY <1>1, <2>1 DEF Unmixed
  <2>14. Published'
    BY <1>1, <2>5, <2>7, <2>8 DEF IInv, Published, Wanted
  <2> QED
    BY <2>9, <2>10, <2>11, <2>12, <2>13, <2>14 DEF IInv
<1> QED
  BY <1>2, <1>3 DEF Rebind

\* Proceed: one body, or ranges of a file that has a tag.
LEMMA ProceedStep ==
  ASSUME IInv, Proceed
  PROVE  IInv'
<1>1. run.pc = "accepted" /\ UNCHANGED <<dir, opts, server, folder, result>>
  BY DEF Proceed, Goes, World
<1>2. run \in Runs /\ run.job = "Probing" /\ ~run.unknown
  BY <1>1, Typed DEF IInv, Machine
<1>3. Job("ProbeSucceeded") = "Downloading"
  BY <1>2 DEF Job, Evented
<1>4. PICK pc : pc = IF InParallel THEN "first" ELSE "body"
  OBVIOUS
<1>5. pc \in {"first", "body"} /\ (pc = "first" => dir.row.tag # NoField)
  BY <1>4 DEF InParallel
<1>6. run' = [run EXCEPT !.pc = pc, !.job = "Downloading"]
  BY <1>3, <1>4 DEF Proceed
<1>7. /\ run' \in Runs /\ run'.pc = pc /\ run'.body = run.body /\ run'.final = run.final
      /\ run'.tag = run.tag /\ run'.got = run.got /\ run'.then = run.then
      /\ run'.unknown = run.unknown /\ run'.reported = run.reported /\ run'.job = "Downloading"
  BY <1>2, <1>5, <1>6 DEF Runs, Reading
<1>8. Shapes' /\ Receipt' /\ Published'
  BY <1>1, <1>5, <1>7, Onward
<1>9. Stages'
  BY <1>1, <1>5, <1>7 DEF IInv, Stages, Reading, Early
<1>10. Lengths' /\ Ranges'
  BY <1>1, <1>5, <1>7 DEF IInv, Lengths, Ranges, Where, Early
<1>11. Machine'
  BY <1>2, <1>5, <1>7 DEF Machine, Reading, Ending
<1>12. Unmixed'
  BY <1>1, <1>5, <1>7 DEF IInv, Unmixed, Prefix, Suffix, Tagged, Where, Reading
<1> QED
  BY <1>8, <1>9, <1>10, <1>11, <1>12 DEF IInv

-----------------------------------------------------------------------------
(***************************************************************************)
(* The body.                                                               *)
(***************************************************************************)

\* PastTheLimit, Cut, the obedience of an attempt with a Store, and CleanEnd: a checkpoint
\* is asked for, and the download goes on to its mark only with all its units.
LEMMA PointStep ==
  ASSUME IInv, PastTheLimit \/ Cut \/ (Obey /\ run' # Idle) \/ CleanEnd
  PROVE  IInv'
<1>1. /\ run.pc \in {"body", "window", "flush"}
      /\ UNCHANGED <<dir, opts, server, folder, result>>
      /\ \E t \in {"cancelled", "failed", "mark"} :
           /\ run' = [run EXCEPT !.pc = "point", !.then = t]
           /\ t = "mark" => CleanEnd
  BY DEF PastTheLimit, Cut, Obey, CleanEnd, Point, Goes, World, End, Spend
<1>2. PICK t \in {"cancelled", "failed", "mark"} :
        run' = [run EXCEPT !.pc = "point", !.then = t] /\ (t = "mark" => CleanEnd)
  BY <1>1
<1>3. run \in Runs /\ Len(dir.part) \in Nat /\ run.body \in Seq(Int)
  BY Typed DEF IInv
<1>4. /\ run' \in Runs /\ run'.pc = "point" /\ run'.body = run.body /\ run'.final = run.final
      /\ run'.tag = run.tag /\ run'.got = run.got /\ run'.then = t
      /\ run'.unknown = run.unknown /\ run'.reported = run.reported /\ run'.job = run.job
  BY <1>2, <1>3 DEF Runs, Reading, Thens
<1>5. t = "mark" => Len(dir.part) = Total
  BY <1>2, <1>3, TransferAssumption DEF CleanEnd, IInv, Lengths, Where
<1>6. Shapes' /\ Receipt' /\ Published'
  BY <1>1, <1>4, Onward
<1>7. Stages'
  BY <1>1, <1>2, <1>4 DEF IInv, Stages, Reading, Early
<1>8. Lengths' /\ Ranges'
  BY <1>1, <1>2, <1>4, <1>5 DEF Lengths, Ranges, Where, Early
<1>9. Machine'
  BY <1>1, <1>4 DEF IInv, Machine, Reading, Ending
<1>10. Unmixed'
  BY <1>1, <1>2, <1>4 DEF IInv, Unmixed, Prefix, Suffix, Tagged, Where, Reading
<1> QED
  BY <1>6, <1>7, <1>8, <1>9, <1>10 DEF IInv

\* Checkpoint: the receipt names what was synced.
LEMMA CheckpointStep ==
  ASSUME IInv, Checkpoint
  PROVE  IInv'
<1>1. run.pc = "point" /\ UNCHANGED <<opts, server, folder>>
  BY DEF Checkpoint, World
<1>2. /\ dir \in Dirs /\ dir.row \in Rows /\ run \in Runs /\ dir.part \in Seq(Int)
      /\ Len(dir.part) \in Nat /\ run.then \in Thens /\ dir.row.total \in Int
  BY Typed DEF IInv
<1>3. /\ dir.made = "made" /\ dir.row.phase = 0 /\ run.then # "none"
      /\ dir.row.unknown = run.unknown
  BY <1>1, <1>2 DEF IInv, Stages, Early, Reading, Dirs
<1>4. PICK n, p : n = Len(dir.part) /\ p = dir.part
  OBVIOUS
<1>5. PICK r : r = [dir.row EXCEPT !.committed = n, !.digest = p]
  OBVIOUS
<1>6. /\ r \in Rows /\ r.committed = n /\ r.digest = p /\ r.final = dir.row.final
      /\ r.tag = dir.row.tag /\ r.total = dir.row.total /\ r.phase = dir.row.phase
      /\ r.unknown = dir.row.unknown
  BY <1>2, <1>4, <1>5 DEF Rows
<1>7. dir' = [dir EXCEPT !.synced = n, !.row = r]
  BY <1>2, <1>4, <1>5 DEF Checkpoint, Dirs, Rows
<1>8. /\ dir' \in Dirs /\ dir'.made = "made" /\ dir'.row = r /\ dir'.part = dir.part
      /\ dir'.synced = n /\ dir'.out = dir.out /\ dir'.outSynced = dir.outSynced
  BY <1>2, <1>3, <1>4, <1>6, <1>7 DEF Dirs
<1>9. /\ run' \in Runs /\ run'.reported <= n
      /\ \/ run' = Idle /\ result' # "done"
         \/ /\ run'.pc = run.then /\ run.then \in {"body", "window", "flush", "mark"}
            /\ run'.body = run.body /\ run'.got = run.got /\ run'.unknown = run.unknown
            /\ run'.job = run.job /\ result' = result
  <2>1. CASE run.then \in {"cancelled", "failed"}
    BY <1>2, <1>4, <2>1, IdleFields DEF Checkpoint, End
  <2>2. CASE run.then \notin {"cancelled", "failed"}
    <3>1. run.then \in {"body", "window", "flush", "mark"}
      BY <1>2, <1>3, <2>2 DEF Thens
    <3>2. PICK t : t = run.then
      OBVIOUS
    <3>3. run' = [run EXCEPT !.pc = t, !.then = "none", !.reported = n] /\ result' = result
      BY <1>4, <2>2, <3>2 DEF Checkpoint, Goes
    <3>4. /\ run' \in Runs /\ run'.pc = t /\ run'.reported = n /\ run'.body = run.body
          /\ run'.got = run.got /\ run'.unknown = run.unknown /\ run'.job = run.job
      BY <1>2, <1>4, <3>1, <3>2, <3>3 DEF Runs, Reading, Thens
    <3> QED
      BY <1>2, <1>4, <3>1, <3>2, <3>3, <3>4
  <2> QED
    BY <2>1, <2>2
<1>10. Shapes'
  BY <1>1, <1>8, <1>9 DEF IInv, Shapes
<1>11. Stages'
  BY <1>3, <1>4, <1>6, <1>8, <1>9, IdleFields DEF Stages, Early, Reading
<1>12. Receipt'
  <2>1. /\ n \in Nat /\ n <= dir.row.total
        /\ dir.row.phase = 0 /\ ~dir.row.unknown => dir.row.total = Total
    BY <1>2, <1>3, <1>4 DEF IInv, Receipt
  <2> QED
    BY <1>3, <1>4, <1>6, <1>8, <1>9, <2>1 DEF Receipt
<1>13. Lengths' /\ Ranges'
  <2>1. CASE run' = Idle
    BY <2>1, IdleFields DEF Ranges, Lengths, Where, Early
  <2>2. CASE run'.pc = run.then /\ run' # Idle
    <3>1. Where' = Where /\ Where \in {"body", "window", "flush", "mark"} /\ run'.pc = Where
          /\ Window' = Window
      BY <1>1, <1>8, <1>9, <2>2 DEF Where, Window
    <3> QED
      BY <1>6, <1>8, <1>9, <2>2, <3>1 DEF IInv, Ranges, Lengths, Early
  <2> QED
    BY <1>9, <2>1, <2>2
<1>14. Machine'
  BY <1>1, <1>9, IdleFields DEF IInv, Machine, Reading, Ending
<1>15. Unmixed'
  <2>1. SUFFICES ASSUME ~opts.expected PROVE Unmixed'
    BY <1>1 DEF Unmixed
  <2>2. opts.refresh = 0 /\ dir.row.final \in Urls
    BY <1>3, <2>1 DEF IInv, Unmixed
  <2>3. PICK v \in Versions : /\ Tagged(dir.row.tag, v) /\ Prefix(dir.part, dir.row.final, v)
                              /\ Where \in {"accepted", "first", "body"} =>
                                   Suffix(run.body, Len(dir.part), dir.row.final, v)
    BY <1>1, <1>3, <2>1 DEF IInv, Unmixed, Reading
  <2>4. /\ Tagged(r.tag, v) /\ Prefix(r.digest, r.final, v) /\ Prefix(dir'.part, r.final, v)
    BY <1>4, <1>6, <1>8, <2>3 DEF Tagged, Prefix
  <2>5. CASE run' = Idle
    BY <1>1, <1>3, <1>6, <1>8, <2>2, <2>4, <2>5, IdleFields
       DEF Unmixed, Prefix, Suffix, Tagged, Where, Reading
  <2>6. CASE run'.pc = run.then /\ run.then \in {"body", "window", "flush", "mark"}
             /\ run'.body = run.body
    <3>1. Where' = Where
      BY <1>1, <2>6 DEF Where
    <3> QED
      BY <1>1, <1>3, <1>6, <1>8, <2>2, <2>3, <2>4, <2>6, <3>1
         DEF Unmixed, Prefix, Suffix, Tagged, Reading
  <2> QED
    BY <1>9, <2>5, <2>6
<1>16. Published'
  BY <1>1, <1>3, <1>6, <1>8, <1>9, IdleFields DEF IInv, Published, Wanted
<1> QED
  BY <1>10, <1>11, <1>12, <1>13, <1>14, <1>15, <1>16 DEF IInv

\* append: one more unit in the file, and the attempt goes on where r says, by way of a
\* checkpoint or not.
LEMMA AppendFacts ==
  ASSUME IInv, NEW unit \in Int, NEW r \in Runs, AppendUnit(unit, r),
         r.pc \in {"body", "window", "flush"}
  PROVE  /\ dir' \in Dirs /\ dir'.made = dir.made /\ dir'.row = dir.row /\ dir'.synced = dir.synced
         /\ dir'.out = dir.out /\ dir'.outSynced = dir.outSynced
         /\ dir'.part \in Seq(Int) /\ Len(dir'.part) = Len(dir.part) + 1
         /\ \A i \in 1 .. Len(dir.part) : dir'.part[i] = dir.part[i]
         /\ dir'.part[Len(dir.part) + 1] = unit
         /\ run' \in Runs /\ run'.pc \in {"point", "body", "window", "flush"} /\ Where' = r.pc
         /\ run'.pc = "point" => run'.then # "none"
         /\ run'.body = r.body /\ run'.final = r.final /\ run'.tag = r.tag /\ run'.got = r.got
         /\ run'.unknown = r.unknown /\ run'.reported = r.reported /\ run'.job = r.job
<1>1. dir \in Dirs /\ dir.part \in Seq(Int)
  BY Typed DEF IInv
<1>2. PICK p : p = Append(dir.part, unit)
  OBVIOUS
<1>3. /\ p \in Seq(Int) /\ Len(p) = Len(dir.part) + 1
      /\ \A i \in 1 .. Len(dir.part) : p[i] = dir.part[i]
      /\ p[Len(dir.part) + 1] = unit
  BY <1>1, <1>2, AppendProperties
<1>4. dir' = [dir EXCEPT !.part = p]
  BY <1>2 DEF AppendUnit
<1>5. /\ dir' \in Dirs /\ dir'.made = dir.made /\ dir'.row = dir.row /\ dir'.synced = dir.synced
      /\ dir'.out = dir.out /\ dir'.outSynced = dir.outSynced /\ dir'.part = p
  BY <1>1, <1>3, <1>4 DEF Dirs
<1>6. CASE run' = r
  <2>1. Where' = r.pc
    BY <1>6 DEF Where
  <2> QED
    BY <1>3, <1>5, <1>6, <2>1
<1>7. CASE run' = [r EXCEPT !.pc = "point", !.then = r.pc]
  <2>1. PICK t : t = r.pc
    OBVIOUS
  <2>2. run' = [r EXCEPT !.pc = "point", !.then = t]
    BY <1>7, <2>1
  <2>3. /\ run' \in Runs /\ run'.pc = "point" /\ run'.then = t
        /\ run'.body = r.body /\ run'.final = r.final /\ run'.tag = r.tag /\ run'.got = r.got
        /\ run'.unknown = r.unknown /\ run'.reported = r.reported /\ run'.job = r.job
    BY <2>1, <2>2 DEF Runs, Reading, Thens
  <2>4. Where' = r.pc
    BY <2>1, <2>3 DEF Where
  <2> QED
    BY <1>3, <1>5, <2>1, <2>3, <2>4
<1> QED
  BY <1>6, <1>7 DEF AppendUnit

\* What the unit does not touch.
LEMMA AppendKeeps ==
  ASSUME IInv, NEW unit \in Int, NEW r \in Runs, AppendUnit(unit, r),
         r.pc \in {"body", "window", "flush"}, run.pc \in {"body", "first", "flush"},
         r.unknown = run.unknown, r.reported = run.reported, r.job = run.job,
         Len(dir.part) < dir.row.total, UNCHANGED <<opts, server, folder, result>>
  PROVE  Shapes' /\ Stages' /\ Receipt' /\ Machine' /\ Published'
<1>1. /\ dir' \in Dirs /\ dir'.made = dir.made /\ dir'.row = dir.row /\ dir'.synced = dir.synced
      /\ dir'.out = dir.out /\ dir'.outSynced = dir.outSynced
      /\ dir'.part \in Seq(Int) /\ Len(dir'.part) = Len(dir.part) + 1
      /\ \A i \in 1 .. Len(dir.part) : dir'.part[i] = dir.part[i]
  BY AppendFacts
<1>2. /\ run' \in Runs /\ run'.pc \in {"point", "body", "window", "flush"}
      /\ run'.pc = "point" => run'.then # "none"
      /\ run'.unknown = run.unknown /\ run'.reported = run.reported /\ run'.job = run.job
  BY AppendFacts
<1>3. /\ dir.made = "made" /\ dir.row.phase = 0 /\ dir.row.unknown = run.unknown
      /\ dir.row.committed \in Nat /\ Len(dir.part) \in Nat /\ dir.row.total \in Int
      /\ dir.synced \in Nat
  BY Typed DEF IInv, Stages, Early, Reading
<1>4. Shapes'
  BY <1>1, <1>2 DEF IInv, Shapes
<1>5. Stages'
  BY <1>1, <1>2, <1>3 DEF Stages, Early, Reading
<1>6. Receipt'
  <2>1. /\ dir.row.committed <= dir.synced /\ dir.synced <= Len(dir.part)
        /\ Len(dir.row.digest) = dir.row.committed
        /\ \A i \in 1 .. dir.row.committed : dir.row.digest[i] = dir.part[i]
        /\ dir.row.phase = 0 /\ ~dir.row.unknown => dir.row.total = Total
        /\ run.reported <= dir.row.committed
    BY <1>3 DEF IInv, Receipt
  <2>2. ASSUME NEW i \in 1 .. dir.row.committed PROVE dir.row.digest[i] = dir'.part[i]
    <3>1. i \in 1 .. Len(dir.part)
      BY <1>3, <2>1
    <3> QED
      BY <1>1, <2>1, <3>1
  <2>3. dir.synced <= Len(dir'.part) /\ Len(dir'.part) <= dir.row.total
    BY <1>1, <1>3, <2>1
  <2> QED
    BY <1>1, <1>2, <1>3, <2>1, <2>2, <2>3 DEF Receipt
<1>7. Machine'
  BY <1>2 DEF IInv, Machine, Reading, Ending
<1>8. Published'
  BY <1>1, <1>2 DEF IInv, Published, Wanted
<1> QED
  BY <1>4, <1>5, <1>6, <1>7, <1>8

\* The unit belongs to the representation that the file has the start of.
LEMMA AppendUnmixed ==
  ASSUME IInv, NEW unit \in Int, NEW r \in Runs, AppendUnit(unit, r),
         r.pc \in {"body", "window", "flush"}, run.pc \in {"body", "first", "flush"},
         UNCHANGED opts,
         ~opts.expected =>
           \E v \in Versions :
             /\ Tagged(dir.row.tag, v) /\ Prefix(dir.part, dir.row.final, v)
             /\ unit = Unit(dir.row.final, v, Len(dir.part) + 1)
             /\ r.pc = "body" => Suffix(r.body, Len(dir.part) + 1, dir.row.final, v)
  PROVE  Unmixed'
<1>1. SUFFICES ASSUME ~opts.expected PROVE Unmixed'
  BY DEF Unmixed
<1>2. PICK v \in Versions :
        /\ Tagged(dir.row.tag, v) /\ Prefix(dir.part, dir.row.final, v)
        /\ unit = Unit(dir.row.final, v, Len(dir.part) + 1)
        /\ r.pc = "body" => Suffix(r.body, Len(dir.part) + 1, dir.row.final, v)
  BY <1>1
<1>3. /\ dir'.made = dir.made /\ dir'.row = dir.row
      /\ dir'.part \in Seq(Int) /\ Len(dir'.part) = Len(dir.part) + 1
      /\ \A i \in 1 .. Len(dir.part) : dir'.part[i] = dir.part[i]
      /\ dir'.part[Len(dir.part) + 1] = unit
  BY AppendFacts
<1>4. run'.pc \in {"point", "body", "window", "flush"} /\ Where' = r.pc /\ run'.body = r.body
  BY AppendFacts
<1>5. /\ dir.made = "made" /\ dir.row.phase = 0 /\ Len(dir.part) \in Nat /\ Len(dir.row.digest) \in Nat
      /\ dir.row.committed \in Nat /\ dir.synced \in Nat
  BY Typed DEF IInv, Stages, Early, Reading
<1>6. opts.refresh = 0 /\ dir.row.final \in Urls
  BY <1>1, <1>5 DEF IInv, Unmixed
<1>7. Prefix(dir'.part, dir.row.final, v)
  BY <1>2, <1>3, <1>5 DEF Prefix
<1>8. Prefix(dir.row.digest, dir.row.final, v)
  <2>1. /\ dir.row.committed <= dir.synced /\ dir.synced <= Len(dir.part)
        /\ Len(dir.row.digest) = dir.row.committed
        /\ \A i \in 1 .. dir.row.committed : dir.row.digest[i] = dir.part[i]
    BY <1>5 DEF IInv, Receipt
  <2>2. SUFFICES ASSUME NEW i \in 1 .. Len(dir.row.digest)
                 PROVE  dir.row.digest[i] = Unit(dir.row.final, v, i)
    BY DEF Prefix
  <2>3. i \in 1 .. Len(dir.part) /\ i \in 1 .. dir.row.committed
    BY <1>5, <2>1
  <2> QED
    BY <1>2, <2>1, <2>3 DEF Prefix
<1>9. Where' \in {"accepted", "first", "body"} =>
        Suffix(run'.body, Len(dir'.part), dir.row.final, v)
  BY <1>2, <1>3, <1>4
<1>10. /\ Tagged(dir'.row.tag, v) /\ Prefix(dir'.row.digest, dir'.row.final, v)
       /\ Prefix(dir'.part, dir'.row.final, v) /\ dir'.row.final \in Urls /\ dir'.row.phase = 0
       /\ Where' \in {"accepted", "first", "body"} =>
            Suffix(run'.body, Len(dir'.part), dir'.row.final, v)
  BY <1>2, <1>3, <1>5, <1>6, <1>7, <1>8, <1>9
<1> QED
  BY <1>4, <1>6, <1>10 DEF Unmixed, Prefix, Suffix, Tagged, Reading

\* Read: the next unit of the body.
LEMMA ReadStep ==
  ASSUME IInv, Read
  PROVE  IInv'
<1>1. /\ run.pc = "body" /\ run.body # <<>> /\ Len(dir.part) < dir.row.total
      /\ UNCHANGED <<opts, server, folder, result>>
      /\ AppendUnit(Head(run.body), [run EXCEPT !.body = Tail(@)])
  BY DEF Read, Goes, World
<1>2. run \in Runs /\ run.body \in Seq(Int) /\ Len(run.body) \in Nat /\ Len(dir.part) \in Nat
  BY Typed DEF IInv
<1>3. PICK b, unit : b = Tail(run.body) /\ unit = Head(run.body)
  OBVIOUS
<1>4. /\ unit \in Int /\ b \in Seq(Int) /\ Len(b) = Len(run.body) - 1
      /\ \A i \in 1 .. Len(b) : b[i] = run.body[i + 1]
  BY <1>1, <1>2, <1>3, HeadTailProperties
<1>5. unit = run.body[1] /\ Len(run.body) >= 1
  BY <1>1, <1>2, <1>3
<1>6. PICK r : r = [run EXCEPT !.body = b]
  OBVIOUS
<1>7. /\ r \in Runs /\ r.pc = "body" /\ r.body = b /\ r.final = run.final /\ r.tag = run.tag
      /\ r.got = run.got /\ r.unknown = run.unknown /\ r.reported = run.reported
      /\ r.job = run.job
  BY <1>1, <1>2, <1>4, <1>6 DEF Runs
<1>8. AppendUnit(unit, r)
  BY <1>1, <1>3, <1>6
<1>9. Shapes' /\ Stages' /\ Receipt' /\ Machine' /\ Published'
  BY <1>1, <1>4, <1>7, <1>8, AppendKeeps
<1>10. /\ dir.made = "made" /\ Len(run.body) = Total - Len(dir.part) /\ run.got = {}
  BY <1>1, Typed DEF IInv, Lengths, Where, Stages, Early
<1>11. Lengths' /\ Ranges'
  <2>1. /\ Where' = "body" /\ run'.body = b /\ run'.got = {} /\ run'.pc \in {"point", "body", "window", "flush"}
        /\ Len(dir'.part) = Len(dir.part) + 1
    BY <1>4, <1>7, <1>8, <1>10, AppendFacts
  <2>2. Len(b) = Total - Len(dir'.part)
    BY <1>2, <1>4, <1>10, <2>1, TransferAssumption
  <2> QED
    BY <2>1, <2>2 DEF Lengths, Ranges, Early
<1>12. Unmixed'
  <2>1. ASSUME ~opts.expected
        PROVE  \E v \in Versions :
                 /\ Tagged(dir.row.tag, v) /\ Prefix(dir.part, dir.row.final, v)
                 /\ unit = Unit(dir.row.final, v, Len(dir.part) + 1)
                 /\ Suffix(b, Len(dir.part) + 1, dir.row.final, v)
    <3>1. PICK v \in Versions : /\ Tagged(dir.row.tag, v) /\ Prefix(dir.part, dir.row.final, v)
                                /\ Suffix(run.body, Len(dir.part), dir.row.final, v)
      BY <1>1, <1>10, <2>1 DEF IInv, Unmixed, Where, Reading
    <3>2. unit = Unit(dir.row.final, v, Len(dir.part) + 1)
      BY <1>2, <1>5, <3>1 DEF Suffix
    <3>3. Suffix(b, Len(dir.part) + 1, dir.row.final, v)
      <4>1. SUFFICES ASSUME NEW i \in 1 .. Len(b)
                     PROVE  b[i] = Unit(dir.row.final, v, Len(dir.part) + 1 + i)
        BY DEF Suffix
      <4>3. Len(b) = Len(run.body) - 1 /\ Len(run.body) \in Nat /\ Len(dir.part) \in Nat
        BY <1>2, <1>4
      <4>4. PICK m, n : m = Len(run.body) /\ n = Len(dir.part)
        OBVIOUS
      <4>5. i \in 1 .. m - 1 /\ m \in Nat /\ n \in Nat
        BY <4>3, <4>4
      <4>6. i + 1 \in 1 .. m /\ n + (i + 1) = n + 1 + i
        BY <4>5
      <4>2. i + 1 \in 1 .. Len(run.body) /\ Len(dir.part) + (i + 1) = Len(dir.part) + 1 + i
        BY <4>4, <4>6
      <4> QED
        BY <1>4, <3>1, <4>2 DEF Suffix
    <3> QED
      BY <3>1, <3>2, <3>3
  <2> QED
    BY <1>1, <1>4, <1>7, <1>8, <2>1, AppendUnmixed
<1> QED
  BY <1>9, <1>11, <1>12 DEF IInv

-----------------------------------------------------------------------------
(***************************************************************************)
(* The ranges.                                                             *)
(***************************************************************************)

\* A range that the checks let through lies in the file and is of its version.
LEMMA FetchedUnit ==
  ASSUME NEW k, NEW tag, NEW final, Fetched(k, tag, final)
  PROVE  final = dir.row.final /\ tag = dir.row.tag /\ k + 1 <= Total
<1>1. PICK q, h : /\ q = Request(k, k + 1, Total, dir.row.tag)
                  /\ h = [identity |-> TRUE, tag |-> tag, start |-> k, end |-> k + 1,
                          total |-> Total, length |-> 1]
                  /\ final = dir.row.final /\ RequestAllowed(q) /\ Evaluate(q, 206, h) = "ReadRange"
  BY DEF Fetched
<1>2. h.tag = q.tag
  BY <1>1, SameTag
<1> QED
  BY <1>1, <1>2 DEF Request, RequestAllowed

\* First: no ranges here, or the first of them.
LEMMA FirstStep ==
  ASSUME IInv, First
  PROVE  IInv'
<1>1. run.pc = "first" /\ UNCHANGED <<opts, server, folder, result>>
  BY DEF First, Goes, World
<1>2. /\ run \in Runs /\ Len(dir.part) \in Nat /\ server \in Versions /\ dir.row.tag \in Tags
      /\ dir.row.final \in Int
  BY Typed DEF IInv, Shapes
<1>3. /\ dir.made = "made" /\ run.got = {} /\ dir.row.tag # NoField /\ ~dir.row.unknown
      /\ dir.row.phase = 0
  BY <1>1, Typed DEF IInv, Lengths, Where, Stages, Early, Reading
<1>4. CASE At("body") /\ UNCHANGED dir
  <2>1. /\ run' \in Runs /\ run'.pc = "body" /\ run'.body = run.body /\ run'.final = run.final
        /\ run'.tag = run.tag /\ run'.got = run.got /\ run'.then = run.then
        /\ run'.unknown = run.unknown /\ run'.reported = run.reported /\ run'.job = run.job
    BY <1>2, <1>4 DEF At, Runs, Reading
  <2>2. Shapes' /\ Receipt' /\ Published'
    BY <1>1, <1>4, <2>1, Onward
  <2>3. Stages'
    BY <1>1, <1>4, <2>1 DEF IInv, Stages, Reading, Early
  <2>4. Lengths' /\ Ranges'
    BY <1>1, <1>4, <2>1 DEF IInv, Lengths, Ranges, Where, Early
  <2>5. Machine'
    BY <1>1, <2>1 DEF IInv, Machine, Reading, Ending
  <2>6. Unmixed'
    BY <1>1, <1>4, <2>1 DEF IInv, Unmixed, Prefix, Suffix, Tagged, Where, Reading
  <2> QED
    BY <2>2, <2>3, <2>4, <2>5, <2>6 DEF IInv
<1>5. CASE \E final \in Urls :
          /\ Fetched(Len(dir.part), server, final)
          /\ AppendUnit(Unit(final, server, Len(dir.part) + 1), [run EXCEPT !.pc = "window", !.body = <<>>])
  <2>1. PICK final \in Urls :
          /\ Fetched(Len(dir.part), server, final)
          /\ AppendUnit(Unit(final, server, Len(dir.part) + 1), [run EXCEPT !.pc = "window", !.body = <<>>])
    BY <1>5
  <2>2. final = dir.row.final /\ server = dir.row.tag /\ Len(dir.part) + 1 <= Total
    BY <2>1, FetchedUnit
  <2>3. PICK unit, r : /\ unit = Unit(final, server, Len(dir.part) + 1)
                       /\ r = [run EXCEPT !.pc = "window", !.body = <<>>]
    OBVIOUS
  <2>12. <<>> \in Seq(Int)
    OBVIOUS
  <2>11. PICK e : e = <<>> /\ e \in Seq(Int)
    BY <2>12
  <2>4. unit \in Int
    BY <1>2, <2>3, TransferAssumption DEF Unit
  <2>5. /\ r \in Runs /\ r.pc = "window" /\ r.got = run.got /\ r.unknown = run.unknown
        /\ r.reported = run.reported /\ r.job = run.job
    <3>1. r = [run EXCEPT !.pc = "window", !.body = e]
      BY <2>3, <2>11
    <3>2. e \in Seq(Int)
      BY <2>11
    <3> QED
      BY <1>2, <3>1, <3>2 DEF Runs, Reading
  <2>6. AppendUnit(unit, r)
    BY <2>1, <2>3
  <2>7. Len(dir.part) < dir.row.total
    BY <1>2, <1>3, <2>2, TransferAssumption DEF IInv, Receipt
  <2>8. Shapes' /\ Stages' /\ Receipt' /\ Machine' /\ Published'
    BY <1>1, <2>4, <2>5, <2>6, <2>7, AppendKeeps
  <2>9. Lengths' /\ Ranges'
    <3>1. /\ Where' = "window" /\ run'.got = {} /\ run'.pc \in {"point", "body", "window", "flush"}
          /\ dir'.row = dir.row
      BY <1>3, <2>4, <2>5, <2>6, AppendFacts
    <3> QED
      BY <1>3, <3>1 DEF Lengths, Ranges, Early
  <2>10. Unmixed'
    <3>1. ASSUME ~opts.expected
          PROVE  \E v \in Versions :
                   /\ Tagged(dir.row.tag, v) /\ Prefix(dir.part, dir.row.final, v)
                   /\ unit = Unit(dir.row.final, v, Len(dir.part) + 1)
      <4>1. PICK v \in Versions : Tagged(dir.row.tag, v) /\ Prefix(dir.part, dir.row.final, v)
        BY <1>1, <1>3, <3>1 DEF IInv, Unmixed, Reading
      <4>2. v = server
        BY <1>3, <2>2, <4>1 DEF Tagged
      <4> QED
        BY <2>2, <2>3, <4>1, <4>2
    <3> QED
      BY <1>1, <2>4, <2>5, <2>6, <3>1, AppendUnmixed
  <2> QED
    BY <2>8, <2>9, <2>10 DEF IInv
<1> QED
  BY <1>4, <1>5 DEF First

\* FetchRange: one more range of the window, of the version that the row names.
LEMMA FetchRangeStep ==
  ASSUME IInv, FetchRange
  PROVE  IInv'
<1>1. run.pc = "window" /\ UNCHANGED <<dir, opts, server, folder, result>>
  BY DEF FetchRange, Goes, World
<1>2. PICK k \in Window, final \in Urls :
       /\ ~\E g \in run.got : g.at = k
       /\ Fetched(k, server, final)
       /\ run' = [run EXCEPT !.got = @ \cup {[at |-> k, unit |-> Unit(final, server, k + 1)]}]
  BY DEF FetchRange
<1>3. final = dir.row.final /\ server = dir.row.tag
  BY <1>2, FetchedUnit
<1>4. /\ run \in Runs /\ Len(dir.part) \in Nat /\ server \in Versions
      /\ run.got \in SUBSET [at : Int, unit : Int]
  BY Typed DEF IInv, Shapes
<1>5. k \in Int /\ k \in Len(dir.part) .. Total - 1 /\ Unit(final, server, k + 1) \in Int
  BY <1>4, TransferAssumption DEF Window, Unit
<1>6. PICK new : new = [at |-> k, unit |-> Unit(final, server, k + 1)]
  OBVIOUS
<1>7. new \in [at : Int, unit : Int] /\ new.at = k /\ new.unit = Unit(final, server, k + 1)
  BY <1>5, <1>6
<1>8. PICK got : got = run.got \cup {new}
  OBVIOUS
<1>9. run' = [run EXCEPT !.got = got] /\ got \in SUBSET [at : Int, unit : Int]
  BY <1>2, <1>4, <1>6, <1>7, <1>8
<1>10. /\ run' \in Runs /\ run'.pc = run.pc /\ run'.body = run.body /\ run'.final = run.final
       /\ run'.tag = run.tag /\ run'.got = got /\ run'.then = run.then
       /\ run'.unknown = run.unknown /\ run'.reported = run.reported /\ run'.job = run.job
  BY <1>4, <1>9 DEF Runs
<1>11. Shapes' /\ Receipt' /\ Published'
  BY <1>1, <1>10, Onward
<1>12. Stages'
  BY <1>1, <1>10 DEF IInv, Stages
<1>13. Lengths' /\ Machine'
  BY <1>1, <1>10 DEF IInv, Lengths, Where, Early, Machine
<1>14. Ranges'
  <2>1. /\ \A g \in run.got : /\ g.at \in Len(dir.part) .. Total - 1
                              /\ g.unit = Unit(dir.row.final, dir.row.tag, g.at + 1)
        /\ \A g, h \in run.got : g.at = h.at => g = h
        /\ \A g \in run.got : g.at \in Window
    BY <1>1 DEF IInv, Ranges, Where
  <2>2. Where' = "window" /\ Window' = Window
    BY <1>1, <1>10 DEF Where, Window
  <2>3. \A g \in got : /\ g.at \in Len(dir.part) .. Total - 1
                       /\ g.unit = Unit(dir.row.final, dir.row.tag, g.at + 1)
                       /\ g.at \in Window
    BY <1>2, <1>3, <1>5, <1>7, <1>8, <2>1
  <2>4. \A g, h \in got : g.at = h.at => g = h
    BY <1>2, <1>7, <1>8, <2>1
  <2> QED
    BY <1>1, <1>10, <2>2, <2>3, <2>4 DEF Ranges
<1>15. Unmixed'
  BY <1>1, <1>10 DEF IInv, Unmixed, Prefix, Suffix, Tagged, Where, Reading
<1> QED
  BY <1>11, <1>12, <1>13, <1>14, <1>15 DEF IInv

\* Joined: as many ranges as the window has units are the whole window.
LEMMA JoinedStep ==
  ASSUME IInv, Joined
  PROVE  IInv'
<1>1. /\ run.pc = "window" /\ UNCHANGED <<dir, opts, server, folder, result>>
      /\ run' = [run EXCEPT !.pc = "flush"] /\ Cardinality(run.got) = Cardinality(Window)
  BY DEF Joined, Goes, World, At
<1>2. run \in Runs /\ Len(dir.part) \in Nat /\ run.got \in SUBSET [at : Int, unit : Int]
  BY Typed DEF IInv
<1>3. /\ \A g \in run.got : /\ g.at \in Len(dir.part) .. Total - 1
                            /\ g.unit = Unit(dir.row.final, dir.row.tag, g.at + 1)
      /\ \A g, h \in run.got : g.at = h.at => g = h
      /\ \A g \in run.got : g.at \in Window
  BY <1>1 DEF IInv, Ranges, Where
<1>4. PICK f : f = [g \in run.got |-> g.at]
  OBVIOUS
<1>5. f \in Injection(run.got, Window)
  BY <1>3, <1>4 DEF Injection, IsInjective
<1>6. IsFiniteSet(Window)
  <2>1. IsFiniteSet(Len(dir.part) .. Total - 1)
    <3>1. Len(dir.part) \in Int /\ Total - 1 \in Int
      BY <1>2, TransferAssumption
    <3> QED
      BY <3>1, FS_Interval
  <2>2. Window \in SUBSET (Len(dir.part) .. Total - 1)
    BY DEF Window
  <2> QED
    BY <2>1, <2>2, FS_Subset
<1>7. f \in Surjection(run.got, Window)
  BY <1>1, <1>5, <1>6, FS_Injection
<1>8. \A k \in Window : \E h \in run.got : h.at = k
  BY <1>4, <1>7 DEF Surjection
<1>9. ASSUME NEW g \in run.got, NEW k \in Len(dir.part) .. g.at
      PROVE  \E h \in run.got : h.at = k
  <2>1. g.at \in Len(dir.part) .. Total - 1 /\ g.at < Len(dir.part) + Connections
    BY <1>3 DEF Window
  <2>2. k \in Len(dir.part) .. Total - 1 /\ k < Len(dir.part) + Connections
    BY <1>2, <2>1, TransferAssumption
  <2> QED
    BY <1>8, <2>2 DEF Window
<1>10. /\ run' \in Runs /\ run'.pc = "flush" /\ run'.body = run.body /\ run'.final = run.final
       /\ run'.tag = run.tag /\ run'.got = run.got /\ run'.then = run.then
       /\ run'.unknown = run.unknown /\ run'.reported = run.reported /\ run'.job = run.job
  BY <1>1, <1>2 DEF Runs, Reading
<1>11. Shapes' /\ Receipt' /\ Published'
  BY <1>1, <1>10, Onward
<1>12. Stages'
  BY <1>1, <1>10 DEF IInv, Stages, Reading, Early
<1>13. Lengths' /\ Machine'
  BY <1>1, <1>10 DEF IInv, Lengths, Where, Early, Machine, Reading, Ending
<1>14. Ranges'
  <2>1. Where' = "flush"
    BY <1>10 DEF Where
  <2> QED
    BY <1>1, <1>3, <1>9, <1>10, <2>1 DEF Ranges
<1>15. Unmixed'
  BY <1>1, <1>10 DEF IInv, Unmixed, Prefix, Suffix, Tagged, Where, Reading
<1> QED
  BY <1>11, <1>12, <1>13, <1>14, <1>15 DEF IInv

\* Flush: the next range is the one after the file, and then a new window.
LEMMA FlushStep ==
  ASSUME IInv, Flush
  PROVE  IInv'
<1>1. run.pc = "flush" /\ UNCHANGED <<opts, server, folder, result>>
  BY DEF Flush, Goes, World
<1>2. /\ run \in Runs /\ Len(dir.part) \in Nat /\ run.got \in SUBSET [at : Int, unit : Int]
      /\ dir.row.tag \in Tags /\ dir.row.final \in Int
  BY Typed DEF IInv
<1>3. /\ dir.made = "made" /\ dir.row.tag # NoField /\ ~dir.row.unknown /\ dir.row.phase = 0
  BY <1>1, Typed DEF IInv, Lengths, Where, Stages, Early, Reading
<1>4. CASE run.got = {} /\ At("window") /\ UNCHANGED dir
  <2>1. /\ run' \in Runs /\ run'.pc = "window" /\ run'.body = run.body /\ run'.final = run.final
        /\ run'.tag = run.tag /\ run'.got = run.got /\ run'.then = run.then
        /\ run'.unknown = run.unknown /\ run'.reported = run.reported /\ run'.job = run.job
    BY <1>2, <1>4 DEF At, Runs, Reading
  <2>2. Shapes' /\ Receipt' /\ Published'
    BY <1>1, <1>4, <2>1, Onward
  <2>3. Stages'
    BY <1>1, <1>4, <2>1 DEF IInv, Stages, Reading, Early
  <2>4. Lengths' /\ Ranges'
    BY <1>1, <1>4, <2>1 DEF IInv, Lengths, Ranges, Where, Early
  <2>5. Machine'
    BY <1>1, <2>1 DEF IInv, Machine, Reading, Ending
  <2>6. Unmixed'
    BY <1>1, <1>4, <2>1 DEF IInv, Unmixed, Prefix, Suffix, Tagged, Where, Reading
  <2> QED
    BY <2>2, <2>3, <2>4, <2>5, <2>6 DEF IInv
<1>5. CASE \E g \in run.got : NextOf(g) /\ AppendUnit(g.unit, [run EXCEPT !.got = @ \ {g}])
  <2>1. PICK g \in run.got : NextOf(g) /\ AppendUnit(g.unit, [run EXCEPT !.got = @ \ {g}])
    BY <1>5
  <2>2. /\ \A x \in run.got : /\ x.at \in Len(dir.part) .. Total - 1
                              /\ x.unit = Unit(dir.row.final, dir.row.tag, x.at + 1)
        /\ \A x, h \in run.got : x.at = h.at => x = h
        /\ \A x \in run.got : \A k \in Len(dir.part) .. x.at : \E h \in run.got : h.at = k
    BY <1>1 DEF IInv, Ranges, Where
  <2>3. \A x \in run.got : x.at \in Int /\ x.unit \in Int
    BY <1>2
  <2>4. g.at = Len(dir.part)
    <3>1. Len(dir.part) \in Len(dir.part) .. g.at
      BY <1>2, <2>2, <2>3
    <3>2. PICK h \in run.got : h.at = Len(dir.part)
      BY <2>2, <3>1
    <3>3. g.at <= Len(dir.part) /\ g.at >= Len(dir.part)
      BY <2>1, <2>2, <3>2 DEF NextOf
    <3> QED
      BY <1>2, <2>3, <3>3
  <2>5. PICK unit, got : unit = g.unit /\ got = run.got \ {g}
    OBVIOUS
  <2>6. unit = Unit(dir.row.final, dir.row.tag, Len(dir.part) + 1) /\ unit \in Int
    BY <2>2, <2>3, <2>4, <2>5
  <2>7. PICK r : r = [run EXCEPT !.got = got]
    OBVIOUS
  <2>8. got \in SUBSET [at : Int, unit : Int]
    BY <1>2, <2>5
  <2>9. /\ r \in Runs /\ r.pc = "flush" /\ r.got = got /\ r.unknown = run.unknown
        /\ r.reported = run.reported /\ r.job = run.job
    BY <1>1, <1>2, <2>7, <2>8 DEF Runs
  <2>10. AppendUnit(unit, r)
    BY <2>1, <2>5, <2>7
  <2>11. Len(dir.part) < dir.row.total
    <3>1. dir.row.total = Total
      BY <1>3 DEF IInv, Receipt
    <3> QED
      BY <1>2, <2>2, <2>4, <3>1, TransferAssumption
  <2>12. Shapes' /\ Stages' /\ Receipt' /\ Machine' /\ Published'
    BY <1>1, <2>6, <2>9, <2>10, <2>11, AppendKeeps
  <2>13. /\ Where' = "flush" /\ run'.got = got /\ run'.pc \in {"point", "body", "window", "flush"}
         /\ dir'.row = dir.row /\ Len(dir'.part) = Len(dir.part) + 1
    BY <2>6, <2>9, <2>10, AppendFacts
  <2>14. Lengths'
    BY <1>3, <2>13 DEF Lengths, Early
  <2>15. Ranges'
    <3>1. ASSUME NEW x \in got
          PROVE  x.at \in Len(dir.part) + 1 .. Total - 1
      <4>1. x \in run.got /\ x # g
        BY <2>5
      <4>2. x.at # Len(dir.part) /\ x.at \in Len(dir.part) .. Total - 1
        BY <2>2, <2>4, <4>1
      <4> QED
        BY <1>2, <4>2, TransferAssumption
    <3>2. ASSUME NEW x \in got, NEW k \in Len(dir.part) + 1 .. x.at
          PROVE  \E h \in got : h.at = k
      <4>1. x \in run.got /\ x.at \in Int
        BY <2>3, <2>5
      <4>2. k \in Len(dir.part) .. x.at /\ k # Len(dir.part)
        BY <1>2, <4>1
      <4>3. PICK h \in run.got : h.at = k
        BY <2>2, <4>1, <4>2
      <4> QED
        BY <2>4, <2>5, <4>2, <4>3
    <3>3. \A x \in got : x.unit = Unit(dir.row.final, dir.row.tag, x.at + 1)
      BY <2>2, <2>5
    <3>4. \A x, h \in got : x.at = h.at => x = h
      BY <2>2, <2>5
    <3> QED
      BY <2>13, <3>1, <3>2, <3>3, <3>4 DEF Ranges
  <2>16. Unmixed'
    <3>1. ASSUME ~opts.expected
          PROVE  \E v \in Versions :
                   /\ Tagged(dir.row.tag, v) /\ Prefix(dir.part, dir.row.final, v)
                   /\ unit = Unit(dir.row.final, v, Len(dir.part) + 1)
      <4>1. PICK v \in Versions : Tagged(dir.row.tag, v) /\ Prefix(dir.part, dir.row.final, v)
        BY <1>1, <1>3, <3>1 DEF IInv, Unmixed, Reading
      <4>2. v = dir.row.tag
        BY <1>3, <4>1 DEF Tagged
      <4> QED
        BY <2>6, <4>1, <4>2
    <3> QED
      BY <1>1, <2>6, <2>9, <2>10, <3>1, AppendUnmixed
  <2> QED
    BY <2>12, <2>14, <2>15, <2>16 DEF IInv
<1> QED
  BY <1>4, <1>5 DEF Flush

-----------------------------------------------------------------------------
(***************************************************************************)
(* The end.                                                                *)
(***************************************************************************)

\* Where no digest tells, the units that are there when the download is marked complete
\* are all those of one representation.
LEMMA CompleteIsWhole ==
  ASSUME IInv, run.pc = "mark", ~opts.expected
  PROVE  dir.row.digest \in Whole
<1>1. /\ dir.made = "made" /\ dir.part \in Seq(Int) /\ dir.row.digest \in Seq(Int)
      /\ Len(dir.part) = Total /\ dir.row.committed = Len(dir.part)
  BY Typed DEF IInv, Stages, Early, Lengths, Where
<1>2. dir.row.final \in Urls
  BY <1>1 DEF IInv, Unmixed
<1>3. PICK v \in Versions : Prefix(dir.row.digest, dir.row.final, v)
  BY <1>1 DEF IInv, Unmixed
<1>4. Len(dir.row.digest) = Total
  BY <1>1 DEF IInv, Receipt
<1> QED
  BY <1>1, <1>2, <1>3, <1>4, FullPrefix

\* Mark: what is complete is in the receipt.
LEMMA MarkStep ==
  ASSUME IInv, Mark
  PROVE  IInv'
<1>1. run.pc = "mark" /\ UNCHANGED <<opts, server, folder>>
  BY DEF Mark, World
<1>2. CASE End("failed") /\ UNCHANGED dir
  BY <1>1, <1>2, ToIdle DEF End
<1>3. CASE /\ dir' = [dir EXCEPT !.row.phase = 1, !.row.total = Len(dir.part), !.row.unknown = FALSE]
           /\ run' = [run EXCEPT !.pc = "intend",
                         !.job = IF run.unknown THEN @ ELSE Job("TransferFinished")]
           /\ Goes
  <2>1. /\ dir \in Dirs /\ dir.row \in Rows /\ run \in Runs /\ Len(dir.part) \in Nat
        /\ dir.made = "made" /\ dir.row.committed = Len(dir.part) /\ dir.row.phase = 0
        /\ result' = result
    BY <1>1, <1>3, Typed DEF IInv, Stages, Early, Reading, Goes
  <2>2. PICK j : j = IF run.unknown THEN run.job ELSE Job("TransferFinished")
    OBVIOUS
  <2>3. j \in {"Probing", "Verifying"}
    <3>1. CASE run.unknown
      BY <1>1, <2>2, <3>1 DEF IInv, Machine, Reading
    <3>2. CASE ~run.unknown
      <4>1. run.job = "Downloading"
        BY <1>1, <3>2 DEF IInv, Machine, Reading
      <4> QED
        BY <2>2, <3>2, <4>1 DEF Job, Evented
    <3> QED
      BY <3>1, <3>2
  <2>4. run' = [run EXCEPT !.pc = "intend", !.job = j]
    BY <1>3, <2>2
  <2>5. /\ run' \in Runs /\ run'.pc = "intend" /\ run'.job = j /\ run'.reported = run.reported
    BY <2>1, <2>3, <2>4 DEF Runs, Ending
  <2>6. PICK n : n = Len(dir.part)
    OBVIOUS
  <2>7. PICK r : r = [dir.row EXCEPT !.phase = 1, !.total = n, !.unknown = FALSE]
    OBVIOUS
  <2>8. n \in Int
    BY <2>1, <2>6
  <2>21. PICK u : u \in BOOLEAN /\ u = FALSE
    OBVIOUS
  <2>22. PICK one \in 0 .. 3 : one = 1
    OBVIOUS
  <2>18. u \in BOOLEAN /\ u = FALSE /\ one \in 0 .. 3 /\ one = 1
    BY <2>21, <2>22
  <2>19. /\ u \in BOOLEAN /\ one \in 0 .. 3 /\ dir.row \in Rows
         /\ r = [dir.row EXCEPT !.phase = one, !.total = n, !.unknown = u]
    BY <2>1, <2>7, <2>18
  <2>20. /\ r \in Rows /\ r.unknown = u /\ r.phase = one
    BY <2>8, <2>19 DEF Rows
  <2>9. /\ r \in Rows /\ r.phase = 1 /\ r.total = n /\ r.unknown = FALSE /\ r.tag = dir.row.tag
        /\ r.final = dir.row.final /\ r.committed = dir.row.committed /\ r.digest = dir.row.digest
    BY <2>1, <2>18, <2>19, <2>20 DEF Rows
  <2>10. dir' = [dir EXCEPT !.row = r]
    BY <1>3, <2>1, <2>6, <2>7 DEF Dirs, Rows
  <2>11. /\ dir' \in Dirs /\ dir'.made = dir.made /\ dir'.row = r /\ dir'.part = dir.part
         /\ dir'.synced = dir.synced /\ dir'.out = dir.out /\ dir'.outSynced = dir.outSynced
    BY <2>1, <2>9, <2>10 DEF Dirs
  <2>12. Shapes'
    BY <1>1, <2>5, <2>11 DEF IInv, Shapes
  <2>13. Stages'
    BY <2>1, <2>5, <2>9, <2>11 DEF Stages, Reading
  <2>14. Receipt'
    BY <2>1, <2>5, <2>6, <2>9, <2>11 DEF IInv, Receipt
  <2>15. Lengths' /\ Ranges' /\ Machine'
    BY <2>3, <2>5 DEF Lengths, Ranges, Where, Early, Machine, Reading, Ending
  <2>16. Unmixed'
    <3>1. SUFFICES ASSUME ~opts.expected PROVE Unmixed'
      BY <1>1 DEF Unmixed
    <3>2. dir.row.digest \in Whole
      BY <1>1, <3>1, CompleteIsWhole
    <3> QED
      BY <1>1, <2>1, <2>5, <2>9, <2>11, <3>1, <3>2 DEF IInv, Unmixed, Prefix, Tagged, Where, Reading
  <2>17. Published'
    BY <1>1, <2>1, <2>5, <2>11 DEF IInv, Published, Wanted
  <2> QED
    BY <2>12, <2>13, <2>14, <2>15, <2>16, <2>17 DEF IInv
<1> QED
  BY <1>2, <1>3 DEF Mark

\* Ready: the stored phase decides.
LEMMA ReadyStep ==
  ASSUME IInv, Ready
  PROVE  IInv'
<1>1. run.pc = "ready" /\ UNCHANGED <<dir, opts, server, folder, result>>
  BY DEF Ready, Goes, World
<1>2. PICK pc : pc = IF dir.row.phase = 1 THEN "intend" ELSE "link"
  OBVIOUS
<1>3. /\ run \in Runs /\ run.job = "Queued" /\ dir.row.phase \in 0 .. 3 /\ dir.row.phase > 0
      /\ dir.made = "made"
  BY <1>1, Typed DEF IInv, Machine, Stages, Early
<1>4. /\ pc \in {"intend", "link"} /\ (pc = "link" => dir.row.phase \in {2, 3})
      /\ pc = "intend" => dir.row.phase = 1
  BY <1>2, <1>3
<1>5. run' = [run EXCEPT !.pc = pc]
  BY <1>2 DEF Ready, At
<1>6. run' \in Runs /\ run'.pc = pc /\ run'.reported = run.reported /\ run'.job = run.job
  BY <1>3, <1>4, <1>5 DEF Runs, Ending
<1>7. Shapes' /\ Receipt' /\ Published'
  BY <1>1, <1>4, <1>6, Onward
<1>8. Stages'
  BY <1>1, <1>3, <1>4, <1>6 DEF Stages, Reading
<1>9. Lengths' /\ Ranges' /\ Machine'
  BY <1>3, <1>4, <1>6 DEF Lengths, Ranges, Where, Early, Machine, Reading, Ending
<1>10. Unmixed'
  BY <1>1, <1>4, <1>6 DEF IInv, Unmixed, Prefix, Tagged, Where, Reading
<1> QED
  BY <1>7, <1>8, <1>9, <1>10 DEF IInv

\* Intend: the name is free, and so not published.
LEMMA IntendStep ==
  ASSUME IInv, Intend
  PROVE  IInv'
<1>1. run.pc = "intend" /\ UNCHANGED <<opts, server, folder>>
  BY DEF Intend, World
<1>2. CASE End("failed") /\ UNCHANGED dir
  BY <1>1, <1>2, ToIdle DEF End
<1>3. CASE /\ dir.out = Free /\ dir' = [dir EXCEPT !.row.phase = 2] /\ At("link") /\ Goes
  <2>1. /\ dir \in Dirs /\ dir.row \in Rows /\ run \in Runs /\ dir.made = "made"
        /\ dir.row.phase > 0 /\ result' = result /\ dir.row.phase \in 0 .. 3
    BY <1>1, <1>3, Typed DEF IInv, Stages, Early, Goes
  <2>3. dir.row.phase # 3
    BY <1>1 DEF IInv, Stages
  <2>4. PICK r : r = [dir.row EXCEPT !.phase = 2]
    OBVIOUS
  <2>5. /\ r \in Rows /\ r.phase = 2 /\ r.total = dir.row.total /\ r.unknown = dir.row.unknown
        /\ r.tag = dir.row.tag /\ r.final = dir.row.final /\ r.committed = dir.row.committed
        /\ r.digest = dir.row.digest
    BY <2>1, <2>4, SMTT(40) DEF Rows
  <2>6. dir' = [dir EXCEPT !.row = r]
    BY <1>3, <2>1, <2>4 DEF Dirs, Rows
  <2>7. /\ dir' \in Dirs /\ dir'.made = dir.made /\ dir'.row = r /\ dir'.part = dir.part
        /\ dir'.synced = dir.synced /\ dir'.out = dir.out /\ dir'.outSynced = dir.outSynced
    BY <2>1, <2>5, <2>6 DEF Dirs
  <2>8. run' \in Runs /\ run'.pc = "link" /\ run'.job = run.job /\ run'.reported = run.reported
    BY <1>3, <2>1 DEF At, Runs, Ending
  <2>9. Shapes'
    BY <1>1, <2>7, <2>8 DEF IInv, Shapes
  <2>10. Stages'
    BY <2>1, <2>5, <2>7, <2>8 DEF Stages, Reading
  <2>11. Receipt'
    BY <2>1, <2>5, <2>7, <2>8 DEF IInv, Receipt
  <2>12. Lengths' /\ Ranges' /\ Machine'
    BY <1>1, <2>8 DEF IInv, Lengths, Ranges, Where, Early, Machine, Reading, Ending
  <2>13. Unmixed'
    BY <1>1, <2>1, <2>5, <2>7, <2>8 DEF IInv, Unmixed, Prefix, Tagged, Where, Reading
  <2>14. Published'
    BY <1>1, <1>3, <2>1, <2>3, <2>7, <2>8 DEF IInv, Published, Wanted
  <2> QED
    BY <2>9, <2>10, <2>11, <2>12, <2>13, <2>14 DEF IInv
<1> QED
  BY <1>2, <1>3 DEF Intend

\* What may be linked is wanted.
LEMMA LinkedIsWanted ==
  ASSUME IInv, run.pc = "link", AsExpected
  PROVE  Wanted(dir.part)
<1>1. dir.made = "made" /\ dir.row.phase > 0
  BY Typed DEF IInv, Stages, Early
<1>2. dir.part = dir.row.digest
  BY <1>1, ReceiptIsSound DEF IInv
<1>3. CASE opts.expected
  BY <1>3, ExpectedIsWhole DEF AsExpected, Wanted
<1>4. CASE ~opts.expected
  BY <1>1, <1>2, <1>4 DEF IInv, Unmixed, Wanted
<1> QED
  BY <1>3, <1>4

\* Link: the name is ours already, or free.
LEMMA LinkStep ==
  ASSUME IInv, Link
  PROVE  IInv'
<1>1. run.pc = "link" /\ UNCHANGED <<opts, server, folder>>
  BY DEF Link, World
<1>2. CASE End("failed") /\ UNCHANGED dir
  BY <1>1, <1>2, ToIdle DEF End
<1>3. CASE ~(End("failed") /\ UNCHANGED dir)
  <2>1. /\ AsExpected /\ (dir.out = Free \/ dir.out = dir.part)
        /\ dir.out = Free => dir.row.phase # 3
        /\ IF dir.out = Free THEN dir' = [dir EXCEPT !.out = dir.part, !.outSynced = FALSE]
           ELSE UNCHANGED dir
        /\ At("settle") /\ Goes
    BY <1>3 DEF Link
  <2>2. Wanted(dir.part)
    BY <1>1, <2>1, LinkedIsWanted
  <2>3. /\ dir \in Dirs /\ run \in Runs /\ dir.part \in Seq(Int) /\ result' = result
        /\ dir.made = "made" /\ dir.row.phase \in {2, 3}
    BY <1>1, <2>1, Typed DEF IInv, Stages, Early, Goes
  <2>4. run' \in Runs /\ run'.pc = "settle" /\ run'.job = run.job /\ run'.reported = run.reported
    BY <2>1, <2>3 DEF At, Runs, Ending
  <2>5. /\ dir' \in Dirs /\ dir'.made = dir.made /\ dir'.row = dir.row /\ dir'.part = dir.part
        /\ dir'.synced = dir.synced /\ dir'.out = dir.part
    <3>1. CASE dir.out # Free
      BY <2>1, <2>3, <3>1
    <3>2. CASE dir.out = Free
      <4>1. PICK p, u : p = dir.part /\ u \in BOOLEAN /\ u = FALSE
        OBVIOUS
      <4>2. p \in Seq(Int) /\ u \in BOOLEAN /\ p = dir.part
        BY <2>3, <4>1
      <4>3. dir' = [dir EXCEPT !.out = p, !.outSynced = u]
        BY <2>1, <3>2, <4>1
      <4> QED
        BY <2>1, <2>3, <3>2, <4>2, <4>3 DEF Dirs
    <3> QED
      BY <3>1, <3>2
  <2>6. Shapes'
    BY <1>1, <2>4, <2>5 DEF IInv, Shapes
  <2>7. Stages'
    BY <2>3, <2>4, <2>5 DEF Stages, Reading
  <2>8. Receipt'
    <3>1. Wanted(dir.row.digest)' = Wanted(dir.row.digest)
      BY <1>1, <2>5 DEF Wanted
    <3> QED
      BY <2>3, <2>4, <2>5, <3>1 DEF IInv, Receipt
  <2>9. Lengths' /\ Ranges' /\ Machine'
    BY <1>1, <2>4 DEF IInv, Lengths, Ranges, Where, Early, Machine, Reading, Ending
  <2>10. Unmixed'
    BY <1>1, <2>3, <2>4, <2>5 DEF IInv, Unmixed, Prefix, Tagged, Where, Reading
  <2>11. Published'
    BY <1>1, <2>2, <2>3, <2>4, <2>5 DEF IInv, Published, Wanted
  <2> QED
    BY <2>6, <2>7, <2>8, <2>9, <2>10, <2>11 DEF IInv
<1> QED
  BY <1>2, <1>3

\* Settle: the name and the bytes are on the disk, and then the receipt.
LEMMA SettleStep ==
  ASSUME IInv, Settle
  PROVE  IInv'
<1>1. run.pc = "settle" /\ UNCHANGED <<opts, server, folder>> /\ run' = Idle
  BY DEF Settle, World, End
<1>2. /\ dir \in Dirs /\ dir.row \in Rows /\ Len(dir.part) \in Nat /\ dir.made = "made"
      /\ dir.row.phase \in {2, 3} /\ dir.out = dir.part /\ Wanted(dir.part)
      /\ dir.row.committed \in Nat /\ dir.row.total \in Int
  BY <1>1, Typed DEF IInv, Stages, Early, Published
<1>3. dir.part = dir.row.digest
  BY <1>2, ReceiptIsSound DEF IInv
<1>17. dir.outSynced \in BOOLEAN /\ opts.unix \in BOOLEAN
  BY <1>2, Typed, Zenon DEF IInv, Dirs, Options
<1>4. PICK n, u : n = Len(dir.part) /\ u \in BOOLEAN /\ u = (dir.outSynced \/ opts.unix)
  BY <1>17
<1>5. PICK r : r = [dir.row EXCEPT !.phase = 3]
  OBVIOUS
<1>16. dir.row \in Rows
  BY <1>2
<1>6. /\ r \in Rows /\ r.phase = 3 /\ r.total = dir.row.total /\ r.unknown = dir.row.unknown
      /\ r.tag = dir.row.tag /\ r.final = dir.row.final /\ r.committed = dir.row.committed
      /\ r.digest = dir.row.digest
  BY <1>5, <1>16, SMTT(40) DEF Rows
<1>7. dir' = [dir EXCEPT !.synced = n, !.outSynced = u, !.row = r]
  BY <1>2, <1>4, <1>5 DEF Settle, Dirs, Rows
<1>8. n \in Nat /\ u \in BOOLEAN
  BY <1>2, <1>4
<1>9. /\ dir' \in Dirs /\ dir'.made = dir.made /\ dir'.row = r /\ dir'.part = dir.part
      /\ dir'.synced = n /\ dir'.out = dir.out /\ dir'.outSynced = u
  BY <1>2, <1>6, <1>7, <1>8 DEF Dirs
<1>10. Shapes'
  BY <1>1, <1>9, IdleFields DEF IInv, Shapes
<1>11. Stages'
  BY <1>1, <1>2, <1>9, IdleFields DEF Stages, Early, Reading
<1>12. Receipt'
  <2>4. n = Len(dir.part)
    BY <1>4
  <2>1. Wanted(dir.row.digest)'
    BY <1>1, <1>2, <1>3, <1>6, <1>9 DEF Wanted
  <2>3. /\ Len(dir.part) <= dir.row.total /\ Len(dir.row.digest) = dir.row.committed
        /\ \A i \in 1 .. dir.row.committed : dir.row.digest[i] = dir.part[i]
        /\ Len(dir.part) = dir.row.committed /\ ~dir.row.unknown
    BY <1>2 DEF IInv, Receipt
  <2> QED
    BY <1>1, <1>2, <1>3, <2>4, <1>6, <1>8, <1>9, <2>1, <2>3, IdleFields DEF Receipt
<1>13. Lengths' /\ Ranges' /\ Machine'
  BY <1>1, IdleFields DEF Lengths, Ranges, Where, Early, Machine, Reading, Ending
<1>14. Unmixed'
  BY <1>1, <1>2, <1>6, <1>9, IdleFields DEF IInv, Unmixed, Prefix, Tagged, Where, Reading
<1>15. Published'
  BY <1>1, <1>2, <1>6, <1>9, IdleFields DEF IInv, Published, Wanted
<1> QED
  BY <1>10, <1>11, <1>12, <1>13, <1>14, <1>15 DEF IInv

-----------------------------------------------------------------------------
(***************************************************************************)
(* The theorems.                                                           *)
(***************************************************************************)

\* A step of the download, or none, keeps the invariant.
LEMMA TransferStep ==
  ASSUME IInv, [Next]_vars
  PROVE  IInv'
<1>1. CASE UNCHANGED vars
  <2>1. UNCHANGED <<dir, run, opts, server, folder, result>>
    BY <1>1 DEF vars
  <2>2. /\ server' \in Versions /\ DOMAIN folder' = 1 .. 2
        /\ \A n \in 1 .. 2 : folder'[n] \in {Free, Foreign} \/ Wanted(folder'[n])
    BY <2>1 DEF IInv, Shapes, Published
  <2> QED
    BY <2>1, <2>2, Aside
<1>2. CASE Begin \/ Respond \/ Refused \/ Create \/ Insert \/ Rebind \/ Proceed
  BY <1>2, BeginStep, RespondStep, EndStep, CreateStep, InsertStep, RebindStep, ProceedStep
<1>3. CASE Read \/ PastTheLimit \/ Cut \/ Break \/ Obey \/ CleanEnd \/ Checkpoint
  BY <1>3, ReadStep, PointStep, EndStep, CheckpointStep
<1>4. CASE First \/ FetchRange \/ Joined \/ Flush
  BY <1>4, FirstStep, FetchRangeStep, JoinedStep, FlushStep
<1>5. CASE Mark \/ Ready \/ Intend \/ Link \/ Settle
  BY <1>5, MarkStep, ReadyStep, IntendStep, LinkStep, SettleStep
<1>6. CASE (\E url \in Urls : RefreshUrl(url)) \/ Export \/ Cancel \/ Change \/ Stranger \/ PowerLoss
  BY <1>6, RefreshStep, AroundStep, StrangerStep, PowerLossStep
<1> QED
  BY <1>1, <1>2, <1>3, <1>4, <1>5, <1>6 DEF Next

\* The invariant holds always.
LEMMA TransferInvariant == Spec => []IInv
BY TransferInit, TransferStep, PTL DEF Spec

\* What is published or exported is one whole representation, and the expected one if a
\* digest is known: for every file, every number of versions, URLs and connections.
THEOREM PublishesOnlyWhole == Spec => []PublishedIsWhole
<1>1. IInv => PublishedIsWhole
  BY DEF IInv, Published, PublishedIsWhole, Wanted
<1> QED
  BY <1>1, TransferInvariant, PTL

\* The receipt never claims a unit that the file could lose, and is never found corrupt.
THEOREM ReceiptsAreStable == Spec => []CommittedIsStable
<1>1. ASSUME IInv PROVE CommittedIsStable
  <2>1. SUFFICES ASSUME dir.made = "made" PROVE CommittedIsStable
    BY DEF CommittedIsStable
  <2>2. /\ dir.row.committed \in Nat /\ dir.synced \in Nat /\ Len(dir.part) \in Nat
        /\ dir.row.total \in Int
    BY <1>1, Typed DEF IInv
  <2>3. PartSound
    BY <1>1, <2>1, ReceiptIsSound DEF IInv
  <2>4. /\ dir.row.committed <= dir.synced /\ dir.synced <= Len(dir.part)
        /\ Len(dir.part) <= dir.row.total /\ run.reported <= dir.row.committed
    BY <1>1, <2>1 DEF IInv, Receipt
  <2> QED
    BY <2>2, <2>3, <2>4 DEF CommittedIsStable
<1> QED
  BY <1>1, TransferInvariant, PTL

\* What stands at the name, and the receipt of it.
NameKept ==
  /\ dir'.out = dir.out /\ dir'.outSynced = dir.outSynced
  /\ dir'.row.phase = 3 <=> dir.row.phase = 3
  /\ dir.row.phase = 3 => dir'.row.digest = dir.row.digest

\* A step leaves the name and its receipt alone, or is one of the four that may not.
LEMMA NameSteps ==
  ASSUME IInv, [Next]_vars
  PROVE  NameKept \/ Stranger \/ Link \/ Settle \/ PowerLoss
<1>1. dir \in Dirs /\ dir.row \in Rows
  BY Typed DEF IInv
<1>2. CASE UNCHANGED dir
  BY <1>2 DEF NameKept
<1>3. CASE dir' = Truncated
  BY <1>1, <1>3 DEF Truncated, Dirs, NameKept
<1>4. CASE Create
  BY <1>1, <1>4 DEF Create, Dirs, NameKept
<1>5. CASE Insert
  <2>1. dir.made # "made"
    BY <1>5 DEF Insert, IInv, Stages
  <2>2. dir.row.phase = 0
    BY <2>1 DEF IInv, Stages
  <2>3. dir'.row = [NoRow EXCEPT !.orig = opts.url, !.final = run.final, !.tag = run.tag,
                      !.unknown = run.unknown, !.total = IF run.unknown THEN opts.max ELSE Total]
        /\ dir'.out = dir.out /\ dir'.outSynced = dir.outSynced
    BY <1>1, <1>5 DEF Insert, Dirs
  <2>4. dir'.row.phase = 0
    BY <2>3 DEF NoRow
  <2> QED
    BY <2>2, <2>3, <2>4 DEF NameKept
<1>6. CASE Rebind /\ dir' = [dir EXCEPT !.row.orig = opts.url, !.row.final = run.final]
  BY <1>1, <1>6 DEF Dirs, Rows, NameKept
<1>7. CASE Checkpoint
  <2>1. dir.row.phase = 0
    BY <1>7 DEF Checkpoint, IInv, Stages, Reading
  <2>2. /\ dir'.out = dir.out /\ dir'.outSynced = dir.outSynced
        /\ dir'.row.phase = dir.row.phase
    BY <1>1, <1>7 DEF Checkpoint, Dirs, Rows
  <2> QED
    BY <2>1, <2>2 DEF NameKept
<1>8. CASE \E unit : dir' = [dir EXCEPT !.part = Append(@, unit)]
  BY <1>1, <1>8 DEF Dirs, NameKept
<1>9. CASE Mark /\ dir' = [dir EXCEPT !.row.phase = 1, !.row.total = Len(dir.part), !.row.unknown = FALSE]
  <2>1. dir.row.phase = 0
    BY <1>9 DEF Mark, IInv, Stages, Reading
  <2>2. dir'.out = dir.out /\ dir'.outSynced = dir.outSynced /\ dir'.row.phase = 1
    BY <1>1, <1>9 DEF Dirs, Rows
  <2> QED
    BY <2>1, <2>2 DEF NameKept
<1>10. CASE Intend /\ dir.out = Free /\ dir' = [dir EXCEPT !.row.phase = 2]
  <2>1. dir.row.phase = 1
    BY <1>10 DEF Intend, IInv, Stages
  <2>2. dir'.out = dir.out /\ dir'.outSynced = dir.outSynced /\ dir'.row.phase = 2
    BY <1>1, <1>10 DEF Dirs, Rows
  <2> QED
    BY <2>1, <2>2 DEF NameKept
<1>11. CASE Begin \/ Respond \/ Refused \/ Create \/ Insert \/ Rebind \/ Proceed
  <2>1. UNCHANGED dir \/ dir' = Truncated \/ Create \/ Insert
        \/ (Rebind /\ dir' = [dir EXCEPT !.row.orig = opts.url, !.row.final = run.final])
    BY <1>11 DEF Begin, Respond, Refused, Rebind, Proceed
  <2> QED
    BY <2>1, <1>2, <1>3, <1>4, <1>5, <1>6
<1>12. CASE Read \/ PastTheLimit \/ Cut \/ Break \/ Obey \/ CleanEnd \/ Checkpoint
  <2>1. UNCHANGED dir \/ Checkpoint \/ \E unit : dir' = [dir EXCEPT !.part = Append(@, unit)]
    BY <1>12 DEF Read, PastTheLimit, Cut, Break, Obey, CleanEnd, AppendUnit
  <2> QED
    BY <2>1, <1>2, <1>7, <1>8
<1>13. CASE First \/ FetchRange \/ Joined \/ Flush
  <2>1. UNCHANGED dir \/ \E unit : dir' = [dir EXCEPT !.part = Append(@, unit)]
    BY <1>13 DEF First, FetchRange, Joined, Flush, AppendUnit
  <2> QED
    BY <2>1, <1>2, <1>8
<1>14. CASE Mark \/ Ready \/ Intend
  <2>1. UNCHANGED dir
        \/ (Mark /\ dir' = [dir EXCEPT !.row.phase = 1, !.row.total = Len(dir.part), !.row.unknown = FALSE])
        \/ (Intend /\ dir.out = Free /\ dir' = [dir EXCEPT !.row.phase = 2])
    BY <1>14 DEF Mark, Ready, Intend
  <2> QED
    BY <2>1, <1>2, <1>9, <1>10
<1>15. CASE (\E url \in Urls : RefreshUrl(url)) \/ Export \/ Cancel \/ Change \/ UNCHANGED vars
  <2>1. UNCHANGED dir \/ dir' = Truncated
    BY <1>15 DEF RefreshUrl, Export, Cancel, Change, vars
  <2> QED
    BY <2>1, <1>2, <1>3
<1> QED
  BY <1>11, <1>12, <1>13, <1>14, <1>15 DEF Next

\* Only a loss of power is counted as one, and only a stranger as a stranger; the build
\* stays what it is.
LEMMA Counted ==
  ASSUME IInv, budget \in Budgets, [Next]_vars
  PROVE  /\ budget' \in Budgets /\ opts'.unix = opts.unix /\ ~(PowerLoss /\ Stranger)
         /\ budget'.power = IF PowerLoss THEN budget.power - 1 ELSE budget.power
         /\ budget'.strangers = IF Stranger THEN budget.strangers - 1 ELSE budget.strangers
<1>1. opts \in Options
  BY DEF IInv, Shapes
<1>2. opts'.unix = opts.unix
  <2>1. UNCHANGED opts \/ \E url \in Urls : RefreshUrl(url)
    BY DEF Next, vars, World, Begin, Respond, Refused, Create, Insert, Rebind, Proceed, Read,
       PastTheLimit, Cut, Break, Obey, CleanEnd, Checkpoint, First, FetchRange, Joined, Flush,
       Mark, Ready, Intend, Link, Settle, Export, Cancel, Change, Stranger, PowerLoss
  <2>2. UNCHANGED opts \/ \E url \in Urls, r \in {0, dir.row.orig} :
                            opts' = [opts EXCEPT !.url = url, !.refresh = r]
    BY <2>1 DEF RefreshUrl
  <2> QED
    BY <1>1, <2>2 DEF Options
<1>3. \/ UNCHANGED budget \/ PowerLoss \/ Stranger
      \/ Spend("attempts") \/ Spend("faults") \/ Spend("changes")
  BY DEF Next, vars, World, Begin, Respond, Refused, Create, Insert, Rebind, Proceed, Read,
     PastTheLimit, Cut, Break, Obey, CleanEnd, Checkpoint, First, FetchRange, Joined, Flush,
     Mark, Ready, Intend, Link, Settle, RefreshUrl, Export, Cancel, Change
<1>4. (PowerLoss => Spend("power")) /\ (Stranger => Spend("strangers"))
  BY DEF PowerLoss, Stranger
<1>5. budget' \in Budgets
  BY <1>3, <1>4 DEF Spend, Budgets
<1>6. Spend("power") => budget'.power = budget.power - 1 /\ budget'.strangers = budget.strangers
  BY DEF Spend, Budgets
<1>7. Spend("strangers") => budget'.power = budget.power /\ budget'.strangers = budget.strangers - 1
  BY DEF Spend, Budgets
<1>8. Spend("attempts") \/ Spend("faults") \/ Spend("changes") \/ UNCHANGED budget
      => budget'.power = budget.power /\ budget'.strangers = budget.strangers
  BY DEF Spend, Budgets
<1>9. budget.power \in Int /\ budget.strangers \in Int
  BY DEF Budgets
<1> QED
  BY <1>2, <1>3, <1>4, <1>5, <1>6, <1>7, <1>8, <1>9

\* What is finished has a name in the job directory, and a wanted file for its receipt.
LEMMA FinishedIsWanted ==
  ASSUME IInv, dir.row.phase = 3
  PROVE  dir.made = "made" /\ Wanted(dir.row.digest) /\ dir.row.digest # Free
<1>1. dir.made = "made"
  BY Typed DEF IInv, Stages
<1>2. Wanted(dir.row.digest)
  BY <1>1 DEF IInv, Receipt
<1> QED
  BY <1>1, <1>2, ExpectedIsWhole DEF Wanted

\* Settle and the receipt: the file at the name is the part file.
LEMMA SettledName ==
  ASSUME IInv, Settle
  PROVE  /\ dir.out \in Whole /\ dir.out = dir.row.digest /\ dir'.out = dir.out
         /\ dir'.row.phase = 3 /\ dir'.row.digest = dir.row.digest
         /\ dir'.outSynced = (dir.outSynced \/ opts.unix)
<1>1. dir \in Dirs /\ dir.row \in Rows
  BY Typed DEF IInv
<1>2. run.pc = "settle" /\ dir.row.phase > 0 /\ dir.made = "made"
  BY Typed DEF Settle, IInv, Stages, Early
<1>3. dir.part = dir.row.digest
  BY <1>2, ReceiptIsSound DEF IInv
<1>4. dir.out = dir.part /\ dir.out \in Whole
  BY <1>2 DEF IInv, Published, Wanted
<1>5. /\ dir'.out = dir.out /\ dir'.row.phase = 3 /\ dir'.row.digest = dir.row.digest
      /\ dir'.outSynced = (dir.outSynced \/ opts.unix)
  BY <1>1 DEF Settle, Dirs, Rows
<1> QED
  BY <1>3, <1>4, <1>5

\* Every step keeps the finished file at its name, as far as the directory was forced.
LEMMA NamedStep ==
  ASSUME IInv, Named, [Next]_vars
  PROVE  Named'
<1>1. /\ dir \in Dirs /\ dir.row \in Rows /\ budget \in Budgets /\ budget.power \in Int
      /\ budget.power <= MaxPower /\ MaxPower \in Int
  BY Typed, BoundsAssumption DEF IInv, Named, Budgets
<1>2. /\ budget' \in Budgets /\ opts'.unix = opts.unix
      /\ budget'.power = IF PowerLoss THEN budget.power - 1 ELSE budget.power
  BY <1>1, Counted
<1>3. budget'.power <= MaxPower
  BY <1>1, <1>2
<1>4. budget'.power = MaxPower => budget.power = MaxPower /\ ~PowerLoss
  BY <1>1, <1>2
<1>5. CASE NameKept
  BY <1>2, <1>3, <1>4, <1>5 DEF Named, NameKept
<1>6. CASE Stranger
  <2>1. CASE UNCHANGED dir
    BY <1>2, <1>3, <1>4, <2>1 DEF Named
  <2>2. CASE dir.out = Free /\ dir' = [dir EXCEPT !.out = Foreign]
    <3>1. dir'.row = dir.row /\ dir'.outSynced = dir.outSynced
      BY <1>1, <2>2 DEF Dirs
    <3>2. dir.row.phase = 3 => ~opts.unix /\ budget.power # MaxPower
      BY <2>2, FinishedIsWanted DEF Named
    <3> QED
      BY <1>2, <1>3, <1>4, <3>1, <3>2 DEF Named
  <2> QED
    BY <1>6, <2>1, <2>2 DEF Stranger
<1>7. CASE Link
  <2>1. CASE UNCHANGED dir
    BY <1>2, <1>3, <1>4, <2>1 DEF Named
  <2>2. CASE dir.row.phase # 3 /\ dir' = [dir EXCEPT !.out = dir.part, !.outSynced = FALSE]
    <3>1. dir'.row = dir.row
      BY <1>1, <2>2 DEF Dirs
    <3> QED
      BY <1>2, <1>3, <2>2, <3>1 DEF Named
  <2> QED
    BY <1>7, <2>1, <2>2 DEF Link
<1>8. CASE Settle
  BY <1>2, <1>3, <1>8, SettledName DEF Named
<1>9. CASE PowerLoss
  <2>1. dir'.row = dir.row /\ dir'.outSynced = TRUE /\ (dir.outSynced => dir'.out = dir.out)
    BY <1>1, <1>9 DEF PowerLoss, Dirs
  <2> QED
    BY <1>2, <1>3, <1>4, <1>9, <2>1 DEF Named
<1> QED
  BY <1>5, <1>6, <1>7, <1>8, <1>9, NameSteps

\* The two together.
LEMMA NamedInvariant == Spec => [](IInv /\ Named)
<1>1. Init => Named
  BY BoundsAssumption DEF Init, Named, Budgets, NoDir, NoRow
<1> QED
  BY <1>1, TransferInit, TransferStep, NamedStep, PTL DEF Spec

\* A finished download stands at its name with the bytes of its receipt: on Unix always, also
\* after the power failed; elsewhere, where the directory is not forced before the receipt,
\* as long as the power did not fail.  And the state machine of the attempt is never asked
\* for a step that it does not have.
THEOREM FinishedStands == Spec => []CompletedStands
<1>1. ASSUME IInv, Named PROVE CompletedStands
  <2>1. ASSUME dir.row.phase = 3
        PROVE  /\ opts.unix \/ budget.power = MaxPower => dir.out \in Whole /\ dir.out = dir.row.digest
               /\ opts.unix => dir.outSynced
    BY <1>1, <2>1, FinishedIsWanted DEF Named, Wanted
  <2>2. result = "done" => dir.row.phase = 3
    BY <1>1 DEF IInv, Published
  <2>3. run.job # Illegal
    BY <1>1 DEF IInv, Shapes, Runs, Illegal
  <2> QED
    BY <2>1, <2>2, <2>3 DEF CompletedStands
<1> QED
  BY <1>1, NamedInvariant, PTL

\* What the promise sees of the job directory.
Ends    == IF dir.row.phase = 3 THEN "completed" ELSE "open"
Was     == {dir.out} \cup (IF dir.outSynced THEN {} ELSE {Free})
Losses  == MaxPower - budget.power
Touched == MaxStrangers - budget.strangers

\* The steps of the promise, in the terms of this module.
LEMMA PromiseMoves ==
  LET Open == dir'.out \in Was' /\ Was' \subseteq Was \cup {dir'.out}
      Calm == Losses' = Losses /\ Touched' = Touched
  IN  /\ Open /\ Calm /\ dir'.out = dir.out /\ Ends' = Ends => Promise!Next
      /\ Open /\ Calm /\ dir.out = Free /\ dir'.out \in Whole /\ Ends = "open" /\ Ends' = "open"
         => Promise!Next
      /\ Open /\ Calm /\ dir'.out = dir.out /\ dir.out \in Whole /\ Ends = "open"
         /\ Ends' = "completed" => Promise!Next
      /\ Open /\ Touched' = Touched + 1 /\ Losses' = Losses /\ Ends' = Ends
         /\ (dir'.out = dir.out \/ (dir.out = Free /\ dir'.out = Foreign)) => Promise!Next
      /\ Losses' = Losses + 1 /\ Touched' = Touched /\ Ends' = Ends
         /\ dir'.out \in Was /\ Was' = {dir'.out} => Promise!Next
BY DEF Promise!Next, Promise!Appear, Promise!Force, Promise!Complete, Promise!GiveUp, Promise!Others,
       Promise!Revert, Promise!Engine, Promise!Seen, Ends, Was, Losses, Touched

\* The refinement of Publication, step by step: somebody takes a free name (Others), the
\* link makes it appear whole (Appear), the receipt completes it (Complete), the power takes
\* an unsynced name back (Revert), and no other step touches any of it.
LEMMA PromiseStep ==
  ASSUME IInv, Named, [Next]_vars
  PROVE  [Promise!Next]_(Promise!vars)
<1>1. /\ dir \in Dirs /\ dir.row \in Rows /\ dir.part \in Seq(Int) /\ budget \in Budgets
      /\ budget.power \in Int /\ budget.strangers \in Int /\ MaxPower \in Int /\ MaxStrangers \in Int
  BY Typed, BoundsAssumption DEF IInv, Named, Budgets
<1>2. /\ budget'.power = IF PowerLoss THEN budget.power - 1 ELSE budget.power
      /\ budget'.strangers = IF Stranger THEN budget.strangers - 1 ELSE budget.strangers
  BY <1>1, Counted
<1>3. dir'.out \in Was'
  BY DEF Was
<1>4. ASSUME ~PowerLoss PROVE Losses' = Losses
  BY <1>2, <1>4 DEF Losses
<1>5. ASSUME ~Stranger PROVE Touched' = Touched
  BY <1>2, <1>5 DEF Touched
<1>6. CASE Stranger
  <2>1. ~PowerLoss
    BY <1>1, <1>6, Counted
  <2>2. Losses' = Losses /\ Touched' = Touched + 1
    BY <1>1, <1>2, <1>4, <1>6, <2>1 DEF Touched
  <2>3. CASE UNCHANGED dir
    <3>1. Was' = Was /\ Ends' = Ends
      BY <2>3 DEF Was, Ends
    <3> QED
      BY <1>3, <2>2, <2>3, <3>1, PromiseMoves
  <2>4. CASE dir.out = Free /\ dir' = [dir EXCEPT !.out = Foreign]
    <3>1. dir'.out = Foreign /\ dir'.row = dir.row /\ dir'.outSynced = dir.outSynced
      BY <1>1, <2>4 DEF Dirs
    <3>2. Was' \subseteq Was \cup {dir'.out} /\ Ends' = Ends
      BY <2>4, <3>1 DEF Was, Ends
    <3> QED
      BY <1>3, <2>2, <2>4, <3>1, <3>2, PromiseMoves
  <2> QED
    BY <1>6, <2>3, <2>4 DEF Stranger
<1>7. CASE PowerLoss
  <2>1. ~Stranger
    BY <1>1, <1>7, Counted
  <2>2. Losses' = Losses + 1 /\ Touched' = Touched
    BY <1>1, <1>2, <1>5, <1>7, <2>1 DEF Losses
  <2>3. /\ dir'.row = dir.row /\ dir'.outSynced = TRUE
        /\ dir'.out = dir.out \/ (dir'.out = Free /\ ~dir.outSynced)
    BY <1>1, <1>7 DEF PowerLoss, Dirs
  <2>4. dir'.out \in Was /\ Was' = {dir'.out} /\ Ends' = Ends
    BY <2>3 DEF Was, Ends
  <2> QED
    BY <2>2, <2>4, PromiseMoves
<1>8. CASE ~Stranger /\ ~PowerLoss
  <2>1. Losses' = Losses /\ Touched' = Touched
    BY <1>4, <1>5, <1>8
  <2>2. CASE NameKept
    <3>1. Was' = Was /\ Ends' = Ends /\ dir'.out = dir.out
      BY <2>2 DEF NameKept, Was, Ends
    <3> QED
      BY <1>3, <2>1, <3>1, PromiseMoves
  <2>3. CASE Link
    <3>1. CASE UNCHANGED dir
      BY <2>2, <3>1 DEF NameKept
    <3>2. CASE ~UNCHANGED dir
      <4>1. /\ dir.out = Free /\ dir.row.phase # 3 /\ AsExpected /\ run.pc = "link"
            /\ dir' = [dir EXCEPT !.out = dir.part, !.outSynced = FALSE]
        BY <2>3, <3>2 DEF Link
      <4>2. dir.part \in Whole
        BY <4>1, LinkedIsWanted DEF Wanted
      <4>3. dir'.out = dir.part /\ dir'.row = dir.row /\ dir'.outSynced = FALSE
        BY <1>1, <4>1 DEF Dirs
      <4>4. Ends = "open" /\ Ends' = "open"
        BY <4>1, <4>3 DEF Ends
      <4>5. Was' \subseteq Was \cup {dir'.out}
        BY <4>1 DEF Was
      <4> QED
        BY <1>3, <2>1, <4>1, <4>2, <4>3, <4>4, <4>5, PromiseMoves
    <3> QED
      BY <3>1, <3>2
  <2>4. CASE Settle
    <3>1. /\ dir.out \in Whole /\ dir'.out = dir.out /\ dir'.row.phase = 3
          /\ dir'.outSynced = (dir.outSynced \/ opts.unix)
      BY <2>4, SettledName
    <3>2. Was' \subseteq Was \cup {dir'.out}
      BY <3>1 DEF Was
    <3>3. Ends' = "completed" /\ Ends \in {"open", "completed"}
      BY <3>1 DEF Ends
    <3> QED
      BY <1>3, <2>1, <3>1, <3>2, <3>3, PromiseMoves
  <2> QED
    BY <1>8, <2>2, <2>3, <2>4, NameSteps
<1> QED
  BY <1>6, <1>7, <1>8

\* The job directory implements Publication: a free name is taken at once and whole, no step
\* of an attempt touches what stands there, whoever put it there, and the receipt says
\* published only while the whole file stands there.
THEOREM DirectoryKeepsPromise == Spec => KeepsPromise
<1>1. Init => Promise!Init
  <2> HAVE Init
  <2>1. Was = {Free} /\ Ends = "open" /\ dir.out = Free
    BY DEF Init, NoDir, NoRow, Was, Ends
  <2>2. Losses = 0 /\ Touched = 0
    BY BoundsAssumption DEF Init, Losses, Touched
  <2> QED
    BY <2>1, <2>2 DEF Promise!Init, Was, Ends, Losses, Touched
<1>2. IInv /\ Named /\ [Next]_vars => [Promise!Next]_(Promise!vars)
  BY PromiseStep
<1> QED
  BY <1>1, <1>2, NamedInvariant, PTL DEF Spec, KeepsPromise, Promise!Spec
=============================================================================
