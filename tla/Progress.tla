------------------------------ MODULE Progress ------------------------------
(***************************************************************************)
(* What the segment map of one job promises, with the cutting of the file  *)
(* into segments left out: every byte of the representation is pending,    *)
(* leased to one worker, written, or durable; a checkpoint freezes the     *)
(* bytes written so far, and only the frozen bytes of a synced checkpoint  *)
(* become durable.                                                         *)
(*                                                                         *)
(* These are the operators on one such progress record.  ByteProgress is   *)
(* the state machine over them that SegmentMap is shown to implement; the  *)
(* modules above the segment map (Job, Session) use them directly.         *)
(***************************************************************************)
EXTENDS Integers

(***************************************************************************)
(* A progress record.  leased is a set of byte sets, one per live lease;   *)
(* frozen is the selection of the pending checkpoint.                      *)
(***************************************************************************)
NoCheckpoint == "NoCheckpoint"
Prepared     == "Prepared"
Synced       == "Synced"

Bytes(total) == 0 .. (total - 1)

Fresh(total) ==
  [total  |-> total, leased |-> {}, written |-> {}, durable |-> {},
   frozen |-> {},    ckpt   |-> NoCheckpoint]

ProgressOf(total) ==
  [total  : {total},
   leased : SUBSET SUBSET Bytes(total),
   written: SUBSET Bytes(total),
   durable: SUBSET Bytes(total),
   frozen : SUBSET Bytes(total),
   ckpt   : {NoCheckpoint, Prepared, Synced}]

PendingBytes(p) ==
  Bytes(p.total) \ ((UNION p.leased) \cup p.written \cup p.durable)

AllDurable(p)           == p.durable = Bytes(p.total)
HasUnsynced(p)          == p.written # {}
HasPendingCheckpoint(p) == p.ckpt # NoCheckpoint
HasActiveLeases(p)      == p.leased # {}

(***************************************************************************)
(* The operations, each under the condition that the code accepts it.      *)
(***************************************************************************)
CanLease(p, B)     == B # {} /\ B \subseteq PendingBytes(p)
LeaseBytes(p, B)   == [p EXCEPT !.leased = @ \cup {B}]
MarkWritten(p, B)  == [p EXCEPT !.leased = @ \ {B}, !.written = @ \cup B]
ReleaseBytes(p, B) == [p EXCEPT !.leased = @ \ {B}]

CanPrepareSync(p) == ~HasPendingCheckpoint(p) /\ HasUnsynced(p)
PrepareSync(p)    == [p EXCEPT !.frozen = p.written, !.ckpt = Prepared]
AcknowledgeSync(p)   == [p EXCEPT !.ckpt = Synced]
AcknowledgeCommit(p) ==
  [p EXCEPT !.written = @ \ p.frozen, !.durable = @ \cup p.frozen,
            !.frozen  = {},           !.ckpt    = NoCheckpoint]
DiscardCheckpoint(p) == [p EXCEPT !.frozen = {}, !.ckpt = NoCheckpoint]

CanDiscardUnsynced(p) == ~HasPendingCheckpoint(p)
DiscardUnsynced(p)    == [p EXCEPT !.written = {}]

(***************************************************************************)
(* Rebuilt from the repository: only what it recorded survives.            *)
(***************************************************************************)
Restored(total, durable) == [Fresh(total) EXCEPT !.durable = durable]
=============================================================================
