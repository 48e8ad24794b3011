---------------------------- MODULE ByteProgress ----------------------------
(***************************************************************************)
(* The abstract specification of the segment map: Progress as a state      *)
(* machine of one job, across its restarts and its representations.        *)
(***************************************************************************)
EXTENDS Progress

CONSTANT Totals        \* the sizes a representation may have

VARIABLES generation, progress

Init ==
  /\ generation = 1
  /\ \E t \in Totals : progress = Fresh(t)

\* One operation of the map inside its generation.
Operate ==
  /\ UNCHANGED generation
  /\ \/ \E lo, hi \in 0 .. progress.total :
          /\ CanLease(progress, lo .. (hi - 1))
          /\ progress' = LeaseBytes(progress, lo .. (hi - 1))
     \/ \E B \in progress.leased :
          progress' \in {MarkWritten(progress, B), ReleaseBytes(progress, B)}
     \/ CanPrepareSync(progress) /\ progress' = PrepareSync(progress)
     \/ progress.ckpt = Prepared /\ progress' = AcknowledgeSync(progress)
     \/ progress.ckpt = Synced   /\ progress' = AcknowledgeCommit(progress)
     \/ progress' = DiscardCheckpoint(progress)
     \/ CanDiscardUnsynced(progress) /\ progress' = DiscardUnsynced(progress)

\* The process restarts, or reloads the job: the repository holds every durable
\* byte, and the frozen ones too when their commit had already landed.
Reload ==
  /\ UNCHANGED generation
  /\ \E D \in {progress.durable} \cup
              {progress.durable \cup progress.frozen : x \in {progress.ckpt} \cap {Synced}} :
        progress' = Restored(progress.total, D)

\* A new representation starts from nothing, under the next generation.
Replace ==
  /\ ~HasPendingCheckpoint(progress)
  /\ ~HasActiveLeases(progress)
  /\ generation' = generation + 1
  /\ \E t \in Totals : progress' = Fresh(t)

Next == Operate \/ Reload \/ Replace

vars == <<generation, progress>>

Spec == Init /\ [][Next]_vars
=============================================================================
