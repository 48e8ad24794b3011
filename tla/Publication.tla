---------------------------- MODULE Publication -----------------------------
(***************************************************************************)
(* What publishing one job promises whoever owns the download folder.  The *)
(* file at the destination is nobody's, somebody else's, or the complete   *)
(* bytes of one representation.  A step of the engine only ever takes a    *)
(* free name, at once and whole, while the job is open: it never writes,   *)
(* replaces or removes what stands there.  A job is completed only while   *)
(* its bytes stand there.                                                  *)
(*                                                                         *)
(* Steps that are not the engine's are counted, so that a step which       *)
(* changes the destination and moves no counter is the engine's: others    *)
(* only handle their own files, and a loss of power only brings back an    *)
(* entry that was there since the directory was last forced to the disk.   *)
(***************************************************************************)
EXTENDS Integers

CONSTANTS
  Whole,    \* the complete contents that were asked for
  Free,     \* no file at the destination
  Foreign   \* a file that is not the engine's

VARIABLES
  dest, ending,
  seen,     \* the entries a loss of power may bring back, the present one included
  losses,   \* how often the power failed
  others    \* how often somebody else changed a file

vars == <<dest, ending, seen, losses, others>>

Init == dest = Free /\ ending = "open" /\ seen = {Free} /\ losses = 0 /\ others = 0

\* The new entry may come back too; forcing the directory leaves it alone.
Seen == dest' \in seen' /\ seen' \subseteq seen \cup {dest'}

Engine == Seen /\ UNCHANGED <<losses, others>>

\* The name appears with all its bytes at once.
Appear == dest = Free /\ dest' \in Whole /\ ending = "open" /\ UNCHANGED ending /\ Engine

Force    == UNCHANGED <<dest, ending>> /\ Engine
Complete == dest \in Whole /\ ending = "open" /\ ending' = "completed" /\ UNCHANGED dest /\ Engine
GiveUp   == ending = "open" /\ ending' = "cancelled" /\ UNCHANGED dest /\ Engine

\* Somebody else creates or removes a file, at the destination or elsewhere.
Others ==
  /\ others' = others + 1 /\ UNCHANGED <<ending, losses>> /\ Seen
  /\ \/ dest = Free /\ dest' = Foreign
     \/ dest = Foreign /\ dest' = Free
     \/ UNCHANGED dest

\* The power fails: an entry that was never forced away is back.
Revert ==
  /\ losses' = losses + 1 /\ UNCHANGED <<ending, others>>
  /\ dest' \in seen /\ seen' = {dest'}

Next == Appear \/ Force \/ Complete \/ GiveUp \/ Others \/ Revert

Spec == Init /\ [][Next]_vars
=============================================================================
