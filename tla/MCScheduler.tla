---------------------------- MODULE MCScheduler -----------------------------
(***************************************************************************)
(* Scheduler with the jobs, origins and lists of a model.                  *)
(***************************************************************************)
EXTENDS Scheduler

CONSTANTS a, b, host

\* Two jobs of one origin, so that its cap and its stand-downs bind both.
MCOriginOf == (a :> host) @@ (b :> host)

\* A second job, or a second time the same one; both waiting for one tick.
MCBatches ==
  {<<Entry(a, Ready), Entry(b, Ready)>>, <<Entry(a, Ready), Entry(a, Rest)>>,
   <<Entry(a, 2), Entry(b, 2)>>}
=============================================================================
