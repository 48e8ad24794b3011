--------------------------- MODULE MCQueueManager ---------------------------
(***************************************************************************)
(* QueueManager with the requests of a model: a proposal, another with the *)
(* same key, and two requests that are not proposals, with a key and       *)
(* without; a link that is too long, and a request that is not valid for   *)
(* another reason.  All are to one origin.                                 *)
(***************************************************************************)
EXTENDS QueueManager

Request(key, proposed, prio, dir) ==
  [key |-> key, proposed |-> proposed, prio |-> prio, dir |-> dir, origin |-> 1, url |-> 1,
   digest |-> proposed, sound |-> TRUE]

MCRequests ==
  {Request(1, TRUE, 0, 1), Request(1, TRUE, 1, 1), Request(2, FALSE, 0, 1),
   Request(0, FALSE, 1, 2),
   [Request(0, FALSE, 0, 4) EXCEPT !.url = 3], [Request(0, FALSE, 0, 5) EXCEPT !.sound = FALSE]}

\* A link that is longer when it is normalised, to the bound of a model, and one beyond it.
MCLinks == {[raw |-> 1, normal |-> 2], [raw |-> 3, normal |-> 3]}

\* A link that outgrows the bound when it is normalised.
OutgrownLinks == {[raw |-> 2, normal |-> 3]}
=============================================================================
