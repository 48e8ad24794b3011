---------------------------- MODULE MCAdmission -----------------------------
(***************************************************************************)
(* Admission with the requests of a model.                                 *)
(***************************************************************************)
EXTENDS Admission, TLC

CONSTANTS c1, c2

Request(url, destination, expected, sensitive) ==
  [url |-> url, allow |-> url \in Cleartext, destination |-> destination, max |-> 2,
   expected |-> expected, sensitive |-> sensitive]

\* One request, open and sensitive; with another digest; and another link, in the clear,
\* for another spelling of the same path.
MCRequests ==
  {Request(1, 1, 0, FALSE), Request(1, 1, 0, TRUE), Request(1, 1, 1, FALSE),
   Request(2, 2, 0, FALSE)}

Symmetry == Permutations(Clients)

\* Two spellings of one path, and another path.
MCPathOf == <<1, 1, 3>>

\* One request, two, and the link of the first for another path.
MCBatches == {<<Request(1, 1, 0, FALSE)>>,
              <<Request(2, 2, 0, FALSE), Request(1, 1, 0, TRUE)>>,
              <<Request(1, 3, 0, FALSE)>>}
=============================================================================
