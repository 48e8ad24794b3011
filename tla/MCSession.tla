----------------------------- MODULE MCSession ------------------------------
(***************************************************************************)
(* Session for TLC: the sizes of the representations as a sequence.        *)
(***************************************************************************)
EXTENDS Session

MCSize     == <<2, 2>>
MCOversize == <<3>>     \* larger than the job's max_bytes
=============================================================================
