------------------------------- MODULE MCLog -------------------------------
(* Two or three processes, one or two blocks, a log of two slots.           *)
EXTENDS Log
=============================================================================
