---------------------------- MODULE MCBlockCache ---------------------------
(* Three processes on two blocks, with a threshold that makes every miss    *)
(* evict what it can.                                                       *)
EXTENDS BlockCache, TLC

Symmetry == Permutations(Procs) \cup Permutations(Objs)
=============================================================================
