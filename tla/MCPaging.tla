------------------------------ MODULE MCPaging ------------------------------
(* A parent and a child with four frames.                                   *)
EXTENDS Paging

ForkSpec == PagingInit /\ [][PagingNext]_pgVars
=============================================================================
