----------------------------- MODULE MCRunQueue -----------------------------
(* Two processors, two processes and a chain of containers: q1's is inside  *)
(* q2's, which is inside the root.                                          *)
EXTENDS RunQueue, TLC

CONSTANTS q1, q2, c1, c2

Nested == q1 :> c2 @@ q2 :> c1
Chain == root_container :> <<root_container>> @@ c1 :> <<c1, root_container>>
         @@ c2 :> <<c2, c1, root_container>>
=============================================================================
