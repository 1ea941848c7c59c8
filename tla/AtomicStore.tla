---------------------------- MODULE AtomicStore ----------------------------
(* What the write-ahead log of fs/cache.c promises its callers: the updates *)
(* of an operation reach the disk all at once, only when no operation is    *)
(* half done, and a crash brings back the last commit, never a mixture.     *)
EXTENDS Naturals

CONSTANTS Procs, Blocks, Values

VARIABLES committed,   \* what survives a crash
          current,     \* what operations have written so far
          active       \* processes inside an operation

store == <<committed, current, active>>

Init == /\ committed \in [Blocks -> Values]
        /\ current = committed /\ active = {}

Begin(p) == /\ p \notin active
            /\ active' = active \cup {p}
            /\ UNCHANGED <<committed, current>>

\* an operation writes a block; nothing becomes durable yet
Write(p, b, v) == /\ p \in active
                  /\ current' = [current EXCEPT ![b] = v]
                  /\ UNCHANGED <<committed, active>>

End(p) == /\ p \in active
          /\ active' = active \ {p}
          /\ UNCHANGED <<committed, current>>

\* every update of the finished operations becomes durable in one step
Commit == /\ active = {}
          /\ committed' = current
          /\ UNCHANGED <<current, active>>

\* a crash forgets exactly the updates that were not committed
Crash == /\ current' = committed /\ active' = {}
         /\ UNCHANGED committed

Next == \/ \E p \in Procs : \/ Begin(p) \/ End(p)
                            \/ \E b \in Blocks, v \in Values : Write(p, b, v)
        \/ Commit
        \/ Crash

Spec == Init /\ [][Next]_store
=============================================================================
