---------------------------- MODULE MCResources -----------------------------
(* What hands things out and takes them back: the log its slots, the file   *)
(* table its entries, the page allocator its pages, kalloc its blocks and   *)
(* the red-black tree its nodes.  One part per behaviour, chosen at the     *)
(* start: the states of the parts add up and do not multiply.               *)
EXTENDS Log, FileTable, PageQueue, Kalloc, RbTree, TLC

VARIABLE part

resourcesVars == <<part, vars, ftVars, pqVars, kaVars, rbVars>>

ElevenKeys == 1..11

Symmetry == Permutations(Procs \ Readers) \cup Permutations(Blocks) \cup Permutations(Values)

ResourcesInit ==
    /\ part \in {"log", "table", "pages", "kalloc", "rbtree"}
    /\ Init /\ FileTableInit /\ PageQueueInit /\ KallocInit /\ RbTreeInit
    /\ part # "log" => \E v \in Values :
           disk = [b \in Blocks |-> v] /\ logArea = [i \in 1..MaxSize |-> v]
    /\ part # "pages" => pqUse = "pages"

\* Calls are bounded: these parts may stop.
Stopped == part \in {"table", "pages"} /\ UNCHANGED resourcesVars

ResourcesNext ==
    \/ part = "log" /\ Next /\ UNCHANGED <<part, ftVars, pqVars, kaVars, rbVars>>
    \/ part = "table" /\ FileTableNext /\ UNCHANGED <<part, vars, pqVars, kaVars, rbVars>>
    \/ part = "pages" /\ PageQueueNext /\ UNCHANGED <<part, vars, ftVars, kaVars, rbVars>>
    \/ part = "kalloc" /\ KallocNext /\ UNCHANGED <<part, vars, ftVars, pqVars, rbVars>>
    \/ part = "rbtree" /\ RbTreeNext /\ UNCHANGED <<part, vars, ftVars, pqVars, kaVars>>
    \/ Stopped

ResourcesSpec == ResourcesInit /\ [][ResourcesNext]_resourcesVars
=============================================================================
