------------------------------ MODULE MCProcs -------------------------------
(* Processes: their tree, the hierarchy of run queues, local pids and       *)
(* address spaces.  One part per behaviour, chosen at the start: the states *)
(* of the parts add up and do not multiply.                                 *)
EXTENDS ProcTree, RunQueue, PidMap, Paging, TLC

CONSTANTS q1, q2, c1, c2

VARIABLE part

procsVars == <<part, vars, rqVars, pidVars, pgVars>>

\* q1's container is inside q2's, which is inside the root.
Nested == q1 :> c2 @@ q2 :> c1
Chain == root_container :> <<root_container>> @@ c1 :> <<c1, root_container>>
         @@ c2 :> <<c2, c1, root_container>>

ProcsInit ==
    /\ part \in {"tree", "sched", "pids", "paging"}
    /\ Init /\ RunQueueInit /\ PidMapInit /\ PagingInit
    /\ part # "pids" => bitmap = {}

\* Pids run out and calls are bounded: these parts may stop.
Stopped == part \in {"pids", "paging"} /\ UNCHANGED procsVars

ProcsNext ==
    \/ part = "tree" /\ Next /\ UNCHANGED <<part, rqVars, pidVars, pgVars>>
    \/ part = "sched" /\ RunQueueNext /\ UNCHANGED <<part, vars, pidVars, pgVars>>
    \/ part = "pids" /\ PidMapNext /\ UNCHANGED <<part, vars, rqVars, pgVars>>
    \/ part = "paging" /\ PagingNext /\ UNCHANGED <<part, vars, rqVars, pidVars>>
    \/ Stopped

ProcsSpec ==
    /\ ProcsInit /\ [][ProcsNext]_procsVars
    /\ \A p \in Procs : /\ SF_vars(part = "tree" /\ KernelStep(p))
                        /\ WF_vars(part = "tree" /\ Zombify(p))
    /\ \A p \in Procs \ {root_proc} : SF_vars(part = "tree" /\ p \in killed /\ Exit(p))
=============================================================================
