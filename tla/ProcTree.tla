----------------------------- MODULE ProcTree ------------------------------
(* The process tree of kernel/proc.c: fork, start_proc, exit, wait and kill *)
(* with the childexit semaphore of each process, in one container.          *)
(*                                                                          *)
(* A critical section under proc_tree_lock is one step.  An exiting process *)
(* drops proc_tree_lock while it holds sched_lock and becomes ZOMBIE only   *)
(* then (pc "zombify"); is_zombie and every wake-up need sched_lock.  The   *)
(* semaphore is the one of module Semaphore, reduced to its only possible   *)
(* waiter, the owner.  A struct proc that was freed may be allocated again. *)
EXTENDS Integers, FiniteSets

CONSTANTS Procs,       \* struct procs in memory
          root_proc, NoProc

ASSUME TreeAssumption == /\ IsFiniteSet(Procs)
                         /\ root_proc \in Procs /\ NoProc \notin Procs

VARIABLES state,       \* "free" when not allocated; "LIVE" stands for RUNNABLE,
                       \* RUNNING and SLEEPING
          parent, killed,
          pc, child,   \* child: the process a caller of fork is building
          val, up      \* childexit: its val, and the up flag of the owner's wait

vars == <<state, parent, killed, pc, child, val, up>>

\* The types of the tree; a process that has started has a parent.
TypeOK ==
    /\ state \in [Procs -> {"free", "UNUSED", "LIVE", "ZOMBIE"}]
    /\ parent \in [Procs -> Procs \cup {NoProc}]
    /\ killed \in SUBSET Procs
    /\ pc \in [Procs -> {"run", "fork", "wait", "asleep", "reap", "exit", "zombify"}]
    /\ child \in [Procs -> Procs \cup {NoProc}]
    /\ val \in [Procs -> Int] /\ up \in SUBSET Procs
    /\ \A p \in Procs : (state[p] \in {"LIVE", "ZOMBIE"}) => parent[p] \in Procs

Init ==
    /\ state = [p \in Procs |-> IF p = root_proc THEN "LIVE" ELSE "free"]
    /\ parent = [p \in Procs |-> IF p = root_proc THEN p ELSE NoProc]
    /\ killed = {} /\ up = {}
    /\ pc = [p \in Procs |-> "run"]
    /\ child = [p \in Procs |-> NoProc]
    /\ val = [p \in Procs |-> 0]

At(p, place) == state[p] = "LIVE" /\ pc[p] = place
Goto(p, to) == pc' = [pc EXCEPT ![p] = to]

\* root_proc is its own parent but is in nobody's list of children
Children(p) == {c \in Procs \ {root_proc} : parent[c] = p}
Zombies(p) == {c \in Children(p) : state[c] = "ZOMBIE"}

SchedLockFree == \A p \in Procs : ~At(p, "zombify")
-----------------------------------------------------------------------------
\* create_proc, and set_parent_to_this when called from fork
Create(p, c, par) ==
    /\ At(p, "run") /\ state[c] = "free"
    /\ state' = [state EXCEPT ![c] = "UNUSED"]
    /\ parent' = [parent EXCEPT ![c] = par]
    /\ val' = [val EXCEPT ![c] = 0]
    /\ killed' = killed \ {c} /\ up' = up \ {c}
    /\ child' = [child EXCEPT ![p] = c, ![c] = NoProc]
    /\ pc' = [pc EXCEPT ![p] = "fork", ![c] = "run"]

\* start_proc: a process without parent becomes a child of root_proc
StartProc(p) ==
    LET c == child[p] IN
    /\ At(p, "fork") /\ SchedLockFree
    /\ parent' = [parent EXCEPT ![c] = IF @ = NoProc THEN root_proc ELSE @]
    /\ state' = [state EXCEPT ![c] = "LIVE"]
    /\ child' = [child EXCEPT ![p] = NoProc]
    /\ Goto(p, "run")
    /\ UNCHANGED <<killed, val, up>>

\* wait() up to the semaphore: -1 without children
Wait(p) ==
    /\ At(p, "run") /\ Children(p) # {}
    /\ Goto(p, "wait")
    /\ UNCHANGED <<state, parent, killed, child, val, up>>

\* wait_sem(&childexit): take a token, sleep, or give up when killed
WaitSem(p) ==
    /\ At(p, "wait") /\ SchedLockFree
    /\ IF val[p] > 0
       THEN val' = [val EXCEPT ![p] = @ - 1] /\ Goto(p, "reap") /\ UNCHANGED up
       ELSE IF p \in killed
       THEN Goto(p, "run") /\ UNCHANGED <<val, up>>
       ELSE /\ val' = [val EXCEPT ![p] = @ - 1] /\ up' = up \ {p}
            /\ Goto(p, "asleep")
    /\ UNCHANGED <<state, parent, killed, child>>

\* mutant of Woken: kill does not wake
Woken_Post(p) ==
    /\ At(p, "asleep") /\ p \in up /\ SchedLockFree
    /\ Goto(p, "reap")
    /\ UNCHANGED <<state, parent, killed, child, val, up>>

\* back from sched, woken by a post or by kill
Woken(p) ==
    /\ At(p, "asleep") /\ (p \in up \/ p \in killed) /\ SchedLockFree
    /\ IF p \in up THEN Goto(p, "reap") /\ UNCHANGED val
       ELSE val' = [val EXCEPT ![p] = @ + 1] /\ Goto(p, "run")
    /\ UNCHANGED <<state, parent, killed, child, up>>

\* wait() after the semaphore: free the first zombie child; PANIC without one
Reap(p) ==
    /\ At(p, "reap") /\ SchedLockFree
    /\ \E c \in Zombies(p) : /\ state' = [state EXCEPT ![c] = "free"]
                             /\ parent' = [parent EXCEPT ![c] = NoProc]
    /\ Goto(p, "run")
    /\ UNCHANGED <<killed, child, val, up>>

\* kill(): the flag, and alert_proc; -1 for a process that has not started
Kill(c) ==
    /\ c # root_proc /\ state[c] \in {"LIVE", "ZOMBIE"} /\ SchedLockFree
    /\ killed' = killed \cup {c}
    /\ UNCHANGED <<state, parent, pc, child, val, up>>

\* exit(): files and the working directory are given back first
Exit(p) ==
    /\ At(p, "run") /\ p # root_proc
    /\ Goto(p, "exit")
    /\ UNCHANGED <<state, parent, killed, child, val, up>>

\* n posts of q's childexit: the owner, if asleep, is given the first token
PostChildExit(q, n) ==
    /\ val' = [val EXCEPT ![q] = @ + n]
    /\ up' = IF n > 0 /\ val[q] < 0 THEN up \cup {q} ELSE up

\* mutant of ExitTree: the new parent is not told of zombies it inherits
ExitTree_Silent(p) ==
    /\ At(p, "exit") /\ SchedLockFree
    /\ parent' = [c \in Procs |-> IF c \in Children(p) THEN root_proc ELSE parent[c]]
    /\ PostChildExit(parent[p], 1)
    /\ Goto(p, "zombify")
    /\ UNCHANGED <<state, killed, child>>

\* mutant of ExitTree: the parent is not told
ExitTree_Untold(p) ==
    /\ At(p, "exit") /\ SchedLockFree
    /\ parent' = [c \in Procs |-> IF c \in Children(p) THEN root_proc ELSE parent[c]]
    /\ PostChildExit(root_proc, Cardinality(Zombies(p)))
    /\ Goto(p, "zombify")
    /\ UNCHANGED <<state, killed, child>>

\* exit() under proc_tree_lock: root_proc inherits the children and is told of
\* the zombies among them, then the parent is told; sched_lock is taken
ExitTree(p) ==
    /\ At(p, "exit") /\ SchedLockFree
    /\ parent' = [c \in Procs |-> IF c \in Children(p) THEN root_proc ELSE parent[c]]
    /\ LET n == Cardinality(Zombies(p)) IN
       IF parent[p] = root_proc THEN PostChildExit(root_proc, n + 1)
       ELSE /\ val' = [val EXCEPT ![root_proc] = @ + n, ![parent[p]] = @ + 1]
            /\ up' = up \cup {q \in {root_proc, parent[p]} :
                                  val[q] < 0 /\ (q = parent[p] \/ n > 0)}
    /\ Goto(p, "zombify")
    /\ UNCHANGED <<state, killed, child>>

\* sched(ZOMBIE), still holding sched_lock
Zombify(p) ==
    /\ At(p, "zombify")
    /\ state' = [state EXCEPT ![p] = "ZOMBIE"]
    /\ UNCHANGED <<parent, killed, pc, child, val, up>>

Next == \E p \in Procs :
            \/ \E c \in Procs, par \in {p, NoProc} : Create(p, c, par)
            \/ StartProc(p) \/ Wait(p) \/ WaitSem(p) \/ Woken(p) \/ Reap(p)
            \/ Kill(p) \/ Exit(p) \/ ExitTree(p) \/ Zombify(p)

Spec == Init /\ [][Next]_vars

\* the step a process takes next inside fork, wait or exit
KernelStep(p) == StartProc(p) \/ WaitSem(p) \/ Woken(p) \/ Reap(p) \/ ExitTree(p)

\* A system call that does not sleep comes to its end and spinlocks are won
\* (SF on KernelStep); a killed process leaves through exit() when it returns
\* to user space.
LiveSpec ==
    /\ Spec
    /\ \A p \in Procs : SF_vars(KernelStep(p)) /\ WF_vars(Zombify(p))
    /\ \A p \in Procs \ {root_proc} : SF_vars(p \in killed /\ Exit(p))
-----------------------------------------------------------------------------
\* the children a process has been told of, or is being told of
Exited(p) == {c \in Children(p) : state[c] = "ZOMBIE" \/ At(c, "zombify")}

\* childexit counts the exited children of a live process: tokens in val, and
\* the one its owner has been given and not used yet, through kills, exits of
\* the owner's children and inheritance of other processes' zombies.
ChildExitCounts ==
    \A p \in Procs : state[p] = "LIVE" /\ pc[p] # "zombify" =>
        Cardinality(Exited(p)) =
            val[p] + (IF pc[p] = "asleep" THEN 1 ELSE 0)
                   + (IF pc[p] = "reap" THEN 1 ELSE 0)

\* The PANIC at the end of wait() is not reached: a process that got a token
\* finds a zombie child as soon as the locks it needs are free.
WaitFindsZombie == \A p \in Procs : At(p, "reap") /\ SchedLockFree => Zombies(p) # {}

\* Every process in the tree has a live parent that is not past the point in
\* exit() where it gave its children away: nobody is left with a ZOMBIE or
\* freed parent whose childexit it would post.
LiveParents ==
    \A c \in Procs : state[c] # "free" /\ parent[c] # NoProc =>
        At(parent[c], "zombify") = FALSE /\ state[parent[c]] = "LIVE"

-----------------------------------------------------------------------------
(* What is needed to show the invariants by induction.                      *)

\* the root process never exits, and only it is its own parent
RootStays ==
    /\ state[root_proc] = "LIVE" /\ pc[root_proc] \notin {"exit", "zombify"}
    /\ \A c \in Procs : parent[c] = c <=> c = root_proc

\* a process under construction has one builder and nothing on childexit
Building ==
    /\ \A p \in Procs : At(p, "fork") => child[p] \in Procs /\ state[child[p]] = "UNUSED"
    /\ \A p, q \in Procs : At(p, "fork") /\ At(q, "fork") /\ child[p] = child[q] => p = q
    /\ \A c \in Procs : /\ state[c] = "UNUSED" => val[c] = 0 /\ pc[c] = "run"
                        /\ state[c] = "free" => parent[c] = NoProc

\* who was given a token left val nonnegative
TokenGiven ==
    \A p \in Procs : At(p, "reap") \/ (At(p, "asleep") /\ p \in up) => val[p] >= 0

\* The inductive invariant of the process tree.
TreeInv == /\ TypeOK /\ RootStays /\ Building /\ LiveParents
           /\ ChildExitCounts /\ TokenGiven
-----------------------------------------------------------------------------
\* kill takes effect: a killed process dies, wherever it was.
KilledDies == \A p \in Procs : p \in killed /\ state[p] = "LIVE" ~> state[p] # "LIVE"

\* A process in wait() with an exited child, its own or inherited, returns:
\* it does not sleep on childexit beside an unreaped zombie.
WaitReturns ==
    \A p \in Procs : pc[p] \in {"wait", "asleep", "reap"} /\ Exited(p) # {} ~> pc[p] = "run"

\* The tree of proc.c: childexit counts the exits that wait() has not seen, wait()
\* finds a zombie for every token (its PANIC is not reached), and every process has
\* a live parent, whatever exits at once.
TreeSafe == TypeOK /\ ChildExitCounts /\ WaitFindsZombie /\ LiveParents
=============================================================================
