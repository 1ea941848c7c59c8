----------------------------- MODULE Semaphore -----------------------------
(* One semaphore of common/sem.c, the sleep and wake-up of kernel/sched.c   *)
(* under it, and kill() of kernel/proc.c, which may wake a sleeper.         *)
(*                                                                          *)
(* Critical sections under sem->lock are one step.  sched_lock is held      *)
(* across steps by a process that is about to sleep (pc "sched"); kill()    *)
(* sets the killed flag and alerts its target in two steps.  Which RUNNABLE *)
(* process runs next is left open (module Sched is about that choice).      *)
EXTENDS Integers, Sequences, FiniteSets

CONSTANTS Procs, InitVal,
          MaxVal       \* bound on val: the callers' posts are bounded

ASSUME SemAssumption == /\ IsFiniteSet(Procs)
                        /\ InitVal \in Nat /\ MaxVal \in Nat /\ InitVal <= MaxVal

VARIABLES val,         \* sem->val
          sleeplist,   \* sem->sleeplist, oldest first
          up,          \* wait->up of each process's WaitData
          alertable,   \* argument of its _wait_sem
          state,       \* proc->state
          pc,          \* where each process is
          killed,      \* proc->killed
          alerting     \* targets of kill() whose alert_proc is still to come

vars == <<val, sleeplist, up, alertable, state, pc, killed, alerting>>

States == {"RUNNING", "RUNNABLE", "SLEEPING", "DEEPSLEEPING"}
PCs == {"idle",        \* not in a semaphore call
        "sched",       \* inside _wait_sem, holding sched_lock
        "asleep",      \* switched away in sched
        "recheck",     \* sched returned, about to take sem->lock again
        "panic"}       \* the caller's ASSERT of an unalertable wait failed
InWait == {"sched", "asleep", "recheck"}

\* The types of the semaphore and of the processes around it; val is bounded by MaxVal.
TypeOK == /\ val \in Int /\ val <= MaxVal
          /\ sleeplist \in Seq(Procs)
          /\ up \in [Procs -> BOOLEAN] /\ alertable \in [Procs -> BOOLEAN]
          /\ state \in [Procs -> States] /\ pc \in [Procs -> PCs]
          /\ killed \in SUBSET Procs /\ alerting \in SUBSET Procs

Init == /\ val = InitVal /\ sleeplist = <<>>
        /\ up = [p \in Procs |-> FALSE] /\ alertable = [p \in Procs |-> FALSE]
        /\ state = [p \in Procs |-> "RUNNING"] /\ pc = [p \in Procs |-> "idle"]
        /\ killed = {} /\ alerting = {}
-----------------------------------------------------------------------------
SchedLockFree == \A p \in Procs : pc[p] # "sched"

Goto(p, to) == pc' = [pc EXCEPT ![p] = to]

\* _detach_from_list of the i-th waiter
Detach(i) == SubSeq(sleeplist, 1, i - 1) \o SubSeq(sleeplist, i + 1, Len(sleeplist))

\* mutant of Activate: a process in an unalertable wait is left alone
Activate_Deep(woken) ==
    [p \in Procs |-> IF p \in woken /\ state[p] = "SLEEPING"
                     THEN "RUNNABLE" ELSE state[p]]

\* _activate_proc(p, false) for each process in woken
Activate(woken) ==
    [p \in Procs |-> IF p \in woken /\ state[p] \in {"SLEEPING", "DEEPSLEEPING"}
                     THEN "RUNNABLE" ELSE state[p]]

\* _wait_sem up to lock_for_sched, or to the end when a token is there
WaitSem(p, a) ==
    /\ pc[p] = "idle"
    /\ val' = val - 1
    /\ \/ val > 0 /\ UNCHANGED <<sleeplist, up, alertable, pc>>
       \/ /\ val <= 0 /\ SchedLockFree
          /\ sleeplist' = Append(sleeplist, p)
          /\ up' = [up EXCEPT ![p] = FALSE]
          /\ alertable' = [alertable EXCEPT ![p] = a]
          /\ Goto(p, "sched")
    /\ UNCHANGED <<state, killed, alerting>>

\* mutant of Sleep: killed is not tested
Sleep_Killed(p) ==
    /\ pc[p] = "sched"
    /\ state' = [state EXCEPT ![p] = IF alertable[p] THEN "SLEEPING" ELSE "DEEPSLEEPING"]
    /\ Goto(p, "asleep")
    /\ UNCHANGED <<val, sleeplist, up, alertable, killed, alerting>>

\* simple_sched: a killed process does not sleep
Sleep(p) ==
    /\ pc[p] = "sched"
    /\ IF p \in killed
       THEN Goto(p, "recheck") /\ UNCHANGED state
       ELSE /\ state' = [state EXCEPT
                            ![p] = IF alertable[p] THEN "SLEEPING" ELSE "DEEPSLEEPING"]
            /\ Goto(p, "asleep")
    /\ UNCHANGED <<val, sleeplist, up, alertable, killed, alerting>>

\* some CPU picks p, which returns from sched
Run(p) ==
    /\ pc[p] = "asleep" /\ state[p] = "RUNNABLE" /\ SchedLockFree
    /\ state' = [state EXCEPT ![p] = "RUNNING"]
    /\ Goto(p, "recheck")
    /\ UNCHANGED <<val, sleeplist, up, alertable, killed, alerting>>

\* _wait_sem after sched: chosen by a post, or give up the place in the list;
\* the callers of an unalertable wait ASSERT its result
Recheck(p) ==
    /\ pc[p] = "recheck"
    /\ IF up[p] THEN UNCHANGED <<val, sleeplist>>
       ELSE /\ val' = val + 1
            /\ \E i \in 1..Len(sleeplist) : sleeplist[i] = p /\ sleeplist' = Detach(i)
    /\ Goto(p, IF up[p] \/ alertable[p] THEN "idle" ELSE "panic")
    /\ UNCHANGED <<up, alertable, state, killed, alerting>>

\* post_sem, by a process or an interrupt handler
PostSem ==
    /\ val < MaxVal
    /\ val' = val + 1
    /\ IF val < 0
       THEN LET w == Head(sleeplist) IN
            /\ SchedLockFree
            /\ sleeplist' = Tail(sleeplist)
            /\ up' = [up EXCEPT ![w] = TRUE]
            /\ state' = Activate({w})
       ELSE UNCHANGED <<sleeplist, up, state>>
    /\ UNCHANGED <<alertable, pc, killed, alerting>>

Sleepers == {sleeplist[i] : i \in 1..Len(sleeplist)}

\* post_all_sem posts until _get_sem takes a token back
PostAllSem ==
    /\ SchedLockFree
    /\ val' = IF val < 0 THEN 0 ELSE val
    /\ sleeplist' = <<>>
    /\ up' = [p \in Procs |-> up[p] \/ p \in Sleepers]
    /\ state' = Activate(Sleepers)
    /\ UNCHANGED <<alertable, pc, killed, alerting>>

\* get_sem takes a token without waiting, get_all_sem takes all of them
GetSem == /\ val > 0 /\ val' = val - 1
          /\ UNCHANGED <<sleeplist, up, alertable, state, pc, killed, alerting>>
GetAllSem == /\ val > 0 /\ val' = 0
             /\ UNCHANGED <<sleeplist, up, alertable, state, pc, killed, alerting>>

\* kill(): the flag first, without sched_lock
Kill(p) == /\ p \notin killed
           /\ killed' = killed \cup {p} /\ alerting' = alerting \cup {p}
           /\ UNCHANGED <<val, sleeplist, up, alertable, state, pc>>

\* ... then alert_proc, which wakes alertable sleepers only
Alert(p) == /\ p \in alerting /\ SchedLockFree
            /\ alerting' = alerting \ {p}
            /\ state' = [state EXCEPT ![p] = IF @ = "SLEEPING" THEN "RUNNABLE" ELSE @]
            /\ UNCHANGED <<val, sleeplist, up, alertable, pc, killed>>

Next == \/ \E p \in Procs : \/ \E a \in BOOLEAN : WaitSem(p, a)
                            \/ Sleep(p) \/ Run(p) \/ Recheck(p)
                            \/ Kill(p) \/ Alert(p)
        \/ PostSem \/ PostAllSem \/ GetSem \/ GetAllSem

Spec == Init /\ [][Next]_vars

\* A running process goes on (Sleep, Recheck); a RUNNABLE one is dispatched,
\* and the processor running kill() wins sched_lock, in the end.
LiveSpec == /\ Spec
            /\ \A p \in Procs : /\ SF_vars(Sleep(p) \/ Run(p) \/ Recheck(p))
                                /\ SF_vars(Alert(p))
-----------------------------------------------------------------------------
\* The processes in the list are exactly those inside _wait_sem that no post
\* has chosen, each once, and -val counts them; hence the ASSERTs in _post_sem
\* and _wait_sem hold and no process sleeps while val is positive, whatever
\* the order of posts, kills and wake-ups.
SleepersCounted ==
    /\ Len(sleeplist) = IF val < 0 THEN -val ELSE 0
    /\ \A p \in Procs : p \in Sleepers <=> pc[p] \in InWait /\ ~up[p]
    /\ \A i, j \in 1..Len(sleeplist) : sleeplist[i] = sleeplist[j] => i = j

\* A process a post has chosen is never left asleep.
NoLostWakeup ==
    \A p \in Procs : pc[p] = "asleep" /\ up[p] => state[p] = "RUNNABLE"

\* A killed process sleeps in an alertable wait only while the kill() that
\* hit it has yet to alert it: a kill between the test of killed in sched and
\* the switch is not lost.
NoLostKill ==
    \A p \in Procs : p \in killed /\ state[p] = "SLEEPING" => p \in alerting

\* The three above are inductive with: a process in its way to sleep holds
\* sched_lock, so no post has chosen it yet; one switched away is not RUNNING.
SemInv == /\ TypeOK /\ SleepersCounted /\ NoLostWakeup /\ NoLostKill
          /\ \A p \in Procs : /\ pc[p] = "sched" => ~up[p]
                              /\ pc[p] = "asleep" => state[p] # "RUNNING"

\* A waiter chosen by a post returns, and so does a killed one in an alertable
\* wait.
WaiterReturns ==
    \A p \in Procs : (pc[p] \in InWait /\ (up[p] \/ (p \in killed /\ alertable[p])))
                         ~> pc[p] = "idle"

\* lab6.md: an unalertable wait is not interrupted by kill; the callers ASSERT
\* that it returned true.
UnalertableCompletes == \A p \in Procs : pc[p] # "panic"

\* val and sleeplist agree, and neither a post nor a kill is lost on a process
\* that is about to sleep (sem.c).
SemSafe == TypeOK /\ SleepersCounted /\ NoLostWakeup /\ NoLostKill
=============================================================================
