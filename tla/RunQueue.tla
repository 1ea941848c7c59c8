----------------------------- MODULE RunQueue ------------------------------
(***************************************************************************)
(* kernel/sched.c with kernel/container.c: the run queues of the           *)
(* containers, the process every CPU runs, and the preemption timers.      *)
(* sched_lock makes simple_sched and _activate_proc one step each.         *)
(*                                                                         *)
(* A red-black tree is the set of its nodes and _rb_first any node of the  *)
(* least vruntime: cfs_cmp breaks ties by prio and address, kill changes   *)
(* the prio of a linked node, and nodes of equal vruntime stay together.   *)
(* A process or container is one struct schinfo; idle processes have none  *)
(* here, and where thisproc() is idle its vruntime is any value.           *)
(***************************************************************************)
EXTENDS Integers, Sequences, FiniteSets, FiniteSetsExt

CONSTANTS RqProcs, RqCPUs, RqIdle,
          Containers, root_container,
          Home,        \* process -> its container
          Up,          \* container -> the containers from it to root_container
          prio_to_weight, KilledWeight,   \* of prio 21 (820), and after kill (88761)
          WeightMod,   \* 2^32: weight_sum is unsigned int
          MaxRuntime, RqMaxKills   \* bounds of the model: vruntime, calls of kill

\* Up[c] starts at c, ends at the root, and goes on from each of its containers as
\* the path of that one does: the parents form a tree.
ASSUME RqAssumption ==
    /\ IsFiniteSet(RqProcs) /\ IsFiniteSet(Containers) /\ RqProcs \cap Containers = {}
    /\ RqIdle \notin RqProcs \cup Containers /\ root_container \in Containers
    /\ Home \in [RqProcs -> Containers]
    /\ Up \in [Containers -> Seq(Containers)]
    /\ \A c \in Containers :
          /\ Up[c] # << >> /\ Up[c][1] = c /\ Up[c][Len(Up[c])] = root_container
          /\ \A i \in 1 .. Len(Up[c]) : Up[Up[c][i]] = SubSeq(Up[c], i, Len(Up[c]))
    /\ Up[root_container] = <<root_container>>
    /\ prio_to_weight \in Nat /\ KilledWeight \in Nat /\ WeightMod \in Nat \ {0}
    /\ MaxRuntime \in Nat

VARIABLES st,          \* process -> enum procstate
          vruntime, weight,        \* of processes and containers
          rq,          \* container -> nodes of its tree
          nr_running, weight_sum,  \* container -> struct cfs_rq
          cur_proc,    \* CPU -> process
          timerOn,     \* CPU -> proc_timer.data, set while the timer is in the tree
          rqKilled,
          alerting,    \* kill has set killed and not yet called alert_proc
          grouped,     \* containers whose creator has called activate_group
          mixed        \* a process changed weight while it was in weight_sum

rqVars == <<st, vruntime, weight, rq, nr_running, weight_sum, cur_proc, timerOn,
            rqKilled, alerting, grouped, mixed>>

Nodes == RqProcs \cup (Containers \ {root_container})
Path(p) == Up[Home[p]]                       \* from p's container to the root
Parent(c) == Up[c][2]

\* init_schinfo, init_schqueue, define_init(scheduler): every CPU runs its idle.
RunQueueInit ==
    /\ st = [p \in RqProcs |-> "UNUSED"]
    /\ vruntime = [e \in Nodes |-> 0]
    /\ weight = [e \in Nodes |-> prio_to_weight]
    /\ rq = [c \in Containers |-> {}]
    /\ nr_running = [c \in Containers |-> 0]
    /\ weight_sum = [c \in Containers |-> 0]
    /\ cur_proc = [k \in RqCPUs |-> RqIdle]
    /\ timerOn = [k \in RqCPUs |-> FALSE]
    /\ rqKilled = {} /\ alerting = {} /\ grouped = {} /\ mixed = FALSE

-----------------------------------------------------------------------------
\* _rb_first, as the set of nodes it may be.
First(tree, vr) == {e \in tree : \A f \in tree : vr[e] <= vr[f]}

\* The values get_minvruntime can return on CPU k.
get_minvruntime(c, k) ==
    IF rq[c] # {} THEN {vruntime[e] : e \in First(rq[c], vruntime)}
    ELSE IF cur_proc[k] = RqIdle THEN 0 .. MaxRuntime
    ELSE {vruntime[cur_proc[k]]}

\* How far up the path the queues are empty (n = 0) or hold this one node (n = 1):
\* the containers that enter, or leave, their parent's tree.
Cascade(p, n) ==
    {Path(p)[i] : i \in {i \in 1 .. Len(Path(p)) - 1 : \A j \in 1 .. i : nr_running[Path(p)[j]] = n}}

\* The nodes put into, or taken out of, container c when p becomes runnable, or
\* stops being so.
Entering(p, moving, c) == {e \in {p} \cup moving : IF e = p THEN c = Home[p] ELSE c = Parent(e)}

\* The sum of the weights w of S: one pair for each unit.
Summed(S, w) == Cardinality(UNION {{e} \X (1 .. w[e]) : e \in S})

\* _activate_proc on CPU k.
Activated(p, k, moving) ==
    /\ st' = [st EXCEPT ![p] = "RUNNABLE"]
    /\ \E mins \in [{p} \cup moving -> 0 .. MaxRuntime] :
          /\ \A e \in {p} \cup moving :
                mins[e] \in get_minvruntime(IF e = p THEN Home[p] ELSE Parent(e), k)
          /\ vruntime' = [e \in Nodes |-> IF e \in DOMAIN mins THEN Max({vruntime[e], mins[e]})
                                          ELSE vruntime[e]]
    /\ rq' = [c \in Containers |-> rq[c] \cup Entering(p, moving, c)]
    /\ nr_running' = [c \in Containers |-> nr_running[c] + Cardinality(Entering(p, moving, c))]
    /\ weight_sum' = [c \in Containers |->
           (weight_sum[c] + Summed(Entering(p, moving, c), weight)) % WeightMod]
    /\ UNCHANGED <<weight, cur_proc, timerOn, rqKilled, grouped, mixed>>

Asleep(onalert) == {"SLEEPING", "UNUSED"} \cup IF onalert THEN {} ELSE {"DEEPSLEEPING"}

\* activate_proc: a wake-up, or start_proc for an UNUSED process.
RqActivate(p, k) ==
    /\ st[p] \in Asleep(FALSE)
    /\ Activated(p, k, Cascade(p, 0))
    /\ UNCHANGED alerting

\* create_container calls activate_group once its root process is started.
ActivateGroup(c, k) ==
    /\ c \notin grouped /\ c # root_container
    /\ \E p \in RqProcs : Home[p] = c /\ st[p] # "UNUSED"
    /\ \E min \in get_minvruntime(Parent(c), k) :
          vruntime' = [vruntime EXCEPT ![c] = Max({@, min})]
    /\ grouped' = grouped \cup {c}
    /\ UNCHANGED <<st, weight, rq, nr_running, weight_sum, cur_proc, timerOn, rqKilled,
                   alerting, mixed>>

-----------------------------------------------------------------------------
\* kill, without sched_lock: the flag, the prio and the weight.
RqKill(p) ==
    /\ st[p] # "UNUSED"                \* -1
    /\ p \notin rqKilled /\ Cardinality(rqKilled) < RqMaxKills
    /\ rqKilled' = rqKilled \cup {p} /\ alerting' = alerting \cup {p}
    /\ weight' = [weight EXCEPT ![p] = KilledWeight]
    /\ mixed' = (mixed \/ st[p] \in {"RUNNABLE", "RUNNING"})
    /\ UNCHANGED <<st, vruntime, rq, nr_running, weight_sum, cur_proc, timerOn, grouped>>

\* alert_proc at the end of kill: _activate_proc(p, true).
RqAlert(p, k) ==
    /\ p \in alerting
    /\ alerting' = alerting \ {p}
    /\ IF st[p] \in Asleep(TRUE) THEN Activated(p, k, Cascade(p, 0))
       ELSE UNCHANGED <<st, vruntime, weight, rq, nr_running, weight_sum, cur_proc,
                        timerOn, rqKilled, grouped, mixed>>

-----------------------------------------------------------------------------
\* The search goes down from root_container to c: on the way every first node is
\* the next container.
Descends(c, tree, vr) ==
    \A i \in 1 .. Len(Up[c]) - 1 : Up[c][i] \in First(tree[Up[c][i + 1]], vr)

\* recur_get_proc(&root_container): a container whose tree is empty ends the search,
\* whatever else the trees above it hold.
recur_get_proc(tree, vr) ==
    UNION {IF tree[c] = {} THEN {RqIdle} ELSE First(tree[c], vr) \cap RqProcs :
             c \in {c \in Containers : Descends(c, tree, vr)}}

\* pick_next and the rest of simple_sched: next leaves its tree, becomes RUNNING,
\* and update_this_proc sets the timer anew.
Dispatch(k, tree, vr, states) ==
    \E next \in recur_get_proc(tree, vr) :
        /\ cur_proc' = [cur_proc EXCEPT ![k] = next]
        /\ timerOn' = [timerOn EXCEPT ![k] = TRUE]
        /\ vruntime' = vr
        /\ st' = [p \in RqProcs |-> IF p = next THEN "RUNNING" ELSE states[p]]
        /\ rq' = [c \in Containers |-> tree[c] \ {next}]

\* What leaves the tree, or the count, of c when p stops in new_state.
Gone(p, new_state, leaving, c) == IF new_state = "RUNNABLE" THEN {} ELSE Entering(p, leaving, c)

\* The trees when update_this_state is done: p is back in its own, or gone.
TreesLeft(p, new_state, leaving) ==
    [c \in Containers |-> IF new_state = "RUNNABLE" /\ c = Home[p] THEN rq[c] \cup {p}
                          ELSE rq[c] \ Gone(p, new_state, leaving, c)]

\* p and the containers around it have used delta.
Aged(p, delta) ==
    [e \in Nodes |-> IF e = p \/ \E i \in 1 .. Len(Path(p)) : e = Path(p)[i]
                     THEN vruntime[e] + delta ELSE vruntime[e]]

\* The current process of k gives up the CPU after delta of virtual time.
SchedWith(k, new_state, delta, leaving) ==
    LET p == cur_proc[k]
    IN  /\ p # RqIdle
        /\ \A e \in Nodes : Aged(p, delta)[e] <= MaxRuntime
        /\ nr_running' = [c \in Containers |->
               nr_running[c] - Cardinality(Gone(p, new_state, leaving, c))]
        /\ weight_sum' = [c \in Containers |->
               (weight_sum[c] - Summed(Gone(p, new_state, leaving, c), weight)) % WeightMod]
        /\ Dispatch(k, TreesLeft(p, new_state, leaving), Aged(p, delta), [st EXCEPT ![p] = new_state])
        /\ UNCHANGED <<weight, rqKilled, alerting, grouped, mixed>>

Emptied(k) == Cascade(cur_proc[k], 1)

\* A killed process leaves its CPU only to be a zombie.
MayLeave(k, new_state) == cur_proc[k] \notin rqKilled \/ new_state = "ZOMBIE"

\* Mutant: the test of killed is missing.
RqSched_Killed(k, new_state, delta) == SchedWith(k, new_state, delta, Emptied(k))

\* Mutant: only the container of the process leaves, never the ones above it.
RqSched_OneLevel(k, new_state, delta) ==
    /\ MayLeave(k, new_state)
    /\ SchedWith(k, new_state, delta, Emptied(k) \cap {Home[cur_proc[k]]})

\* sched(SLEEPING), sched(DEEPSLEEPING), sched(ZOMBIE), yield.
RqSched(k, new_state, delta) ==
    MayLeave(k, new_state) /\ SchedWith(k, new_state, delta, Emptied(k))

\* The idle process of k is interrupted by its timer, or enters the loop first.
RqIdleSched(k) ==
    /\ cur_proc[k] = RqIdle
    /\ Dispatch(k, rq, vruntime, st)
    /\ UNCHANGED <<nr_running, weight_sum, weight, rqKilled, alerting, grouped, mixed>>

\* timer_clock_handler runs proc_timer_handle for a process: the timer has left the
\* tree, data is 0, and sched(RUNNABLE) returns at once if the process is killed.
TimerWith(k, delta, yields) ==
    /\ timerOn[k]
    /\ IF yields
       THEN SchedWith(k, "RUNNABLE", delta, Emptied(k))
       ELSE /\ timerOn' = [timerOn EXCEPT ![k] = FALSE]
            /\ UNCHANGED <<st, vruntime, weight, rq, nr_running, weight_sum, cur_proc,
                           rqKilled, alerting, grouped, mixed>>

\* Mutant: a process alone on its queue keeps the CPU and the timer stays off.
RqTimer_KeepsCPU(k, delta) ==
    TimerWith(k, delta, cur_proc[k] # RqIdle /\ cur_proc[k] \notin rqKilled
                        /\ nr_running[Home[cur_proc[k]]] > 1)

RqTimer(k, delta) ==
    cur_proc[k] # RqIdle /\ TimerWith(k, delta, cur_proc[k] \notin rqKilled)

RunQueueNext ==
    \/ \E p \in RqProcs : RqKill(p)
    \/ \E k \in RqCPUs :
         \/ \E p \in RqProcs : RqActivate(p, k) \/ RqAlert(p, k)
         \/ \E c \in Containers : ActivateGroup(c, k)
         \/ \E s \in {"SLEEPING", "DEEPSLEEPING", "ZOMBIE", "RUNNABLE"}, d \in 0 .. 1 :
               RqSched(k, s, d)
         \/ RqIdleSched(k)
         \/ \E d \in 0 .. 1 : RqTimer(k, d)

RqSpec == RunQueueInit /\ [][RunQueueNext]_rqVars

-----------------------------------------------------------------------------
Running(s, c) == {p \in RqProcs : Home[p] = c /\ s[p] = "RUNNING"}

Counted(tree, s, c) == tree[c] \cup Running(s, c)

\* Types; each process is RUNNING on at most one CPU, as the states say.
RqTypeOK ==
    /\ st \in [RqProcs -> {"UNUSED", "RUNNABLE", "RUNNING", "SLEEPING", "DEEPSLEEPING", "ZOMBIE"}]
    /\ vruntime \in [Nodes -> 0 .. MaxRuntime]
    /\ \A c \in Containers : nr_running[c] \in 0 .. Cardinality(Nodes)
    /\ \A p \in RqProcs : Cardinality({k \in RqCPUs : cur_proc[k] = p})
                            = IF st[p] = "RUNNING" THEN 1 ELSE 0

\* The trees hold what can run and nothing else: a process is in the tree of its
\* container exactly when it is RUNNABLE, a container in its parent's tree exactly
\* when it counts a process, and nr counts the tree and the processes that run.
Queued(tree, s, nr) ==
    /\ \A p \in RqProcs, c \in Containers : p \in tree[c] <=> (c = Home[p] /\ s[p] = "RUNNABLE")
    /\ \A d \in Containers \ {root_container}, c \in Containers :
          d \in tree[c] <=> (c = Parent(d) /\ nr[d] > 0)
    /\ \A c \in Containers : nr[c] = Cardinality(Counted(tree, s, c))

\* So every ready process can be reached from root_container, and the _rb_erase calls
\* of update_this_state find their nodes.
RqReachable == Queued(rq, st, nr_running)

\* weight_sum, the divisor of the time slice, is the weight of what the queue
\* counts, as long as kill never met a process that was counted.
Weighed(tree, s, w, sum) ==
    \A c \in Containers : sum[c] = Summed(Counted(tree, s, c), w) % WeightMod

RqWeights == ~mixed => Weighed(rq, st, weight, weight_sum)

\* kill cannot miss: a killed process is not asleep once alert_proc has been called,
\* unless its sleep is one that kill must not end.
RqKilledAwake ==
    \A p \in rqKilled \ alerting : st[p] # "SLEEPING"

\* No process keeps a CPU for ever: the preemption timer of its CPU is set, except
\* for a killed process whose timer has fired.
RqPreemptible ==
    \A k \in RqCPUs : cur_proc[k] = RqIdle \/ cur_proc[k] \in rqKilled \/ timerOn[k]

\* lab7-more.md: the idle process is chosen only when no process of the whole
\* system can be scheduled.
RqIdleOnlyWhenEmpty ==
    [][\A k \in RqCPUs : (timerOn'[k] /\ cur_proc'[k] = RqIdle /\ cur_proc[k] # RqIdle)
          => \A p \in RqProcs : st'[p] # "RUNNABLE"]_rqVars

\* The bookkeeping of sched.c: states, trees, nr_running and weight_sum of all levels
\* agree, and a process runs on one CPU.
RqSafe == RqTypeOK /\ RqReachable /\ RqWeights

-----------------------------------------------------------------------------
\* What the proof of the invariants needs: the types of the rest, and the states say
\* which process a CPU runs.
RqStates == {"UNUSED", "RUNNABLE", "RUNNING", "SLEEPING", "DEEPSLEEPING", "ZOMBIE"}

RqTypes ==
    /\ st \in [RqProcs -> RqStates] /\ vruntime \in [Nodes -> 0 .. MaxRuntime]
    /\ weight \in [Nodes -> {prio_to_weight, KilledWeight}] /\ rq \in [Containers -> SUBSET Nodes]
    /\ nr_running \in [Containers -> Nat] /\ weight_sum \in [Containers -> 0 .. WeightMod - 1]
    /\ cur_proc \in [RqCPUs -> RqProcs \cup {RqIdle}] /\ timerOn \in [RqCPUs -> BOOLEAN]
    /\ rqKilled \subseteq RqProcs /\ alerting \subseteq rqKilled

RqCurrent ==
    /\ \A k \in RqCPUs : cur_proc[k] # RqIdle => st[cur_proc[k]] = "RUNNING"
    /\ \A p \in RqProcs : st[p] = "RUNNING" => \E k \in RqCPUs : cur_proc[k] = p
    /\ \A k, l \in RqCPUs : cur_proc[k] = cur_proc[l] /\ cur_proc[k] # RqIdle => k = l

RqInv == RqTypes /\ RqCurrent /\ RqReachable /\ RqWeights /\ RqKilledAwake /\ RqPreemptible
=============================================================================
