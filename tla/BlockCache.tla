---------------------------- MODULE BlockCache -----------------------------
(* cache_acquire, cache_release and LRU_shrink of fs/cache.c with the Block *)
(* structs they allocate and free, and the SleepLock in each of them.       *)
(*                                                                          *)
(* A critical section under the cache's spinlock (device_read included) is  *)
(* one step.  A process that finds its block acquired drops that lock       *)
(* before it waits on the block's own semaphore (pc "towait").  A freed     *)
(* struct keeps its content until it is allocated again; it is allocated    *)
(* again as a Block.  Processes here are not killed (see Semaphore) and     *)
(* hold one block at a time.                                                *)
EXTENDS Integers, Sequences, FiniteSets, Functions

CONSTANTS Procs, Blocks,
          Objs,        \* Block structs in memory
          Threshold,   \* EVICTION_THRESHOLD
          NoObj

ASSUME CacheAssumption == Threshold \in Nat \ {0} /\ NoObj \notin Objs

VARIABLES list,        \* the LRU list, most recent first
          cache_cnt,
          block_no, acquired, pinned, val, sleeplist,   \* fields of each struct
          pc, want,    \* want: argument of cache_acquire
          obj,         \* its variable cached_block
          if_back

blockVars == <<block_no, pinned>>
vars == <<list, cache_cnt, blockVars, acquired, val, sleeplist, pc, want, obj, if_back>>

Listed == Range(list)

\* s without the elements of S: its k-th place has the k-th element kept
Without(s, S) ==
    LET kept == {i \in 1..Len(s) : s[i] \notin S}
    IN  [k \in 1..Cardinality(kept) |->
            s[CHOOSE i \in kept : Cardinality({j \in kept : j <= i}) = k]]

\* The types of the block list and of the structs in it.
TypeOK ==
    /\ list \in Seq(Objs) /\ cache_cnt \in Nat
    /\ block_no \in [Objs -> Blocks]
    /\ acquired \in SUBSET Objs /\ pinned \in SUBSET Objs
    /\ val \in [Objs -> Int] /\ sleeplist \in [Objs -> Seq(Procs)]
    /\ pc \in [Procs -> {"idle", "lookup", "towait", "asleep", "holding"}]
    /\ want \in [Procs -> Blocks] /\ obj \in [Procs -> Objs \cup {NoObj}]
    /\ if_back \in [Procs -> BOOLEAN]

Init ==
    /\ list = <<>> /\ cache_cnt = 0
    /\ \E b \in Blocks : /\ block_no = [o \in Objs |-> b]
                         /\ want = [p \in Procs |-> b]
    /\ acquired = {} /\ pinned = {}
    /\ val = [o \in Objs |-> 1] /\ sleeplist = [o \in Objs |-> <<>>]
    /\ pc = [p \in Procs |-> "idle"] /\ obj = [p \in Procs |-> NoObj]
    /\ if_back = [p \in Procs |-> FALSE]
-----------------------------------------------------------------------------
\* mutant of Victims: pinned blocks may go
Victims_Pinned ==
    LET free(i) == list[i] \notin acquired
        excess == cache_cnt - Threshold + 1
    IN  {list[i] : i \in {j \in DOMAIN list :
            free(j) /\ Cardinality({k \in j..Len(list) : free(k)}) <= excess}}

\* what LRU_shrink evicts: from the tail, unless pinned or acquired, until
\* cache_cnt is below the threshold
Victims ==
    LET free(i) == list[i] \notin pinned \cup acquired
        excess == cache_cnt - Threshold + 1
    IN  {list[i] : i \in {j \in DOMAIN list :
            free(j) /\ Cardinality({k \in j..Len(list) : free(k)}) <= excess}}

Goto(p, to) == pc' = [pc EXCEPT ![p] = to]

Call(p, b) ==
    /\ pc[p] = "idle"
    /\ Goto(p, "lookup")
    /\ want' = [want EXCEPT ![p] = b]
    /\ if_back' = [if_back EXCEPT ![p] = FALSE]
    /\ UNCHANGED <<list, cache_cnt, blockVars, acquired, val, sleeplist, obj>>

Hits(p) == {o \in Listed : block_no[o] = want[p]}

\* the block is in use: remember the struct and drop the cache's lock
HitAcquired(p) ==
    /\ pc[p] = "lookup"
    /\ \E o \in Hits(p) \cap acquired : obj' = [obj EXCEPT ![p] = o]
    /\ Goto(p, "towait")
    /\ UNCHANGED <<list, cache_cnt, blockVars, acquired, val, sleeplist, want, if_back>>

\* mutant of HitFree: a process back from its wait may skip the test
HitFree_Back(p) ==
    /\ pc[p] = "lookup"
    /\ \E o \in IF if_back[p] THEN Hits(p) ELSE Hits(p) \ acquired :
         /\ list' = <<o>> \o Without(list, {o})
         /\ val' = [val EXCEPT ![o] = IF ~if_back[p] /\ @ > 0 THEN @ - 1 ELSE @]
         /\ acquired' = acquired \cup {o}
         /\ obj' = [obj EXCEPT ![p] = o]
    /\ Goto(p, "holding")
    /\ UNCHANGED <<cache_cnt, blockVars, sleeplist, want, if_back>>

\* the block is free: move it to the front; get_sem unless back from a wait
HitFree(p) ==
    /\ pc[p] = "lookup"
    /\ \E o \in Hits(p) \ acquired :
         /\ list' = <<o>> \o Without(list, {o})
         /\ val' = [val EXCEPT ![o] = IF ~if_back[p] /\ @ > 0 THEN @ - 1 ELSE @]
         /\ acquired' = acquired \cup {o}
         /\ obj' = [obj EXCEPT ![p] = o]
    /\ Goto(p, "holding")
    /\ UNCHANGED <<cache_cnt, blockVars, sleeplist, want, if_back>>

\* the block is not cached: shrink, allocate, init_block, read, get_sem
Miss(p) ==
    /\ pc[p] = "lookup" /\ Hits(p) = {}
    /\ LET kept == Without(list, Victims) IN
       \E o \in Objs \ Range(kept) :
         /\ list' = <<o>> \o kept
         /\ cache_cnt' = cache_cnt - Cardinality(Victims) + 1
         /\ block_no' = [block_no EXCEPT ![o] = want[p]]
         /\ pinned' = pinned \ {o}
         /\ val' = [val EXCEPT ![o] = 0]
         /\ sleeplist' = [sleeplist EXCEPT ![o] = <<>>]
         /\ acquired' = acquired \cup {o}
         /\ obj' = [obj EXCEPT ![p] = o]
    /\ Goto(p, "holding")
    /\ UNCHANGED <<want, if_back>>

\* unalertable_wait_sem on the struct found earlier, whatever became of it
Wait(p) ==
    LET o == obj[p] IN
    /\ pc[p] = "towait"
    /\ val' = [val EXCEPT ![o] = @ - 1]
    /\ \/ /\ val[o] > 0
          /\ if_back' = [if_back EXCEPT ![p] = TRUE]
          /\ Goto(p, "lookup")
          /\ UNCHANGED sleeplist
       \/ /\ val[o] <= 0
          /\ sleeplist' = [sleeplist EXCEPT ![o] = Append(@, p)]
          /\ Goto(p, "asleep")
          /\ UNCHANGED if_back
    /\ UNCHANGED <<list, cache_cnt, blockVars, acquired, want, obj>>

\* mutant of Release: the last sleeper is not woken
Release_Last(p) ==
    LET o == obj[p] IN
    /\ pc[p] = "holding"
    /\ acquired' = acquired \ {o}
    /\ val' = [val EXCEPT ![o] = @ + 1]
    /\ IF val[o] < -1
       THEN LET w == Head(sleeplist[o]) IN
            /\ sleeplist' = [sleeplist EXCEPT ![o] = Tail(@)]
            /\ pc' = [pc EXCEPT ![p] = "idle", ![w] = "lookup"]
            /\ if_back' = [if_back EXCEPT ![w] = TRUE]
       ELSE Goto(p, "idle") /\ UNCHANGED <<sleeplist, if_back>>
    /\ obj' = [obj EXCEPT ![p] = NoObj]
    /\ UNCHANGED <<list, cache_cnt, blockVars, want>>

\* cache_release: acquired = false and post_sem, which wakes the oldest waiter
Release(p) ==
    LET o == obj[p] IN
    /\ pc[p] = "holding"
    /\ acquired' = acquired \ {o}
    /\ val' = [val EXCEPT ![o] = @ + 1]
    /\ IF val[o] < 0
       THEN LET w == Head(sleeplist[o]) IN
            /\ sleeplist' = [sleeplist EXCEPT ![o] = Tail(@)]
            /\ pc' = [pc EXCEPT ![p] = "idle", ![w] = "lookup"]
            /\ if_back' = [if_back EXCEPT ![w] = TRUE]
       ELSE Goto(p, "idle") /\ UNCHANGED <<sleeplist, if_back>>
    /\ obj' = [obj EXCEPT ![p] = NoObj]
    /\ UNCHANGED <<list, cache_cnt, blockVars, want>>

\* the holder's sync pins the block, the committer unpins it
Pin(p) ==
    /\ pc[p] = "holding"
    /\ pinned' = IF obj[p] \in pinned THEN pinned \ {obj[p]} ELSE pinned \cup {obj[p]}
    /\ UNCHANGED <<list, cache_cnt, block_no, acquired, val, sleeplist, pc, want, obj,
                   if_back>>

Acquiring(p) == HitAcquired(p) \/ HitFree(p) \/ Miss(p) \/ Wait(p)

Next == \E p \in Procs : \/ \E b \in Blocks : Call(p, b)
                         \/ HitAcquired(p) \/ HitFree(p) \/ Miss(p) \/ Wait(p)
                         \/ Release(p) \/ Pin(p)

Spec == Init /\ [][Next]_vars

\* A process that is not asleep goes on, and callers release what they hold.
LiveSpec == Spec /\ \A p \in Procs : WF_vars(Acquiring(p)) /\ WF_vars(Release(p))
-----------------------------------------------------------------------------
\* The block a process holds is the one it asked for, listed, marked acquired,
\* and held by nobody else, although acquired is tested under the cache's lock
\* and the wait is on another lock.
HeldExclusively ==
    \A p \in Procs : pc[p] = "holding" =>
        /\ obj[p] \in Listed \cap acquired /\ block_no[obj[p]] = want[p]
        /\ \A q \in Procs : pc[q] = "holding" /\ q # p =>
               obj[q] # obj[p] /\ want[q] # want[p]

\* No block has two structs in the list, and cache_cnt counts the list.
OneCopy ==
    /\ \A i, j \in 1..Len(list) : block_no[list[i]] = block_no[list[j]] => i = j
    /\ cache_cnt = Len(list)

\* The semaphore of a struct counts its sleepers: the ASSERT in _post_sem
\* holds for every release, also after waits on freed structs.
SleepersMatch ==
    \A o \in Objs : Len(sleeplist[o]) = IF val[o] < 0 THEN -val[o] ELSE 0

\* What makes them inductive: a struct is marked acquired only while a process holds
\* it, and a process is in the one list it sleeps in, once; a struct that is reused
\* forgets its list, so that the converse does not hold.
Waiting ==
    /\ \A o \in acquired : \E p \in Procs : pc[p] = "holding" /\ obj[p] = o
    /\ \A p \in Procs : pc[p] \in {"towait", "asleep"} => obj[p] \in Objs
    /\ \A o \in Objs : /\ \A i \in 1..Len(sleeplist[o]) : /\ pc[sleeplist[o][i]] = "asleep"
                                                          /\ obj[sleeplist[o][i]] = o
                       /\ \A i, j \in 1..Len(sleeplist[o]) :
                              sleeplist[o][i] = sleeplist[o][j] => i = j

CacheInv == TypeOK /\ HeldExclusively /\ OneCopy /\ SleepersMatch /\ Waiting

\* A pinned block stays in the cache.
PinnedStay == [][\A o \in pinned \cap Listed : o \in Range(list')]_vars

\* A process asleep on a block's lock is woken.
SleeperWoken == \A p \in Procs : pc[p] = "asleep" ~> pc[p] # "asleep"

\* What cache_acquire promises: one holder per block, and one cached copy of it,
\* although structs are evicted, freed and reused.
CacheSafe == TypeOK /\ HeldExclusively /\ OneCopy
=============================================================================
