----------------------------- MODULE WaitProofs -----------------------------
(* Proofs about waiting.  The semaphores of common/sem.c with sched(), for  *)
(* any number of threads: the list and val agree, and no wakeup or kill is  *)
(* lost.  The queue of the SD driver (driver/sd.c), whose callers wait on a *)
(* semaphore each: the card works for the front of the queue.               *)
EXTENDS Semaphore, SdQueue, SequenceTheorems, TLAPS

Without(s, i) == SubSeq(s, 1, i - 1) \o SubSeq(s, i + 1, Len(s))

\* what _detach_from_list leaves: everyone else, in the same order
LEMMA DetachIs ==
    ASSUME NEW S, NEW s \in Seq(S), NEW i \in 1..Len(s)
    PROVE  /\ Without(s, i) \in Seq(S) /\ Len(Without(s, i)) = Len(s) - 1
           /\ \A k \in 1..Len(s) - 1 :
                 Without(s, i)[k] = IF k < i THEN s[k] ELSE s[k + 1]
  <1> DEFINE a == SubSeq(s, 1, i - 1)
             b == SubSeq(s, i + 1, Len(s))
  <1>1. a \in Seq(S) /\ Len(a) = i - 1 /\ \A k \in 1..i - 1 : a[k] = s[k]
    BY SubSeqProperties
  <1>2. b \in Seq(S) /\ Len(b) = Len(s) - i
    BY SubSeqProperties
  <1>3. ASSUME NEW k \in 1..Len(s) - i PROVE b[k] = s[k + i]
    <2>1. b[k] = s[(i + 1) + k - 1]
      OBVIOUS
    <2>2. (i + 1) + k - 1 = k + i
      OBVIOUS
    <2> QED BY <2>1, <2>2, Zenon
  <1> HIDE DEF a, b
  <1>4. a \o b \in Seq(S) /\ Len(a \o b) = Len(s) - 1
    <2>1. a \o b \in Seq(S) /\ Len(a \o b) = Len(a) + Len(b)
      BY <1>1, <1>2, ConcatProperties, Zenon
    <2>2. Len(s) \in Nat /\ i \in Nat
      OBVIOUS
    <2> QED BY <2>1, <2>2, <1>1, <1>2
  <1>5. ASSUME NEW k \in 1..Len(s) - 1
        PROVE  (a \o b)[k] = IF k < i THEN s[k] ELSE s[k + 1]
    <2>1. CASE k < i
      BY <2>1, <1>1, <1>2, ConcatProperties
    <2>2. CASE ~(k < i)
      <3>1. (a \o b)[k] = b[k - (i - 1)]
        BY SMTT(30), <2>2, <1>1, <1>2, ConcatProperties
      <3>2. k - (i - 1) \in 1..Len(s) - i /\ (k - (i - 1)) + i = k + 1
        BY <2>2
      <3> QED BY <3>1, <3>2, <2>2, <1>3, Zenon
    <2> QED BY <2>1, <2>2, Zenon
  <1> QED BY <1>4, <1>5, Zenon DEF a, b, Without

\* the conjunct of SemInv that is not a property of its own
Switching == \A p \in Procs : /\ pc[p] = "sched" => ~up[p]
                              /\ pc[p] = "asleep" => state[p] # "RUNNING"

\* The first state satisfies the invariant.
LEMMA InitInv == Init => SemInv
  <1> SUFFICES ASSUME Init PROVE SemInv
    BY Zenon
  <1> USE SemAssumption DEF Init
  <1>1. TypeOK
    BY DEF TypeOK, States, PCs
  <1>2. SleepersCounted
    BY DEF SleepersCounted, Sleepers, InWait
  <1> QED BY <1>1, <1>2, Zenon DEF SemInv, NoLostWakeup, NoLostKill

\* _wait_sem that takes a token, or joins the list.
LEMMA WaitSemInv ==
    ASSUME SemInv, NEW p \in Procs, NEW a \in BOOLEAN, WaitSem(p, a)
    PROVE  SemInv'
  <1> USE SemAssumption
  <1>0. TypeOK /\ SleepersCounted
    BY Zenon DEF SemInv
  <1>1. CASE val > 0
    <2>1. val' = val - 1 /\ UNCHANGED <<sleeplist, up, alertable, pc, state, killed, alerting>>
      BY <1>1, <1>0 DEF WaitSem, TypeOK
    <2>2. TypeOK'
      BY <2>1, <1>1, <1>0 DEF TypeOK
    <2>3. SleepersCounted'
      BY <2>1, <1>1, <1>0 DEF SleepersCounted, Sleepers, TypeOK
    <2> QED BY <2>1, <2>2, <2>3, Zenon DEF SemInv, NoLostWakeup, NoLostKill
  <1>2. CASE ~(val > 0)
    <2>1. /\ val' = val - 1 /\ sleeplist' = Append(sleeplist, p) /\ val <= 0
          /\ up' = [up EXCEPT ![p] = FALSE] /\ alertable' = [alertable EXCEPT ![p] = a]
          /\ pc' = [pc EXCEPT ![p] = "sched"] /\ pc[p] = "idle"
          /\ UNCHANGED <<state, killed, alerting>>
      BY <1>2, <1>0, Zenon DEF WaitSem, TypeOK, Goto
    <2>2. TypeOK'
      <3>1. pc' \in [Procs -> PCs] /\ sleeplist' \in Seq(Procs)
        BY <2>1, <1>0 DEF TypeOK, PCs
      <3>2. val' \in Int /\ val' <= MaxVal
        BY <2>1, <1>0 DEF TypeOK
      <3>3. up' \in [Procs -> BOOLEAN] /\ alertable' \in [Procs -> BOOLEAN]
        BY <2>1, <1>0, Zenon DEF TypeOK
      <3> QED BY <3>1, <3>2, <3>3, <2>1, <1>0, Zenon DEF TypeOK
    <2>3. SleepersCounted'
      <3> DEFINE n == Len(sleeplist)
      <3>1. /\ Len(sleeplist') = n + 1 /\ sleeplist'[n + 1] = p /\ n \in Nat
            /\ \A i \in 1..n : sleeplist'[i] = sleeplist[i] /\ sleeplist[i] \in Procs
        BY <2>1, <1>0 DEF TypeOK
      <3>2. n = -val /\ n + 1 = -val' /\ val' < 0
        BY <2>1, <1>0 DEF SleepersCounted, TypeOK
      <3>3. /\ \A q \in Procs : (\E i \in 1..n : sleeplist[i] = q)
                                   <=> pc[q] \in InWait /\ ~up[q]
            /\ \A i, j \in 1..n : sleeplist[i] = sleeplist[j] => i = j
        BY <1>0, Zenon DEF SleepersCounted, Sleepers
      <3> HIDE DEF n
      <3>4. \A i \in 1..n : sleeplist[i] # p
        BY <3>3, <2>1, Zenon DEF InWait
      <3>5. \A i, j \in 1..n + 1 : sleeplist'[i] = sleeplist'[j] => i = j
        BY <3>1, <3>3, <3>4
      <3>6. \A q \in Procs : (\E i \in 1..n + 1 : sleeplist'[i] = q)
                                <=> q = p \/ \E i \in 1..n : sleeplist[i] = q
        <4> TAKE q \in Procs
        <4>1. \A i \in 1..n + 1 : i \in 1..n \/ i = n + 1
          BY <3>1
        <4>2. n + 1 \in 1..n + 1 /\ \A i \in 1..n : i \in 1..n + 1
          BY <3>1
        <4> QED BY <4>1, <4>2, <3>1, Zenon
      <3>7. \A q \in Procs : /\ q # p => pc'[q] = pc[q] /\ up'[q] = up[q]
                             /\ q = p => pc'[q] = "sched" /\ ~up'[q]
        BY <2>1, <1>0, Zenon DEF TypeOK
      <3>8. \A q \in Procs : q \in Sleepers' <=> pc'[q] \in InWait /\ ~up'[q]
        BY <3>1, <3>3, <3>6, <3>7 DEF Sleepers, InWait
      <3> QED BY <3>1, <3>2, <3>5, <3>8, Zenon DEF SleepersCounted, n
    <2>4. NoLostWakeup' /\ NoLostKill' /\ Switching'
      BY <2>1, <1>0, Zenon DEF SemInv, NoLostWakeup, NoLostKill, Switching, TypeOK
    <2> QED BY <2>2, <2>3, <2>4, Zenon DEF SemInv, Switching
  <1> QED BY <1>1, <1>2, Zenon

\* Steps that neither touch the list nor the counter: what is left to show is
\* that nobody enters or leaves _wait_sem and no flag up changes.
LEMMA ListFrame ==
    ASSUME SleepersCounted, UNCHANGED <<val, sleeplist, up>>,
           \A q \in Procs : pc'[q] \in InWait <=> pc[q] \in InWait
    PROVE  SleepersCounted'
  BY Zenon DEF SleepersCounted, Sleepers

\* simple_sched, with the early return of a killed process.
LEMMA SleepInv ==
    ASSUME SemInv, NEW p \in Procs, Sleep(p)
    PROVE  SemInv'
  <1>0. TypeOK /\ SleepersCounted
    BY Zenon DEF SemInv
  <1>1. /\ pc[p] = "sched" /\ UNCHANGED <<val, sleeplist, up, alertable, killed, alerting>>
        /\ ~up[p]
        /\ \/ /\ p \in killed /\ pc' = [pc EXCEPT ![p] = "recheck"] /\ state' = state
           \/ /\ p \notin killed /\ pc' = [pc EXCEPT ![p] = "asleep"]
              /\ state' \in {[state EXCEPT ![p] = "SLEEPING"],
                             [state EXCEPT ![p] = "DEEPSLEEPING"]}
    BY Zenon DEF Sleep, Goto, SemInv
  <1>2. TypeOK'
    BY <1>1, <1>0, Zenon DEF TypeOK, PCs, States
  <1>3. SleepersCounted'
    BY <1>1, <1>0, ListFrame, Zenon DEF TypeOK, InWait
  <1>4. NoLostWakeup' /\ NoLostKill' /\ Switching'
    BY <1>1, <1>0, Zenon DEF SemInv, NoLostWakeup, NoLostKill, Switching, TypeOK
  <1> QED BY <1>2, <1>3, <1>4, Zenon DEF SemInv, Switching

\* A RUNNABLE process is dispatched.
LEMMA RunInv ==
    ASSUME SemInv, NEW p \in Procs, Run(p)
    PROVE  SemInv'
  <1>0. TypeOK /\ SleepersCounted
    BY Zenon DEF SemInv
  <1>1. /\ pc[p] = "asleep" /\ UNCHANGED <<val, sleeplist, up, alertable, killed, alerting>>
        /\ pc' = [pc EXCEPT ![p] = "recheck"] /\ state' = [state EXCEPT ![p] = "RUNNING"]
    BY Zenon DEF Run, Goto
  <1>2. TypeOK'
    BY <1>1, <1>0, Zenon DEF TypeOK, PCs, States
  <1>3. SleepersCounted'
    BY <1>1, <1>0, ListFrame, Zenon DEF TypeOK, InWait
  <1>4. NoLostWakeup' /\ NoLostKill' /\ Switching'
    BY <1>1, <1>0, Zenon DEF SemInv, NoLostWakeup, NoLostKill, Switching, TypeOK
  <1> QED BY <1>2, <1>3, <1>4, Zenon DEF SemInv, Switching

\* One waiter leaves the list, chosen by a post or because it gives up, and
\* the counter goes up by one.
LEMMA LeaveList ==
    ASSUME TypeOK, SleepersCounted, NEW i \in 1..Len(sleeplist),
           sleeplist' = Detach(i), val' = val + 1,
           \A q \in Procs : /\ q # sleeplist[i] =>
                                  (pc'[q] \in InWait /\ ~up'[q] <=> pc[q] \in InWait /\ ~up[q])
                            /\ q = sleeplist[i] => ~(pc'[q] \in InWait /\ ~up'[q])
    PROVE  SleepersCounted' /\ sleeplist' \in Seq(Procs)
  <1> DEFINE n == Len(sleeplist)
  <1>1. /\ sleeplist' \in Seq(Procs) /\ Len(sleeplist') = n - 1
        /\ \A k \in 1..n - 1 :
              sleeplist'[k] = IF k < i THEN sleeplist[k] ELSE sleeplist[k + 1]
    <2>1. sleeplist \in Seq(Procs) /\ sleeplist' = Without(sleeplist, i)
      BY Zenon DEF TypeOK, Detach, Without
    <2>2. /\ Without(sleeplist, i) \in Seq(Procs)
          /\ Len(Without(sleeplist, i)) = Len(sleeplist) - 1
          /\ \A k \in 1..Len(sleeplist) - 1 :
                Without(sleeplist, i)[k] = IF k < i THEN sleeplist[k] ELSE sleeplist[k + 1]
      BY <2>1, DetachIs, Zenon
    <2> QED BY <2>1, <2>2, Zenon
  <1>2. n \in Nat /\ i \in 1..n /\ val < 0 /\ n = -val /\ val \in Int
    <2>1. n \in Nat /\ val \in Int /\ n = IF val < 0 THEN -val ELSE 0
      BY DEF SleepersCounted, TypeOK
    <2>2. i \in 1..n
      BY Zenon
    <2> HIDE DEF n
    <2> QED BY <2>1, <2>2
  <1>3. /\ \A q \in Procs : (\E k \in 1..n : sleeplist[k] = q)
                               <=> pc[q] \in InWait /\ ~up[q]
        /\ \A j, k \in 1..n : sleeplist[j] = sleeplist[k] => j = k
    BY Zenon DEF SleepersCounted, Sleepers
  <1> HIDE DEF n
  <1>4. Len(sleeplist') = IF val' < 0 THEN -val' ELSE 0
    BY <1>1, <1>2
  <1>5. ASSUME NEW j \in 1..n - 1, NEW k \in 1..n - 1, sleeplist'[j] = sleeplist'[k]
        PROVE  j = k
    <2> DEFINE old(x) == IF x < i THEN x ELSE x + 1
    <2>1. /\ sleeplist'[j] = sleeplist[old(j)] /\ old(j) \in 1..n
          /\ sleeplist'[k] = sleeplist[old(k)] /\ old(k) \in 1..n
      BY <1>1, <1>2
    <2>2. old(j) = old(k)
      BY <2>1, <1>3, <1>5, Zenon
    <2> QED BY <2>2, <1>2
  <1>6. ASSUME NEW q \in Procs
        PROVE  (\E k \in 1..n - 1 : sleeplist'[k] = q)
                  <=> q # sleeplist[i] /\ \E k \in 1..n : sleeplist[k] = q
    <2>1. ASSUME NEW k \in 1..n - 1, sleeplist'[k] = q
          PROVE  q # sleeplist[i] /\ \E j \in 1..n : sleeplist[j] = q
      <3> DEFINE old == IF k < i THEN k ELSE k + 1
      <3>1. sleeplist[old] = q /\ old \in 1..n /\ old # i
        BY <1>1, <1>2, <2>1
      <3> QED BY <3>1, <1>2, <1>3, Zenon
    <2>2. ASSUME q # sleeplist[i], NEW k \in 1..n, sleeplist[k] = q
          PROVE  \E j \in 1..n - 1 : sleeplist'[j] = q
      <3> DEFINE new == IF k < i THEN k ELSE k - 1
      <3>1. k # i
        BY <2>2, Zenon
      <3>2. new \in 1..n - 1 /\ (IF new < i THEN new ELSE new + 1) = k
        BY <3>1, <1>2
      <3>3. sleeplist'[new] = q
        <4>1. CASE new < i
          BY <4>1, <3>2, <1>1, <2>2, Zenon
        <4>2. CASE ~(new < i)
          BY <4>2, <3>2, <1>1, <2>2, Zenon
        <4> QED BY <4>1, <4>2, Zenon
      <3> QED BY <3>2, <3>3, Zenon
    <2> QED BY <2>1, <2>2, Zenon
  <1>7. \A q \in Procs : q \in Sleepers' <=> pc'[q] \in InWait /\ ~up'[q]
    <2> TAKE q \in Procs
    <2>1. q \in Sleepers' <=> \E k \in 1..n - 1 : sleeplist'[k] = q
      BY <1>1, Zenon DEF Sleepers
    <2> QED BY <2>1, <1>6, <1>3, Zenon
  <1> QED BY <1>1, <1>4, <1>5, <1>7, Zenon DEF SleepersCounted

\* _wait_sem after sched.
LEMMA RecheckInv ==
    ASSUME SemInv, NEW p \in Procs, Recheck(p)
    PROVE  SemInv'
  <1> USE SemAssumption
  <1>0. TypeOK /\ SleepersCounted
    BY Zenon DEF SemInv
  <1>1. /\ pc[p] = "recheck" /\ UNCHANGED <<up, alertable, state, killed, alerting>>
        /\ pc' \in {[pc EXCEPT ![p] = "idle"], [pc EXCEPT ![p] = "panic"]}
    BY Zenon DEF Recheck, Goto
  <1>2. pc' \in [Procs -> PCs]
    BY <1>1, <1>0, Zenon DEF TypeOK, PCs
  <1>p. /\ \A q \in Procs : q # p => pc'[q] = pc[q]
        /\ pc'[p] \in {"idle", "panic"}
    BY <1>1, <1>0, Zenon DEF TypeOK
  <1>3. TypeOK' /\ SleepersCounted'
    <2>1. CASE up[p]
      <3>1. UNCHANGED <<val, sleeplist>>
        BY <2>1, Zenon DEF Recheck
      <3>2. SleepersCounted'
        <4>1. \A q \in Procs : (pc'[q] \in InWait /\ ~up'[q]) <=> (pc[q] \in InWait /\ ~up[q])
          BY <2>1, <1>1, <1>p, Zenon
        <4> QED BY <4>1, <3>1, <1>0, Zenon DEF SleepersCounted, Sleepers
      <3> QED BY <3>1, <3>2, <1>1, <1>2, <1>0, Zenon DEF TypeOK
    <2>2. CASE ~up[p]
      <3>1. PICK i \in 1..Len(sleeplist) : sleeplist[i] = p /\ sleeplist' = Detach(i)
        BY <2>2, Zenon DEF Recheck
      <3>2. val' = val + 1 /\ val < 0
        BY <2>2, <3>1, <1>0 DEF Recheck, SleepersCounted, TypeOK
      <3>3. \A q \in Procs :
               /\ q # p => (pc'[q] \in InWait /\ ~up'[q] <=> pc[q] \in InWait /\ ~up[q])
               /\ q = p => ~(pc'[q] \in InWait /\ ~up'[q])
        BY <1>1, <1>p, Zenon DEF InWait
      <3>4. SleepersCounted' /\ sleeplist' \in Seq(Procs)
        BY <3>1, <3>2, <3>3, <1>0, LeaveList, Zenon
      <3>5. val' \in Int /\ val' <= MaxVal
        BY <3>2, <1>0 DEF TypeOK
      <3> QED BY <3>4, <3>5, <1>1, <1>2, <1>0, Zenon DEF TypeOK
    <2> QED BY <2>1, <2>2, Zenon
  <1>4. NoLostWakeup' /\ NoLostKill' /\ Switching'
    BY <1>1, <1>p, Zenon DEF SemInv, NoLostWakeup, NoLostKill, Switching
  <1> QED BY <1>3, <1>4, Zenon DEF SemInv, Switching

\* post_sem hands the token to the oldest waiter, or leaves it in val.
LEMMA PostSemInv ==
    ASSUME SemInv, PostSem
    PROVE  SemInv'
  <1> USE SemAssumption
  <1>0. TypeOK /\ SleepersCounted
    BY Zenon DEF SemInv
  <1>1. val \in Int /\ val' = val + 1 /\ val' \in Int /\ val' <= MaxVal
    BY <1>0 DEF PostSem, TypeOK
  <1>2. UNCHANGED <<alertable, pc, killed, alerting>>
    BY Zenon DEF PostSem
  <1>3. CASE val < 0
    <2> DEFINE w == sleeplist[1]
    <2>1. Len(sleeplist) \in Nat /\ Len(sleeplist) > 0 /\ 1 \in 1..Len(sleeplist)
      <3>1. Len(sleeplist) = -val
        BY <1>3, <1>0, Zenon DEF SleepersCounted
      <3> QED BY <3>1, <1>1, <1>3
    <2>2. w \in Procs
      BY <2>1, <1>0 DEF TypeOK
    <2>3. sleeplist' = Detach(1)
      <3>1. sleeplist' = Tail(sleeplist)
        BY <1>3, Zenon DEF PostSem
      <3>2. SubSeq(sleeplist, 1, 1 - 1) = <<>>
        BY SubSeqEmpty
      <3>3. SubSeq(sleeplist, 1 + 1, Len(sleeplist)) = Tail(sleeplist)
        OBVIOUS
      <3>4. Tail(sleeplist) \in Seq(Procs)
        BY <2>1, <1>0, HeadTailProperties DEF TypeOK
      <3> QED BY <3>1, <3>2, <3>3, <3>4, ConcatEmptySeq, Zenon DEF Detach
    <2>4. /\ up' = [up EXCEPT ![w] = TRUE] /\ state' = Activate({w})
          /\ \A q \in Procs : pc[q] # "sched"
      BY <1>3 DEF PostSem, SchedLockFree
    <2>5. /\ pc[w] \in InWait /\ ~up[w]
      BY <2>1, <2>2, <1>0, Zenon DEF SleepersCounted, Sleepers
    <2> HIDE DEF w
    <2>6. \A q \in Procs : /\ q # w => up'[q] = up[q] /\ state'[q] = state[q]
                           /\ q = w => /\ up'[q]
                                       /\ state[q] \in {"SLEEPING", "DEEPSLEEPING"}
                                              => state'[q] = "RUNNABLE"
                                       /\ state[q] \notin {"SLEEPING", "DEEPSLEEPING"}
                                              => state'[q] = state[q]
      BY <2>4, <2>2, <1>0, Zenon DEF Activate, TypeOK
    <2>7. SleepersCounted' /\ sleeplist' \in Seq(Procs)
      <3>1. \A q \in Procs :
               /\ q # w => (pc'[q] \in InWait /\ ~up'[q] <=> pc[q] \in InWait /\ ~up[q])
               /\ q = w => ~(pc'[q] \in InWait /\ ~up'[q])
        BY <2>6, <1>2, Zenon
      <3> QED BY <3>1, <2>1, <2>3, <1>0, <1>1, LeaveList, Zenon DEF w
    <2>8. TypeOK'
      <3>1. up' \in [Procs -> BOOLEAN]
        BY <2>4, <1>0, Zenon DEF TypeOK
      <3>2. state' \in [Procs -> States]
        BY <2>4, <1>0, Zenon DEF TypeOK, Activate, States
      <3> QED BY <3>1, <3>2, <2>7, <1>1, <1>2, <1>0, Zenon DEF TypeOK
    <2>9. NoLostWakeup'
      <3> SUFFICES ASSUME NEW q \in Procs, pc[q] = "asleep", up'[q]
                   PROVE  state'[q] = "RUNNABLE"
        BY <1>2, Zenon DEF NoLostWakeup
      <3>1. state[q] \in States /\ state[q] # "RUNNING"
        BY <1>0, Zenon DEF SemInv, TypeOK
      <3>2. up[q] => state[q] = "RUNNABLE"
        BY Zenon DEF SemInv, NoLostWakeup
      <3> QED BY <3>1, <3>2, <2>6, Zenon DEF States
    <2>10. NoLostKill' /\ Switching'
      BY <2>4, <2>6, <1>2, Zenon DEF SemInv, NoLostKill, Switching
    <2> QED BY <2>7, <2>8, <2>9, <2>10, Zenon DEF SemInv, Switching
  <1>4. CASE ~(val < 0)
    <2>1. UNCHANGED <<sleeplist, up, state>>
      BY <1>4, Zenon DEF PostSem
    <2>2. SleepersCounted'
      BY <2>1, <1>0, <1>1, <1>2, <1>4 DEF SleepersCounted, Sleepers
    <2>3. TypeOK'
      BY <2>1, <1>0, <1>1, <1>2, Zenon DEF TypeOK
    <2> QED BY <2>1, <2>2, <2>3, <1>2, Zenon DEF SemInv, NoLostWakeup, NoLostKill
  <1> QED BY <1>3, <1>4, Zenon

\* post_all_sem empties the list and wakes everyone in it.
LEMMA PostAllSemInv ==
    ASSUME SemInv, PostAllSem
    PROVE  SemInv'
  <1> USE SemAssumption
  <1>0. TypeOK /\ SleepersCounted
    BY Zenon DEF SemInv
  <1>1. /\ val \in Int /\ val' = (IF val < 0 THEN 0 ELSE val) /\ sleeplist' = <<>>
        /\ UNCHANGED <<alertable, pc, killed, alerting>>
        /\ \A q \in Procs : pc[q] # "sched"
    BY <1>0, Zenon DEF PostAllSem, TypeOK, SchedLockFree
  <1>2. \A q \in Procs : up'[q] <=> (up[q] \/ q \in Sleepers)
    BY <1>0, Zenon DEF PostAllSem, TypeOK
  <1>3. \A q \in Procs : state'[q] = IF q \in Sleepers /\ state[q] \in {"SLEEPING", "DEEPSLEEPING"}
                                     THEN "RUNNABLE" ELSE state[q]
    BY Zenon DEF PostAllSem, Activate
  <1>4. TypeOK'
    <2>1. up' \in [Procs -> BOOLEAN]
      BY <1>0, Zenon DEF PostAllSem, TypeOK
    <2>2. state' \in [Procs -> States]
      BY <1>0, Zenon DEF PostAllSem, TypeOK, Activate, States
    <2>3. val' \in Int /\ val' <= MaxVal /\ sleeplist' \in Seq(Procs)
      BY <1>0, <1>1 DEF TypeOK
    <2> QED BY <2>1, <2>2, <2>3, <1>0, <1>1, Zenon DEF TypeOK
  <1>5. SleepersCounted'
    <2>1. Len(sleeplist') = 0 /\ 1..Len(sleeplist') = {} /\ Sleepers' = {}
      BY <1>1 DEF Sleepers
    <2>2. \A q \in Procs : ~(pc'[q] \in InWait /\ ~up'[q])
      BY <1>0, <1>1, <1>2, Zenon DEF SleepersCounted
    <2>3. Len(sleeplist') = IF val' < 0 THEN -val' ELSE 0
      BY <2>1, <1>1
    <2> QED BY <2>1, <2>2, <2>3, Zenon DEF SleepersCounted
  <1>6. NoLostWakeup'
    <2> SUFFICES ASSUME NEW q \in Procs, pc[q] = "asleep" PROVE state'[q] = "RUNNABLE"
      BY <1>1, Zenon DEF NoLostWakeup
    <2>1. state[q] \in States /\ state[q] # "RUNNING"
      BY <1>0, Zenon DEF SemInv, TypeOK
    <2>2. up[q] => state[q] = "RUNNABLE"
      BY Zenon DEF SemInv, NoLostWakeup
    <2>3. q \in Sleepers \/ up[q]
      BY <1>0, Zenon DEF SleepersCounted, InWait
    <2> QED BY <2>1, <2>2, <2>3, <1>3, Zenon DEF States
  <1>7. NoLostKill' /\ Switching'
    BY <1>1, <1>3, Zenon DEF SemInv, NoLostKill, Switching
  <1> QED BY <1>4, <1>5, <1>6, <1>7, Zenon DEF SemInv, Switching

\* get_sem, get_all_sem and the two halves of kill().
LEMMA OtherInv ==
    ASSUME SemInv, GetSem \/ GetAllSem \/ \E p \in Procs : Kill(p) \/ Alert(p)
    PROVE  SemInv'
  <1> USE SemAssumption
  <1>0. TypeOK /\ SleepersCounted
    BY Zenon DEF SemInv
  <1>1. CASE GetSem \/ GetAllSem
    <2>1. /\ UNCHANGED <<sleeplist, up, alertable, state, pc, killed, alerting>>
          /\ val \in Int /\ val > 0 /\ val' \in 0..val
      BY <1>1, <1>0 DEF GetSem, GetAllSem, TypeOK
    <2>2. val' \in Int /\ val' <= MaxVal /\ ~(val' < 0) /\ ~(val < 0)
      BY <2>1, <1>0 DEF TypeOK
    <2>3. TypeOK'
      BY <2>1, <2>2, <1>0, Zenon DEF TypeOK
    <2>4. SleepersCounted'
      BY <2>1, <2>2, <1>0, Zenon DEF SleepersCounted, Sleepers
    <2> QED BY <2>1, <2>3, <2>4, Zenon DEF SemInv, NoLostWakeup, NoLostKill
  <1>2. ASSUME NEW p \in Procs, Kill(p) PROVE SemInv'
    BY <1>2, <1>0, Zenon DEF Kill, SemInv, TypeOK, SleepersCounted, Sleepers, NoLostWakeup,
                      NoLostKill
  <1>3. ASSUME NEW p \in Procs, Alert(p) PROVE SemInv'
    <2>1. /\ UNCHANGED <<val, sleeplist, up, alertable, pc, killed>>
          /\ alerting' = alerting \ {p}
          /\ state' = [state EXCEPT ![p] = IF @ = "SLEEPING" THEN "RUNNABLE" ELSE @]
      BY <1>3, Zenon DEF Alert
    <2>2. TypeOK'
      BY <2>1, <1>0, Zenon DEF TypeOK, States
    <2>3. SleepersCounted'
      BY <2>1, <1>0, Zenon DEF SleepersCounted, Sleepers
    <2>4. NoLostWakeup' /\ NoLostKill' /\ Switching'
      BY <2>1, <1>0, Zenon DEF SemInv, NoLostWakeup, NoLostKill, Switching, TypeOK
    <2> QED BY <2>2, <2>3, <2>4, Zenon DEF SemInv, Switching
  <1> QED BY <1>1, <1>2, <1>3, Zenon

\* The invariant of a semaphore, for any number of processes waiting on it,
\* posting it and being killed.
THEOREM SemInvariant == Spec => []SemInv
  <1>1. SemInv /\ [Next]_vars => SemInv'
    <2> SUFFICES ASSUME SemInv, [Next]_vars PROVE SemInv'
      BY Zenon
    <2>1. CASE UNCHANGED vars
      BY <2>1, Zenon DEF vars, SemInv, TypeOK, SleepersCounted, Sleepers, NoLostWakeup, NoLostKill
    <2> QED BY <2>1, WaitSemInv, SleepInv, RunInv, RecheckInv, PostSemInv,
               PostAllSemInv, OtherInv DEF Next
  <1> QED BY <1>1, InitInv, PTL DEF Spec

\* The list and the counter agree: -val processes are in the list, exactly
\* those that wait and have not been chosen; the ASSERTs of sem.c hold.
THEOREM ListMatchesVal == Spec => []SleepersCounted
  <1>1. SemInv => SleepersCounted
    BY Zenon DEF SemInv
  <1> QED BY <1>1, SemInvariant, PTL

\* No wake-up is lost between _post_sem and a process on its way to sleep.
THEOREM NoWakeupLost == Spec => []NoLostWakeup
  <1>1. SemInv => NoLostWakeup
    BY Zenon DEF SemInv
  <1> QED BY <1>1, SemInvariant, PTL

\* No kill is lost between the test in sched and the switch.
THEOREM NoKillLost == Spec => []NoLostKill
  <1>1. SemInv => NoLostKill
    BY Zenon DEF SemInv
  <1> QED BY <1>1, SemInvariant, PTL

\* The promises of sem.c together, for any number of processes.
THEOREM SemIsSafe == Spec => []SemSafe
  <1>1. SemInv => SemSafe
    BY Zenon DEF SemInv, SemSafe
  <1> QED BY <1>1, SemInvariant, PTL

-----------------------------------------------------------------------------
\* The values of flags that a struct buf takes.
LEMMA FlagSets == {} \in BufFlags /\ {"VALID"} \in BufFlags /\ {"DIRTY", "VALID"} \in BufFlags
  BY Zenon DEF BufFlags

\* The first buf of a queue that is not empty.
LEMMA QueueHead ==
    ASSUME SdQueueTypeOK, bufQueue # <<>>
    PROVE  Head(bufQueue) = bufQueue[1] /\ bufQueue[1] \in SdThreads /\ 1 \in 1 .. Len(bufQueue)
  BY DEF SdQueueTypeOK

\* The empty queue of sd_init satisfies SdqInv.
LEMMA SdqInit == SdQueueInit => SdqInv
  <1> SUFFICES ASSUME SdQueueInit PROVE SdqInv
    BY Zenon
  <1> USE FlagSets DEF SdQueueInit
  <1>1. SdQueueTypeOK
    <2>1. buf \in [SdThreads -> [flags : BufFlags, sem : 0 .. 2]]
      OBVIOUS
    <2>2. bufQueue \in Seq(SdThreads) /\ sdPc \in [SdThreads -> {"out", "enter", "check", "wait"}]
      OBVIOUS
    <2>3. dev \subseteq SdThreads /\ front \subseteq SdThreads /\ live \subseteq SdThreads
      BY Zenon
    <2> QED BY <2>1, <2>2, <2>3, Zenon DEF SdQueueTypeOK
  <1>2. SdqPhases
    BY DEF SdqPhases
  <1>3. SdqUndone /\ SdqPosts
    BY DEF SdqUndone, SdqPosts, Range
  <1> QED BY <1>1, <1>2, <1>3, Zenon DEF SdqInv

\* SdqInv gives what the callers of sdrw rely on.
LEMMA SdqInvSafe == SdqInv => SdqSafe
  <1> SUFFICES ASSUME SdqInv PROVE SdqSafe
    BY Zenon
  <1>1. SdqServesFront
    BY DEF SdqInv, SdqServesFront, SdqPhases, StartOk, SdQueueTypeOK
  <1>2. SdqDeadFrame
    BY DEF SdqInv, SdqDeadFrame, SdqPhases, SdqUndone, Undone, SdQueueTypeOK
  <1> QED BY <1>1, <1>2, Zenon DEF SdqSafe, SdqInv

\* sd_read and sd_write keep SdqInv: a frame that is set up is not in the
\* queue, unless its last request is being finished.
LEMMA SdCallInv ==
    ASSUME SdqInv, NEW t \in SdThreads, SdCall(t) PROVE SdqInv'
  <1> USE FlagSets DEF SdqInv, SdCall
  <1>1. SdQueueTypeOK'
    <2>1. buf' \in [SdThreads -> [flags : BufFlags, sem : 0 .. 2]]
      <3>1. PICK flags \in BufFlags : buf' = [buf EXCEPT ![t] = [flags |-> flags, sem |-> 0]]
        BY Zenon
      <3> QED BY <3>1 DEF SdQueueTypeOK
    <2> QED BY <2>1, Zenon DEF SdQueueTypeOK
  <1>2. SdqPhases'
    BY DEF SdqPhases, SdQueueTypeOK
  <1>3. SdqUndone'
    <2>1. {} # {"VALID"} /\ {"DIRTY", "VALID"} # {"VALID"}
      <3>1. "DIRTY" \in {"DIRTY", "VALID"} /\ "DIRTY" \notin {"VALID"} /\ "VALID" \in {"VALID"}
        BY Zenon
      <3> QED BY <3>1, Zenon
    <2>2. buf'[t].flags # {"VALID"}
      <3>1. PICK flags \in {{}, {"DIRTY", "VALID"}} :
                buf' = [buf EXCEPT ![t] = [flags |-> flags, sem |-> 0]]
        BY Zenon
      <3>2. buf'[t].flags = flags
        BY <3>1, Zenon DEF SdQueueTypeOK
      <3> QED BY <2>1, <3>2, Zenon
    <2>3. \A u \in SdThreads : u # t => buf'[u] = buf[u] /\ sdPc'[u] = sdPc[u]
      BY Zenon DEF SdQueueTypeOK
    <2>4. \A i \in 1 .. Len(bufQueue) : Undone(i) => bufQueue[i] \in SdThreads /\ bufQueue[i] # t
      BY DEF SdqUndone, SdQueueTypeOK
    <2> QED BY <2>2, <2>3, <2>4 DEF SdqUndone, Undone
  <1>4. SdqPosts'
    BY DEF SdqPosts, SdqUndone, Undone, SdqPhases, Range, SdQueueTypeOK
  <1> QED BY <1>1, <1>2, <1>3, <1>4, Zenon

\* sdrw's critical section keeps SdqInv.
LEMMA SdEnqueueInv ==
    ASSUME SdqInv, NEW t \in SdThreads, SdEnqueue(t) PROVE SdqInv'
  <1> USE FlagSets DEF SdqInv
  <1>1. SdQueueTypeOK'
    <2>1. bufQueue' \in Seq(SdThreads)
      BY SMTT(30) DEF SdEnqueue, SdQueueTypeOK
    <2>0. dev' = dev \/ dev' = {t}
      BY Zenon DEF SdEnqueue, sd_start
    <2>3. dev' \subseteq SdThreads
      BY <2>0, Zenon DEF SdQueueTypeOK
    <2>2. sdPc' \in [SdThreads -> {"out", "enter", "check", "wait"}] /\ corrupt' \in BOOLEAN
      BY Zenon DEF SdEnqueue, SdQueueTypeOK
    <2> QED BY <2>1, <2>2, <2>3, Zenon DEF SdEnqueue, SdQueueTypeOK
  <1> SUFFICES ASSUME ~corrupt' PROVE SdqPhases' /\ SdqUndone' /\ SdqPosts'
    BY <1>1, Zenon
  <1>q. /\ bufQueue' = Append(bufQueue, t)
        /\ \A i \in 1 .. Len(bufQueue) : bufQueue[i] # t
        /\ Len(bufQueue') = Len(bufQueue) + 1
        /\ \A i \in 1 .. Len(bufQueue) : bufQueue'[i] = bufQueue[i]
        /\ bufQueue'[Len(bufQueue) + 1] = t
    BY DEF SdEnqueue, PushTouchesDead, Range, SdQueueTypeOK
  <1>2. SdqPhases'
    <2>1. \A i, j \in 1 .. Len(bufQueue') : bufQueue'[i] = bufQueue'[j] => i = j
      BY <1>q DEF SdqPhases, SdEnqueue, SdQueueTypeOK
    <2>2. live' = {u \in SdThreads : sdPc'[u] # "out"}
      BY Zenon DEF SdqPhases, SdEnqueue, SdQueueTypeOK
    <2>3. CASE bufQueue = <<>>
      BY <1>q, <2>1, <2>2, <2>3 DEF SdqPhases, SdEnqueue, sd_start, StartOk, SdQueueTypeOK
    <2>4. CASE bufQueue # <<>>
      <3>1. bufQueue'[1] = bufQueue[1] /\ bufQueue' # <<>>
        BY <1>q, <2>4, QueueHead DEF SdQueueTypeOK
      <3> QED BY <2>1, <2>2, <2>4, <3>1, Zenon DEF SdqPhases, SdEnqueue, SdQueueTypeOK
    <2> QED BY <2>3, <2>4, Zenon
  <1>3. SdqUndone'
    <2>1. \A u \in SdThreads : u # t => sdPc'[u] = sdPc[u]
      BY Zenon DEF SdEnqueue, SdQueueTypeOK
    <2>2. sdPc'[t] = "check" /\ buf[t].flags # {"VALID"} /\ UNCHANGED <<buf, intrPc>>
      BY Zenon DEF SdEnqueue, SdQueueTypeOK, SdqUndone
    <2>3. \A i \in 1 .. Len(bufQueue) : bufQueue[i] \in SdThreads
      BY DEF SdQueueTypeOK
    <2>4. Len(bufQueue) \in Nat /\ ~corrupt
      BY DEF SdQueueTypeOK, SdEnqueue
    <2>5. ASSUME NEW i \in 1 .. Len(bufQueue'), Undone(i)'
          PROVE  sdPc'[bufQueue'[i]] \in {"check", "wait"} /\ buf'[bufQueue'[i]].flags # {"VALID"}
      <3>1. CASE i \in 1 .. Len(bufQueue)
        BY <1>q, <2>1, <2>2, <2>3, <2>4, <2>5, <3>1 DEF SdqUndone, Undone
      <3>2. CASE i = Len(bufQueue) + 1
        BY <1>q, <2>2, <3>2, Zenon
      <3> QED BY <1>q, <2>4, <3>1, <3>2
    <2> QED BY <2>1, <2>2, <2>4, <2>5, Zenon DEF SdqUndone
  <1>4. SdqPosts'
    BY <1>q DEF SdqPosts, SdEnqueue, SdqPhases, SdQueueTypeOK, Range
  <1> QED BY <1>2, <1>3, <1>4, Zenon

\* The test of the flags keeps SdqInv: sdrw returns only once they are written.
LEMMA SdCheckInv ==
    ASSUME SdqInv, NEW t \in SdThreads, SdCheck(t) PROVE SdqInv'
  <1> USE FlagSets DEF SdqInv, SdCheck, CheckWith
  <1>1. SdQueueTypeOK'
    BY Zenon DEF SdQueueTypeOK
  <1>2. SdqPhases'
    BY DEF SdqPhases, SdQueueTypeOK
  <1>3. SdqUndone'
    BY DEF SdqUndone, Undone, SdQueueTypeOK
  <1>4. SdqPosts'
    BY Zenon DEF SdqPosts, SdQueueTypeOK
  <1> QED BY <1>1, <1>2, <1>3, <1>4, Zenon

\* The return of unalertable_wait_sem keeps SdqInv.
LEMMA SdWakeInv ==
    ASSUME SdqInv, NEW t \in SdThreads, SdWake(t) PROVE SdqInv'
  <1> USE FlagSets DEF SdqInv, SdWake
  <1>1. SdQueueTypeOK'
    <2>1. buf' \in [SdThreads -> [flags : BufFlags, sem : 0 .. 2]]
      <3>1. buf[t] \in [flags : BufFlags, sem : 0 .. 2] /\ buf[t].sem - 1 \in 0 .. 2
        BY DEF SdQueueTypeOK
      <3> QED BY <3>1, Zenon DEF SdQueueTypeOK
    <2> QED BY <2>1, Zenon DEF SdQueueTypeOK
  <1>2. SdqPhases'
    BY Zenon DEF SdqPhases, SdQueueTypeOK
  <1>3. SdqUndone'
    BY DEF SdqUndone, Undone, SdQueueTypeOK
  <1>4. SdqPosts'
    BY DEF SdqPosts, SdQueueTypeOK
  <1> QED BY <1>1, <1>2, <1>3, <1>4, Zenon

\* The card's interrupt, and the handler's first steps up to the write of the
\* flags, keep SdqInv.
LEMMA SdIntrInv ==
    ASSUME SdqInv, SdDevice \/ SdIntr PROVE SdqInv'
  <1> USE FlagSets DEF SdqInv, SdDevice, SdIntr
  <1>1. SdQueueTypeOK'
    <2>1. front' \subseteq SdThreads /\ dev' \subseteq SdThreads
      BY QueueHead, Zenon DEF SdQueueTypeOK
    <2>2. irq' \in BOOLEAN
      BY Zenon DEF SdQueueTypeOK
    <2> QED BY <2>1, <2>2, Zenon DEF SdQueueTypeOK
  <1>2. SdqPhases'
    BY QueueHead, Zenon DEF SdqPhases, SdQueueTypeOK
  <1>3. SdqUndone'
    BY Zenon DEF SdqUndone, Undone, SdQueueTypeOK
  <1>4. SdqPosts'
    BY Zenon DEF SdqPosts, SdQueueTypeOK, Range
  <1> QED BY <1>1, <1>2, <1>3, <1>4, Zenon

\* sd_intr has moved the data of the first buf: its flags say so before anybody is
\* woken.
LEMMA SdIntrFlagsInv ==
    ASSUME SdqInv, SdIntrFlags PROVE SdqInv'
  <1> USE FlagSets DEF SdqInv, SdIntrFlags
  <1>1. SdQueueTypeOK'
    BY Zenon DEF SdQueueTypeOK
  <1>2. SdqPhases'
    BY Zenon DEF SdqPhases, SdQueueTypeOK
  <1>3. SdqUndone'
    <2>0. \A t \in SdThreads : sdPc[t] = "enter" => t \notin front
      BY QueueHead, Zenon DEF SdqPhases, SdqUndone, Undone
    <2>e. \A t \in SdThreads : sdPc'[t] = "enter" => buf'[t].flags # {"VALID"}
      BY <2>0, Zenon DEF SdqUndone
    <2> SUFFICES ASSUME NEW i \in 1 .. Len(bufQueue), i # 1
                 PROVE  /\ sdPc[bufQueue[i]] \in {"check", "wait"}
                        /\ buf'[bufQueue[i]].flags # {"VALID"}
      BY <2>e, Zenon DEF SdqUndone, Undone
    <2>1. bufQueue[i] \in SdThreads /\ bufQueue[i] \notin front
      BY QueueHead DEF SdqPhases, SdQueueTypeOK
    <2> QED BY <2>1, Zenon DEF SdqUndone, Undone
  <1>4. SdqPosts'
    BY DEF SdqPosts, SdQueueTypeOK, Range, SdqPhases, SdqUndone, Undone
  <1> QED BY <1>1, <1>2, <1>3, <1>4, Zenon

\* post_sem of the first buf, which is done.
LEMMA SdIntrPostInv ==
    ASSUME SdqInv, SdIntrPost PROVE SdqInv'
  <1> USE FlagSets DEF SdqInv, SdIntrPost
  <1>1. SdQueueTypeOK'
    <2>1. buf' \in [SdThreads -> [flags : BufFlags, sem : 0 .. 2]]
      <3>1. \A u \in SdThreads : /\ buf[u].sem \in 0 .. 2
                                /\ u \in front => buf[u].sem + 1 \in 0 .. 2
        BY QueueHead DEF SdQueueTypeOK, SdqPhases, SdqPosts, Range
      <3> QED BY SMTT(30), <3>1 DEF SdQueueTypeOK
    <2> QED BY <2>1, Zenon DEF SdQueueTypeOK
  <1> SUFFICES ASSUME ~corrupt' PROVE SdqPhases' /\ SdqUndone' /\ SdqPosts'
    BY <1>1, Zenon
  <1>2. SdqPhases'
    BY Zenon DEF SdqPhases, SdQueueTypeOK
  <1>3. SdqUndone'
    <2>1. \A u \in SdThreads : buf'[u].flags = buf[u].flags
      BY DEF SdQueueTypeOK
    <2>2. \A i \in 1 .. Len(bufQueue) : bufQueue[i] \in SdThreads
      BY DEF SdQueueTypeOK
    <2> QED BY <2>1, <2>2, Zenon DEF SdqUndone, Undone
  <1>4. SdqPosts'
    BY DEF SdqPosts, SdQueueTypeOK, Range, SdqPhases
  <1> QED BY <1>2, <1>3, <1>4, Zenon

\* The first buf leaves the queue: the others keep their order.
LEMMA SdIntrPopInv ==
    ASSUME SdqInv, SdIntrPop PROVE SdqInv'
  <1> USE DEF SdqInv
  <1>1. SdqPhases /\ SdqUndone /\ SdqPosts /\ bufQueue # <<>>
    BY Zenon DEF SdIntrPop, SdqPhases
  <1>2. SdQueueTypeOK'
    <2>1. bufQueue' \in Seq(SdThreads) /\ intrPc' \in {"idle", "flags", "post", "pop", "start"}
      BY SMTT(30), <1>1 DEF SdIntrPop, SdQueueTypeOK
    <2>2. front' \subseteq SdThreads /\ corrupt' \in BOOLEAN
      BY Zenon DEF SdIntrPop, SdQueueTypeOK
    <2> QED BY <2>1, <2>2, Zenon DEF SdIntrPop, SdQueueTypeOK
  <1> SUFFICES ASSUME ~corrupt' PROVE SdqPhases' /\ SdqUndone' /\ SdqPosts'
    BY <1>2, Zenon
  <1>3. /\ bufQueue' = Tail(bufQueue) /\ front' = {} /\ intrPc = "pop"
        /\ intrPc' = IF Len(bufQueue) > 1 THEN "start" ELSE "idle"
        /\ UNCHANGED <<dev, irq, buf, live, sdPc>>
    BY Zenon DEF SdIntrPop
  <1>4. /\ Len(bufQueue) \in Nat \ {0} /\ Len(bufQueue') = Len(bufQueue) - 1
        /\ \A i \in 1 .. Len(bufQueue') : i + 1 \in 1 .. Len(bufQueue) /\ bufQueue'[i] = bufQueue[i + 1]
        /\ bufQueue' # <<>> <=> Len(bufQueue) > 1
    <2>1. bufQueue \in Seq(SdThreads) /\ Len(bufQueue) \in Nat \ {0}
      BY <1>1 DEF SdQueueTypeOK
    <2>2. Len(bufQueue') = Len(bufQueue) - 1 /\ bufQueue' \in Seq(SdThreads)
      BY <1>1, <1>3, <2>1
    <2>3. \A i \in 1 .. Len(bufQueue') : i + 1 \in 1 .. Len(bufQueue) /\ bufQueue'[i] = bufQueue[i + 1]
      BY <1>1, <1>3, <2>1, <2>2
    <2>4. bufQueue' # <<>> <=> Len(bufQueue) > 1
      BY <2>1, <2>2
    <2> QED BY <2>1, <2>2, <2>3, <2>4, Zenon
  <1>5. SdqPhases'
    <2>1. \A i, j \in 1 .. Len(bufQueue') : bufQueue'[i] = bufQueue'[j] => i = j
      BY <1>1, <1>4 DEF SdqPhases
    <2>2. dev = {} /\ ~irq
      BY <1>1, <1>3, Zenon DEF SdqPhases
    <2> QED BY <1>1, <1>3, <1>4, <2>1, <2>2, Zenon DEF SdqPhases
  <1>6. SdqUndone'
    BY <1>1, <1>3, <1>4 DEF SdqUndone, Undone
  <1>7. SdqPosts'
    <2>1. front = {bufQueue[1]} /\ \A u \in Range(bufQueue') : u \in Range(bufQueue) /\ u # bufQueue[1]
      BY <1>1, <1>3, <1>4, <1>2 DEF SdqPhases, Range, SdQueueTypeOK
    <2> QED BY <1>1, <1>3, <2>1, Zenon DEF SdqPosts
  <1> QED BY <1>5, <1>6, <1>7, Zenon

\* sd_intr starts the next buf, if there is one.
LEMMA SdIntrStartInv ==
    ASSUME SdqInv, SdIntrStart PROVE SdqInv'
  <1> USE FlagSets DEF SdqInv, SdIntrStart, sd_start
  <1>1. SdQueueTypeOK'
    BY DEF SdQueueTypeOK, SdqPhases
  <1>2. SdqPhases'
    BY DEF SdqPhases, SdQueueTypeOK
  <1>3. SdqUndone'
    BY Zenon DEF SdqUndone, Undone, SdQueueTypeOK, SdqPhases
  <1>4. SdqPosts'
    BY Zenon DEF SdqPosts, SdQueueTypeOK, Range, SdqPhases
  <1> QED BY <1>1, <1>2, <1>3, <1>4, Zenon

\* sdrw and sd_intr keep the inductive invariant of the queue of bufs, for any number of
\* threads.
THEOREM SdqInvariant == SdQueueSpec => []SdqInv
  <1>1. SdqInv /\ [SdQueueNext]_sdQueueVars => SdqInv'
    <2> SUFFICES ASSUME SdqInv, [SdQueueNext]_sdQueueVars PROVE SdqInv'
      BY Zenon
    <2>1. CASE UNCHANGED sdQueueVars
      BY ZenonT(60), <2>1 DEF sdQueueVars, SdqInv, SdQueueTypeOK, SdqPhases, SdqUndone, Undone, SdqPosts
    <2>2. CASE SdQueueNext
      BY Zenon, <2>2, SdCallInv, SdEnqueueInv, SdCheckInv, SdWakeInv, SdIntrInv, SdIntrFlagsInv,
         SdIntrPostInv, SdIntrPopInv, SdIntrStartInv
         DEF SdQueueNext, SdqThread, SdqHandler
    <2> QED BY <2>1, <2>2, Zenon
  <1> QED BY <1>1, SdqInit, PTL DEF SdQueueSpec

\* The card works for the first buf only, sdrw and sd_intr never start it while it
\* works, and of the queued bufs only the first, while sd_intr finishes it, may be in
\* a frame that is gone.
THEOREM SdqIsSafe == SdQueueSpec => []SdqSafe
  BY SdqInvariant, SdqInvSafe, PTL
=============================================================================
