----------------------------- MODULE ProcProofs -----------------------------
(* Proofs about the processes of kernel/proc.c, for any set of them.  The   *)
(* tree: childexit counts the exited children, wait() finds a zombie, and   *)
(* nobody has a dead parent.  The pids: no two processes have the same one, *)
(* and the search finds a free one whenever there is one.  The run queues:  *)
(* the trees, counts and weight sums of nested containers agree with the    *)
(* states of the processes, on any number of CPUs.                          *)
EXTENDS ProcTree, PidMap, RunQueue, FiniteSetTheorems, WellFoundedInduction, TLAPS

\* The exited children of a process are finitely many.
LEMMA ExitedFinite ==
    \A p \in Procs : IsFiniteSet(Exited(p)) /\ Cardinality(Exited(p)) \in Nat
  BY FS_Subset, FS_CardinalityType, TreeAssumption, Zenon DEF Exited, Children

\* The state after boot, with only the root process, satisfies TreeInv.
LEMMA InitInv == Init => TreeInv
  <1> SUFFICES ASSUME Init PROVE TreeInv
    BY Zenon
  <1> USE TreeAssumption DEF Init
  <1>1. TypeOK
    BY DEF TypeOK
  <1>2. RootStays /\ Building /\ LiveParents /\ TokenGiven
    BY Zenon DEF RootStays, Building, LiveParents, TokenGiven, At
  <1>3. \A p \in Procs : Exited(p) = {}
    BY Zenon DEF Exited, Children, At
  <1>4. ChildExitCounts
    BY <1>3, FS_EmptySet DEF ChildExitCounts
  <1> QED BY <1>1, <1>2, <1>4, Zenon DEF TreeInv

\* create_proc and set_parent_to_this keep TreeInv.
LEMMA CreateInv ==
    ASSUME TreeInv, NEW p \in Procs, NEW c \in Procs, NEW par \in {p, NoProc}, Create(p, c, par) PROVE TreeInv'
  <1> USE TreeAssumption DEF TreeInv
  <1>1. TypeOK'
    BY DEF TypeOK, LiveParents, Building, RootStays, Create, At, Goto, Children, Zombies
  <1>2. RootStays'
    BY DEF RootStays, TypeOK, Building, Create, At, Goto, Children, Zombies
  <1>3. Building'
    BY DEF Building, TypeOK, RootStays, Create, At, Goto, Children, Zombies
  <1>4. LiveParents'
    BY DEF LiveParents, Building, TypeOK, RootStays, Create, At, Goto, Children, Zombies, SchedLockFree
  <1>5. TokenGiven'
    BY DEF TokenGiven, Building, TypeOK, Create, At, Goto
  <1>6. \A q \in Procs : Exited(q)' = Exited(q)
    BY ZenonT(60) DEF Exited, Children, TypeOK, RootStays, Building, Create, At, Goto
  <1>7. ChildExitCounts'
    BY <1>6, ExitedFinite, Zenon DEF ChildExitCounts, TypeOK, Create, At, Goto
  <1> QED BY <1>1, <1>2, <1>3, <1>4, <1>5, <1>7, Zenon DEF TreeInv

\* start_proc keeps TreeInv: the new process has no children yet.
LEMMA StartProcInv ==
    ASSUME TreeInv, NEW p \in Procs, StartProc(p) PROVE TreeInv'
  <1> USE TreeAssumption DEF TreeInv
  <1>1. TypeOK'
    BY DEF TypeOK, LiveParents, Building, RootStays, StartProc, At, Goto, Children, Zombies
  <1>2. RootStays'
    BY DEF RootStays, TypeOK, Building, StartProc, At, Goto, Children, Zombies
  <1>3. Building'
    BY DEF Building, TypeOK, RootStays, StartProc, At, Goto, Children, Zombies
  <1>4. LiveParents'
    BY DEF LiveParents, Building, TypeOK, RootStays, StartProc, At, Goto, Children, Zombies, SchedLockFree
  <1>5. TokenGiven'
    BY Zenon DEF TokenGiven, Building, TypeOK, StartProc, At, Goto
  <1>6. \A q \in Procs : Exited(q)' = Exited(q)
    BY DEF Exited, Children, TypeOK, RootStays, Building, StartProc, At, Goto
  <1>7. ChildExitCounts'
    <2> SUFFICES ASSUME NEW q \in Procs, state'[q] = "LIVE", pc'[q] # "zombify"
                 PROVE  Cardinality(Exited(q)') = val'[q]
                            + (IF pc'[q] = "asleep" THEN 1 ELSE 0)
                            + (IF pc'[q] = "reap" THEN 1 ELSE 0)
      BY Zenon DEF ChildExitCounts
    <2>1. CASE q = child[p]
      <3>1. state[q] = "UNUSED" /\ val[q] = 0 /\ pc[q] = "run"
        BY <2>1, Zenon DEF Building, StartProc, At
      <3>2. Exited(q) = {}
        BY <3>1, Zenon DEF LiveParents, Exited, Children, At, TypeOK
      <3>3. val'[q] = 0 /\ pc'[q] = "run"
        BY <3>1, Zenon DEF StartProc, Goto, TypeOK
      <3> QED BY <1>6, <3>2, <3>3, FS_EmptySet
    <2>2. CASE q # child[p]
      <3>1. state[q] = "LIVE" /\ val'[q] = val[q]
        BY <2>2, Zenon DEF StartProc, TypeOK
      <3>2. pc'[q] = pc[q] \/ (pc[q] = "fork" /\ pc'[q] = "run")
        BY Zenon DEF StartProc, Goto, TypeOK, At
      <3> QED BY <1>6, <3>1, <3>2, Zenon DEF ChildExitCounts
    <2> QED BY <2>1, <2>2, Zenon
  <1> QED BY <1>1, <1>2, <1>3, <1>4, <1>5, <1>7, Zenon DEF TreeInv

\* The start of wait() keeps TreeInv.
LEMMA WaitInv ==
    ASSUME TreeInv, NEW p \in Procs, Wait(p) PROVE TreeInv'
  <1> USE TreeAssumption DEF TreeInv
  <1>1. TypeOK'
    BY Zenon DEF TypeOK, LiveParents, Building, RootStays, Wait, At, Goto, Children, Zombies
  <1>2. RootStays'
    BY Zenon DEF RootStays, TypeOK, Building, Wait, At, Goto, Children, Zombies
  <1>3. Building'
    BY DEF Building, TypeOK, RootStays, Wait, At, Goto, Children, Zombies
  <1>4. LiveParents'
    BY DEF LiveParents, Building, TypeOK, RootStays, Wait, At, Goto, Children, Zombies, SchedLockFree
  <1>5. TokenGiven'
    BY Zenon DEF TokenGiven, Building, TypeOK, Wait, At, Goto
  <1>6. \A q \in Procs : Exited(q)' = Exited(q)
    BY ZenonT(60) DEF Exited, Children, TypeOK, RootStays, Building, Wait, At, Goto
  <1>7. ChildExitCounts'
    BY <1>6, ExitedFinite, Zenon DEF ChildExitCounts, TypeOK, Wait, At, Goto
  <1> QED BY <1>1, <1>2, <1>3, <1>4, <1>5, <1>7, Zenon DEF TreeInv

\* wait_sem on childexit keeps TreeInv.
LEMMA WaitSemInv ==
    ASSUME TreeInv, NEW p \in Procs, WaitSem(p) PROVE TreeInv'
  <1> USE TreeAssumption DEF TreeInv
  <1>1. TypeOK'
    BY DEF TypeOK, LiveParents, Building, RootStays, WaitSem, At, Goto, Children, Zombies
  <1>2. RootStays'
    BY DEF RootStays, TypeOK, Building, WaitSem, At, Goto, Children, Zombies
  <1>3. Building'
    BY DEF Building, TypeOK, RootStays, WaitSem, At, Goto, Children, Zombies
  <1>4. LiveParents'
    BY DEF LiveParents, Building, TypeOK, RootStays, WaitSem, At, Goto, Children, Zombies, SchedLockFree
  <1>5. TokenGiven'
    BY DEF TokenGiven, Building, TypeOK, WaitSem, At, Goto
  <1>6. \A q \in Procs : Exited(q)' = Exited(q)
    BY DEF Exited, Children, TypeOK, RootStays, Building, WaitSem, At, Goto
  <1>7. ChildExitCounts'
    BY SMTT(30), <1>6, ExitedFinite DEF ChildExitCounts, TypeOK, WaitSem, At, Goto
  <1> QED BY <1>1, <1>2, <1>3, <1>4, <1>5, <1>7, Zenon DEF TreeInv

\* The return from the sleep in wait() keeps TreeInv.
LEMMA WokenInv ==
    ASSUME TreeInv, NEW p \in Procs, Woken(p) PROVE TreeInv'
  <1> USE TreeAssumption DEF TreeInv
  <1>1. TypeOK'
    BY DEF TypeOK, LiveParents, Building, RootStays, Woken, At, Goto, Children, Zombies
  <1>2. RootStays'
    BY DEF RootStays, TypeOK, Building, Woken, At, Goto, Children, Zombies
  <1>3. Building'
    BY SMTT(30) DEF Building, TypeOK, RootStays, Woken, At, Goto, Children, Zombies
  <1>4. LiveParents'
    BY DEF LiveParents, Building, TypeOK, RootStays, Woken, At, Goto, Children, Zombies, SchedLockFree
  <1>5. TokenGiven'
    BY DEF TokenGiven, Building, TypeOK, Woken, At, Goto
  <1>6. \A q \in Procs : Exited(q)' = Exited(q)
    BY DEF Exited, Children, TypeOK, RootStays, Building, Woken, At, Goto
  <1>7. ChildExitCounts'
    BY <1>6, ExitedFinite DEF ChildExitCounts, TypeOK, Woken, At, Goto
  <1> QED BY <1>1, <1>2, <1>3, <1>4, <1>5, <1>7, Zenon DEF TreeInv

\* Freeing a zombie child in wait() uses up one token and keeps TreeInv.
LEMMA ReapInv ==
    ASSUME TreeInv, NEW p \in Procs, Reap(p) PROVE TreeInv'
  <1> USE TreeAssumption DEF TreeInv
  <1>1. TypeOK'
    BY DEF TypeOK, LiveParents, Building, RootStays, Reap, At, Goto, Children, Zombies
  <1>2. RootStays'
    BY DEF RootStays, TypeOK, Building, Reap, At, Goto, Children, Zombies
  <1>3. Building'
    BY DEF Building, TypeOK, RootStays, Reap, At, Goto, Children, Zombies
  <1>4. LiveParents'
    BY DEF LiveParents, Building, TypeOK, RootStays, Reap, At, Goto, Children, Zombies, SchedLockFree
  <1>5. TokenGiven'
    BY DEF TokenGiven, Building, TypeOK, Reap, At, Goto
  <1>6. PICK c \in Zombies(p) : /\ state' = [state EXCEPT ![c] = "free"]
                                /\ parent' = [parent EXCEPT ![c] = NoProc]
    BY Zenon DEF Reap
  <1>a. /\ c \in Exited(p) /\ Exited(p)' = Exited(p) \ {c}
        /\ \A q \in Procs \ {p} : Exited(q)' = Exited(q)
    BY <1>6 DEF Zombies, Children, Exited, At, Reap, Goto, TypeOK
  <1>b. Cardinality(Exited(p)') = Cardinality(Exited(p)) - 1
    BY Zenon, <1>a, ExitedFinite, FS_RemoveElement
  <1>7. ChildExitCounts'
    <2> SUFFICES ASSUME NEW q \in Procs, state'[q] = "LIVE", pc'[q] # "zombify"
                 PROVE  Cardinality(Exited(q)') = val'[q]
                            + (IF pc'[q] = "asleep" THEN 1 ELSE 0)
                            + (IF pc'[q] = "reap" THEN 1 ELSE 0)
      BY Zenon DEF ChildExitCounts
    <2>1. state[q] = "LIVE" /\ val'[q] = val[q]
      BY <1>6, Zenon DEF Reap, TypeOK, Zombies, Children
    <2>2. CASE q = p
      <3>1. pc[q] = "reap" /\ pc'[q] = "run"
        BY <2>2, Zenon DEF Reap, At, Goto, TypeOK
      <3> QED BY <2>1, <2>2, <3>1, <1>b, ExitedFinite DEF ChildExitCounts, TypeOK
    <2>3. CASE q # p
      <3>1. pc'[q] = pc[q]
        BY SMTT(30), <2>3 DEF Reap, Goto, TypeOK
      <3> QED BY <2>1, <2>3, <3>1, <1>a, Zenon DEF ChildExitCounts
    <2> QED BY <2>2, <2>3, Zenon
  <1> QED BY <1>1, <1>2, <1>3, <1>4, <1>5, <1>7, Zenon DEF TreeInv

\* kill() keeps TreeInv.
LEMMA KillInv ==
    ASSUME TreeInv, NEW p \in Procs, Kill(p) PROVE TreeInv'
  <1> USE TreeAssumption DEF TreeInv
  <1>1. TypeOK'
    BY Zenon DEF TypeOK, LiveParents, Building, RootStays, Kill, At, Goto, Children, Zombies
  <1>2. RootStays'
    BY Zenon DEF RootStays, TypeOK, Building, Kill, At, Goto, Children, Zombies
  <1>3. Building'
    BY DEF Building, TypeOK, RootStays, Kill, At, Goto, Children, Zombies
  <1>4. LiveParents'
    BY Zenon DEF LiveParents, Building, TypeOK, RootStays, Kill, At, Goto, Children, Zombies, SchedLockFree
  <1>5. TokenGiven'
    BY Zenon DEF TokenGiven, Building, TypeOK, Kill, At, Goto
  <1>6. \A q \in Procs : Exited(q)' = Exited(q)
    BY Zenon DEF Exited, Children, TypeOK, RootStays, Building, Kill, At, Goto
  <1>7. ChildExitCounts'
    BY <1>6, ExitedFinite, Zenon DEF ChildExitCounts, TypeOK, Kill, At, Goto
  <1> QED BY <1>1, <1>2, <1>3, <1>4, <1>5, <1>7, Zenon DEF TreeInv

\* The start of exit() keeps TreeInv.
LEMMA ExitInv ==
    ASSUME TreeInv, NEW p \in Procs, Exit(p) PROVE TreeInv'
  <1> USE TreeAssumption DEF TreeInv
  <1>1. TypeOK'
    BY Zenon DEF TypeOK, LiveParents, Building, RootStays, Exit, At, Goto, Children, Zombies
  <1>2. RootStays'
    BY Zenon DEF RootStays, TypeOK, Building, Exit, At, Goto, Children, Zombies
  <1>3. Building'
    BY DEF Building, TypeOK, RootStays, Exit, At, Goto, Children, Zombies
  <1>4. LiveParents'
    BY DEF LiveParents, Building, TypeOK, RootStays, Exit, At, Goto, Children, Zombies, SchedLockFree
  <1>5. TokenGiven'
    BY Zenon DEF TokenGiven, Building, TypeOK, Exit, At, Goto
  <1>6. \A q \in Procs : Exited(q)' = Exited(q)
    BY Zenon DEF Exited, Children, TypeOK, RootStays, Building, Exit, At, Goto
  <1>7. ChildExitCounts'
    BY <1>6, ExitedFinite, Zenon DEF ChildExitCounts, TypeOK, Exit, At, Goto
  <1> QED BY <1>1, <1>2, <1>3, <1>4, <1>5, <1>7, Zenon DEF TreeInv

\* Giving the children to root_proc and posting root_proc and the parent keeps TreeInv.
LEMMA ExitTreeInv ==
    ASSUME TreeInv, NEW p \in Procs, ExitTree(p) PROVE TreeInv'
  <1> USE TreeAssumption DEF TreeInv
  <1> DEFINE n == Cardinality(Zombies(p))
             pa == parent[p]
  <1>1. /\ state[p] = "LIVE" /\ pc[p] = "exit" /\ SchedLockFree
        /\ parent' = [c \in Procs |-> IF c \in Children(p) THEN root_proc ELSE parent[c]]
        /\ pc' = [pc EXCEPT ![p] = "zombify"]
        /\ UNCHANGED <<state, killed, child>>
    BY Zenon DEF ExitTree, At, Goto
  <1>2. /\ pa \in Procs /\ pa # p /\ p # root_proc /\ p \notin Children(p)
        /\ state[pa] = "LIVE" /\ pc[pa] # "zombify"
    BY <1>1, Zenon DEF TypeOK, RootStays, LiveParents, At, Children
  <1>3. Zombies(p) = Exited(p) /\ n \in Nat
    BY <1>1, ExitedFinite, Zenon DEF Zombies, Exited, SchedLockFree, Children
  <1> HIDE DEF n
  <1>4. val' = [q \in Procs |-> val[q] + (IF q = root_proc THEN n ELSE 0)
                                       + (IF q = pa THEN 1 ELSE 0)]
    <2>1. CASE pa = root_proc
      BY <2>1, <1>3 DEF ExitTree, PostChildExit, TypeOK, n
    <2>2. CASE pa # root_proc
      BY <2>2, <1>2, <1>3 DEF ExitTree, TypeOK, n
    <2> QED BY <2>1, <2>2, Zenon
  <1>5. /\ up' \in SUBSET Procs
        /\ \A q \in up' : q \in up \/ (q = pa \/ (q = root_proc /\ n > 0))
    <2>1. CASE pa = root_proc
      BY <2>1, <1>2 DEF ExitTree, PostChildExit, TypeOK, n
    <2>2. CASE pa # root_proc
      BY <2>2, <1>2 DEF ExitTree, TypeOK, n
    <2> QED BY <2>1, <2>2, Zenon
  <1>6. TypeOK'
    <2>1. val' \in [Procs -> Int]
      BY <1>3, <1>4 DEF TypeOK
    <2> QED BY <2>1, <1>1, <1>5, Zenon DEF TypeOK
  <1>7. RootStays'
    BY <1>1, <1>2, Zenon DEF RootStays, TypeOK, Children
  <1>8. Building'
    <2>1. \A q \in Procs : state[q] = "UNUSED" => q # pa /\ q # root_proc
      BY <1>2, Zenon DEF RootStays
    <2>2. \A q \in Procs : state[q] = "UNUSED" => val'[q] = val[q] /\ pc'[q] = pc[q]
      BY SMTT(30), <2>1, <1>1, <1>4 DEF TypeOK, Building
    <2>3. \A q \in Procs : state[q] = "free" => q \notin Children(p)
      BY DEF Building, Children
    <2> QED BY <1>1, <2>2, <2>3 DEF Building, At, TypeOK
  <1>9. LiveParents'
    BY <1>1, <1>2 DEF LiveParents, TypeOK, At, Children, RootStays
  <1>10. \A q \in Procs : val'[q] >= val[q]
    BY <1>3, <1>4 DEF TypeOK
  <1>11. TokenGiven'
    <2> SUFFICES ASSUME NEW q \in Procs, state[q] = "LIVE",
                        pc'[q] = "reap" \/ (pc'[q] = "asleep" /\ q \in up')
                 PROVE  val'[q] >= 0
      BY <1>1, Zenon DEF TokenGiven, At
    <2>1. q # p /\ pc'[q] = pc[q] /\ pc[q] # "zombify"
      BY <1>1, Zenon DEF TypeOK
    <2>2. val[q] \in Int /\ val'[q] \in Int
      BY <1>6, Zenon DEF TypeOK
    <2>3. CASE pc[q] = "reap" \/ q \in up
      <3>1. val[q] >= 0
        BY <2>1, <2>3, Zenon DEF TokenGiven, At
      <3> QED BY <3>1, <2>2, <1>10
    <2>4. CASE pc[q] = "asleep" /\ q \notin up
      <3>1. val[q] >= -1
        <4>1. Cardinality(Exited(q)) = val[q] + 1
          BY <2>4, <2>2 DEF ChildExitCounts
        <4> QED BY <4>1, <2>2, ExitedFinite
      <3>2. q = pa \/ (q = root_proc /\ n > 0)
        BY <2>1, <2>4, <1>5, Zenon
      <3>3. val'[q] >= val[q] + 1
        BY <3>2, <2>2, <1>3, <1>4
      <3> QED BY <3>1, <3>3, <2>2
    <2> QED BY <2>1, <2>3, <2>4, Zenon
  <1>12. \A q \in Procs : q # p =>
            Exited(q)' = Exited(q) \cup (IF q = root_proc THEN Exited(p) ELSE {})
                                   \cup (IF q = pa THEN {p} ELSE {})
    <2> SUFFICES ASSUME NEW q \in Procs, q # p, NEW c \in Procs
                 PROVE  c \in Exited(q)' <=>
                            \/ c \in Exited(q) \/ (q = root_proc /\ c \in Exited(p))
                            \/ (q = pa /\ c = p)
      BY DEF Exited, Children
    <2>1. c = p => (c \in Exited(q)' <=> q = pa) /\ c \notin Exited(p) /\ c \notin Exited(q)
      BY <1>1, <1>2, Zenon DEF Exited, Children, At, TypeOK
    <2>2. c # p => (c \in Exited(q)' <=> c \in Exited(q) \/ (q = root_proc /\ c \in Exited(p)))
      BY <1>1, Zenon DEF Exited, Children, At, TypeOK
    <2> QED BY <2>1, <2>2, Zenon
  <1>13. \A q \in Procs : q # p => p \notin Exited(q) /\ Exited(q) \cap Exited(p) = {}
    BY <1>1, Zenon DEF Exited, Children, At
  <1>14. p \notin Exited(p)
    BY <1>2, Zenon DEF Exited
  <1>15. \A q \in Procs : q # p => Cardinality(Exited(q)') =
            Cardinality(Exited(q)) + (IF q = root_proc THEN n ELSE 0) + (IF q = pa THEN 1 ELSE 0)
    <2> SUFFICES ASSUME NEW q \in Procs, q # p
                 PROVE  Cardinality(Exited(q)') = Cardinality(Exited(q))
                            + (IF q = root_proc THEN n ELSE 0) + (IF q = pa THEN 1 ELSE 0)
      BY Zenon
    <2> DEFINE E == Exited(q) \cup (IF q = root_proc THEN Exited(p) ELSE {})
    <2>1. /\ IsFiniteSet(E) /\ p \notin E
          /\ Cardinality(E) = Cardinality(Exited(q)) + (IF q = root_proc THEN n ELSE 0)
      <3>1. CASE q = root_proc
        <4>1. /\ IsFiniteSet(Exited(q) \cup Exited(p))
              /\ Cardinality(Exited(q) \cup Exited(p))
                    = Cardinality(Exited(q)) + Cardinality(Exited(p))
                          - Cardinality(Exited(q) \cap Exited(p))
          BY ExitedFinite, FS_Union, Zenon
        <4>2. Cardinality(Exited(q) \cap Exited(p)) = 0
          BY <1>13, FS_EmptySet, Zenon
        <4>3. n = Cardinality(Exited(p))
          BY <1>3, Zenon DEF n
        <4> QED BY <3>1, <4>1, <4>2, <4>3, <1>13, <1>14, ExitedFinite
      <3>2. CASE q # root_proc
        BY <3>2, <1>13, ExitedFinite
      <3> QED BY <3>1, <3>2, Zenon
    <2>2. Exited(q)' = E \cup (IF q = pa THEN {p} ELSE {})
      BY <1>12, Zenon
    <2>3. Cardinality(E) \in Nat
      BY <2>1, FS_CardinalityType, Zenon
    <2> HIDE DEF E
    <2>4. CASE q = pa
      BY ZenonT(60), <2>4, <2>1, <2>2, <2>3, FS_AddElement
    <2>5. CASE q # pa
      <3>1. Exited(q)' = E
        BY <2>2, <2>5, Zenon
      <3> QED BY <3>1, <2>1, <2>3, <2>5
    <2> QED BY <2>4, <2>5, Zenon
  <1>16. ChildExitCounts'
    <2> SUFFICES ASSUME NEW q \in Procs, state'[q] = "LIVE", pc'[q] # "zombify"
                 PROVE  Cardinality(Exited(q)') = val'[q]
                            + (IF pc'[q] = "asleep" THEN 1 ELSE 0)
                            + (IF pc'[q] = "reap" THEN 1 ELSE 0)
      BY Zenon DEF ChildExitCounts
    <2>1. q # p /\ state[q] = "LIVE" /\ pc'[q] = pc[q]
      BY <1>1, Zenon DEF TypeOK
    <2>2. val[q] \in Int /\ Cardinality(Exited(q)) \in Nat
      BY ExitedFinite, Zenon DEF TypeOK
    <2>3. Cardinality(Exited(q)) = val[q] + (IF pc[q] = "asleep" THEN 1 ELSE 0)
                                          + (IF pc[q] = "reap" THEN 1 ELSE 0)
      BY <2>1, Zenon DEF ChildExitCounts
    <2> QED BY <2>1, <2>2, <2>3, <1>3, <1>4, <1>15
  <1> QED BY <1>6, <1>7, <1>8, <1>9, <1>11, <1>16, Zenon DEF TreeInv

\* Becoming a ZOMBIE keeps TreeInv.
LEMMA ZombifyInv ==
    ASSUME TreeInv, NEW p \in Procs, Zombify(p) PROVE TreeInv'
  <1> USE TreeAssumption DEF TreeInv
  <1>1. TypeOK'
    BY Zenon DEF TypeOK, LiveParents, Building, RootStays, Zombify, At, Goto, Children, Zombies
  <1>2. RootStays'
    BY Zenon DEF RootStays, TypeOK, Building, Zombify, At, Goto, Children, Zombies
  <1>3. Building'
    BY DEF Building, TypeOK, RootStays, Zombify, At, Goto, Children, Zombies
  <1>4. LiveParents'
    BY DEF LiveParents, Building, TypeOK, RootStays, Zombify, At, Goto, Children, Zombies, SchedLockFree
  <1>5. TokenGiven'
    BY Zenon DEF TokenGiven, Building, TypeOK, Zombify, At, Goto
  <1>6. \A q \in Procs : Exited(q)' = Exited(q)
    BY DEF Exited, Children, TypeOK, RootStays, Building, Zombify, At, Goto
  <1>7. ChildExitCounts'
    BY <1>6, ExitedFinite, Zenon DEF ChildExitCounts, TypeOK, Zombify, At, Goto
  <1> QED BY <1>1, <1>2, <1>3, <1>4, <1>5, <1>7, Zenon DEF TreeInv

\* The inductive invariant of the process tree holds for any set of processes.
THEOREM TreeInvariant == Spec => []TreeInv
  <1>1. TreeInv /\ UNCHANGED vars => TreeInv'
    BY DEF TreeInv, TypeOK, RootStays, Building, LiveParents, ChildExitCounts, TokenGiven,
           Exited, Children, At, vars
  <1>2. TreeInv /\ Next => TreeInv'
    BY CreateInv, StartProcInv, WaitInv, WaitSemInv, WokenInv, ReapInv, KillInv,
       ExitInv, ExitTreeInv, ZombifyInv DEF Next
  <1> QED BY InitInv, <1>1, <1>2, PTL DEF Spec

\* childexit of a live process counts the exited children its wait() has not
\* collected, whatever exits, kills and inheritances happened.
THEOREM TokensMatchExits == Spec => []ChildExitCounts
  <1>1. TreeInv => ChildExitCounts
    BY Zenon DEF TreeInv
  <1> QED BY <1>1, TreeInvariant, PTL

\* No process has a ZOMBIE, exiting or freed parent.
THEOREM ParentsLive == Spec => [](TypeOK /\ LiveParents)
  <1>1. TreeInv => TypeOK /\ LiveParents
    BY Zenon DEF TreeInv
  <1> QED BY <1>1, TreeInvariant, PTL

\* wait() never reaches its PANIC: with a token in hand there is a zombie child.
THEOREM WaitNeverPanics == Spec => []WaitFindsZombie
  <1>1. TreeInv => WaitFindsZombie
    <2> SUFFICES ASSUME TreeInv, NEW p \in Procs, At(p, "reap"), SchedLockFree
                 PROVE  Zombies(p) # {}
      BY Zenon DEF WaitFindsZombie
    <2>1. Cardinality(Exited(p)) = val[p] + 1 /\ val[p] \in Int /\ val[p] >= 0
      BY DEF TreeInv, ChildExitCounts, At, TypeOK, TokenGiven
    <2>2. Exited(p) # {}
      <3>1. Cardinality(Exited(p)) # 0
        BY <2>1
      <3> QED BY <3>1, FS_EmptySet, Zenon
    <2>3. Exited(p) = Zombies(p)
      BY Zenon DEF Exited, Zombies, SchedLockFree, Children
    <2> QED BY <2>2, <2>3, Zenon
  <1> QED BY <1>1, TreeInvariant, PTL

\* The promises of the process tree of proc.c together, for any set of processes.
THEOREM TreeIsSafe == Spec => []TreeSafe
  <1>1. TreeInv => TypeOK /\ ChildExitCounts /\ LiveParents
    BY Zenon DEF TreeInv
  <1>2. (TypeOK /\ ChildExitCounts /\ LiveParents) /\ WaitFindsZombie => TreeSafe
    BY Zenon DEF TreeSafe
  <1> QED BY <1>1, <1>2, TreeInvariant, WaitNeverPanics, PTL

-----------------------------------------------------------------------------
\* Every set of natural numbers that is not empty has a least element.
LEMMA LeastNat ==
    ASSUME NEW S \in SUBSET Nat, S # {}
    PROVE  \E n \in S : \A m \in S : n <= m
  <1> DEFINE T == {0..n : n \in S}
  <1>1. \A n \in S : IsFiniteSet(0..n)
    BY FS_Interval
  <1>2. T \subseteq FiniteSubsetsOf(Nat) /\ T # {}
    <2>1. \A n \in S : 0..n \in FiniteSubsetsOf(Nat)
      BY <1>1 DEF FiniteSubsetsOf
    <2> QED BY <2>1, Zenon
  <1> HIDE DEF T
  <1>3. PICK x \in T : \A y \in T : <<y, x>> \notin StrictSubsetOrdering(Nat)
    BY <1>2, WFMin, FS_StrictSubsetOrderingWellFounded, Zenon
  <1> USE DEF T
  <1>4. PICK n \in S : x = 0..n
    BY Zenon
  <1>5. ASSUME NEW m \in S, m < n PROVE FALSE
    <2>1. 0..m \subseteq 0..n /\ 0..m # 0..n
      <3>1. n \in 0..n /\ n \notin 0..m
        BY <1>5
      <3> QED BY <1>5, <3>1
    <2>2. <<0..m, 0..n>> \in StrictSubsetOrdering(Nat)
      BY <2>1 DEF StrictSubsetOrdering
    <2> QED BY <2>2, <1>3, <1>4, Zenon
  <1> QED BY <1>5

\* Min is an element, and the least one.
LEMMA MinNat ==
    ASSUME NEW S \in SUBSET Nat, S # {}
    PROVE  Min(S) \in S /\ \A m \in S : Min(S) <= m
  BY LeastNat, Zenon DEF Min

\* Where find_next_zero_bit stops: at the first clear bit from offset on, or
\* at the end.
LEMMA NextZeroBit ==
    ASSUME NEW size \in Nat, NEW offset \in 0..size
    PROVE  LET r == find_next_zero_bit(size, offset)
               zeros == {i \in offset..(size - 1) : i \notin bitmap} IN
           IF zeros = {} THEN r = size ELSE r \in zeros
  <1>1. {i \in offset..(size - 1) : i \notin bitmap} \in SUBSET Nat
    OBVIOUS
  <1> QED BY <1>1, MinNat DEF find_next_zero_bit

\* What get_next_pid returns: a clear bit, or -1 when the map is exhausted.
LEMMA NextPidFinds ==
    ASSUME PidTypeOK
    PROVE  \/ NextPid(0) \in 0..(PidSize - 1) \ bitmap
           \/ NextPid(0) = -1 /\ (nr_free = 0 \/ bitmap = 0..(PidSize - 1))
  <1> USE PidAssumption
  <1> DEFINE start == (pid_base + 1) % PidSize
             offset == find_next_zero_bit(PidSize, start)
             again == find_next_zero_bit(PidSize - 1, 0)
             found == IF offset = PidSize THEN again ELSE offset
  <1>1. start \in 0..(PidSize - 1)
    BY DEF PidTypeOK
  <1> HIDE DEF start
  <1>2. IF {i \in start..(PidSize - 1) : i \notin bitmap} = {}
        THEN offset = PidSize
        ELSE offset \in start..(PidSize - 1) /\ offset \notin bitmap
    <2>1. PidSize \in Nat /\ start \in 0..PidSize
      BY <1>1
    <2> QED BY <2>1, NextZeroBit, Zenon
  <1>3. IF {i \in 0..(PidSize - 1 - 1) : i \notin bitmap} = {}
        THEN again = PidSize - 1
        ELSE again \in 0..(PidSize - 1 - 1) /\ again \notin bitmap
    <2>1. PidSize - 1 \in Nat /\ 0 \in 0..(PidSize - 1)
      OBVIOUS
    <2> QED BY <2>1, NextZeroBit, Zenon
  <1>4. NextPid(0) = IF nr_free = 0 \/ found = PidSize \/ found \in bitmap THEN -1 ELSE found
    BY Zenon DEF NextPid, start
  <1> HIDE DEF offset, again
  <1>5. CASE offset # PidSize
    BY <1>1, <1>2, <1>4, <1>5
  <1>6. CASE offset = PidSize
    <2>1. PidSize - 1 \in bitmap
      BY <1>1, <1>2, <1>6
    <2>2. CASE again = PidSize - 1
      <3>1. \A i \in 0..(PidSize - 1) : i \in bitmap
        BY <1>3, <2>1, <2>2
      <3>2. bitmap = 0..(PidSize - 1)
        BY <3>1, Zenon DEF PidTypeOK
      <3> QED BY <1>4, <1>6, <2>1, <2>2, <3>2, Zenon
    <2>3. CASE again # PidSize - 1
      BY <1>3, <1>4, <1>6, <2>3
    <2> QED BY <2>2, <2>3, Zenon
  <1> QED BY <1>5, <1>6, Zenon

\* init_pidmap leaves a map in which nobody has an id.
LEMMA PidInit == PidMapInit => PidSafe
  <1> SUFFICES ASSUME PidMapInit PROVE PidSafe
    BY Zenon
  <1> USE PidAssumption DEF PidMapInit
  <1>1. PidTypeOK
    <2>1. PidSize \in -1..PidSize
      OBVIOUS
    <2>2. bitmap \subseteq 0..(PidSize - 1)
      OBVIOUS
    <2>3. 0 \in 0..(PidSize - 1) /\ PidSize \in Int
      OBVIOUS
    <2>4. pidOf \in [PidProcs -> -1..PidSize]
      BY <2>1, Zenon DEF NoId
    <2> QED BY <2>2, <2>3, <2>4, Zenon DEF PidTypeOK
  <1>2. \A p \in PidProcs : ~HasId(p)
    BY DEF HasId, NoId
  <1>3. {p \in PidProcs : HasId(p)} = {}
    BY <1>2, Zenon
  <1> QED BY <1>1, <1>2, <1>3, FS_EmptySet DEF PidSafe, PidUnique, PidFreeCount

\* get_next_pid keeps the ids apart and the count right.
LEMMA GetNextPid ==
    ASSUME PidSafe, ~pidLost, NEW p \in PidProcs, get_next_pid(p) PROVE PidSafe'
  <1> USE PidAssumption DEF PidSafe
  <1>1. PidTypeOK'
    <2> USE DEF get_next_pid, StartWith, PidTypeOK
    <2>1. NextPid(0) \in -1..PidSize /\ (NextPid(0) # -1 => NextPid(0) \in 0..(PidSize - 1))
      BY NextPidFinds
    <2>2. pidOf' \in [PidProcs -> -1..PidSize]
      BY <2>1, Zenon
    <2>3. bitmap' \subseteq 0..(PidSize - 1)
      <3>1. bitmap' = bitmap \/ (bitmap' = bitmap \cup {NextPid(0)} /\ NextPid(0) # -1)
        BY Zenon
      <3> QED BY <2>1, <3>1, Zenon
    <2>4. pid_base' \in 0..(PidSize - 1) /\ nr_free' \in Int
      BY <2>1
    <2> QED BY <2>2, <2>3, <2>4, Zenon
  <1>2. PidUnique'
    BY NextPidFinds DEF PidUnique, get_next_pid, StartWith, PidTypeOK, NoId, HasId
  <1>3. PidFreeCount'
    <2> DEFINE S == {q \in PidProcs : HasId(q)}
    <2>1. IsFiniteSet(S) /\ Cardinality(S) \in Nat /\ p \notin S
      <3>1. S \in SUBSET PidProcs
        BY Zenon
      <3>2. ~HasId(p)
        BY DEF get_next_pid, StartWith, HasId, NoId
      <3> QED BY <3>1, <3>2, FS_Subset, FS_CardinalityType, Zenon
    <2>2. CASE NextPid(0) = -1
      <3>1. S' = S /\ nr_free' = nr_free
        BY <2>2 DEF get_next_pid, StartWith, HasId, PidTypeOK, NoId
      <3> QED BY <3>1, Zenon DEF PidFreeCount, get_next_pid, StartWith
    <2>3. CASE NextPid(0) \in 0..(PidSize - 1) \ bitmap
      <3>1. S' = S \cup {p} /\ nr_free' = nr_free - 1
        BY <2>3 DEF get_next_pid, StartWith, HasId, PidTypeOK, NoId
      <3>2. Cardinality(S') = Cardinality(S) + 1
        BY <2>1, <3>1, FS_AddElement, Zenon
      <3> QED BY <2>1, <3>1, <3>2 DEF PidFreeCount
    <2> QED BY <2>2, <2>3, NextPidFinds, Zenon
  <1> QED BY <1>1, <1>2, <1>3, Zenon

\* free_pid of an id in use keeps both; of a -1 it ends what is claimed.
LEMMA FreePid ==
    ASSUME PidSafe, ~pidLost, NEW p \in PidProcs, free_pid(p) PROVE PidSafe'
  <1> USE PidAssumption DEF PidSafe
  <1>1. PidTypeOK'
    <2> USE DEF free_pid, PidTypeOK
    <2>1. pidOf' \in [PidProcs -> -1..PidSize]
      BY DEF NoId
    <2>2. bitmap' \subseteq bitmap
      BY Zenon
    <2>3. bitmap' \subseteq 0..(PidSize - 1)
      BY <2>2, Zenon
    <2>4. pid_base' \in 0..(PidSize - 1) /\ nr_free' \in Int
      OBVIOUS
    <2>5. pidLost' \in BOOLEAN
      BY Zenon
    <2> QED BY <2>1, <2>3, <2>4, <2>5, Zenon
  <1>2. CASE pidOf[p] = -1
    BY <1>1, <1>2, Zenon DEF free_pid, PidUnique, PidFreeCount
  <1>3. CASE pidOf[p] # -1
    <2>1. HasId(p) /\ pidOf[p] % PidSize = pidOf[p]
      BY <1>3 DEF free_pid, PidTypeOK, NoId, HasId
    <2>2. PidUnique'
      BY <2>1 DEF PidUnique, free_pid, PidTypeOK, NoId, HasId
    <2>3. PidFreeCount'
      <3> DEFINE S == {q \in PidProcs : HasId(q)}
      <3>1. IsFiniteSet(S) /\ Cardinality(S) \in Nat /\ p \in S
        <4>1. S \in SUBSET PidProcs /\ p \in S
          BY <2>1, Zenon
        <4> QED BY <4>1, FS_Subset, FS_CardinalityType, Zenon
      <3>2. S' = S \ {p}
        <4>1. \A q \in PidProcs : pidOf'[q] = IF q = p THEN PidSize ELSE pidOf[q]
          BY Zenon DEF free_pid, PidTypeOK, NoId
        <4>2. \A q \in PidProcs : HasId(q)' <=> HasId(q) /\ q # p
          BY <4>1 DEF HasId
        <4> QED BY <4>2, Zenon
      <3>3. Cardinality(S') = Cardinality(S) - 1 /\ Cardinality(S) \in Nat
        BY <3>1, <3>2, FS_RemoveElement, Zenon
      <3> QED BY <3>3 DEF PidFreeCount, free_pid
    <2> QED BY <1>1, <2>2, <2>3, Zenon
  <1> QED BY <1>2, <1>3, Zenon

\* No two live processes have one id, an id in use is marked, and nr_free
\* counts the others, for maps of any size and whatever bits init_pidmap's
\* memset leaves set.
THEOREM PidIsSafe == PidMapSpec => []PidSafe
  <1>1. PidSafe /\ [PidMapNext]_pidVars => PidSafe'
    <2> SUFFICES ASSUME PidSafe, [PidMapNext]_pidVars PROVE PidSafe'
      BY Zenon
    <2>1. CASE UNCHANGED pidVars
      BY <2>1, Zenon DEF pidVars, PidSafe, PidTypeOK, PidUnique, PidFreeCount, HasId
    <2>2. CASE PidMapNext
      BY <2>2, GetNextPid, FreePid, Zenon DEF PidMapNext
    <2> QED BY <2>1, <2>2, Zenon
  <1> QED BY <1>1, PidInit, PTL DEF PidMapSpec

\* get_next_pid gives up only when no bit is clear, although its second
\* search stops one bit early, or when nr_free says that none is.
THEOREM PidSearchComplete == PidMapSpec => PidFoundIfAny
  <1>1. PidSafe /\ [PidMapNext]_pidVars
        => [\A p \in PidProcs : (pidOf[p] = NoId /\ pidOf'[p] = -1)
                               => (nr_free = 0 \/ bitmap = 0..(PidSize - 1))]_pidVars
    <2> SUFFICES ASSUME PidSafe, PidMapNext, NEW p \in PidProcs, pidOf[p] = NoId, pidOf'[p] = -1
                 PROVE  nr_free = 0 \/ bitmap = 0..(PidSize - 1)
      BY Zenon
    <2>1. PICK q \in PidProcs : get_next_pid(q) \/ free_pid(q)
      BY Zenon DEF PidMapNext
    <2>2. get_next_pid(p) /\ pidOf'[p] = NextPid(0)
      BY <2>1, PidAssumption DEF get_next_pid, StartWith, free_pid, PidSafe, PidTypeOK, NoId
    <2> QED BY <2>2, NextPidFinds, PidAssumption DEF PidSafe
  <1> QED BY <1>1, PidIsSafe, PTL DEF PidMapSpec, PidFoundIfAny

-----------------------------------------------------------------------------
\* The containers on the way from c to the root: each has its parent next, and none
\* comes twice.
LEMMA UpFacts ==
    ASSUME NEW c \in Containers
    PROVE  /\ Len(Up[c]) \in Nat \ {0} /\ Up[c][1] = c /\ Up[c][Len(Up[c])] = root_container
           /\ \A i \in 1 .. Len(Up[c]) : Up[c][i] \in Containers
           /\ \A i \in 1 .. Len(Up[c]) - 1 :
                 Up[c][i] # root_container /\ Up[c][i + 1] = Parent(Up[c][i])
           /\ \A i, j \in 1 .. Len(Up[c]) : Up[c][i] = Up[c][j] => i = j
  <1> DEFINE u == Up[c]
  <1>1. u \in Seq(Containers) /\ u # << >> /\ u[1] = c /\ u[Len(u)] = root_container
    BY RqAssumption, Zenon
  <1>2. \A i \in 1 .. Len(u) : Up[u[i]] = SubSeq(u, i, Len(u))
    BY RqAssumption, Zenon
  <1>3. Up[root_container] = <<root_container>>
    BY RqAssumption, Zenon
  <1> HIDE DEF u
  <1>4. Len(u) \in Nat \ {0} /\ \A i \in 1 .. Len(u) : u[i] \in Containers
    BY <1>1
  <1>5. \A i \in 1 .. Len(u) : Len(Up[u[i]]) = Len(u) - i + 1
    BY <1>1, <1>2, <1>4
  <1>6. \A i \in 1 .. Len(u) - 1 : i \in 1 .. Len(u) /\ Up[u[i]][2] = u[i + 1]
    <2> SUFFICES ASSUME NEW i \in 1 .. Len(u) - 1 PROVE i \in 1 .. Len(u) /\ Up[u[i]][2] = u[i + 1]
      BY Zenon
    <2>1. i \in 1 .. Len(u) /\ 2 \in 1 .. Len(u) - i + 1 /\ i + 2 - 1 = i + 1 /\ Len(u) \in 1 .. Len(u)
      BY <1>4
    <2>2. SubSeq(u, i, Len(u))[2] = u[i + 1]
      BY <1>1, <1>4, <2>1
    <2> QED BY <1>2, <2>1, <2>2, Zenon
  <1>7. Len(Up[root_container]) = 1
    BY <1>3
  <1>8. \A i \in 1 .. Len(u) - 1 : u[i] # root_container
    <2> SUFFICES ASSUME NEW i \in 1 .. Len(u) - 1, u[i] = root_container PROVE FALSE
      BY Zenon
    <2>1. i \in 1 .. Len(u)
      BY <1>4
    <2>2. 1 = Len(u) - i + 1
      BY <1>5, <1>7, <2>1, Zenon
    <2> QED BY <1>4, <2>2
  <1>9. \A i, j \in 1 .. Len(u) : u[i] = u[j] => i = j
    BY SMTT(30), <1>4, <1>5
  <1> QED BY <1>1, <1>4, <1>6, <1>8, <1>9, Zenon DEF u, Parent

\* The nodes that move when p becomes runnable or stops: at most one for each
\* container, and a container below the root moves exactly if one of its nodes does
\* and it was empty (n = 0), or had nothing else (n = 1).
LEMMA CascadeFacts ==
    ASSUME NEW p \in RqProcs, NEW n
    PROVE  /\ Cascade(p, n) \subseteq Containers \ {root_container}
           /\ \A e \in Cascade(p, n) : nr_running[e] = n
           /\ \A c \in Containers : \A e, f \in Entering(p, Cascade(p, n), c) : e = f
           /\ \A d \in Containers \ {root_container} :
                 d \in Cascade(p, n) <=> nr_running[d] = n /\ Entering(p, Cascade(p, n), d) # {}
  <1> DEFINE u == Path(p)
             L == Len(u)
             In(i) == \A j \in 1 .. i : nr_running[u[j]] = n
             moving == Cascade(p, n)
  <1>1. Home[p] \in Containers /\ p \notin Containers
    BY RqAssumption, Zenon
  <1>2. /\ L \in Nat \ {0} /\ u[1] = Home[p] /\ u[L] = root_container
        /\ \A i \in 1 .. L : u[i] \in Containers
        /\ \A i \in 1 .. L - 1 : u[i] # root_container /\ u[i + 1] = Parent(u[i])
        /\ \A i, j \in 1 .. L : u[i] = u[j] => i = j
    BY <1>1, UpFacts, Zenon DEF Path
  <1>3. moving = {u[i] : i \in {i \in 1 .. L - 1 : In(i)}}
    BY Zenon DEF Cascade
  <1> HIDE DEF u, L, moving
  <1>4. \A i \in 1 .. L - 1 : i \in 1 .. L /\ i + 1 \in 1 .. L /\ i \in 1 .. i /\ i + 1 # 1
    BY <1>2
  <1>5. \A i, j \in 1 .. L - 1 : i + 1 = j + 1 => i = j
    BY <1>2
  <1>6. 1 \in 1 .. L /\ L \in 1 .. L
    BY <1>2
  <1>7. moving \subseteq Containers \ {root_container} /\ \A e \in moving : nr_running[e] = n
    <2> SUFFICES ASSUME NEW e \in moving PROVE e \in Containers \ {root_container} /\ nr_running[e] = n
      BY Zenon
    <2>1. PICK i \in 1 .. L - 1 : In(i) /\ e = u[i]
      BY <1>3, Zenon
    <2>2. nr_running[e] = n
      BY <1>4, <2>1, Zenon
    <2> QED BY <1>2, <1>4, <2>1, <2>2, Zenon
  <1>8. \A c : \A e \in Entering(p, moving, c) :
            \/ e = p /\ c = u[1]
            \/ \E i \in 1 .. L - 1 : In(i) /\ e = u[i] /\ c = u[i + 1] /\ e \in moving /\ e # p
    <2> TAKE c
    <2> TAKE e \in Entering(p, moving, c)
    <2>1. CASE e = p
      BY <1>2, <2>1, Zenon DEF Entering
    <2>2. CASE e # p
      <3>1. e \in moving /\ c = Parent(e)
        BY <2>2, Zenon DEF Entering
      <3>2. PICK i \in 1 .. L - 1 : In(i) /\ e = u[i]
        BY <1>3, <3>1, Zenon
      <3> QED BY <1>2, <2>2, <3>1, <3>2, Zenon
    <2> QED BY <2>1, <2>2, Zenon
  <1>9. \A c \in Containers : \A e, f \in Entering(p, moving, c) : e = f
    <2> SUFFICES ASSUME NEW c \in Containers, NEW e \in Entering(p, moving, c), NEW f \in Entering(p, moving, c)
                 PROVE  e = f
      BY Zenon
    <2>1. ASSUME NEW i \in 1 .. L - 1, c = u[i + 1] PROVE c # u[1]
      BY <1>2, <1>4, <1>6, <2>1, Zenon
    <2>2. ASSUME NEW i \in 1 .. L - 1, NEW j \in 1 .. L - 1, u[i + 1] = u[j + 1] PROVE i = j
      BY <1>2, <1>4, <1>5, <2>2, Zenon
    <2>3. \/ e = p /\ c = u[1]
          \/ \E i \in 1 .. L - 1 : e = u[i] /\ c = u[i + 1]
      BY ZenonT(60), <1>8
    <2>4. \/ f = p /\ c = u[1]
          \/ \E i \in 1 .. L - 1 : f = u[i] /\ c = u[i + 1]
      BY ZenonT(60), <1>8
    <2> QED BY <2>1, <2>2, <2>3, <2>4, Zenon
  <1>10. ASSUME NEW d \in Containers \ {root_container}, nr_running[d] = n, Entering(p, moving, d) # {}
         PROVE  d \in moving
    <2>1. PICK e \in Entering(p, moving, d) : TRUE
      BY <1>10, Zenon
    <2>2. CASE e = p /\ d = u[1]
      <3>1. 1 # L
        BY <1>2, <2>2, Zenon
      <3>2. 1 \in 1 .. L - 1
        BY <1>2, <3>1
      <3>3. \A j \in 1 .. 1 : j = 1
        OBVIOUS
      <3> QED BY <1>3, <1>10, <2>2, <3>2, <3>3, Zenon
    <2>3. ASSUME NEW i \in 1 .. L - 1, In(i), d = u[i + 1] PROVE d \in moving
      <3>1. i + 1 # L
        BY <1>2, <2>3, Zenon
      <3>2. i + 1 \in 1 .. L - 1
        BY SMTT(30), <1>2, <3>1
      <3>3. \A j \in 1 .. i + 1 : j \in 1 .. i \/ j = i + 1
        BY <1>2
      <3>4. In(i + 1)
        BY <1>10, <2>3, <3>3, Zenon
      <3> QED BY <1>3, <2>3, <3>2, <3>4, Zenon
    <2> QED BY ZenonT(60), <1>8, <2>1, <2>2, <2>3
  <1>11. ASSUME NEW d \in moving PROVE Entering(p, moving, d) # {}
    <2>1. PICK i \in 1 .. L - 1 : In(i) /\ d = u[i]
      BY <1>3, Zenon
    <2>2. CASE i = 1
      BY <1>2, <2>1, <2>2, Zenon DEF Entering
    <2>3. CASE i # 1
      <3> DEFINE h == i - 1
      <3>1. h \in 1 .. L - 1 /\ h + 1 = i /\ \A j \in 1 .. h : j \in 1 .. i
        BY <1>2, <2>3
      <3> HIDE DEF h
      <3>2. u[h] \in moving
        BY <1>3, <2>1, <3>1, Zenon
      <3>3. u[h] # p /\ d = Parent(u[h])
        BY <1>1, <1>2, <1>7, <2>1, <3>1, <3>2, Zenon
      <3> QED BY <3>2, <3>3, Zenon DEF Entering
    <2> QED BY <2>2, <2>3, Zenon
  <1> QED BY <1>7, <1>9, <1>10, <1>11, Zenon DEF moving

\* The remainder is the one number of 0..n-1 at a multiple of n from a.
LEMMA ModUnique ==
    ASSUME NEW n \in Nat \ {0}, NEW a \in Int, NEW m \in Int, NEW r \in 0..n-1, a = n * m + r
    PROVE  a % n = r
  <1>1. a = n * (a \div n) + (a % n) /\ a % n \in 0..n-1 /\ a \div n \in Int
    OBVIOUS
  <1> DEFINE d == (a \div n)
             e == a % n
  <1>2. d \in Int /\ e \in 0..n-1 /\ n * d + e = n * m + r
    BY <1>1, Zenon
  <1> HIDE DEF d, e
  <1>3. n * (d - m) = r - e
    BY <1>2
  <1>4. d - m < 1
    <2> SUFFICES ASSUME d - m >= 1 PROVE FALSE
      BY <1>2
    <2>1. n * (d - m) >= n
      BY <1>2
    <2> QED BY <1>2, <1>3, <2>1
  <1>5. m - d < 1
    <2> SUFFICES ASSUME m - d >= 1 PROVE FALSE
      BY <1>2
    <2>1. n * (m - d) >= n
      BY <1>2
    <2> QED BY SMTT(30), <1>2, <1>3, <2>1
  <1>6. d = m
    BY <1>2, <1>4, <1>5
  <1> QED BY <1>2, <1>6 DEF e

\* A remainder may be taken before or after an addition.
LEMMA ModShift ==
    ASSUME NEW n \in Nat \ {0}, NEW a \in Int, NEW b \in Int
    PROVE  ((a % n) + b) % n = (a + b) % n
  <1> DEFINE d == a \div n
             s == a % n
             f == (s + b) \div n
             g == (s + b) % n
  <1>1. d \in Int /\ s \in 0..n-1 /\ a = n * d + s
    OBVIOUS
  <1>2. f \in Int /\ g \in 0..n-1 /\ s + b = n * f + g
    <2> HIDE DEF s
    <2>1. s + b \in Int
      BY <1>1
    <2> QED BY <2>1
  <1> HIDE DEF d, f, g
  <1>3. a + b = n * (d + f) + g
    <2> HIDE DEF s
    <2> QED BY <1>1, <1>2
  <1>4. (a + b) % n = g
    <2> HIDE DEF s
    <2> DEFINE c == a + b
               m == d + f
    <2>1. c \in Int /\ m \in Int /\ c = n * m + g
      BY <1>1, <1>2, <1>3
    <2> HIDE DEF c, m
    <2>2. c % n = g
      BY <1>2, <2>1, ModUnique, Zenon
    <2> QED BY <2>2, Zenon DEF c
  <1> QED BY <1>4, Zenon DEF g

\* What a queue can count is finite.
LEMMA NodesFinite ==
    ASSUME NEW S \in SUBSET Nodes
    PROVE  IsFiniteSet(S) /\ Cardinality(S) \in Nat /\ Cardinality(S) <= Cardinality(Nodes)
  <1>1. IsFiniteSet(Containers \ {root_container}) /\ IsFiniteSet(RqProcs)
    BY RqAssumption, FS_Difference, Zenon
  <1>2. IsFiniteSet(Nodes)
    BY <1>1, FS_Union, Zenon DEF Nodes
  <1>3. IsFiniteSet(S) /\ Cardinality(S) <= Cardinality(Nodes)
    BY <1>2, FS_Subset, Zenon
  <1> QED BY <1>3, FS_CardinalityType, Zenon

\* The sizes of two sets with nothing in common add up.
LEMMA SizesAdd ==
    ASSUME NEW S, NEW T, IsFiniteSet(S), IsFiniteSet(T), S \cap T = {}
    PROVE  Cardinality(S \cup T) = Cardinality(S) + Cardinality(T)
  <1>1. Cardinality(S \cup T) = Cardinality(S) + Cardinality(T) - Cardinality(S \cap T)
    BY FS_Union, Zenon
  <1>2. Cardinality(S) \in Nat /\ Cardinality(T) \in Nat /\ Cardinality(S \cap T) = 0
    BY FS_CardinalityType, FS_EmptySet, Zenon
  <1> QED BY <1>1, <1>2

Weights == {prio_to_weight, KilledWeight}

\* So do their weights.
LEMMA WeightsAdd ==
    ASSUME NEW w \in [Nodes -> Weights], NEW S \in SUBSET Nodes, NEW T \in SUBSET Nodes, S \cap T = {}
    PROVE  /\ Summed(S, w) \in Nat /\ Summed(T, w) \in Nat
           /\ Summed(S \cup T, w) = Summed(S, w) + Summed(T, w)
  <1> DEFINE Units(e) == {e} \X (1 .. w[e])
             All(X) == UNION {Units(e) : e \in X}
             W == prio_to_weight + KilledWeight
  <1>1. \A e \in Nodes : w[e] \in Nat /\ w[e] <= W
    <2>1. prio_to_weight \in Nat /\ KilledWeight \in Nat
      BY RqAssumption, Zenon
    <2> QED BY <2>1 DEF Weights
  <1>2. W \in Nat
    BY RqAssumption
  <1>3. \A e \in Nodes : Units(e) \subseteq Nodes \X (1 .. W) /\ \A x \in Units(e) : x[1] = e
    BY <1>1, <1>2
  <1>4. IsFiniteSet(Nodes \X (1 .. W))
    <2>1. 1 \in Int /\ W \in Int
      BY <1>2
    <2>2. IsFiniteSet(1 .. W) /\ IsFiniteSet(Nodes)
      BY <2>1, FS_Interval, NodesFinite, Zenon
    <2> QED BY <2>2, FS_Product, Zenon
  <1> HIDE DEF Units, W
  <1>a. \A X, x : x \in All(X) <=> \E e \in X : x \in Units(e)
    BY Zenon
  <1> HIDE DEF All
  <1>5. \A X \in SUBSET Nodes : All(X) \in SUBSET (Nodes \X (1 .. W))
    BY <1>3, <1>a, Zenon
  <1>6. \A X \in SUBSET Nodes : IsFiniteSet(All(X))
    BY <1>4, <1>5, FS_Subset, Zenon
  <1>7. All(S \cup T) = All(S) \cup All(T)
    <2>1. \A x : x \in All(S \cup T) <=> x \in All(S) \cup All(T)
      <3> TAKE x
      <3>1. x \in All(S \cup T) <=> \E e \in S \cup T : x \in Units(e)
        BY <1>a, Zenon
      <3>2. (x \in All(S) <=> \E e \in S : x \in Units(e)) /\ (x \in All(T) <=> \E e \in T : x \in Units(e))
        BY <1>a, Zenon
      <3> QED BY <3>1, <3>2, Zenon
    <2> QED BY <2>1, Zenon
  <1>8. All(S) \cap All(T) = {}
    <2> SUFFICES ASSUME NEW x \in All(S), x \in All(T) PROVE FALSE
      BY Zenon
    <2>1. PICK e \in S : x \in Units(e)
      BY <1>a, Zenon
    <2>2. PICK f \in T : x \in Units(f)
      BY <1>a, Zenon
    <2>3. x[1] = e /\ x[1] = f
      BY <1>3, <2>1, <2>2, Zenon
    <2> QED BY <2>3, Zenon
  <1>9. Cardinality(All(S \cup T)) = Cardinality(All(S)) + Cardinality(All(T))
    <2>1. Cardinality(All(S) \cup All(T)) = Cardinality(All(S)) + Cardinality(All(T))
      BY <1>6, <1>8, SizesAdd, Zenon
    <2> QED BY <1>7, <2>1, Zenon
  <1>10. Cardinality(All(S)) \in Nat /\ Cardinality(All(T)) \in Nat
    BY <1>6, FS_CardinalityType, Zenon
  <1>11. \A X : Summed(X, w) = Cardinality(All(X))
    BY Zenon DEF Summed, Units, All
  <1>12. /\ Summed(S, w) = Cardinality(All(S)) /\ Summed(T, w) = Cardinality(All(T))
         /\ Summed(S \cup T, w) = Cardinality(All(S \cup T))
    BY <1>11, Zenon
  <1> QED BY <1>9, <1>10, <1>12, Zenon

\* weight_sum follows what is added to the queue and taken from it.
LEMMA WeightsFollow ==
    ASSUME NEW w \in [Nodes -> Weights], NEW S \in SUBSET Nodes, NEW T \in SUBSET Nodes
    PROVE  /\ S \cap T = {} =>
                 ((Summed(S, w) % WeightMod) + Summed(T, w)) % WeightMod = Summed(S \cup T, w) % WeightMod
           /\ T \subseteq S =>
                 ((Summed(S, w) % WeightMod) - Summed(T, w)) % WeightMod = Summed(S \ T, w) % WeightMod
  <1> DEFINE a == Summed(S, w)
             b == Summed(T, w)
             d == Summed(S \ T, w)
             u == Summed(S \cup T, w)
  <1>1. a \in Nat /\ b \in Nat /\ (S \cap T = {} => u = a + b)
    <2>1. a \in Nat /\ b \in Nat
      <3>1. S \cap {} = {} /\ T \cap {} = {} /\ {} \in SUBSET Nodes
        BY Zenon
      <3> QED BY <3>1, WeightsAdd, Zenon
    <2> QED BY <2>1, WeightsAdd, Zenon
  <1>2. d \in Nat /\ (T \subseteq S => a = d + b)
    <2>1. (S \ T) \cap T = {} /\ (T \subseteq S => (S \ T) \cup T = S) /\ S \ T \in SUBSET Nodes
      BY Zenon
    <2>2. d \in Nat /\ Summed((S \ T) \cup T, w) = d + b
      BY <2>1, WeightsAdd, Zenon
    <2> QED BY <2>1, <2>2, Zenon
  <1>3. WeightMod \in Nat \ {0}
    BY RqAssumption, Zenon
  <1> DEFINE sum == a % WeightMod
  <1>4. sum = a % WeightMod
    BY Zenon
  <1> HIDE DEF a, b, d, u, sum
  <1>5. ASSUME S \cap T = {} PROVE (sum + b) % WeightMod = u % WeightMod
    <2>1. a \in Int /\ b \in Int
      BY <1>1
    <2> QED BY ZenonT(60), <1>1, <1>3, <1>4, <1>5, <2>1, ModShift
  <1>6. ASSUME T \subseteq S PROVE (sum - b) % WeightMod = d % WeightMod
    <2>1. a \in Int /\ -b \in Int /\ a + -b = d /\ ((a % WeightMod) - b = (a % WeightMod) + -b)
      BY <1>1, <1>2, <1>3, <1>6
    <2>2. ((a % WeightMod) + -b) % WeightMod = (a + -b) % WeightMod
      BY <1>3, <2>1, ModShift, Zenon
    <2> QED BY <1>4, <2>1, <2>2, Zenon
  <1> QED BY <1>5, <1>6, Zenon DEF a, b, d, u, sum

\* What a queue counts is among the nodes.
LEMMA CountedNodes ==
    ASSUME NEW tree \in [Containers -> SUBSET Nodes], NEW s, NEW c \in Containers
    PROVE  Counted(tree, s, c) \in SUBSET Nodes
  <1>1. tree[c] \in SUBSET Nodes /\ Running(s, c) \in SUBSET Nodes
    BY Zenon DEF Running, Nodes
  <1> QED BY <1>1, Zenon DEF Counted

\* _activate_proc puts the process, and the containers that were empty, into trees
\* where they are not yet; the counts and the weights follow.
LEMMA ActivatedQueues ==
    ASSUME RqTypes, RqReachable, RqWeights, NEW p \in RqProcs, NEW k \in RqCPUs,
           st[p] \notin {"RUNNABLE", "RUNNING"}, Activated(p, k, Cascade(p, 0))
    PROVE  /\ rq' \in [Containers -> SUBSET Nodes] /\ nr_running' \in [Containers -> Nat]
           /\ RqReachable' /\ RqWeights'
  <1> DEFINE M == Cascade(p, 0)
             E(c) == Entering(p, M, c)
  <1>1. /\ st' = [st EXCEPT ![p] = "RUNNABLE"]
        /\ rq' = [c \in Containers |-> rq[c] \cup E(c)]
        /\ nr_running' = [c \in Containers |-> nr_running[c] + Cardinality(E(c))]
        /\ weight_sum' = [c \in Containers |-> (weight_sum[c] + Summed(E(c), weight)) % WeightMod]
        /\ weight' = weight /\ mixed' = mixed
    BY Zenon DEF Activated
  <1>2. /\ st \in [RqProcs -> RqStates] /\ rq \in [Containers -> SUBSET Nodes]
        /\ nr_running \in [Containers -> Nat] /\ weight \in [Nodes -> Weights]
    BY Zenon DEF RqTypes, Weights
  <1>3. /\ M \subseteq Containers \ {root_container} /\ \A e \in M : nr_running[e] = 0
        /\ \A d \in Containers \ {root_container} : d \in M <=> nr_running[d] = 0 /\ E(d) # {}
    BY CascadeFacts, Zenon
  <1> HIDE DEF M
  <1>4. RqProcs \cap Containers = {}
    BY RqAssumption, Zenon
  <1>5. /\ \A q \in RqProcs, c \in Containers : q \in rq[c] <=> (c = Home[q] /\ st[q] = "RUNNABLE")
        /\ \A d \in Containers \ {root_container}, c \in Containers :
              d \in rq[c] <=> (c = Parent(d) /\ nr_running[d] > 0)
        /\ \A c \in Containers : nr_running[c] = Cardinality(Counted(rq, st, c)) /\ Counted(rq, st, c) \in SUBSET Nodes
    BY <1>2, CountedNodes, Zenon DEF RqReachable, Queued
  <1>6. \A c \in Containers : /\ E(c) \in SUBSET Nodes /\ Counted(rq, st, c) \cap E(c) = {}
                               /\ Counted(rq', st', c) = Counted(rq, st, c) \cup E(c)
    <2> TAKE c \in Containers
    <2>1. E(c) \in SUBSET Nodes
      BY <1>3, Zenon DEF Entering, Nodes
    <2>2. \A e \in E(c) : e = p \/ e \in M
      BY Zenon DEF Entering
    <2>3. p \notin rq[c] /\ p \notin Running(st, c)
      BY <1>5, Zenon DEF Running
    <2>4. \A e \in M : ~(nr_running[e] > 0)
      BY <1>3
    <2>5. \A e \in M : e \notin rq[c] /\ e \notin Running(st, c)
      BY <1>3, <1>4, <1>5, <2>4, Zenon DEF Running
    <2>6. Running(st', c) = Running(st, c)
      BY <1>1, <1>2, Zenon DEF Running
    <2>7. rq'[c] = rq[c] \cup E(c)
      BY <1>1, Zenon
    <2>8. Counted(rq, st, c) \cap E(c) = {}
      BY <2>2, <2>3, <2>5, Zenon DEF Counted
    <2> QED BY <2>1, <2>6, <2>7, <2>8, Zenon DEF Counted
  <1>7. rq' \in [Containers -> SUBSET Nodes]
    BY <1>1, <1>2, <1>6, Zenon
  <1>8. \A c \in Containers : nr_running'[c] = Cardinality(Counted(rq', st', c))
    <2> TAKE c \in Containers
    <2>1. IsFiniteSet(Counted(rq, st, c)) /\ IsFiniteSet(E(c))
      BY <1>5, <1>6, NodesFinite, Zenon
    <2>2. Cardinality(Counted(rq, st, c) \cup E(c)) = Cardinality(Counted(rq, st, c)) + Cardinality(E(c))
      BY <1>6, <2>1, SizesAdd, Zenon
    <2> QED BY <1>1, <1>5, <1>6, <2>2, Zenon
  <1>9. \A c \in Containers : Cardinality(E(c)) \in Nat /\ (Cardinality(E(c)) > 0 <=> E(c) # {})
    <2>1. \A c \in Containers : Cardinality(E(c)) \in Nat /\ (Cardinality(E(c)) = 0 <=> E(c) = {})
      BY <1>6, NodesFinite, FS_EmptySet, Zenon
    <2> HIDE DEF E
    <2> QED BY <2>1
  <1>10. nr_running' \in [Containers -> Nat]
    <2>1. \A c \in Containers : nr_running[c] + Cardinality(E(c)) \in Nat
      <3> HIDE DEF E
      <3> QED BY <1>2, <1>9
    <2> QED BY <1>1, <2>1, Zenon
  <1>11. \A q \in RqProcs, c \in Containers : q \in rq'[c] <=> (c = Home[q] /\ st'[q] = "RUNNABLE")
    <2> TAKE q \in RqProcs, c \in Containers
    <2>1. q \in E(c) <=> q = p /\ c = Home[p]
      BY <1>3, <1>4, Zenon DEF Entering
    <2>2. q \in rq'[c] <=> q \in rq[c] \/ q \in E(c)
      BY <1>1, Zenon
    <2>3. st'[q] = IF q = p THEN "RUNNABLE" ELSE st[q]
      BY <1>1, <1>2, Zenon
    <2> QED BY <1>5, <2>1, <2>2, <2>3, Zenon
  <1>12. \A d \in Containers \ {root_container}, c \in Containers :
             d \in rq'[c] <=> (c = Parent(d) /\ nr_running'[d] > 0)
    <2> TAKE d \in Containers \ {root_container}, c \in Containers
    <2>1. d \in E(c) <=> d \in M /\ c = Parent(d)
      BY <1>4, Zenon DEF Entering
    <2>2. d \in rq'[c] <=> d \in rq[c] \/ d \in E(c)
      BY <1>1, Zenon
    <2>3. nr_running'[d] > 0 <=> nr_running[d] > 0 \/ E(d) # {}
      <3>1. nr_running'[d] = nr_running[d] + Cardinality(E(d)) /\ nr_running[d] \in Nat
        BY <1>1, <1>2, Zenon
      <3>2. Cardinality(E(d)) \in Nat /\ (Cardinality(E(d)) > 0 <=> E(d) # {})
        BY <1>9, Zenon
      <3> HIDE DEF E
      <3> QED BY <3>1, <3>2
    <2>4. nr_running[d] > 0 \/ nr_running[d] = 0
      BY <1>2
    <2>5. d \in M <=> nr_running[d] = 0 /\ E(d) # {}
      BY <1>3, Zenon
    <2>6. d \in rq[c] <=> c = Parent(d) /\ nr_running[d] > 0
      BY <1>5, Zenon
    <2> QED BY <2>1, <2>2, <2>3, <2>4, <2>5, <2>6, Zenon
  <1>13. RqReachable'
    BY <1>8, <1>11, <1>12, Zenon DEF RqReachable, Queued
  <1>14. RqWeights'
    <2> SUFFICES ASSUME ~mixed, NEW c \in Containers
                 PROVE  weight_sum'[c] = Summed(Counted(rq', st', c), weight) % WeightMod
      BY <1>1, Zenon DEF RqWeights, Weighed
    <2>1. weight_sum[c] = Summed(Counted(rq, st, c), weight) % WeightMod
      BY Zenon DEF RqWeights, Weighed
    <2>2. (weight_sum[c] + Summed(E(c), weight)) % WeightMod = Summed(Counted(rq, st, c) \cup E(c), weight) % WeightMod
      <3>1. Counted(rq, st, c) \in SUBSET Nodes /\ E(c) \in SUBSET Nodes /\ Counted(rq, st, c) \cap E(c) = {}
        BY <1>5, <1>6, Zenon
      <3> HIDE DEF E
      <3>2. ((Summed(Counted(rq, st, c), weight) % WeightMod) + Summed(E(c), weight)) % WeightMod
              = Summed(Counted(rq, st, c) \cup E(c), weight) % WeightMod
        BY <1>2, <3>1, WeightsFollow, Zenon
      <3> QED BY <2>1, <3>2, Zenon
    <2> QED BY <1>1, <1>6, <2>2, Zenon
  <1> QED BY <1>7, <1>10, <1>13, <1>14, Zenon

\* update_this_state for a process that stops: it and the containers that had nothing
\* else leave, each from where it is counted.
LEMMA StopQueues ==
    ASSUME RqTypes, RqReachable, NEW p \in RqProcs, st[p] = "RUNNING",
           NEW s \in RqStates \ {"RUNNABLE", "RUNNING"}
    PROVE  LET M == Cascade(p, 1)
               G(c) == Gone(p, s, M, c)
               tree == TreesLeft(p, s, M)
               s2 == [st EXCEPT ![p] = s]
               nr == [c \in Containers |-> nr_running[c] - Cardinality(G(c))]
           IN  /\ tree \in [Containers -> SUBSET Nodes] /\ nr \in [Containers -> Nat] /\ Queued(tree, s2, nr)
               /\ \A c \in Containers : /\ G(c) \subseteq Counted(rq, st, c)
                                         /\ Counted(tree, s2, c) = Counted(rq, st, c) \ G(c)
  <1> DEFINE M == Cascade(p, 1)
             G(c) == Gone(p, s, M, c)
             tree == TreesLeft(p, s, M)
             s2 == [st EXCEPT ![p] = s]
             nr == [c \in Containers |-> nr_running[c] - Cardinality(G(c))]
  <1>1. /\ st \in [RqProcs -> RqStates] /\ rq \in [Containers -> SUBSET Nodes]
        /\ nr_running \in [Containers -> Nat]
    BY Zenon DEF RqTypes
  <1>2. /\ M \subseteq Containers \ {root_container} /\ \A e \in M : nr_running[e] = 1
        /\ \A c \in Containers : \A e, f \in Entering(p, M, c) : e = f
        /\ \A d \in Containers \ {root_container} : d \in M <=> nr_running[d] = 1 /\ Entering(p, M, d) # {}
    BY CascadeFacts, Zenon
  <1> HIDE DEF M
  <1>3. RqProcs \cap Containers = {} /\ Home[p] \in Containers
    BY RqAssumption, Zenon
  <1>4. /\ \A q \in RqProcs, c \in Containers : q \in rq[c] <=> (c = Home[q] /\ st[q] = "RUNNABLE")
        /\ \A d \in Containers \ {root_container}, c \in Containers :
              d \in rq[c] <=> (c = Parent(d) /\ nr_running[d] > 0)
        /\ \A c \in Containers : nr_running[c] = Cardinality(Counted(rq, st, c)) /\ Counted(rq, st, c) \in SUBSET Nodes
    BY <1>1, CountedNodes, Zenon DEF RqReachable, Queued
  <1>5. \A c : G(c) = Entering(p, M, c)
    BY Zenon DEF Gone
  <1>6. \A c \in Containers : tree[c] = rq[c] \ G(c)
    BY Zenon DEF TreesLeft
  <1>7. tree \in [Containers -> SUBSET Nodes]
    BY <1>1, Zenon DEF TreesLeft
  <1>8. s2[p] = s /\ \A q \in RqProcs : q # p => s2[q] = st[q]
    BY <1>1, Zenon
  <1> HIDE DEF G, tree, s2
  <1>9. \A c \in Containers : \A q \in RqProcs : q \in G(c) <=> q = p /\ c = Home[p]
    BY <1>2, <1>3, <1>5, Zenon DEF Entering
  <1>10. \A c \in Containers : \A d \in Containers : d \in G(c) <=> d \in M /\ c = Parent(d)
    BY <1>3, <1>5, Zenon DEF Entering
  <1>11. \A c : \A e \in G(c) : e = p \/ e \in M
    BY <1>5, Zenon DEF Entering
  <1>12. \A e \in M : nr_running[e] > 0
    BY <1>2
  <1>13. \A c \in Containers : G(c) \subseteq Counted(rq, st, c)
    <2> SUFFICES ASSUME NEW c \in Containers, NEW e \in G(c) PROVE e \in Counted(rq, st, c)
      BY Zenon
    <2>1. CASE e = p
      BY <1>9, <2>1, Zenon DEF Counted, Running
    <2>2. CASE e \in M
      <3>1. e \in Containers \ {root_container}
        BY <1>2, <2>2, Zenon
      <3>2. c = Parent(e)
        BY <1>10, <3>1, Zenon
      <3>3. e \in rq[c]
        BY <1>4, <1>12, <2>2, <3>1, <3>2, Zenon
      <3> QED BY <3>3, Zenon DEF Counted
    <2> QED BY <1>11, <2>1, <2>2, Zenon
  <1>14. \A c \in Containers : Counted(tree, s2, c) = Counted(rq, st, c) \ G(c)
    <2> TAKE c \in Containers
    <2>1. \A q \in RqProcs : q \in Running(s2, c) <=> q \in Running(st, c) /\ q \notin G(c)
      BY <1>8, <1>9, Zenon DEF Running
    <2>2. \A x : x \in Running(s2, c) <=> x \in Running(st, c) /\ x \notin G(c)
      BY <2>1, Zenon DEF Running
    <2>3. \A x : x \in tree[c] <=> x \in rq[c] /\ x \notin G(c)
      BY <1>6, Zenon
    <2> QED BY <2>2, <2>3, Zenon DEF Counted
  <1>15. \A c \in Containers : /\ Cardinality(G(c)) \in Nat /\ Cardinality(G(c)) <= nr_running[c]
                                /\ nr_running[c] - Cardinality(G(c)) = Cardinality(Counted(tree, s2, c))
                                /\ Cardinality(G(c)) = IF G(c) = {} THEN 0 ELSE 1
    <2> TAKE c \in Containers
    <2> DEFINE C == Counted(rq, st, c)
               D == Counted(tree, s2, c)
    <2>1. IsFiniteSet(G(c)) /\ IsFiniteSet(D) /\ Cardinality(G(c)) \in Nat /\ Cardinality(D) \in Nat
      <3>1. G(c) \in SUBSET Nodes /\ D \in SUBSET Nodes
        <4>1. C \in SUBSET Nodes /\ G(c) \subseteq C /\ D = C \ G(c)
          BY <1>4, <1>13, <1>14, Zenon
        <4> QED BY <4>1, Zenon
      <3> QED BY <3>1, NodesFinite, Zenon
    <2>2. C = D \cup G(c) /\ D \cap G(c) = {}
      BY <1>13, <1>14, Zenon
    <2>3. Cardinality(D \cup G(c)) = Cardinality(D) + Cardinality(G(c))
      BY <2>1, <2>2, SizesAdd, Zenon
    <2>4. nr_running[c] = Cardinality(D) + Cardinality(G(c))
      BY <1>4, <2>2, <2>3, Zenon
    <2>5. Cardinality(G(c)) = IF G(c) = {} THEN 0 ELSE 1
      <3>1. CASE G(c) = {}
        BY <3>1, FS_EmptySet, Zenon
      <3>2. CASE G(c) # {}
        <4>1. PICK e \in G(c) : TRUE
          BY <3>2, Zenon
        <4>2. \A f \in G(c) : f = e
          BY <1>2, <1>5, Zenon
        <4>3. G(c) = {e}
          BY <4>2, Zenon
        <4> QED BY <3>2, <4>3, FS_Singleton, Zenon
      <3> QED BY <3>1, <3>2, Zenon
    <2> HIDE DEF D
    <2>6. nr_running[c] - Cardinality(G(c)) = Cardinality(D) /\ Cardinality(G(c)) <= nr_running[c]
      BY <2>1, <2>4
    <2> QED BY ZenonT(60), <2>1, <2>5, <2>6 DEF D
  <1>16. nr \in [Containers -> Nat] /\ \A c \in Containers : nr[c] = nr_running[c] - Cardinality(G(c))
    <2>1. \A c \in Containers : nr_running[c] - Cardinality(G(c)) \in Nat
      BY <1>1, <1>15
    <2> QED BY <2>1, Zenon
  <1> HIDE DEF nr
  <1>17. \A q \in RqProcs, c \in Containers : q \in tree[c] <=> (c = Home[q] /\ s2[q] = "RUNNABLE")
    <2> TAKE q \in RqProcs, c \in Containers
    <2>1. q \in tree[c] <=> q \in rq[c] /\ q \notin G(c)
      BY <1>6, Zenon
    <2>2. CASE q = p
      <3>1. q \notin rq[c] /\ s2[q] # "RUNNABLE"
        BY <1>4, <1>8, <2>2, Zenon
      <3> QED BY <2>1, <3>1, Zenon
    <2>3. CASE q # p
      BY ZenonT(60), <1>4, <1>8, <1>9, <2>1, <2>3
    <2> QED BY <2>2, <2>3, Zenon
  <1>18. \A d \in Containers \ {root_container}, c \in Containers :
             d \in tree[c] <=> (c = Parent(d) /\ nr[d] > 0)
    <2> TAKE d \in Containers \ {root_container}, c \in Containers
    <2>1. d \in tree[c] <=> d \in rq[c] /\ ~(d \in M /\ c = Parent(d))
      <3>1. d \in Containers /\ tree[c] = rq[c] \ G(c)
        BY <1>6, Zenon
      <3>2. d \in G(c) <=> d \in M /\ c = Parent(d)
        BY <1>10, <3>1, Zenon
      <3> QED BY <3>1, <3>2, Zenon
    <2>2. d \in rq[c] <=> (c = Parent(d) /\ nr_running[d] > 0)
      BY <1>4, Zenon
    <2>3. d \in M <=> nr_running[d] = 1 /\ G(d) # {}
      BY <1>2, <1>5, Zenon
    <2>4. nr[d] > 0 <=> nr_running[d] > 0 /\ ~(nr_running[d] = 1 /\ G(d) # {})
      <3>1. /\ nr[d] = nr_running[d] - Cardinality(G(d)) /\ nr_running[d] \in Nat /\ nr[d] \in Nat
            /\ Cardinality(G(d)) <= nr_running[d] /\ Cardinality(G(d)) = IF G(d) = {} THEN 0 ELSE 1
        BY ZenonT(60), <1>1, <1>15, <1>16
      <3>2. CASE G(d) = {}
        <4>1. nr[d] = nr_running[d] - 0
          BY <3>1, <3>2, Zenon
        <4> QED BY <3>1, <3>2, <4>1
      <3>3. CASE G(d) # {}
        <4>1. nr[d] = nr_running[d] - 1 /\ 1 <= nr_running[d]
          BY <3>1, <3>3, Zenon
        <4> QED BY <3>1, <3>3, <4>1
      <3> QED BY <3>2, <3>3, Zenon
    <2> QED BY <2>1, <2>2, <2>3, <2>4, Zenon
  <1>19. \A c \in Containers : nr[c] = Cardinality(Counted(tree, s2, c))
    BY <1>15, <1>16, Zenon
  <1>20. Queued(tree, s2, nr)
    BY <1>17, <1>18, <1>19, Zenon DEF Queued
  <1>21. /\ tree \in [Containers -> SUBSET Nodes] /\ nr \in [Containers -> Nat] /\ Queued(tree, s2, nr)
         /\ \A c \in Containers : /\ G(c) \subseteq Counted(rq, st, c)
                                   /\ Counted(tree, s2, c) = Counted(rq, st, c) \ G(c)
    BY <1>7, <1>13, <1>14, <1>16, <1>20, Zenon
  <1> QED BY <1>21, Zenon DEF M, G, tree, s2, nr

\* update_this_state for a process that stays runnable: it goes back into its tree.
LEMMA YieldQueues ==
    ASSUME RqTypes, RqReachable, NEW p \in RqProcs, st[p] = "RUNNING", NEW M
    PROVE  LET G(c) == Gone(p, "RUNNABLE", M, c)
               tree == TreesLeft(p, "RUNNABLE", M)
               s2 == [st EXCEPT ![p] = "RUNNABLE"]
               nr == [c \in Containers |-> nr_running[c] - Cardinality(G(c))]
           IN  /\ tree \in [Containers -> SUBSET Nodes] /\ nr \in [Containers -> Nat] /\ Queued(tree, s2, nr)
               /\ \A c \in Containers : /\ G(c) \subseteq Counted(rq, st, c)
                                         /\ Counted(tree, s2, c) = Counted(rq, st, c) \ G(c)
  <1> DEFINE G(c) == Gone(p, "RUNNABLE", M, c)
             tree == TreesLeft(p, "RUNNABLE", M)
             s2 == [st EXCEPT ![p] = "RUNNABLE"]
             nr == [c \in Containers |-> nr_running[c] - Cardinality(G(c))]
  <1>1. /\ st \in [RqProcs -> RqStates] /\ rq \in [Containers -> SUBSET Nodes]
        /\ nr_running \in [Containers -> Nat] /\ p \in Nodes
    BY Zenon DEF RqTypes, Nodes
  <1>2. RqProcs \cap Containers = {} /\ Home[p] \in Containers
    BY RqAssumption, Zenon
  <1>3. /\ \A q \in RqProcs, c \in Containers : q \in rq[c] <=> (c = Home[q] /\ st[q] = "RUNNABLE")
        /\ \A d \in Containers \ {root_container}, c \in Containers :
              d \in rq[c] <=> (c = Parent(d) /\ nr_running[d] > 0)
        /\ \A c \in Containers : nr_running[c] = Cardinality(Counted(rq, st, c))
    BY Zenon DEF RqReachable, Queued
  <1>4. \A c : G(c) = {}
    BY Zenon DEF Gone
  <1>5. \A c \in Containers : tree[c] = IF c = Home[p] THEN rq[c] \cup {p} ELSE rq[c]
    <2>1. \A c \in Containers : tree[c] = IF c = Home[p] THEN rq[c] \cup {p} ELSE rq[c] \ G(c)
      BY Zenon DEF TreesLeft
    <2> QED BY <1>4, <2>1
  <1>6. tree \in [Containers -> SUBSET Nodes]
    <2>1. \A c \in Containers : rq[c] \cup {p} \in SUBSET Nodes /\ rq[c] \ G(c) \in SUBSET Nodes
      BY <1>1, Zenon
    <2> QED BY <2>1, Zenon DEF TreesLeft
  <1>7. s2[p] = "RUNNABLE" /\ \A q \in RqProcs : q # p => s2[q] = st[q]
    BY <1>1, Zenon
  <1>8. nr = nr_running
    <2>1. \A c \in Containers : nr_running[c] - Cardinality(G(c)) = nr_running[c]
      <3>1. \A c : Cardinality(G(c)) = 0
        BY <1>4, FS_EmptySet, Zenon
      <3> HIDE DEF G
      <3> QED BY <1>1, <3>1
    <2> QED BY <1>1, <2>1, Zenon
  <1> HIDE DEF G, tree, s2, nr
  <1>9. \A c \in Containers : Counted(tree, s2, c) = Counted(rq, st, c)
    <2> TAKE c \in Containers
    <2>1. CASE c = Home[p]
      <3>1. tree[c] = rq[c] \cup {p} /\ p \in Running(st, c)
        BY <1>5, <2>1, Zenon DEF Running
      <3>2. \A x : x \in Running(s2, c) <=> x \in Running(st, c) /\ x # p
        BY <1>7, Zenon DEF Running
      <3>3. \A x : x \in tree[c] \cup Running(s2, c) <=> x \in rq[c] \cup Running(st, c)
        BY <3>1, <3>2, Zenon
      <3> QED BY <3>3, Zenon DEF Counted
    <2>2. CASE c # Home[p]
      <3>1. tree[c] = rq[c]
        BY <1>5, <2>2, Zenon
      <3>2. Running(s2, c) = Running(st, c)
        BY <1>7, <2>2, Zenon DEF Running
      <3> QED BY <3>1, <3>2, Zenon DEF Counted
    <2> QED BY <2>1, <2>2, Zenon
  <1>10. \A q \in RqProcs, c \in Containers : q \in tree[c] <=> (c = Home[q] /\ s2[q] = "RUNNABLE")
    <2> TAKE q \in RqProcs, c \in Containers
    <2>1. q \in tree[c] <=> q \in rq[c] \/ (q = p /\ c = Home[p])
      BY <1>5, Zenon
    <2>2. CASE q = p
      BY <1>3, <1>7, <2>1, <2>2, Zenon
    <2>3. CASE q # p
      BY <1>3, <1>7, <2>1, <2>3, Zenon
    <2> QED BY <2>2, <2>3, Zenon
  <1>11. \A d \in Containers \ {root_container}, c \in Containers :
             d \in tree[c] <=> (c = Parent(d) /\ nr_running[d] > 0)
    <2> TAKE d \in Containers \ {root_container}, c \in Containers
    <2>1. d \in tree[c] <=> d \in rq[c]
      BY <1>2, <1>5, Zenon
    <2> QED BY <1>3, <2>1, Zenon
  <1>12. \A c \in Containers : nr_running[c] = Cardinality(Counted(tree, s2, c))
    BY <1>3, <1>9, Zenon
  <1>13. Queued(tree, s2, nr)
    BY <1>8, <1>10, <1>11, <1>12, Zenon DEF Queued
  <1>14. \A c \in Containers : Counted(rq, st, c) = Counted(rq, st, c) \ G(c)
    BY <1>4, Zenon
  <1>15. /\ tree \in [Containers -> SUBSET Nodes] /\ nr \in [Containers -> Nat] /\ Queued(tree, s2, nr)
         /\ \A c \in Containers : /\ G(c) \subseteq Counted(rq, st, c)
                                   /\ Counted(tree, s2, c) = Counted(rq, st, c) \ G(c)
    <2>1. \A c \in Containers : G(c) \subseteq Counted(rq, st, c)
      BY <1>4, Zenon
    <2> QED BY <1>1, <1>6, <1>8, <1>9, <1>13, <1>14, <2>1, Zenon
  <1> QED BY <1>15, Zenon DEF G, tree, s2, nr

\* recur_get_proc finds a runnable process, or none.
LEMMA PickedRunnable ==
    ASSUME NEW tree, NEW vr, NEW s, NEW next \in recur_get_proc(tree, vr),
           \A q \in RqProcs, c \in Containers : q \in tree[c] <=> (c = Home[q] /\ s[q] = "RUNNABLE")
    PROVE  next = RqIdle \/ (next \in RqProcs /\ s[next] = "RUNNABLE")
  <1>1. PICK c \in Containers : next \in IF tree[c] = {} THEN {RqIdle} ELSE First(tree[c], vr) \cap RqProcs
    BY Zenon DEF recur_get_proc
  <1>2. next = RqIdle \/ (next \in RqProcs /\ next \in tree[c])
    BY <1>1, Zenon DEF First
  <1> QED BY <1>2, Zenon

\* next, idle or a RUNNABLE process, is taken out of the trees and runs.
Switched(tree, s, next, tree2, s2) ==
    /\ next = RqIdle \/ (next \in RqProcs /\ s[next] = "RUNNABLE")
    /\ \A c \in Containers : tree2[c] = tree[c] \ {next}
    /\ \A q \in RqProcs : s2[q] = IF q = next THEN "RUNNING" ELSE s[q]

SameCounted(tree2, s2, tree, s) ==
    \A c \in Containers : Counted(tree2, s2, c) = Counted(tree, s, c)

\* simple_sched takes the next process out of its tree and runs it: the queues count
\* what they counted.
LEMMA DispatchQueues ==
    ASSUME NEW tree \in [Containers -> SUBSET Nodes], NEW s, NEW nr, NEW next, NEW tree2, NEW s2,
           Queued(tree, s, nr), Switched(tree, s, next, tree2, s2)
    PROVE  Queued(tree2, s2, nr) /\ SameCounted(tree2, s2, tree, s)
  <1>1. RqIdle \notin RqProcs /\ RqIdle \notin Containers /\ RqProcs \cap Containers = {}
    BY RqAssumption, Zenon
  <1>2. /\ \A q \in RqProcs, c \in Containers : q \in tree[c] <=> (c = Home[q] /\ s[q] = "RUNNABLE")
        /\ \A d \in Containers \ {root_container}, c \in Containers :
              d \in tree[c] <=> (c = Parent(d) /\ nr[d] > 0)
        /\ \A c \in Containers : nr[c] = Cardinality(Counted(tree, s, c))
    BY Zenon DEF Queued
  <1>4. /\ \A c \in Containers : tree2[c] = tree[c] \ {next}
        /\ \A q \in RqProcs : s2[q] = IF q = next THEN "RUNNING" ELSE s[q]
        /\ next = RqIdle \/ (next \in RqProcs /\ s[next] = "RUNNABLE")
    BY Zenon DEF Switched
  <1>5. \A c \in Containers : Counted(tree2, s2, c) = Counted(tree, s, c)
    <2> TAKE c \in Containers
    <2>1. \A x : x \in Running(s2, c) <=> x \in Running(s, c) \/ (x = next /\ next \in RqProcs /\ c = Home[next])
      BY <1>4, Zenon DEF Running
    <2>2. \A x : x \in tree2[c] <=> x \in tree[c] /\ x # next
      BY <1>4, Zenon
    <2>3. next \in tree[c] <=> next \in RqProcs /\ c = Home[next]
      <3>1. CASE next \in RqProcs
        BY <1>1, <1>2, <1>4, <3>1, Zenon
      <3>2. CASE next = RqIdle
        BY <1>1, <3>2, Zenon DEF Nodes
      <3> QED BY <1>4, <3>1, <3>2, Zenon
    <2>4. \A x : x \in tree2[c] \cup Running(s2, c) <=> x \in tree[c] \cup Running(s, c)
      <3> TAKE x
      <3>1. CASE x = next
        <4>1. x \notin tree2[c] /\ (x \in Running(s2, c) <=> x \in Running(s, c) \/ x \in tree[c])
          BY <2>1, <2>2, <2>3, <3>1, Zenon
        <4> QED BY <4>1, Zenon
      <3>2. CASE x # next
        <4>1. (x \in tree2[c] <=> x \in tree[c]) /\ (x \in Running(s2, c) <=> x \in Running(s, c))
          BY <2>1, <2>2, <3>2, Zenon
        <4> QED BY <4>1, Zenon
      <3> QED BY Zenon, <3>1, <3>2
    <2> QED BY <2>4, Zenon DEF Counted
  <1>6. \A q \in RqProcs, c \in Containers : q \in tree2[c] <=> (c = Home[q] /\ s2[q] = "RUNNABLE")
    <2> TAKE q \in RqProcs, c \in Containers
    <2>1. CASE q = next
      <3>1. q \notin tree2[c] /\ s2[q] = "RUNNING"
        BY <1>4, <2>1, Zenon
      <3> QED BY <3>1, Zenon
    <2>2. CASE q # next
      <3>1. (q \in tree2[c] <=> q \in tree[c]) /\ s2[q] = s[q]
        BY <1>4, <2>2, Zenon
      <3> QED BY <1>2, <3>1, Zenon
    <2> QED BY Zenon, <2>1, <2>2
  <1>7. \A d \in Containers \ {root_container}, c \in Containers :
             d \in tree2[c] <=> (c = Parent(d) /\ nr[d] > 0)
    <2> TAKE d \in Containers \ {root_container}, c \in Containers
    <2>1. d # next
      <3>1. d \in Containers /\ d \notin RqProcs /\ d # RqIdle
        BY <1>1, Zenon
      <3> QED BY <1>4, <3>1, Zenon
    <2>2. d \in tree2[c] <=> d \in tree[c]
      BY <1>4, <2>1, Zenon
    <2> QED BY <1>2, <2>2, Zenon
  <1>8. \A c \in Containers : nr[c] = Cardinality(Counted(tree2, s2, c))
    BY <1>2, <1>5, Zenon
  <1>9. Queued(tree2, s2, nr)
    BY <1>6, <1>7, <1>8, Zenon DEF Queued
  <1> QED BY <1>5, <1>9, Zenon DEF SameCounted

\* A CPU changes from one process to another that ran nowhere.
LEMMA CurrentMoves ==
    ASSUME RqCurrent, cur_proc \in [RqCPUs -> RqProcs \cup {RqIdle}], NEW k \in RqCPUs,
           NEW s \in [RqProcs -> RqStates], NEW next, next = RqIdle \/ (next \in RqProcs /\ s[next] = "RUNNABLE"),
           \A q \in RqProcs : q # cur_proc[k] => s[q] = st[q],
           cur_proc[k] \in RqProcs => s[cur_proc[k]] # "RUNNING",
           cur_proc' = [cur_proc EXCEPT ![k] = next],
           \A q \in RqProcs : st'[q] = IF q = next THEN "RUNNING" ELSE s[q]
    PROVE  RqCurrent'
  <1>1. RqIdle \notin RqProcs
    BY RqAssumption, Zenon
  <1>2. cur_proc'[k] = next /\ \A l \in RqCPUs : l # k => cur_proc'[l] = cur_proc[l]
    BY Zenon
  <1>3. /\ \A l \in RqCPUs : cur_proc[l] # RqIdle => cur_proc[l] \in RqProcs /\ st[cur_proc[l]] = "RUNNING"
        /\ \A q \in RqProcs : st[q] = "RUNNING" => \E l \in RqCPUs : cur_proc[l] = q
        /\ \A l, m \in RqCPUs : cur_proc[l] = cur_proc[m] /\ cur_proc[l] # RqIdle => l = m
    BY Zenon DEF RqCurrent
  <1>4. \A l \in RqCPUs : l # k /\ cur_proc[l] # RqIdle =>
            cur_proc[l] \in RqProcs /\ s[cur_proc[l]] = "RUNNING" /\ cur_proc[l] # next
    <2> SUFFICES ASSUME NEW l \in RqCPUs, l # k, cur_proc[l] # RqIdle
                 PROVE  cur_proc[l] \in RqProcs /\ s[cur_proc[l]] = "RUNNING" /\ cur_proc[l] # next
      BY Zenon
    <2>1. cur_proc[l] \in RqProcs /\ st[cur_proc[l]] = "RUNNING"
      BY <1>3, Zenon
    <2>2. cur_proc[l] # cur_proc[k]
      BY <1>3, Zenon
    <2>3. s[cur_proc[l]] = "RUNNING"
      BY <2>1, <2>2, Zenon
    <2>4. cur_proc[l] # next
      <3> SUFFICES ASSUME cur_proc[l] = next PROVE FALSE
        BY Zenon
      <3>1. s[next] = "RUNNING" /\ s[next] = "RUNNABLE"
        BY <1>1, <2>1, <2>3, Zenon
      <3> QED BY <3>1, Zenon
    <2> QED BY <2>1, <2>3, <2>4, Zenon
  <1>5. ASSUME NEW l \in RqCPUs, cur_proc'[l] # RqIdle PROVE st'[cur_proc'[l]] = "RUNNING"
    <2>1. CASE l = k
      BY <1>2, <1>5, <2>1, Zenon
    <2>2. CASE l # k
      BY <1>2, <1>4, <1>5, <2>2, Zenon
    <2> QED BY <2>1, <2>2, Zenon
  <1>6. ASSUME NEW q \in RqProcs, st'[q] = "RUNNING" PROVE \E l \in RqCPUs : cur_proc'[l] = q
    <2>1. CASE q = next
      BY <1>2, <2>1, Zenon
    <2>2. CASE q # next
      <3>1. s[q] = "RUNNING"
        BY <1>6, <2>2, Zenon
      <3>2. q # cur_proc[k]
        BY <3>1, Zenon
      <3>3. st[q] = "RUNNING"
        BY <3>1, <3>2, Zenon
      <3>4. PICK l \in RqCPUs : cur_proc[l] = q
        BY <1>3, <3>3, Zenon
      <3> QED BY <1>2, <3>2, <3>4, Zenon
    <2> QED BY <2>1, <2>2, Zenon
  <1>7. ASSUME NEW l \in RqCPUs, NEW m \in RqCPUs, cur_proc'[l] = cur_proc'[m], cur_proc'[l] # RqIdle
        PROVE  l = m
    <2>1. CASE l = k
      BY <1>2, <1>4, <1>7, <2>1, Zenon
    <2>2. CASE m = k
      BY <1>2, <1>4, <1>7, <2>2, Zenon
    <2>3. CASE l # k /\ m # k
      <3>1. cur_proc'[l] = cur_proc[l] /\ cur_proc'[m] = cur_proc[m]
        BY <1>2, <2>3, Zenon
      <3>2. cur_proc[l] = cur_proc[m] /\ cur_proc[l] # RqIdle
        BY <1>7, <3>1, Zenon
      <3> QED BY <1>3, <3>2, Zenon
    <2> QED BY <2>1, <2>2, <2>3, Zenon
  <1> QED BY <1>5, <1>6, <1>7, Zenon DEF RqCurrent

\* pick_next, update_this_proc and the switch, from trees and states that agree.
LEMMA DispatchInv ==
    ASSUME RqInv, NEW k \in RqCPUs, NEW tree \in [Containers -> SUBSET Nodes],
           NEW vr \in [Nodes -> 0 .. MaxRuntime], NEW s \in [RqProcs -> RqStates],
           Dispatch(k, tree, vr, s), Queued(tree, s, nr_running'),
           nr_running' \in [Containers -> Nat], weight_sum' \in [Containers -> 0 .. WeightMod - 1],
           UNCHANGED <<weight, rqKilled, alerting, mixed>>,
           \A q \in RqProcs : q # cur_proc[k] => s[q] = st[q],
           cur_proc[k] \in RqProcs => s[cur_proc[k]] # "RUNNING",
           ~mixed => Weighed(tree, s, weight, weight_sum'),
           \A q \in rqKilled \ alerting : s[q] # "SLEEPING"
    PROVE  RqInv'
  <1>1. PICK next \in recur_get_proc(tree, vr) :
           /\ cur_proc' = [cur_proc EXCEPT ![k] = next] /\ timerOn' = [timerOn EXCEPT ![k] = TRUE]
           /\ vruntime' = vr
           /\ st' = [q \in RqProcs |-> IF q = next THEN "RUNNING" ELSE s[q]]
           /\ rq' = [c \in Containers |-> tree[c] \ {next}]
    BY ZenonT(60) DEF Dispatch
  <1>2. next = RqIdle \/ (next \in RqProcs /\ s[next] = "RUNNABLE")
    <2>1. \A q \in RqProcs, c \in Containers : q \in tree[c] <=> (c = Home[q] /\ s[q] = "RUNNABLE")
      BY Zenon DEF Queued
    <2> QED BY SMTT(30), <2>1, PickedRunnable
  <1>3. /\ rq' \in [Containers -> SUBSET Nodes] /\ st' \in [RqProcs -> RqStates]
        /\ Queued(rq', st', nr_running')
        /\ \A c \in Containers : Counted(rq', st', c) = Counted(tree, s, c)
    <2>1. rq' \in [Containers -> SUBSET Nodes] /\ \A c \in Containers : rq'[c] = tree[c] \ {next}
      BY <1>1, Zenon
    <2>2. st' \in [RqProcs -> RqStates] /\ \A q \in RqProcs : st'[q] = IF q = next THEN "RUNNING" ELSE s[q]
      BY ZenonT(60), <1>1 DEF RqStates
    <2>3. Queued(rq', st', nr_running') /\ \A c \in Containers : Counted(rq', st', c) = Counted(tree, s, c)
      <3>1. Switched(tree, s, next, rq', st')
        BY ZenonT(60), <1>2, <2>1, <2>2 DEF Switched
      <3>2. PICK t2, s2, n2 : t2 = rq' /\ s2 = st' /\ n2 = nr_running'
        BY Zenon
      <3>3. Switched(tree, s, next, t2, s2) /\ Queued(tree, s, n2)
        BY <3>1, <3>2, Zenon
      <3>4. Queued(t2, s2, n2) /\ SameCounted(t2, s2, tree, s)
        BY <3>3, DispatchQueues, Zenon
      <3> QED BY <3>2, <3>4, Zenon DEF SameCounted
    <2> QED BY <2>1, <2>2, <2>3, Zenon
  <1>4. RqTypes /\ RqCurrent /\ RqKilledAwake /\ RqPreemptible
    BY Zenon DEF RqInv
  <1>5. /\ cur_proc \in [RqCPUs -> RqProcs \cup {RqIdle}] /\ timerOn \in [RqCPUs -> BOOLEAN]
        /\ weight \in [Nodes -> {prio_to_weight, KilledWeight}]
        /\ rqKilled \subseteq RqProcs /\ alerting \subseteq rqKilled
    BY <1>4, Zenon DEF RqTypes
  <1>6. /\ cur_proc' \in [RqCPUs -> RqProcs \cup {RqIdle}] /\ timerOn' \in [RqCPUs -> BOOLEAN]
        /\ cur_proc'[k] = next /\ timerOn'[k] = TRUE
        /\ \A l \in RqCPUs : l # k => cur_proc'[l] = cur_proc[l] /\ timerOn'[l] = timerOn[l]
    BY <1>1, <1>2, <1>5, Zenon
  <1>7. RqTypes'
    BY <1>1, <1>3, <1>5, <1>6, Zenon DEF RqTypes
  <1>8. \A q \in RqProcs : st'[q] = IF q = next THEN "RUNNING" ELSE s[q]
    BY <1>1, Zenon
  <1>11. RqCurrent'
    BY <1>1, <1>2, <1>4, <1>5, <1>8, CurrentMoves, Zenon
  <1>12. RqReachable'
    BY <1>3, Zenon DEF RqReachable
  <1>13. RqWeights'
    <2> SUFFICES ASSUME ~mixed, NEW c \in Containers
                 PROVE  weight_sum'[c] = Summed(Counted(rq', st', c), weight) % WeightMod
      BY Zenon DEF RqWeights, Weighed
    <2> QED BY <1>3, Zenon DEF Weighed
  <1>14. RqKilledAwake'
    <2> SUFFICES ASSUME NEW q \in rqKilled \ alerting PROVE st'[q] # "SLEEPING"
      BY Zenon DEF RqKilledAwake
    <2>1. q \in RqProcs
      BY <1>5, Zenon
    <2>2. st'[q] = "RUNNING" \/ st'[q] = s[q]
      BY <1>8, <2>1, Zenon
    <2> QED BY <2>2, Zenon
  <1>15. RqPreemptible'
    BY <1>4, <1>6, Zenon DEF RqPreemptible
  <1> QED BY <1>7, <1>11, <1>12, <1>13, <1>14, <1>15, Zenon DEF RqInv

\* A sum that % WeightMod was applied to.
LEMMA SumsTyped ==
    ASSUME NEW w \in [Nodes -> Weights], NEW S \in SUBSET Nodes, NEW a \in 0 .. WeightMod - 1
    PROVE  (a + Summed(S, w)) % WeightMod \in 0 .. WeightMod - 1 /\ (a - Summed(S, w)) % WeightMod \in 0 .. WeightMod - 1
  <1> DEFINE b == Summed(S, w)
  <1>1. WeightMod \in Nat \ {0}
    BY RqAssumption, Zenon
  <1>2. b \in Nat
    <2>1. S \cap {} = {} /\ {} \in SUBSET Nodes
      BY Zenon
    <2> QED BY <2>1, WeightsAdd, Zenon
  <1> HIDE DEF b
  <1>3. (a + b) % WeightMod \in 0 .. WeightMod - 1 /\ (a - b) % WeightMod \in 0 .. WeightMod - 1
    BY <1>1, <1>2
  <1> QED BY <1>3, Zenon DEF b

\* A process leaves its CPU.
LEMMA SchedInv ==
    ASSUME RqInv, NEW k \in RqCPUs, NEW s \in {"SLEEPING", "DEEPSLEEPING", "ZOMBIE", "RUNNABLE"},
           NEW delta \in Nat, SchedWith(k, s, delta, Emptied(k)), MayLeave(k, s) \/ s = "RUNNABLE"
    PROVE  RqInv'
  <1> DEFINE p == cur_proc[k]
             M == Cascade(p, 1)
             G(c) == Gone(p, s, M, c)
             tree == TreesLeft(p, s, M)
             s2 == [st EXCEPT ![p] = s]
             nr == [c \in Containers |-> nr_running[c] - Cardinality(G(c))]
             vr == Aged(p, delta)
  <1>1. /\ p # RqIdle /\ \A e \in Nodes : vr[e] <= MaxRuntime
        /\ nr_running' = nr
        /\ weight_sum' = [c \in Containers |-> (weight_sum[c] - Summed(G(c), weight)) % WeightMod]
        /\ Dispatch(k, tree, vr, s2)
        /\ UNCHANGED <<weight, rqKilled, alerting, mixed>>
    BY Zenon DEF SchedWith, Emptied
  <1>2. RqTypes /\ RqCurrent /\ RqReachable /\ RqWeights /\ RqKilledAwake
    BY Zenon DEF RqInv
  <1>3. p \in RqProcs /\ st[p] = "RUNNING" /\ st \in [RqProcs -> RqStates]
    BY <1>1, <1>2, Zenon DEF RqTypes, RqCurrent
  <1>4. /\ tree \in [Containers -> SUBSET Nodes] /\ nr \in [Containers -> Nat] /\ Queued(tree, s2, nr)
        /\ \A c \in Containers : /\ G(c) \subseteq Counted(rq, st, c)
                                  /\ Counted(tree, s2, c) = Counted(rq, st, c) \ G(c)
    <2>1. CASE s = "RUNNABLE"
      BY ZenonT(60), <1>2, <1>3, <2>1, YieldQueues
    <2>2. CASE s # "RUNNABLE"
      <3>1. s \in RqStates \ {"RUNNABLE", "RUNNING"}
        BY <2>2, Zenon DEF RqStates
      <3> QED BY <1>2, <1>3, <3>1, StopQueues, Zenon
    <2> QED BY <2>1, <2>2, Zenon
  <1>5. s2 \in [RqProcs -> RqStates] /\ s2[p] = s /\ \A q \in RqProcs : q # p => s2[q] = st[q]
    <2>1. s \in RqStates
      BY Zenon DEF RqStates
    <2> QED BY <1>3, <2>1, Zenon
  <1>6. vr \in [Nodes -> 0 .. MaxRuntime]
    <2>1. \A e \in Nodes : vruntime[e] \in Nat /\ vruntime[e] + delta \in Nat
      <3>1. vruntime \in [Nodes -> 0 .. MaxRuntime] /\ MaxRuntime \in Nat
        BY <1>2, RqAssumption, Zenon DEF RqTypes
      <3> QED BY <3>1
    <2>2. vr = [e \in Nodes |-> vr[e]] /\ \A e \in Nodes : vr[e] \in Nat
      BY Zenon, <2>1 DEF Aged
    <2> HIDE DEF vr
    <2>3. \A e \in Nodes : vr[e] \in 0 .. MaxRuntime
      BY <1>1, <2>2, RqAssumption
    <2> QED BY <2>2, <2>3, Zenon
  <1> HIDE DEF vr, tree, s2, nr, G
  <1>7. \A c \in Containers : G(c) \in SUBSET Nodes /\ Counted(rq, st, c) \in SUBSET Nodes
    <2>1. \A c \in Containers : Counted(rq, st, c) \in SUBSET Nodes
      BY <1>2, CountedNodes, Zenon DEF RqTypes
    <2> QED BY <1>4, <2>1, Zenon
  <1>8. weight \in [Nodes -> Weights] /\ weight_sum \in [Containers -> 0 .. WeightMod - 1]
    BY <1>2, Zenon DEF RqTypes, Weights
  <1>9. weight_sum' \in [Containers -> 0 .. WeightMod - 1]
    <2>1. \A c \in Containers : (weight_sum[c] - Summed(G(c), weight)) % WeightMod \in 0 .. WeightMod - 1
      BY <1>7, <1>8, SumsTyped, Zenon
    <2> QED BY <1>1, <2>1, Zenon
  <1>10. ~mixed => Weighed(tree, s2, weight, weight_sum')
    <2> SUFFICES ASSUME ~mixed, NEW c \in Containers
                 PROVE  weight_sum'[c] = Summed(Counted(tree, s2, c), weight) % WeightMod
      BY Zenon DEF Weighed
    <2>1. weight_sum[c] = Summed(Counted(rq, st, c), weight) % WeightMod
      BY <1>2, Zenon DEF RqWeights, Weighed
    <2>2. ((Summed(Counted(rq, st, c), weight) % WeightMod) - Summed(G(c), weight)) % WeightMod
            = Summed(Counted(rq, st, c) \ G(c), weight) % WeightMod
      BY <1>4, <1>7, <1>8, WeightsFollow, Zenon
    <2>3. weight_sum'[c] = (weight_sum[c] - Summed(G(c), weight)) % WeightMod
      BY <1>1, Zenon
    <2> QED BY <1>4, <2>1, <2>2, <2>3, Zenon
  <1>11. \A q \in rqKilled \ alerting : s2[q] # "SLEEPING"
    <2> SUFFICES ASSUME NEW q \in rqKilled \ alerting, s2[q] = "SLEEPING" PROVE FALSE
      BY Zenon
    <2>1. q \in RqProcs /\ st[q] # "SLEEPING"
      BY <1>2, Zenon DEF RqTypes, RqKilledAwake
    <2>2. q = p /\ s = "SLEEPING"
      BY <1>5, <2>1, Zenon
    <2> QED BY <2>2, Zenon DEF MayLeave
  <1>12. p \in RqProcs => s2[p] # "RUNNING"
    BY <1>5, Zenon
  <1> QED BY Zenon, <1>1, <1>4, <1>5, <1>6, <1>9, <1>10, <1>11, <1>12, DispatchInv

\* The larger of two vruntimes.
LEMMA LaterIn ==
    ASSUME NEW a \in 0 .. MaxRuntime, NEW b \in 0 .. MaxRuntime PROVE Max({a, b}) \in 0 .. MaxRuntime
  <1>1. \E x \in {a, b} : \A y \in {a, b} : x >= y
    <2>1. a >= b \/ b >= a
      BY RqAssumption
    <2>2. a >= a /\ b >= b
      BY RqAssumption
    <2> QED BY <2>1, <2>2, Zenon
  <1>2. Max({a, b}) \in {a, b}
    BY <1>1, Zenon DEF Max
  <1> QED BY <1>2, Zenon

\* Boot: nothing in the trees, idle everywhere.
LEMMA RunQueueInitInv == RunQueueInit => RqInv
  <1> SUFFICES ASSUME RunQueueInit PROVE RqInv
    BY Zenon
  <1> USE DEF RunQueueInit
  <1>1. MaxRuntime \in Nat /\ WeightMod \in Nat \ {0} /\ RqIdle \notin RqProcs
    BY RqAssumption, Zenon
  <1>2. 0 \in 0 .. MaxRuntime /\ 0 \in 0 .. WeightMod - 1 /\ 0 \in Nat /\ ~(0 > 0)
    BY <1>1
  <1>3. RqTypes
    BY <1>1, <1>2, Zenon DEF RqTypes, RqStates
  <1>4. RqCurrent
    BY <1>1, Zenon DEF RqCurrent
  <1>5. \A c \in Containers : Counted(rq, st, c) = {}
    BY Zenon DEF Counted, Running
  <1>6. RqReachable
    <2>1. \A c \in Containers : rq[c] = {} /\ nr_running[c] = 0
      BY Zenon
    <2>2. \A c \in Containers : nr_running[c] = Cardinality(Counted(rq, st, c))
      BY <1>5, <2>1, FS_EmptySet, Zenon
    <2>3. \A q \in RqProcs : st[q] # "RUNNABLE"
      BY Zenon
    <2> QED BY <1>2, <2>1, <2>2, <2>3, Zenon DEF RqReachable, Queued
  <1>7. RqWeights
    <2>1. Summed({}, weight) = 0
      <3>1. UNION {{e} \X (1 .. weight[e]) : e \in {}} = {}
        OBVIOUS
      <3> QED BY <3>1, FS_EmptySet, Zenon DEF Summed
    <2>2. 0 % WeightMod = 0
      BY <1>1
    <2> QED BY <1>5, <2>1, <2>2, Zenon DEF RqWeights, Weighed
  <1>8. RqKilledAwake /\ RqPreemptible
    BY Zenon DEF RqKilledAwake, RqPreemptible
  <1> QED BY <1>3, <1>4, <1>6, <1>7, <1>8, Zenon DEF RqInv

\* activate_proc, and alert_proc where it wakes the process.
LEMMA ActivatedInv ==
    ASSUME RqInv, NEW p \in RqProcs, NEW k \in RqCPUs, st[p] \in Asleep(FALSE),
           Activated(p, k, Cascade(p, 0)), alerting' \in {alerting, alerting \ {p}}
    PROVE  RqInv'
  <1> DEFINE M == Cascade(p, 0)
             E(c) == Entering(p, M, c)
  <1>1. /\ st' = [st EXCEPT ![p] = "RUNNABLE"]
        /\ \E mins \in [{p} \cup M -> 0 .. MaxRuntime] :
               vruntime' = [e \in Nodes |-> IF e \in DOMAIN mins THEN Max({vruntime[e], mins[e]})
                                               ELSE vruntime[e]]
        /\ weight_sum' = [c \in Containers |-> (weight_sum[c] + Summed(E(c), weight)) % WeightMod]
        /\ UNCHANGED <<weight, cur_proc, timerOn, rqKilled, grouped, mixed>>
    BY Zenon DEF Activated
  <1>2. RqTypes /\ RqCurrent /\ RqReachable /\ RqWeights /\ RqKilledAwake /\ RqPreemptible
    BY Zenon DEF RqInv
  <1>3. st[p] \notin {"RUNNABLE", "RUNNING"}
    BY Zenon DEF Asleep
  <1>4. rq' \in [Containers -> SUBSET Nodes] /\ nr_running' \in [Containers -> Nat] /\ RqReachable' /\ RqWeights'
    BY <1>2, <1>3, ActivatedQueues, Zenon
  <1>5. st' \in [RqProcs -> RqStates] /\ st'[p] = "RUNNABLE" /\ \A q \in RqProcs : q # p => st'[q] = st[q]
    BY <1>1, <1>2, Zenon DEF RqTypes, RqStates
  <1>6. vruntime' \in [Nodes -> 0 .. MaxRuntime]
    <2>1. vruntime \in [Nodes -> 0 .. MaxRuntime]
      BY <1>2, Zenon DEF RqTypes
    <2>2. PICK mins \in [{p} \cup M -> 0 .. MaxRuntime] :
             vruntime' = [e \in Nodes |-> IF e \in DOMAIN mins THEN Max({vruntime[e], mins[e]}) ELSE vruntime[e]]
      BY <1>1, Zenon
    <2>3. \A e \in Nodes : e \in DOMAIN mins => mins[e] \in 0 .. MaxRuntime
      BY Zenon
    <2>4. \A e \in Nodes : (IF e \in DOMAIN mins THEN Max({vruntime[e], mins[e]}) ELSE vruntime[e]) \in 0 .. MaxRuntime
      BY <2>1, <2>3, LaterIn, Zenon
    <2> QED BY <2>2, <2>4, Zenon
  <1>7. weight_sum' \in [Containers -> 0 .. WeightMod - 1]
    <2>1. weight \in [Nodes -> Weights] /\ weight_sum \in [Containers -> 0 .. WeightMod - 1]
      BY <1>2, Zenon DEF RqTypes, Weights
    <2>2. M \subseteq Containers \ {root_container}
      BY CascadeFacts, Zenon
    <2>3. \A c \in Containers : E(c) \in SUBSET Nodes
      BY <2>2, Zenon DEF Entering, Nodes
    <2> HIDE DEF E
    <2>4. \A c \in Containers : (weight_sum[c] + Summed(E(c), weight)) % WeightMod \in 0 .. WeightMod - 1
      BY <2>1, <2>3, SumsTyped, Zenon
    <2> QED BY <1>1, <2>4, Zenon
  <1>8. RqTypes'
    <2>1. rqKilled \subseteq RqProcs /\ alerting' \subseteq rqKilled
      BY <1>2, Zenon DEF RqTypes
    <2> QED BY <1>1, <1>2, <1>4, <1>5, <1>6, <1>7, <2>1, Zenon DEF RqTypes
  <1>9. RqCurrent'
    <2>1. \A q \in RqProcs : st'[q] = "RUNNING" <=> st[q] = "RUNNING"
      BY <1>3, <1>5, Zenon
    <2>2. \A l \in RqCPUs : cur_proc[l] # RqIdle => cur_proc[l] \in RqProcs
      BY <1>2, Zenon DEF RqTypes
    <2> QED BY <1>1, <1>2, <2>1, <2>2, Zenon DEF RqCurrent
  <1>10. RqKilledAwake'
    <2> SUFFICES ASSUME NEW q \in rqKilled, q \notin alerting' PROVE st'[q] # "SLEEPING"
      BY <1>1, Zenon DEF RqKilledAwake
    <2>1. q \in RqProcs
      BY <1>2, Zenon DEF RqTypes
    <2>2. CASE q = p
      BY <1>5, <2>2, Zenon
    <2>3. CASE q # p
      BY <1>2, <1>5, <2>1, <2>3, Zenon DEF RqKilledAwake
    <2> QED BY <2>2, <2>3, Zenon
  <1>11. RqPreemptible'
    BY <1>1, <1>2, Zenon DEF RqPreemptible
  <1> QED BY <1>4, <1>8, <1>9, <1>10, <1>11, Zenon DEF RqInv

\* alert_proc at the end of kill.
LEMMA AlertInv == ASSUME RqInv, NEW p \in RqProcs, NEW k \in RqCPUs, RqAlert(p, k) PROVE RqInv'
  <1>1. p \in alerting /\ alerting' = alerting \ {p}
    BY Zenon DEF RqAlert
  <1>2. CASE st[p] \in Asleep(TRUE)
    <2>1. st[p] \in Asleep(FALSE)
      BY <1>2, Zenon DEF Asleep
    <2>2. Activated(p, k, Cascade(p, 0))
      BY <1>2, Zenon DEF RqAlert
    <2> QED BY <1>1, <2>1, <2>2, ActivatedInv, Zenon
  <1>3. CASE st[p] \notin Asleep(TRUE)
    <2>1. UNCHANGED <<st, vruntime, weight, rq, nr_running, weight_sum, cur_proc, timerOn, rqKilled, mixed>>
      BY <1>3, Zenon DEF RqAlert
    <2>2. st[p] # "SLEEPING"
      BY <1>3, Zenon DEF Asleep
    <2>3. RqTypes' /\ RqCurrent' /\ RqReachable' /\ RqWeights' /\ RqPreemptible'
      BY <1>1, <2>1, Zenon DEF RqInv, RqTypes, RqCurrent, RqReachable, RqWeights, RqPreemptible
    <2>4. RqKilledAwake'
      BY <1>1, <2>1, <2>2, Zenon DEF RqInv, RqKilledAwake
    <2> QED BY <2>3, <2>4, Zenon DEF RqInv
  <1> QED BY <1>2, <1>3, Zenon
\* activate_group changes one vruntime.
LEMMA GroupInv == ASSUME RqInv, NEW c \in Containers, NEW k \in RqCPUs, ActivateGroup(c, k) PROVE RqInv'
  <1>1. UNCHANGED <<st, weight, rq, nr_running, weight_sum, cur_proc, timerOn, rqKilled, alerting, mixed>>
    BY Zenon DEF ActivateGroup
  <1>2. vruntime \in [Nodes -> 0 .. MaxRuntime] /\ rq \in [Containers -> SUBSET Nodes]
        /\ cur_proc \in [RqCPUs -> RqProcs \cup {RqIdle}]
    BY Zenon DEF RqInv, RqTypes
  <1>3. c \in Nodes /\ Parent(c) \in Containers
    <2>1. c # root_container /\ c \in Nodes
      BY Zenon DEF ActivateGroup, Nodes
    <2>2. Len(Up[c]) \in Nat \ {0} /\ Len(Up[c]) # 1
      <3>1. Len(Up[c]) \in Nat \ {0} /\ Up[c][1] = c /\ Up[c][Len(Up[c])] = root_container
        BY UpFacts, Zenon
      <3>2. ASSUME Len(Up[c]) = 1 PROVE FALSE
        BY <2>1, <3>1, <3>2, Zenon
      <3> QED BY <3>1, <3>2, Zenon
    <2>3. 2 \in 1 .. Len(Up[c])
      <3>1. \A n \in Nat \ {0} : n # 1 => 2 \in 1 .. n
        OBVIOUS
      <3> QED BY <2>2, <3>1, Zenon
    <2> QED BY <2>1, <2>3, UpFacts, Zenon DEF Parent
  <1>4. PICK min \in get_minvruntime(Parent(c), k) : vruntime' = [vruntime EXCEPT ![c] = Max({@, min})]
    BY Zenon DEF ActivateGroup
  <1>5. min \in 0 .. MaxRuntime
    <2>1. rq[Parent(c)] \subseteq Nodes /\ (cur_proc[k] # RqIdle => cur_proc[k] \in Nodes)
      BY <1>2, <1>3, Zenon DEF Nodes
    <2> QED BY ZenonT(60), <1>2, <1>4, <2>1 DEF get_minvruntime, First
  <1>6. vruntime' \in [Nodes -> 0 .. MaxRuntime]
    <2>1. Max({vruntime[c], min}) \in 0 .. MaxRuntime
      BY <1>2, <1>3, <1>5, LaterIn, Zenon
    <2> QED BY <1>2, <1>4, <2>1, Zenon
  <1>7. RqTypes'
    BY <1>1, <1>6, Zenon DEF RqInv, RqTypes
  <1> QED BY <1>1, <1>7, Zenon DEF RqInv, RqCurrent, RqReachable, RqWeights, RqKilledAwake, RqPreemptible

\* kill changes the weight of a process under the queues' feet: the sums stay right
\* only if it is in none of them.
LEMMA RqKillInv == ASSUME RqInv, NEW p \in RqProcs, RqKill(p) PROVE RqInv'
  <1>1. /\ rqKilled' = rqKilled \cup {p} /\ alerting' = alerting \cup {p}
        /\ weight' = [weight EXCEPT ![p] = KilledWeight]
        /\ mixed' = (mixed \/ st[p] \in {"RUNNABLE", "RUNNING"})
        /\ UNCHANGED <<st, vruntime, rq, nr_running, weight_sum, cur_proc, timerOn, grouped>>
    BY Zenon DEF RqKill
  <1>2. RqTypes /\ RqCurrent /\ RqReachable /\ RqWeights /\ RqKilledAwake /\ RqPreemptible
    BY Zenon DEF RqInv
  <1>3. RqTypes'
    BY <1>1, <1>2, Zenon DEF RqTypes
  <1>4. RqCurrent' /\ RqReachable' /\ RqKilledAwake' /\ RqPreemptible'
    BY <1>1, <1>2, Zenon DEF RqCurrent, RqReachable, RqKilledAwake, RqPreemptible
  <1>5. RqWeights'
    <2> SUFFICES ASSUME ~mixed', NEW c \in Containers
                 PROVE  weight_sum[c] = Summed(Counted(rq, st, c), weight') % WeightMod
      BY <1>1, Zenon DEF RqWeights, Weighed
    <2> DEFINE C == Counted(rq, st, c)
    <2>1. ~mixed /\ st[p] # "RUNNABLE" /\ st[p] # "RUNNING"
      BY <1>1, Zenon
    <2>2. p \notin C
      BY <1>2, <2>1, Zenon DEF RqReachable, Queued, Counted, Running
    <2>3. \A e \in C : weight'[e] = weight[e]
      <3>1. C \subseteq Nodes /\ weight \in [Nodes -> {prio_to_weight, KilledWeight}]
        BY <1>2, CountedNodes, Zenon DEF RqTypes
      <3> HIDE DEF C
      <3> QED BY <1>1, <2>2, <3>1, Zenon
    <2>4. weight_sum[c] = Summed(C, weight) % WeightMod
      BY <1>2, <2>1, Zenon DEF RqWeights, Weighed
    <2> HIDE DEF C
    <2>5. Summed(C, weight') = Summed(C, weight)
      <3>1. {{e} \X (1 .. weight'[e]) : e \in C} = {{e} \X (1 .. weight[e]) : e \in C}
        BY <2>3, Zenon
      <3> QED BY <3>1, Zenon DEF Summed
    <2> QED BY <2>4, <2>5, Zenon DEF C
  <1> QED BY <1>3, <1>4, <1>5, Zenon DEF RqInv

\* The idle process looks again.
LEMMA IdleSchedInv == ASSUME RqInv, NEW k \in RqCPUs, RqIdleSched(k) PROVE RqInv'
  <1>1. RqTypes /\ Queued(rq, st, nr_running) /\ (~mixed => Weighed(rq, st, weight, weight_sum))
        /\ \A q \in rqKilled \ alerting : st[q] # "SLEEPING"
    BY Zenon DEF RqInv, RqReachable, RqWeights, RqKilledAwake
  <1>2. cur_proc[k] = RqIdle /\ Dispatch(k, rq, vruntime, st)
        /\ UNCHANGED <<nr_running, weight_sum, weight, rqKilled, alerting, grouped, mixed>>
    BY Zenon DEF RqIdleSched
  <1>3. cur_proc[k] \notin RqProcs
    BY <1>2, RqAssumption, Zenon
  <1>4. /\ rq \in [Containers -> SUBSET Nodes] /\ vruntime \in [Nodes -> 0 .. MaxRuntime]
        /\ st \in [RqProcs -> RqStates] /\ nr_running' \in [Containers -> Nat]
        /\ weight_sum' \in [Containers -> 0 .. WeightMod - 1]
    BY <1>1, <1>2, Zenon DEF RqTypes
  <1>5. Queued(rq, st, nr_running') /\ (~mixed => Weighed(rq, st, weight, weight_sum'))
    BY <1>1, <1>2, Zenon
  <1> QED BY <1>1, <1>2, <1>3, <1>4, <1>5, DispatchInv, Zenon

\* The preemption timer.
LEMMA TimerInv == ASSUME RqInv, NEW k \in RqCPUs, NEW d \in 0 .. 1, RqTimer(k, d) PROVE RqInv'
  <1>1. cur_proc[k] # RqIdle
    BY Zenon DEF RqTimer
  <1>2. CASE cur_proc[k] \notin rqKilled
    <2>1. SchedWith(k, "RUNNABLE", d, Emptied(k))
      BY <1>2, Zenon DEF RqTimer, TimerWith
    <2>2. d \in Nat
      OBVIOUS
    <2> QED BY <2>1, <2>2, SchedInv, Zenon
  <1>3. CASE cur_proc[k] \in rqKilled
    <2>1. timerOn' = [timerOn EXCEPT ![k] = FALSE]
          /\ UNCHANGED <<st, vruntime, weight, rq, nr_running, weight_sum, cur_proc, rqKilled, alerting, grouped, mixed>>
      BY <1>3, Zenon DEF RqTimer, TimerWith
    <2>2. timerOn \in [RqCPUs -> BOOLEAN] /\ RqPreemptible
      BY Zenon DEF RqInv, RqTypes
    <2>3. timerOn' \in [RqCPUs -> BOOLEAN] /\ \A l \in RqCPUs : l # k => timerOn'[l] = timerOn[l]
      BY <2>1, <2>2
    <2>4. RqPreemptible'
      BY <1>3, <2>1, <2>2, <2>3, Zenon DEF RqPreemptible
    <2>5. RqTypes'
      BY <2>1, <2>3, Zenon DEF RqInv, RqTypes
    <2> QED BY <2>1, <2>4, <2>5, Zenon DEF RqInv, RqCurrent, RqReachable, RqWeights, RqKilledAwake
  <1> QED BY <1>2, <1>3, Zenon

\* The inductive invariant of sched.c: every operation under sched_lock, and kill
\* outside it, keeps states, trees, counts, weight sums and current processes together.
THEOREM RunQueueInvariant == RqSpec => []RqInv
  <1>1. RunQueueInit => RqInv
    BY RunQueueInitInv
  <1>2. RqInv /\ [RunQueueNext]_rqVars => RqInv'
    <2> SUFFICES ASSUME RqInv, [RunQueueNext]_rqVars PROVE RqInv'
      OBVIOUS
    <2>1. ASSUME NEW p \in RqProcs, RqKill(p) PROVE RqInv'
      BY <2>1, RqKillInv, Zenon
    <2>2. ASSUME NEW k \in RqCPUs, NEW p \in RqProcs, RqActivate(p, k) PROVE RqInv'
      <3>1. st[p] \in Asleep(FALSE) /\ Activated(p, k, Cascade(p, 0)) /\ alerting' = alerting
        BY <2>2, Zenon DEF RqActivate
      <3> QED BY <3>1, ActivatedInv, Zenon
    <2>3. ASSUME NEW k \in RqCPUs, NEW p \in RqProcs, RqAlert(p, k) PROVE RqInv'
      BY <2>3, AlertInv, Zenon
    <2>4. ASSUME NEW k \in RqCPUs, NEW c \in Containers, ActivateGroup(c, k) PROVE RqInv'
      BY <2>4, GroupInv, Zenon
    <2>5. ASSUME NEW k \in RqCPUs, NEW s \in {"SLEEPING", "DEEPSLEEPING", "ZOMBIE", "RUNNABLE"},
                 NEW d \in 0 .. 1, RqSched(k, s, d)
          PROVE  RqInv'
      <3>1. MayLeave(k, s) /\ SchedWith(k, s, d, Emptied(k))
        BY <2>5, Zenon DEF RqSched
      <3>2. d \in Nat
        BY SMTT(30)
      <3> QED BY <3>1, <3>2, SchedInv, Zenon
    <2>6. ASSUME NEW k \in RqCPUs, RqIdleSched(k) PROVE RqInv'
      BY <2>6, IdleSchedInv, Zenon
    <2>7. ASSUME NEW k \in RqCPUs, NEW d \in 0 .. 1, RqTimer(k, d) PROVE RqInv'
      BY <2>7, TimerInv, Zenon
    <2>8. CASE UNCHANGED rqVars
      BY ZenonT(60), <2>8 DEF rqVars, RqInv, RqTypes, RqCurrent, RqReachable, RqWeights, RqKilledAwake, RqPreemptible
    <2> QED BY Zenon, <2>1, <2>2, <2>3, <2>4, <2>5, <2>6, <2>7, <2>8 DEF RunQueueNext
  <1> QED BY <1>1, <1>2, PTL DEF RqSpec

\* The bookkeeping of sched.c in any number of CPUs, processes and nested containers:
\* nothing ready is unreachable, the counts and sums are those of the trees, and a
\* process runs on one CPU.
THEOREM RunQueueIsSafe == RqSpec => []RqSafe
  <1>1. RqInv => RqSafe
    <2> SUFFICES ASSUME RqInv PROVE RqSafe
      OBVIOUS
    <2>1. RqTypes /\ RqCurrent /\ RqReachable /\ RqWeights
      BY Zenon DEF RqInv
    <2>2. ASSUME NEW c \in Containers PROVE nr_running[c] \in 0 .. Cardinality(Nodes)
      <3> DEFINE C == Counted(rq, st, c)
      <3>1. C \in SUBSET Nodes
        BY <2>1, CountedNodes, Zenon DEF RqTypes
      <3>2. nr_running[c] = Cardinality(C)
        BY <2>1, Zenon DEF RqReachable, Queued
      <3> HIDE DEF C
      <3>3. Cardinality(C) \in Nat /\ Cardinality(C) <= Cardinality(Nodes)
        BY <3>1, NodesFinite, Zenon
      <3>4. Cardinality(Nodes) \in Nat
        BY NodesFinite, Zenon
      <3> QED BY <3>2, <3>3, <3>4
    <2>3. ASSUME NEW p \in RqProcs
          PROVE  Cardinality({k \in RqCPUs : cur_proc[k] = p}) = IF st[p] = "RUNNING" THEN 1 ELSE 0
      <3> DEFINE K == {k \in RqCPUs : cur_proc[k] = p}
      <3>1. p # RqIdle
        BY RqAssumption, Zenon
      <3>2. CASE st[p] = "RUNNING"
        <4>1. PICK k \in RqCPUs : cur_proc[k] = p
          BY <2>1, <3>2, Zenon DEF RqCurrent
        <4>2. K = {k}
          <5>1. \A l \in RqCPUs : cur_proc[l] = p => l = k
            BY <2>1, <3>1, <4>1, Zenon DEF RqCurrent
          <5> QED BY <4>1, <5>1, Zenon
        <4> QED BY <3>2, <4>2, FS_Singleton, Zenon
      <3>3. CASE st[p] # "RUNNING"
        <4>1. K = {}
          <5>1. ASSUME NEW k \in RqCPUs, cur_proc[k] = p PROVE FALSE
            <6>1. st[cur_proc[k]] = "RUNNING"
              BY <2>1, <3>1, <5>1, Zenon DEF RqCurrent
            <6> QED BY <3>3, <5>1, <6>1, Zenon
          <5> QED BY <5>1, Zenon
        <4> QED BY <3>3, <4>1, FS_EmptySet, Zenon
      <3> QED BY <3>2, <3>3, Zenon
    <2>4. RqTypeOK
      BY <2>1, <2>2, <2>3, Zenon DEF RqTypeOK, RqTypes, RqStates
    <2> QED BY <2>1, <2>4, Zenon DEF RqSafe
  <1> QED BY <1>1, RunQueueInvariant, PTL

\* A killed process never stays in an alertable sleep once alert_proc was called.
THEOREM RunQueueKilledAwake == RqSpec => []RqKilledAwake
  <1>1. RqInv => RqKilledAwake
    BY Zenon DEF RqInv
  <1> QED BY <1>1, RunQueueInvariant, PTL

\* A CPU that runs a process has its preemption timer set, unless the process is killed.
THEOREM RunQueuePreemptible == RqSpec => []RqPreemptible
  <1>1. RqInv => RqPreemptible
    BY Zenon DEF RqInv
  <1> QED BY <1>1, RunQueueInvariant, PTL
=============================================================================
