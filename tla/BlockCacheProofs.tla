-------------------------- MODULE BlockCacheProofs --------------------------
(* Proofs about the block cache (fs/cache.c) for any number of processes,   *)
(* blocks and buffers: a block has one buffer, with one holder, a pinned    *)
(* block is never evicted, and whoever sleeps for a buffer is in the list   *)
(* of its lock.                                                             *)
EXTENDS BlockCache, FiniteSetTheorems, FunctionTheorems, TLAPS

\* The places of a finite set of numbers: counting from the least, every
\* place is taken by exactly one of them.
LEMMA Places ==
    ASSUME NEW n \in Nat, NEW K \in SUBSET (1..n)
    PROVE  /\ IsFiniteSet(K) /\ Cardinality(K) \in Nat
           /\ \A i \in K : Cardinality({j \in K : j <= i}) \in 1..Cardinality(K)
           /\ \A i, l \in K : Cardinality({j \in K : j <= i}) = Cardinality({j \in K : j <= l}) => i = l
           /\ \A k \in 1..Cardinality(K) : \E i \in K : Cardinality({j \in K : j <= i}) = k
  <1> DEFINE Below(i) == {j \in K : j <= i}
             rank == [i \in K |-> Cardinality(Below(i))]
  <1>1. IsFiniteSet(K) /\ Cardinality(K) \in Nat
    <2>1. IsFiniteSet(1..n)
      BY FS_Interval
    <2> QED BY <2>1, FS_Subset, FS_CardinalityType, Zenon
  <1>2. \A i \in K : /\ IsFiniteSet(Below(i)) /\ Cardinality(Below(i)) \in Nat
                     /\ Cardinality(Below(i)) <= Cardinality(K)
    <2> SUFFICES ASSUME NEW i \in K
                 PROVE  /\ IsFiniteSet(Below(i)) /\ Cardinality(Below(i)) \in Nat
                        /\ Cardinality(Below(i)) <= Cardinality(K)
      BY Zenon
    <2>1. Below(i) \in SUBSET K
      BY Zenon
    <2> QED BY <1>1, <2>1, FS_Subset, FS_CardinalityType, Zenon
  <1>3. \A i \in K : Cardinality(Below(i)) # 0
    <2> SUFFICES ASSUME NEW i \in K PROVE Cardinality(Below(i)) # 0
      BY Zenon
    <2>1. i \in Below(i)
      OBVIOUS
    <2> QED BY <1>2, <2>1, FS_EmptySet, Zenon
  <1>4. \A i \in K : Cardinality(Below(i)) \in 1..Cardinality(K)
    BY <1>1, <1>2, <1>3
  <1>5. ASSUME NEW i \in K, NEW l \in K, i < l
        PROVE  Cardinality(Below(i)) # Cardinality(Below(l))
    <2>1. Below(i) \in SUBSET Below(l) /\ l \in Below(l) /\ l \notin Below(i)
      <3>1. \A j \in K : j \in Int
        OBVIOUS
      <3>2. (\A j \in K : j <= i => j <= l) /\ l <= l /\ ~(l <= i)
        BY <1>5, <3>1
      <3> QED BY <3>2, Zenon
    <2>2. IsFiniteSet(Below(l)) /\ Below(i) # Below(l)
      BY <1>2, <2>1, Zenon
    <2> HIDE DEF Below
    <2> QED BY <2>1, <2>2, FS_Subset, Zenon
  <1>6. \A i, l \in K : Cardinality(Below(i)) = Cardinality(Below(l)) => i = l
    BY <1>5
  <1>7. ASSUME NEW k \in 1..Cardinality(K), \A i \in K : Cardinality(Below(i)) # k
        PROVE  FALSE
    <2> DEFINE T == (1..Cardinality(K)) \ {k}
    <2>1. IsFiniteSet(1..Cardinality(K)) /\ Cardinality(1..Cardinality(K)) = Cardinality(K)
      BY <1>1, FS_Interval
    <2>2. IsFiniteSet(T) /\ Cardinality(T) = Cardinality(K) - 1
      BY <2>1, FS_RemoveElement, Zenon
    <2>3. rank \in [K -> T]
      BY <1>4, <1>7, Zenon
    <2>4. \A i, l \in K : rank[i] = rank[l] => i = l
      BY <1>6, Zenon
    <2> HIDE DEF T, rank
    <2>5. \E i, l \in K : i # l /\ rank[i] = rank[l]
      <3>1. Cardinality(T) < Cardinality(K)
        BY <1>1, <2>2
      <3> QED BY <1>1, <2>2, <2>3, <3>1, FS_PigeonHole, Zenon
    <2> QED BY <2>4, <2>5, Zenon
  <1> QED BY <1>1, <1>4, <1>6, <1>7, Zenon

\* What is left of a sequence without repetitions when the elements of S are
\* taken out: the others, without repetitions.
LEMMA WithoutProps ==
    ASSUME NEW X, NEW s \in Seq(X), \A i, j \in 1..Len(s) : s[i] = s[j] => i = j, NEW S
    PROVE  /\ Without(s, S) \in Seq(X)
           /\ Range(Without(s, S)) = Range(s) \ S
           /\ \A i, j \in 1..Len(Without(s, S)) : Without(s, S)[i] = Without(s, S)[j] => i = j
           /\ (S \subseteq Range(s)) => Len(Without(s, S)) = Len(s) - Cardinality(S)
  <1> DEFINE K == {i \in 1..Len(s) : s[i] \notin S}
             at(k) == CHOOSE i \in K : Cardinality({j \in K : j <= i}) = k
             w == [k \in 1..Cardinality(K) |-> s[at(k)]]
  <1>0. Len(s) \in Nat /\ s \in [1..Len(s) -> X] /\ K \in SUBSET (1..Len(s))
    OBVIOUS
  <1>w. Without(s, S) = w
    BY Zenon DEF Without
  <1>p. /\ IsFiniteSet(K) /\ Cardinality(K) \in Nat
        /\ \A i \in K : Cardinality({j \in K : j <= i}) \in 1..Cardinality(K)
        /\ \A i, l \in K : Cardinality({j \in K : j <= i}) = Cardinality({j \in K : j <= l}) => i = l
        /\ \A k \in 1..Cardinality(K) : \E i \in K : Cardinality({j \in K : j <= i}) = k
    <2> HIDE DEF K
    <2> QED BY <1>0, Places, Zenon
  <1>1. \A k \in 1..Cardinality(K) : at(k) \in K /\ Cardinality({j \in K : j <= at(k)}) = k
    <2> HIDE DEF K
    <2> QED BY <1>p, Zenon
  <1>2. \A i \in K : \E k \in 1..Cardinality(K) : at(k) = i
    <2> HIDE DEF K
    <2> SUFFICES ASSUME NEW i \in K PROVE \E k \in 1..Cardinality(K) : at(k) = i
      BY Zenon
    <2>1. at(Cardinality({j \in K : j <= i})) = i
      BY <1>1, <1>p, Zenon
    <2>2. Cardinality({j \in K : j <= i}) \in 1..Cardinality(K)
      BY <1>p, Zenon
    <2> QED BY <2>1, <2>2, Zenon
  <1>3. \A k \in 1..Cardinality(K) : at(k) \in 1..Len(s) /\ s[at(k)] \in X /\ s[at(k)] \notin S
    BY <1>0, <1>1, Zenon
  <1>4. \A k, l \in 1..Cardinality(K) : at(k) = at(l) => k = l
    <2> HIDE DEF K, at
    <2> QED BY <1>1, Zenon
  <1> HIDE DEF at
  <1>5. w \in Seq(X) /\ Len(w) = Cardinality(K) /\ DOMAIN w = 1..Cardinality(K)
    <2> HIDE DEF K
    <2> QED BY <1>p, <1>3
  <1>6. Range(w) = Range(s) \ S
    <2>1. ASSUME NEW x \in Range(w) PROVE x \in Range(s) \ S
      <3>1. PICK k \in 1..Cardinality(K) : x = w[k]
        BY <1>5, <2>1, Zenon DEF Range
      <3> QED BY <1>0, <1>3, <3>1, Zenon DEF Range
    <2>2. ASSUME NEW x \in Range(s) \ S PROVE x \in Range(w)
      <3>1. PICK i \in K : x = s[i]
        BY <1>0, <2>2, Zenon DEF Range
      <3>2. PICK k \in 1..Cardinality(K) : at(k) = i
        BY <1>2, Zenon
      <3> QED BY <1>5, <3>1, <3>2, Zenon DEF Range
    <2> QED BY <2>1, <2>2, Zenon
  <1>7. \A i, j \in 1..Len(w) : w[i] = w[j] => i = j
    BY <1>3, <1>4, <1>5, Zenon
  <1>8. ASSUME S \subseteq Range(s) PROVE Cardinality(K) = Len(s) - Cardinality(S)
    <2> DEFINE I == {i \in 1..Len(s) : s[i] \in S}
               g == [i \in I |-> s[i]]
    <2>1. g \in Bijection(I, S)
      <3>1. g \in [I -> S] /\ \A i, j \in I : g[i] = g[j] => i = j
        BY Zenon
      <3>2. \A x \in S : \E i \in I : g[i] = x
        BY <1>0, <1>8 DEF Range
      <3> HIDE DEF g, I
      <3>3. g \in Injection(I, S)
        BY <3>1, Zenon DEF Injection, IsInjective
      <3>4. g \in Surjection(I, S)
        BY <3>1, <3>2, Zenon DEF Surjection
      <3> QED BY <3>3, <3>4, Zenon DEF Bijection
    <2>2. IsFiniteSet(1..Len(s)) /\ Cardinality(1..Len(s)) = Len(s)
      <3> DEFINE n == Len(s)
      <3>1. n \in Nat
        BY <1>0, Zenon
      <3> HIDE DEF n
      <3>2. IsFiniteSet(1..n) /\ Cardinality(1..n) = n
        BY <3>1, FS_Interval
      <3> QED BY <3>2, Zenon DEF n
    <2>3. I \in SUBSET (1..Len(s)) /\ K = (1..Len(s)) \ I /\ (1..Len(s)) \cap I = I
      BY Zenon
    <2>4. IsFiniteSet(I)
      BY <2>2, <2>3, FS_Subset, Zenon
    <2>5. Cardinality(I) = Cardinality(S)
      <3> HIDE DEF g, I
      <3> QED BY <2>1, <2>4, FS_Bijection, Zenon DEF ExistsBijection
    <2>6. Cardinality(K) = Len(s) - Cardinality(I)
      <3> HIDE DEF I, K
      <3> QED BY ZenonT(60), <2>2, <2>3, FS_Difference
    <2> QED BY <2>5, <2>6, Zenon
  <1> QED BY <1>w, <1>5, <1>6, <1>7, <1>8, Zenon

-----------------------------------------------------------------------------
\* The list has no struct twice.
LEMMA ListDistinct ==
    ASSUME TypeOK, OneCopy
    PROVE  /\ \A i, j \in 1..Len(list) : list[i] = list[j] => i = j
           /\ \A o, q \in Listed : block_no[o] = block_no[q] => o = q
           /\ Listed \subseteq Objs
  <1>1. list \in [1..Len(list) -> Objs]
    BY DEF TypeOK
  <1> QED BY <1>1, Zenon DEF OneCopy, Listed, Range

\* An empty cache satisfies CacheInv.
LEMMA CacheInit == Init => CacheInv
  <1> SUFFICES ASSUME Init PROVE CacheInv
    BY Zenon
  <1> USE CacheAssumption DEF Init
  <1>1. TypeOK
    BY DEF TypeOK
  <1>2. HeldExclusively /\ OneCopy /\ SleepersMatch /\ Waiting
    BY DEF HeldExclusively, OneCopy, SleepersMatch, Waiting
  <1> QED BY <1>1, <1>2, Zenon DEF CacheInv

\* A call of cache_acquire keeps CacheInv.
LEMMA CallInv ==
    ASSUME CacheInv, NEW p \in Procs, NEW b \in Blocks, Call(p, b) PROVE CacheInv'
  <1> USE CacheAssumption DEF CacheInv, Call, Goto, blockVars
  <1>1. TypeOK'
    BY Zenon DEF TypeOK
  <1>2. HeldExclusively'
    BY Zenon DEF HeldExclusively, TypeOK, Listed
  <1>3. OneCopy' /\ SleepersMatch'
    BY Zenon DEF OneCopy, SleepersMatch
  <1>4. Waiting'
    BY DEF Waiting, TypeOK
  <1> QED BY <1>1, <1>2, <1>3, <1>4, Zenon

\* Finding the block in use keeps CacheInv.
LEMMA HitAcquiredInv ==
    ASSUME CacheInv, NEW p \in Procs, HitAcquired(p) PROVE CacheInv'
  <1> USE CacheAssumption DEF CacheInv, HitAcquired, Goto, blockVars
  <1>0. PICK o \in Objs : obj' = [obj EXCEPT ![p] = o]
    BY Zenon DEF TypeOK
  <1>1. TypeOK'
    BY <1>0, Zenon DEF TypeOK
  <1>2. HeldExclusively'
    BY <1>0 DEF HeldExclusively, TypeOK, Listed
  <1>3. OneCopy' /\ SleepersMatch'
    BY Zenon DEF OneCopy, SleepersMatch
  <1>4. Waiting'
    BY <1>0 DEF Waiting, TypeOK
  <1> QED BY <1>1, <1>2, <1>3, <1>4, Zenon

\* wait_sem on the struct found, whatever it is by now, keeps CacheInv.
LEMMA WaitInv ==
    ASSUME CacheInv, NEW p \in Procs, Wait(p) PROVE CacheInv'
  <1> USE CacheAssumption DEF CacheInv
  <1>0. obj[p] \in Objs /\ sleeplist[obj[p]] \in Seq(Procs) /\ pc[p] = "towait"
    BY Zenon DEF Waiting, TypeOK, Wait
  <1>1. TypeOK'
    <2>1. val' \in [Objs -> Int]
      BY <1>0 DEF TypeOK, Wait
    <2>2. sleeplist' \in [Objs -> Seq(Procs)]
      <3>1. Append(sleeplist[obj[p]], p) \in Seq(Procs)
        BY <1>0
      <3>2. UNCHANGED sleeplist \/ sleeplist' = [sleeplist EXCEPT ![obj[p]] = Append(sleeplist[obj[p]], p)]
        BY Zenon DEF Wait
      <3> QED BY ZenonT(60), <1>0, <3>1, <3>2 DEF TypeOK
    <2>3. /\ pc' \in [Procs -> {"idle", "lookup", "towait", "asleep", "holding"}]
          /\ if_back' \in [Procs -> BOOLEAN]
      BY Zenon DEF TypeOK, Wait, Goto
    <2> QED BY <2>1, <2>2, <2>3, Zenon DEF TypeOK, Wait, blockVars
  <1>2. HeldExclusively' /\ OneCopy'
    BY DEF HeldExclusively, OneCopy, TypeOK, Listed, Wait, Goto, blockVars
  <1>3. SleepersMatch'
    BY <1>0 DEF SleepersMatch, TypeOK, Wait
  <1>4. Waiting'
    <2>1. CASE UNCHANGED sleeplist /\ pc' = [pc EXCEPT ![p] = "lookup"] /\ obj' = obj
      <3>1. \A q \in Procs : q # p => pc'[q] = pc[q]
        BY <2>1, Zenon DEF TypeOK
      <3>2. pc'[p] = "lookup"
        BY <2>1, Zenon DEF TypeOK
      <3>3. \A o \in Objs : \A i \in 1..Len(sleeplist[o]) :
                sleeplist[o][i] \in Procs /\ sleeplist[o][i] # p
        BY <1>0 DEF Waiting, TypeOK
      <3>4. acquired' = acquired
        BY Zenon DEF Wait
      <3>5. \A o \in acquired' : \E q \in Procs : pc'[q] = "holding" /\ obj'[q] = o
        BY <1>0, <2>1, <3>1, <3>4 DEF Waiting
      <3> QED BY <2>1, <3>1, <3>2, <3>3, <3>5 DEF Waiting
    <2>2. CASE /\ sleeplist' = [sleeplist EXCEPT ![obj[p]] = Append(@, p)]
               /\ pc' = [pc EXCEPT ![p] = "asleep"] /\ obj' = obj
      <3>1. \A q \in Procs : q # p => pc'[q] = pc[q]
        BY <2>2, Zenon DEF TypeOK
      <3>2. pc'[p] = "asleep"
        BY <2>2, Zenon DEF TypeOK
      <3>3. \A o \in Objs : o # obj[p] => sleeplist'[o] = sleeplist[o]
        BY <2>2, Zenon DEF TypeOK
      <3>4. /\ Len(sleeplist'[obj[p]]) = Len(sleeplist[obj[p]]) + 1
            /\ sleeplist'[obj[p]][Len(sleeplist[obj[p]]) + 1] = p
            /\ \A i \in 1..Len(sleeplist[obj[p]]) : sleeplist'[obj[p]][i] = sleeplist[obj[p]][i]
            /\ Len(sleeplist[obj[p]]) \in Nat
        BY <1>0, <2>2 DEF TypeOK
      <3>5. \A o \in Objs : \A i \in 1..Len(sleeplist[o]) :
                sleeplist[o][i] \in Procs /\ sleeplist[o][i] # p
        BY <1>0 DEF Waiting, TypeOK
      <3>6. \A o \in acquired' : \E q \in Procs : pc'[q] = "holding" /\ obj'[q] = o
        BY <1>0, <2>2, <3>1 DEF Waiting, Wait
      <3>7. \A q \in Procs : pc'[q] \in {"towait", "asleep"} => obj'[q] \in Objs
        BY <1>0, <2>2, <3>1, Zenon DEF Waiting
      <3>8. ASSUME NEW o \in Objs
            PROVE  /\ \A i \in 1..Len(sleeplist'[o]) : /\ pc'[sleeplist'[o][i]] = "asleep"
                                                       /\ obj'[sleeplist'[o][i]] = o
                   /\ \A i, j \in 1..Len(sleeplist'[o]) :
                          sleeplist'[o][i] = sleeplist'[o][j] => i = j
        <4>1. CASE o # obj[p]
          BY <2>2, <3>1, <3>3, <3>5, <4>1 DEF Waiting
        <4>2. CASE o = obj[p]
          <5>1. \A i \in 1..Len(sleeplist'[o]) : i \in 1..Len(sleeplist[o]) \/ i = Len(sleeplist[o]) + 1
            BY <3>4, <4>2
          <5>2. \A i \in 1..Len(sleeplist'[o]) : pc'[sleeplist'[o][i]] = "asleep" /\ obj'[sleeplist'[o][i]] = o
            BY <2>2, <3>1, <3>2, <3>4, <3>5, <4>2, <5>1 DEF Waiting
          <5>3. \A i, j \in 1..Len(sleeplist'[o]) : sleeplist'[o][i] = sleeplist'[o][j] => i = j
            <6>1. \A i, j \in 1..Len(sleeplist[o]) : sleeplist[o][i] = sleeplist[o][j] => i = j
              BY Zenon DEF Waiting
            <6>2. \A i \in 1..Len(sleeplist[o]) : sleeplist'[o][i] # p
              BY <3>4, <3>5, <4>2, Zenon
            <6> SUFFICES ASSUME NEW i \in 1..Len(sleeplist'[o]), NEW j \in 1..Len(sleeplist'[o]),
                                sleeplist'[o][i] = sleeplist'[o][j]
                         PROVE  i = j
              BY Zenon
            <6>3. CASE i \in 1..Len(sleeplist[o]) /\ j \in 1..Len(sleeplist[o])
              BY <3>4, <4>2, <6>1, <6>3, Zenon
            <6>4. CASE i = Len(sleeplist[o]) + 1 \/ j = Len(sleeplist[o]) + 1
              BY <3>4, <4>2, <5>1, <6>2, <6>4, Zenon
            <6> QED BY <5>1, <6>3, <6>4, Zenon
          <5> QED BY <5>2, <5>3, Zenon
        <4> QED BY <4>1, <4>2, Zenon
      <3> QED BY <3>6, <3>7, <3>8, Zenon DEF Waiting
    <2>3. obj' = obj
      BY Zenon DEF Wait
    <2> QED BY <2>1, <2>2, <2>3, Zenon DEF Wait, Goto
  <1> QED BY <1>1, <1>2, <1>3, <1>4, Zenon

\* Pinning and unpinning the block held keeps CacheInv.
LEMMA PinInv ==
    ASSUME CacheInv, NEW p \in Procs, Pin(p) PROVE CacheInv'
  <1> USE CacheAssumption DEF CacheInv, Pin
  <1>1. TypeOK'
    BY Zenon DEF TypeOK, HeldExclusively
  <1>2. HeldExclusively' /\ OneCopy' /\ SleepersMatch' /\ Waiting'
    BY DEF HeldExclusively, OneCopy, SleepersMatch, Waiting, Listed
  <1> QED BY <1>1, <1>2, Zenon

\* cache_release keeps CacheInv: nobody else holds the struct, and the process
\* that post_sem wakes was asleep.
LEMMA ReleaseInv ==
    ASSUME CacheInv, NEW p \in Procs, Release(p) PROVE CacheInv'
  <1> USE CacheAssumption DEF CacheInv
  <1> DEFINE o == obj[p]
             l == sleeplist[o]
  <1>0. /\ pc[p] = "holding" /\ o \in Objs /\ l \in Seq(Procs) /\ val[o] \in Int
        /\ obj' = [obj EXCEPT ![p] = NoObj] /\ acquired' = acquired \ {o}
        /\ val' = [val EXCEPT ![o] = @ + 1]
        /\ UNCHANGED <<list, cache_cnt, block_no, pinned, want>>
    BY ListDistinct, Zenon DEF TypeOK, Release, HeldExclusively, blockVars
  <1>1. \/ /\ val[o] >= 0 /\ l = <<>> /\ UNCHANGED <<sleeplist, if_back>>
           /\ pc' = [pc EXCEPT ![p] = "idle"]
        \/ /\ val[o] < 0 /\ l # <<>> /\ Len(l) \in Nat \ {0} /\ l[1] \in Procs
           /\ sleeplist' = [sleeplist EXCEPT ![o] = Tail(l)]
           /\ pc' = [pc EXCEPT ![p] = "idle", ![l[1]] = "lookup"]
           /\ if_back' = [if_back EXCEPT ![l[1]] = TRUE]
    <2>1. CASE val[o] < 0
      <3>1. Len(l) \in Nat \ {0} /\ l # <<>> /\ Head(l) = l[1] /\ l[1] \in Procs
        BY <1>0, <2>1 DEF SleepersMatch
      <3> QED BY <2>1, <3>1, Zenon DEF Release
    <2>2. CASE ~(val[o] < 0)
      <3>1. l = <<>> /\ val[o] >= 0
        BY <1>0, <2>2 DEF SleepersMatch
      <3> QED BY <2>2, <3>1, Zenon DEF Release, Goto
    <2> QED BY <2>1, <2>2, Zenon
  <1>2. TypeOK'
    <2>1. val' \in [Objs -> Int] /\ obj' \in [Procs -> Objs \cup {NoObj}]
      BY <1>0 DEF TypeOK
    <2>2. sleeplist' \in [Objs -> Seq(Procs)]
      <3>1. l # <<>> => Tail(l) \in Seq(Procs)
        BY <1>0
      <3>2. sleeplist' = sleeplist \/ (l # <<>> /\ sleeplist' = [sleeplist EXCEPT ![o] = Tail(l)])
        BY <1>1, Zenon
      <3> QED BY <1>0, <3>1, <3>2, Zenon DEF TypeOK
    <2>3. /\ pc' \in [Procs -> {"idle", "lookup", "towait", "asleep", "holding"}]
          /\ if_back' \in [Procs -> BOOLEAN]
      BY <1>1, Zenon DEF TypeOK
    <2> QED BY <1>0, <2>1, <2>2, <2>3, Zenon DEF TypeOK
  <1>3. \A q \in Procs : \/ pc'[q] = pc[q] /\ q # p
                         \/ pc'[q] = "idle" /\ q = p
                         \/ pc'[q] = "lookup" /\ q = l[1] /\ pc[q] = "asleep" /\ q # p
    <2>1. CASE pc' = [pc EXCEPT ![p] = "idle"]
      BY <2>1, Zenon DEF TypeOK
    <2>2. CASE /\ Len(l) \in Nat \ {0} /\ l[1] \in Procs
               /\ pc' = [pc EXCEPT ![p] = "idle", ![l[1]] = "lookup"]
      <3>1. pc[l[1]] = "asleep" /\ l[1] # p
        BY <1>0, <2>2 DEF Waiting
      <3> QED BY <2>2, <3>1, Zenon DEF TypeOK
    <2> QED BY <1>1, <2>1, <2>2, Zenon
  <1>4. HeldExclusively' /\ OneCopy'
    BY <1>0, <1>3 DEF HeldExclusively, OneCopy, TypeOK, Listed
  <1>5. SleepersMatch'
    <2> SUFFICES ASSUME NEW q \in Objs
                 PROVE  Len(sleeplist'[q]) = IF val'[q] < 0 THEN -val'[q] ELSE 0
      BY Zenon DEF SleepersMatch
    <2>1. CASE q # o
      <3>1. sleeplist'[q] = sleeplist[q] /\ val'[q] = val[q]
        BY <1>0, <1>1, <2>1, Zenon DEF TypeOK
      <3> QED BY <3>1, Zenon DEF SleepersMatch
    <2>2. CASE q = o
      <3>1. val'[o] = val[o] + 1 /\ Len(l) = IF val[o] < 0 THEN -val[o] ELSE 0
        BY <1>0, Zenon DEF TypeOK, SleepersMatch
      <3>2. CASE val[o] >= 0
        BY <1>0, <1>1, <2>2, <3>1, <3>2
      <3>3. CASE val[o] < 0
        <4>1. Len(sleeplist'[o]) = Len(l) - 1
          BY <1>0, <1>1, <3>3 DEF TypeOK
        <4> QED BY <1>0, <2>2, <3>1, <3>3, <4>1
      <3> QED BY <1>0, <3>2, <3>3
    <2> QED BY <2>1, <2>2, Zenon
  <1>6. Waiting'
    <2>1. ASSUME NEW a \in acquired' PROVE \E q \in Procs : pc'[q] = "holding" /\ obj'[q] = a
      <3>1. PICK q \in Procs : pc[q] = "holding" /\ obj[q] = a
        BY <1>0, <2>1, Zenon DEF Waiting
      <3>2. q # p
        BY <1>0, <2>1, <3>1, Zenon
      <3> QED BY <1>0, <1>3, <3>1, <3>2, Zenon DEF TypeOK
    <2>2. \A q \in Procs : pc'[q] \in {"towait", "asleep"} => obj'[q] \in Objs
      BY <1>0, <1>3 DEF Waiting, TypeOK
    <2>3. ASSUME NEW a \in Objs
          PROVE  /\ \A i \in 1..Len(sleeplist'[a]) : /\ pc'[sleeplist'[a][i]] = "asleep"
                                                     /\ obj'[sleeplist'[a][i]] = a
                 /\ \A i, j \in 1..Len(sleeplist'[a]) :
                        sleeplist'[a][i] = sleeplist'[a][j] => i = j
      <3>0. \A i \in 1..Len(sleeplist[a]) :
                sleeplist[a][i] \in Procs /\ pc[sleeplist[a][i]] = "asleep" /\ obj[sleeplist[a][i]] = a
        BY DEF Waiting, TypeOK
      <3>1. CASE sleeplist'[a] = sleeplist[a] /\ (a = o => UNCHANGED sleeplist)
        <4>1. \A i \in 1..Len(sleeplist[a]) : sleeplist[a][i] # p
          BY <1>0, <3>0, Zenon
        <4>2. \A i \in 1..Len(sleeplist[a]) : sleeplist[a][i] = l[1] => val[o] >= 0
          <5> SUFFICES ASSUME NEW i \in 1..Len(sleeplist[a]), sleeplist[a][i] = l[1], val[o] < 0
                       PROVE  FALSE
            BY <1>0
          <5>1. Len(l) \in Nat \ {0} /\ sleeplist' = [sleeplist EXCEPT ![o] = Tail(l)]
            BY <1>0, <1>1
          <5>2. obj[l[1]] = o
            BY <1>0, <5>1 DEF Waiting
          <5>3. a = o
            BY <3>0, <5>2, Zenon
          <5>4. sleeplist' # sleeplist
            BY <1>0, <5>1 DEF TypeOK
          <5> QED BY <3>1, <5>3, <5>4, Zenon
        <4>3. \A i \in 1..Len(sleeplist[a]) : pc'[sleeplist[a][i]] = "asleep"
          BY <1>0, <1>1, <3>0, <4>1, <4>2 DEF TypeOK
        <4>4. \A i \in 1..Len(sleeplist[a]) : obj'[sleeplist[a][i]] = a
          BY <1>0, <3>0, <4>1, Zenon DEF TypeOK
        <4> QED BY <3>1, <4>3, <4>4 DEF Waiting
      <3>2. CASE a = o /\ sleeplist'[a] = Tail(l) /\ l # <<>> /\ val[o] < 0
        <4>1. /\ Len(l) \in Nat \ {0} /\ Len(Tail(l)) = Len(l) - 1
              /\ \A i \in 1..Len(Tail(l)) : i + 1 \in 1..Len(l) /\ Tail(l)[i] = l[i + 1]
          BY <1>0, <3>2
        <4>2. \A i, j \in 1..Len(l) : l[i] = l[j] => i = j
          BY <3>2, Zenon DEF Waiting
        <4>3. \A i \in 1..Len(Tail(l)) : /\ Tail(l)[i] \in Procs /\ Tail(l)[i] # p
                                         /\ Tail(l)[i] # l[1] /\ pc[Tail(l)[i]] = "asleep"
                                         /\ obj[Tail(l)[i]] = o
          BY <1>0, <3>0, <3>2, <4>1, <4>2
        <4>4. \A i \in 1..Len(Tail(l)) : pc'[Tail(l)[i]] = "asleep" /\ obj'[Tail(l)[i]] = o
          BY <1>0, <1>1, <3>2, <4>3, Zenon DEF TypeOK
        <4>5. \A i, j \in 1..Len(Tail(l)) : Tail(l)[i] = Tail(l)[j] => i = j
          BY <4>1, <4>2
        <4> QED BY ZenonT(60), <3>2, <4>4, <4>5
      <3> QED BY <1>0, <1>1, <3>1, <3>2, Zenon DEF TypeOK
    <2> QED BY <2>1, <2>2, <2>3, Zenon DEF Waiting
  <1> QED BY <1>2, <1>4, <1>5, <1>6, Zenon

\* What a list holds is what stands at its places.
LEMMA SeqRange ==
    ASSUME NEW S, NEW s \in Seq(S) PROVE Range(s) = {s[i] : i \in 1..Len(s)}
  BY DEF Range

\* Moving o to the front of the list: the same structs, each of them once.
LEMMA FrontProps ==
    ASSUME TypeOK, OneCopy, NEW o \in Objs, NEW S \in SUBSET Listed, o \notin Listed \ S
    PROVE  LET l == <<o>> \o Without(list, S) IN
           /\ l \in Seq(Objs) /\ Range(l) = (Listed \ S) \cup {o}
           /\ \A i, j \in 1..Len(l) : l[i] = l[j] => i = j
           /\ Len(l) = Len(list) - Cardinality(S) + 1
  <1> DEFINE w == Without(list, S)
             l == <<o>> \o w
  <1>1. list \in Seq(Objs) /\ \A i, j \in 1..Len(list) : list[i] = list[j] => i = j
    BY ListDistinct, Zenon DEF TypeOK
  <1>2. /\ w \in Seq(Objs) /\ Range(w) = Listed \ S
        /\ \A i, j \in 1..Len(w) : w[i] = w[j] => i = j
        /\ Len(w) = Len(list) - Cardinality(S)
    BY <1>1, WithoutProps, Zenon DEF Listed
  <1> HIDE DEF w
  <1>3. /\ l \in Seq(Objs) /\ Len(l) = Len(w) + 1 /\ Len(w) \in Nat /\ l[1] = o
        /\ \A i \in 2..Len(l) : l[i] = w[i - 1] /\ i - 1 \in 1..Len(w)
    BY <1>2
  <1> HIDE DEF l
  <1>4. Range(w) = {w[i] : i \in 1..Len(w)} /\ Range(l) = {l[i] : i \in 1..Len(l)}
    <2>1. w \in Seq(Objs) /\ l \in Seq(Objs)
      BY <1>2, <1>3, Zenon
    <2> QED BY <2>1, SeqRange, Zenon
  <1>5. \A i \in 2..Len(l) : l[i] # o
    BY <1>2, <1>3, <1>4
  <1>6. \A i, j \in 1..Len(l) : l[i] = l[j] => i = j
    <2> SUFFICES ASSUME NEW i \in 1..Len(l), NEW j \in 1..Len(l), l[i] = l[j] PROVE i = j
      BY Zenon
    <2>1. CASE i = 1 \/ j = 1
      BY <1>3, <1>5, <2>1
    <2>2. CASE i \in 2..Len(l) /\ j \in 2..Len(l)
      BY <1>2, <1>3, <2>2
    <2> QED BY <1>3, <2>1, <2>2
  <1>7. Range(l) = (Listed \ S) \cup {o}
    <2>1. \A i \in 1..Len(w) : i + 1 \in 1..Len(l) /\ l[i + 1] = w[i]
      BY <1>3
    <2>2. 1 \in 1..Len(l) /\ \A i \in 1..Len(l) : i = 1 \/ i \in 2..Len(l)
      BY <1>3
    <2> QED BY <1>2, <1>3, <1>4, <2>1, <2>2
  <1> QED BY <1>2, <1>3, <1>6, <1>7, Zenon DEF l, w

\* LRU_shrink evicts only structs of the list, none of them pinned or acquired.
LEMMA VictimsFree ==
    ASSUME TypeOK PROVE Victims \subseteq Listed /\ Victims \cap (pinned \cup acquired) = {}
  BY Zenon DEF Victims, Listed, Range, TypeOK

\* Taking a free block keeps CacheInv: nobody holds its struct, and no other
\* struct has the block.
LEMMA HitFreeInv ==
    ASSUME CacheInv, NEW p \in Procs, HitFree(p) PROVE CacheInv'
  <1> USE CacheAssumption DEF CacheInv
  <1>0. PICK o \in Hits(p) \ acquired :
            /\ list' = <<o>> \o Without(list, {o})
            /\ val' = [val EXCEPT ![o] = IF ~if_back[p] /\ @ > 0 THEN @ - 1 ELSE @]
            /\ acquired' = acquired \cup {o}
            /\ obj' = [obj EXCEPT ![p] = o]
    BY Zenon DEF HitFree
  <1>1. /\ pc[p] = "lookup" /\ pc' = [pc EXCEPT ![p] = "holding"]
        /\ UNCHANGED <<cache_cnt, block_no, pinned, sleeplist, want, if_back>>
    BY Zenon DEF HitFree, Goto, blockVars
  <1>2. o \in Listed /\ o \in Objs /\ block_no[o] = want[p] /\ o \notin acquired
    BY ListDistinct, Zenon DEF Hits
  <1>3. /\ list' \in Seq(Objs) /\ Listed' = Listed /\ Len(list') = Len(list) /\ Len(list) \in Nat
        /\ \A i, j \in 1..Len(list') : list'[i] = list'[j] => i = j
    <2>1. Cardinality({o}) = 1 /\ {o} \in SUBSET Listed /\ o \notin Listed \ {o}
      BY <1>2, FS_Singleton, Zenon
    <2>2. LET l == <<o>> \o Without(list, {o}) IN
          /\ l \in Seq(Objs) /\ Range(l) = (Listed \ {o}) \cup {o}
          /\ \A i, j \in 1..Len(l) : l[i] = l[j] => i = j
          /\ Len(l) = Len(list) - Cardinality({o}) + 1
      BY <1>2, <2>1, FrontProps, Zenon
    <2>3. Len(list) \in Nat
      BY DEF TypeOK
    <2> DEFINE l == <<o>> \o Without(list, {o})
    <2>4. /\ l \in Seq(Objs) /\ Range(l) = (Listed \ {o}) \cup {o}
          /\ \A i, j \in 1..Len(l) : l[i] = l[j] => i = j
          /\ Len(l) = Len(list) - Cardinality({o}) + 1
      BY <2>2, Zenon
    <2>5. list' = l
      BY <1>0, Zenon
    <2> HIDE DEF l
    <2>6. (Listed \ {o}) \cup {o} = Listed
      BY <1>2, Zenon
    <2>7. Len(l) = Len(list)
      BY <2>1, <2>3, <2>4
    <2> QED BY <2>3, <2>4, <2>5, <2>6, <2>7, Zenon DEF Listed
  <1>4. TypeOK'
    <2>1. val' \in [Objs -> Int]
      BY <1>0, <1>2 DEF TypeOK
    <2>2. acquired' \in SUBSET Objs /\ obj' \in [Procs -> Objs \cup {NoObj}]
      BY <1>0, <1>2, Zenon DEF TypeOK
    <2>3. pc' \in [Procs -> {"idle", "lookup", "towait", "asleep", "holding"}]
      BY <1>1, Zenon DEF TypeOK
    <2> QED BY <1>1, <1>3, <2>1, <2>2, <2>3, Zenon DEF TypeOK
  <1>5. \A q \in Procs : IF q = p THEN pc'[q] = "holding" /\ obj'[q] = o
                                  ELSE pc'[q] = pc[q] /\ obj'[q] = obj[q]
    BY <1>0, <1>1, Zenon DEF TypeOK
  <1>6. \A q \in Procs : q # p /\ pc[q] = "holding" => obj[q] # o /\ want[q] # want[p]
    BY <1>2, ListDistinct DEF HeldExclusively
  <1>7. HeldExclusively'
    BY <1>0, <1>1, <1>2, <1>3, <1>5, <1>6 DEF HeldExclusively
  <1>8. OneCopy'
    <2>1. \A i \in 1..Len(list') : list'[i] \in Listed
      BY SMTT(30), <1>3 DEF Listed, Range
    <2>2. \A i, j \in 1..Len(list') : block_no'[list'[i]] = block_no'[list'[j]] => i = j
      BY <1>1, <1>3, <2>1, ListDistinct, Zenon
    <2> QED BY <1>1, <1>3, <2>2, Zenon DEF OneCopy
  <1>9. SleepersMatch'
    BY SMTT(30), <1>0, <1>1, <1>2 DEF SleepersMatch, TypeOK
  <1>10. Waiting'
    <2>1. \A a \in Objs : \A i \in 1..Len(sleeplist[a]) : sleeplist[a][i] \in Procs /\ sleeplist[a][i] # p
      BY <1>1 DEF Waiting, TypeOK
    <2>2. \A a \in acquired' : \E q \in Procs : pc'[q] = "holding" /\ obj'[q] = a
      <3> SUFFICES ASSUME NEW a \in acquired, a # o PROVE \E q \in Procs : pc'[q] = "holding" /\ obj'[q] = a
        BY <1>0, <1>5, Zenon
      <3>1. PICK q \in Procs : pc[q] = "holding" /\ obj[q] = a
        BY Zenon DEF Waiting
      <3> QED BY <1>1, <1>5, <3>1, Zenon
    <2>3. \A q \in Procs : pc'[q] \in {"towait", "asleep"} => obj'[q] \in Objs
      BY <1>5, Zenon DEF Waiting
    <2> QED BY SMTT(30), <1>1, <1>5, <2>1, <2>2, <2>3 DEF Waiting
  <1> QED BY <1>4, <1>7, <1>8, <1>9, <1>10, Zenon

\* A miss keeps CacheInv: what is evicted nobody holds, and the struct that is
\* allocated, new or just freed, is not in the list any more.
LEMMA MissInv ==
    ASSUME CacheInv, NEW p \in Procs, Miss(p)
    PROVE  CacheInv' /\ Listed \ Victims \subseteq Listed'
  <1> USE CacheAssumption DEF CacheInv
  <1>0. PICK o \in Objs \ Range(Without(list, Victims)) :
            /\ list' = <<o>> \o Without(list, Victims)
            /\ cache_cnt' = cache_cnt - Cardinality(Victims) + 1
            /\ block_no' = [block_no EXCEPT ![o] = want[p]]
            /\ pinned' = pinned \ {o}
            /\ val' = [val EXCEPT ![o] = 0]
            /\ sleeplist' = [sleeplist EXCEPT ![o] = <<>>]
            /\ acquired' = acquired \cup {o}
            /\ obj' = [obj EXCEPT ![p] = o]
    BY Zenon DEF Miss
  <1>1. /\ pc[p] = "lookup" /\ pc' = [pc EXCEPT ![p] = "holding"] /\ Hits(p) = {}
        /\ UNCHANGED <<want, if_back>>
    BY Zenon DEF Miss, Goto
  <1>2. Range(Without(list, Victims)) = Listed \ Victims
    BY ZenonT(60), WithoutProps, ListDistinct DEF TypeOK, Listed
  <1>3. /\ list' \in Seq(Objs) /\ Listed' = (Listed \ Victims) \cup {o}
        /\ Len(list') = Len(list) - Cardinality(Victims) + 1
        /\ \A i, j \in 1..Len(list') : list'[i] = list'[j] => i = j
    <2>1. Victims \in SUBSET Listed /\ o \notin Listed \ Victims
      BY <1>2, VictimsFree, Zenon
    <2> HIDE DEF CacheInv
    <2>2. LET l == <<o>> \o Without(list, Victims) IN
          /\ l \in Seq(Objs) /\ Range(l) = (Listed \ Victims) \cup {o}
          /\ \A i, j \in 1..Len(l) : l[i] = l[j] => i = j
          /\ Len(l) = Len(list) - Cardinality(Victims) + 1
      BY <2>1, FrontProps, Zenon DEF CacheInv
    <2> QED BY <1>0, <2>2, Zenon DEF Listed
  <1>4. cache_cnt' = Len(list') /\ Len(list') \in Nat
    BY <1>0, <1>3 DEF OneCopy
  <1>5. TypeOK'
    <2>1. val' \in [Objs -> Int] /\ block_no' \in [Objs -> Blocks]
      BY <1>0 DEF TypeOK
    <2>2. sleeplist' \in [Objs -> Seq(Procs)]
      BY <1>0 DEF TypeOK
    <2>3. /\ acquired' \in SUBSET Objs /\ obj' \in [Procs -> Objs \cup {NoObj}]
          /\ pinned' \in SUBSET Objs
      BY <1>0, Zenon DEF TypeOK
    <2>4. pc' \in [Procs -> {"idle", "lookup", "towait", "asleep", "holding"}]
      BY <1>1, Zenon DEF TypeOK
    <2> QED BY <1>1, <1>3, <1>4, <2>1, <2>2, <2>3, <2>4, Zenon DEF TypeOK
  <1>6. \A q \in Procs : IF q = p THEN pc'[q] = "holding" /\ obj'[q] = o
                                  ELSE pc'[q] = pc[q] /\ obj'[q] = obj[q]
    BY <1>0, <1>1, Zenon DEF TypeOK
  <1>7. acquired \subseteq Listed \ Victims /\ o \notin acquired
    BY SMTT(30), <1>0, <1>2, VictimsFree DEF Waiting, HeldExclusively
  <1>8. /\ block_no'[o] = want[p]
        /\ \A a \in Listed \ Victims : a # o /\ a \in Objs /\ block_no'[a] = block_no[a] /\ block_no[a] # want[p]
    BY <1>0, <1>1, <1>2, ListDistinct, Zenon DEF Hits, TypeOK
  <1>9. HeldExclusively'
    <2>1. \A q \in Procs : pc[q] = "holding" => obj[q] \in acquired /\ block_no[obj[q]] = want[q]
      BY Zenon DEF HeldExclusively
    <2>2. o \in Listed' \cap acquired' /\ acquired \subseteq Listed' \cap acquired' /\ want' = want
      BY <1>0, <1>1, <1>3, <1>7, Zenon
    <2>3. \A q \in Procs : q # p /\ pc'[q] = "holding" =>
             /\ obj'[q] \in Listed' \cap acquired' /\ block_no'[obj'[q]] = want'[q]
             /\ obj'[q] # o /\ want'[q] # want[p]
      BY <1>6, <1>7, <1>8, <2>1, <2>2
    <2>4. obj'[p] = o /\ block_no'[o] = want'[p]
      BY <1>6, <1>8, <2>2, Zenon
    <2>5. \A q, r \in Procs : q # r /\ q # p /\ r # p /\ pc'[q] = "holding" /\ pc'[r] = "holding"
             => obj'[q] # obj'[r] /\ want'[q] # want'[r]
      BY <1>6, <2>2 DEF HeldExclusively
    <2> QED BY ZenonT(60), <2>2, <2>3, <2>4, <2>5 DEF HeldExclusively
  <1>10. OneCopy'
    <2>1. \A i \in 1..Len(list') : list'[i] \in (Listed \ Victims) \cup {o}
      BY <1>3, SeqRange DEF Listed
    <2>2. \A a, b \in (Listed \ Victims) \cup {o} : block_no'[a] = block_no'[b] => a = b
      BY <1>8, ListDistinct, Zenon
    <2> QED BY <1>3, <1>4, <2>1, <2>2, Zenon DEF OneCopy
  <1>11. SleepersMatch'
    BY <1>0 DEF SleepersMatch, TypeOK
  <1>12. Waiting'
    <2>1. \A a \in Objs : \A i \in 1..Len(sleeplist[a]) : sleeplist[a][i] \in Procs /\ sleeplist[a][i] # p
      BY <1>1 DEF Waiting, TypeOK
    <2>2. \A a \in acquired' : \E q \in Procs : pc'[q] = "holding" /\ obj'[q] = a
      <3> SUFFICES ASSUME NEW a \in acquired PROVE \E q \in Procs : pc'[q] = "holding" /\ obj'[q] = a
        BY <1>0, <1>6, Zenon
      <3>1. PICK q \in Procs : pc[q] = "holding" /\ obj[q] = a
        BY Zenon DEF Waiting
      <3> QED BY <1>1, <1>6, <3>1, Zenon
    <2>3. \A q \in Procs : pc'[q] \in {"towait", "asleep"} => obj'[q] \in Objs
      BY <1>6, Zenon DEF Waiting
    <2>4. \A a \in Objs : IF a = o THEN sleeplist'[a] = <<>> ELSE sleeplist'[a] = sleeplist[a]
      BY <1>0, Zenon DEF TypeOK
    <2> QED BY SMTT(30), <1>1, <1>6, <2>1, <2>2, <2>3, <2>4 DEF Waiting
  <1> QED BY <1>3, <1>5, <1>9, <1>10, <1>11, <1>12, Zenon

\* CacheInv is an invariant of the block cache, for any number of processes,
\* blocks and structs, and any threshold.
THEOREM CacheInvariant == Spec => []CacheInv
  <1>1. CacheInv /\ [Next]_vars => CacheInv'
    <2> SUFFICES ASSUME CacheInv, [Next]_vars PROVE CacheInv'
      BY Zenon
    <2>1. CASE UNCHANGED vars
      BY <2>1 DEF vars, blockVars, CacheInv, TypeOK, HeldExclusively, OneCopy, SleepersMatch,
                  Waiting, Listed
    <2>2. CASE Next
      BY <2>2, CallInv, HitAcquiredInv, HitFreeInv, MissInv, WaitInv, ReleaseInv, PinInv, Zenon
         DEF Next
    <2> QED BY <2>1, <2>2, Zenon
  <1> QED BY <1>1, CacheInit, PTL DEF Spec

\* cache_acquire gives a block to one process at a time, and there is one
\* cached copy of it, although structs are evicted, freed and reused.
THEOREM CacheIsSafe == Spec => []CacheSafe
  <1>1. CacheInv => CacheSafe
    BY Zenon DEF CacheInv, CacheSafe
  <1> QED BY <1>1, CacheInvariant, PTL

\* The ASSERT in _post_sem holds at every cache_release.
THEOREM CacheSleepers == Spec => []SleepersMatch
  <1>1. CacheInv => SleepersMatch
    BY Zenon DEF CacheInv
  <1> QED BY <1>1, CacheInvariant, PTL

\* No step of the cache takes a pinned block out of the list.
THEOREM PinnedBlocksStay == Spec => PinnedStay
  <1>1. CacheInv /\ [Next]_vars => [\A o \in pinned \cap Listed : o \in Range(list')]_vars
    <2> SUFFICES ASSUME CacheInv, Next PROVE pinned \cap Listed \subseteq Listed'
      BY Zenon DEF Listed
    <2>1. ASSUME NEW p \in Procs, HitFree(p) PROVE Listed \subseteq Listed'
      <3>1. PICK o \in Hits(p) : list' = <<o>> \o Without(list, {o})
        BY <2>1, Zenon DEF HitFree
      <3>2. o \in Objs /\ {o} \in SUBSET Listed /\ o \notin Listed \ {o}
        BY ListDistinct, Zenon DEF Hits, CacheInv
      <3>3. Range(<<o>> \o Without(list, {o})) = (Listed \ {o}) \cup {o}
        BY <3>2, FrontProps, Zenon DEF CacheInv
      <3> QED BY <3>1, <3>3, Zenon DEF Listed
    <2>2. ASSUME NEW p \in Procs, Miss(p) PROVE pinned \cap Listed \subseteq Listed'
      BY <2>2, MissInv, VictimsFree, Zenon DEF CacheInv
    <2>3. (\E p \in Procs : HitFree(p) \/ Miss(p)) \/ UNCHANGED list
      BY Zenon DEF Next, Call, HitAcquired, Wait, Release, Pin
    <2> QED BY <2>1, <2>2, <2>3, Zenon DEF Listed
  <1> QED BY <1>1, CacheInvariant, PTL DEF Spec, PinnedStay
=============================================================================
