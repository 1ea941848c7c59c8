------------------------------ MODULE LogProofs -----------------------------
(* Proofs about Log for any number of processes, blocks and values and any  *)
(* log size: every step of operations and readers, of a checkpoint, of a    *)
(* crash and of recovery keeps LogInv, so that the log never overflows,     *)
(* operations read what was last synced, and the log implements AtomicStore. *)
EXTENDS Log, FiniteSetTheorems, TLAPS

-----------------------------------------------------------------------------
(* Facts about the header.                                                  *)

\* The elements of a sequence are its values at 1..Len.
LEMMA RangeOfSeq ==
    ASSUME NEW S, NEW s \in Seq(S)
    PROVE  /\ Len(s) \in Nat /\ DOMAIN s = 1..Len(s)
           /\ \A i \in 1..Len(s) : s[i] \in S /\ s[i] \in Range(s)
           /\ \A x \in Range(s) : \E i \in 1..Len(s) : x = s[i]
  BY DEF Range

\* The blocks of header.block_no are those at header.block_no[0..num_blocks-1].
LEMMA HeaderFacts ==
    ASSUME TypeOK
    PROVE  /\ header \in Seq(Blocks)
           /\ Len(header) \in Nat /\ DOMAIN header = 1..Len(header)
           /\ \A i \in 1..Len(header) : header[i] \in Blocks /\ header[i] \in Range(header)
           /\ \A c \in Range(header) : \E i \in 1..Len(header) : c = header[i]
  <1>1. header \in Seq(Blocks)
    BY Zenon DEF TypeOK
  <1> QED BY <1>1, RangeOfSeq, Zenon

\* The same of the header on disk.
LEMMA DiskHeaderFacts ==
    ASSUME TypeOK
    PROVE  /\ logHead \in Seq(Blocks)
           /\ Len(logHead) \in Nat /\ DOMAIN logHead = 1..Len(logHead)
           /\ \A i \in 1..Len(logHead) : logHead[i] \in Blocks /\ logHead[i] \in Range(logHead)
           /\ \A c \in Range(logHead) : \E i \in 1..Len(logHead) : c = logHead[i]
  <1>1. logHead \in Seq(Blocks)
    BY Zenon DEF TypeOK
  <1> QED BY <1>1, RangeOfSeq, Zenon
-----------------------------------------------------------------------------
(* Facts about the cache after an acquire.                                  *)

\* LRU_shrink evicts neither pinned nor held blocks, nothing on a hit.
LEMMA ShrinkSafe ==
    ASSUME NEW b \in Blocks, NEW E \in LRU_shrink(b)
    PROVE  /\ E \subseteq Cached \ (pinned \cup Held)
           /\ b \in Cached => E = {}
  BY Zenon DEF LRU_shrink

\* cache_acquire leaves b cached, and every other block as it was unless it
\* was evictable.
LEMMA LoadedIs ==
    ASSUME TypeOK, NEW b \in Blocks, NEW E \in LRU_shrink(b)
    PROVE  /\ Loaded(b, E) \in [Blocks -> Values \cup {NoData}]
           /\ Loaded(b, E)[b] = IF cache[b] = NoData THEN disk[b] ELSE cache[b]
           /\ Loaded(b, E)[b] # NoData
           /\ \A c \in Blocks : c # b =>
                 \/ Loaded(b, E)[c] = cache[c]
                 \/ Loaded(b, E)[c] = NoData /\ c \notin pinned /\ c \notin Held
  <1>1. E \subseteq Cached \ (pinned \cup Held) /\ (b \in Cached => E = {})
    BY ShrinkSafe, Zenon
  <1> QED BY <1>1, LogAssumption DEF Loaded, Cached, TypeOK
-----------------------------------------------------------------------------
(* Initial states.                                                          *)

\* The state init_bcache starts from, recovery still to come, satisfies LogInv.
LEMMA InitInv == Init => LogInv
  <1> SUFFICES ASSUME Init PROVE LogInv
    BY Zenon
  <1> USE LogAssumption
  <1>1. TypeOK
    <2>1. logArea \in [1..MaxSize -> Values]
      BY Zenon DEF Init
    <2>2. logHead \in Seq(Blocks) /\ header \in Seq(Blocks)
      BY DEF Init
    <2>3. rm \in [Procs -> 0..OpMax] /\ pc \in [Procs -> PCs]
      BY DEF Init, PCs
    <2>4. committing \in BOOLEAN /\ up \in BOOLEAN
      BY Zenon DEF Init
    <2>5. /\ disk \in [Blocks -> Values] /\ latest \in [Blocks -> Values]
          /\ cache \in [Blocks -> Values \cup {NoData}] /\ pinned \subseteq Blocks
          /\ held \in [Procs -> Blocks \cup {NoBlock}]
          /\ dirty \in [Procs -> SUBSET Blocks]
      BY Zenon DEF Init
    <2>6. outstanding \in Nat /\ log_used \in Nat /\ ci \in Nat \ {0}
      BY DEF Init
    <2> QED BY <2>1, <2>2, <2>3, <2>4, <2>5, <2>6, Zenon DEF TypeOK
  <1>2. Reserved = {} /\ {p \in Procs : pc[p] = "op"} = {}
    BY DEF Init, Reserved
  <1>3. OpsCounted /\ LogSpace
    <2>1. Cardinality(Reserved) = 0 /\ Cardinality({p \in Procs : pc[p] = "op"}) = 0
      BY <1>2, FS_EmptySet, Zenon
    <2>2. Len(header) = 0 /\ outstanding = 0 /\ log_used = 0
      BY Zenon DEF Init
    <2>3. \A p \in Procs : rm[p] = 0
      BY Zenon DEF Init
    <2> QED BY <2>1, <2>2, <2>3 DEF OpsCounted, LogSpace
  <1>4. BootClean /\ OpBudget /\ HeldCached /\ HeaderDistinct /\ CommitExclusive
    BY DEF Init, BootClean, OpBudget, HeldCached, HeaderDistinct,
           CommitExclusive, Checkpointing
  <1>5. CheckpointPhases
    BY DEF Init, CheckpointPhases, Settled, Coherent
  <1> QED BY <1>1, <1>3, <1>4, <1>5, Zenon DEF LogInv
-----------------------------------------------------------------------------
(* One lemma per action: each preserves LogInv.                             *)

\* cache_acquire, evicting what LRU_shrink may evict, keeps LogInv.
LEMMA AcquireInv ==
    ASSUME LogInv, NEW p \in Procs, NEW b \in Blocks, Acquire(p, b)
    PROVE  LogInv'
  <1> USE LogAssumption
  <1>0. TypeOK
    BY Zenon DEF LogInv
  <1>1. PICK E \in LRU_shrink(b) : cache' = Loaded(b, E)
    BY Zenon DEF Acquire
  <1>2. /\ cache' \in [Blocks -> Values \cup {NoData}]
        /\ cache'[b] = IF cache[b] = NoData THEN disk[b] ELSE cache[b]
        /\ cache'[b] # NoData
        /\ \A c \in Blocks : c # b =>
              \/ cache'[c] = cache[c]
              \/ cache'[c] = NoData /\ c \notin pinned /\ c \notin Held
    BY <1>0, <1>1, LoadedIs
  <1>u. /\ up /\ held' = [held EXCEPT ![p] = b]
        /\ UNCHANGED <<diskVars, logVars, pinned, pc, ci, up, ghostVars>>
    BY Zenon DEF Acquire
  <1>3. TypeOK'
    BY <1>0, <1>2, <1>u, Zenon DEF TypeOK, diskVars, logVars, ghostVars
  <1>4. BootClean' /\ OpsCounted' /\ LogSpace' /\ OpBudget' /\ HeaderDistinct'
        /\ CommitExclusive'
    BY <1>u, Zenon DEF LogInv, BootClean, OpsCounted, LogSpace, Reserved, OpBudget,
       HeaderDistinct, CommitExclusive, diskVars, logVars, ghostVars
  <1>5. HeldCached'
    <2> SUFFICES ASSUME NEW q \in Procs, held'[q] # NoBlock
                 PROVE  cache'[held'[q]] # NoData
      BY Zenon DEF HeldCached
    <2>1. CASE q = p
      BY <2>1, <1>0, <1>2, <1>u, Zenon DEF TypeOK
    <2>2. CASE q # p
      <3>1. held'[q] = held[q] /\ held[q] \in Blocks /\ held[q] \in Held
        BY <2>2, <1>0, <1>u, Zenon DEF TypeOK, Held
      <3>2. cache[held[q]] # NoData
        BY <3>1, Zenon DEF LogInv, HeldCached
      <3> QED BY <3>1, <3>2, <1>2, Zenon
    <2> QED BY <2>1, <2>2, Zenon
  <1>6. CheckpointPhases'
    <2>1. \A c \in Blocks : Coherent(c) => Coherent(c)' \/ (c = b /\ disk[c] # latest[c])
      BY <1>2, <1>u, Zenon DEF Coherent, ghostVars
    <2>2. \A c \in Blocks : Settled(c) => Settled(c)'
      BY <2>1, <1>u, Zenon DEF Settled, diskVars, ghostVars
    <2>3. \A i \in 1..Len(header) : Pending(i) => Pending(i)'
      <3> SUFFICES ASSUME NEW i \in 1..Len(header), Pending(i) PROVE Pending(i)'
        BY Zenon
      <3>1. header[i] \in Blocks
        BY <1>0 DEF TypeOK
      <3>2. cache'[header[i]] = cache[header[i]]
        BY <3>1, <1>0, <1>2 DEF Pending, TypeOK
      <3> QED BY <3>2, <1>u, Zenon DEF Pending, logVars, ghostVars
    <2>4. \A i \in 1..Len(header) : Logged(i) => Logged(i)'
      BY <1>u, Zenon DEF Logged, diskVars, logVars, ghostVars
    <2>5. header \in Seq(Blocks) /\ \A i \in 1..Len(header) : header[i] \in Blocks
      BY <1>0 DEF TypeOK
    <2>6. CheckpointPhases
      BY Zenon DEF LogInv
    <2> QED BY <2>2, <2>3, <2>4, <2>5, <2>6, <1>u, Zenon
            DEF CheckpointPhases, diskVars, logVars, ghostVars
  <1> QED BY <1>3, <1>4, <1>5, <1>6, Zenon DEF LogInv

\* Steps that touch neither disk, cache nor header keep the phases as long as
\* nobody enters or leaves one.
LEMMA PhasesFrame ==
    ASSUME CheckpointPhases,
           UNCHANGED <<diskVars, header, cache, pinned, latest, ci, up>>,
           \A q \in Procs, ph \in {"log", "commit", "persist", "clear"} :
                pc'[q] = ph <=> pc[q] = ph
    PROVE  CheckpointPhases'
  <1>1. \A b : Settled(b)' = Settled(b)
    BY Zenon DEF Settled, Coherent, diskVars
  <1>2. \A i : Logged(i)' = Logged(i) /\ Pending(i)' = Pending(i)
    BY Zenon DEF Logged, Pending, diskVars
  <1> QED BY <1>1, <1>2, Zenon DEF CheckpointPhases, diskVars

\* cache_release keeps LogInv.
LEMMA ReleaseInv ==
    ASSUME LogInv, NEW p \in Procs, Release(p)
    PROVE  LogInv'
  <1> USE LogAssumption
  <1>u. /\ up /\ held' = [held EXCEPT ![p] = NoBlock]
        /\ UNCHANGED <<diskVars, logVars, cache, pinned, pc, ci, up, ghostVars>>
    BY Zenon DEF Release
  <1>1. TypeOK'
    BY <1>u, Zenon DEF LogInv, TypeOK, diskVars, logVars, ghostVars
  <1>2. BootClean' /\ OpsCounted' /\ LogSpace' /\ OpBudget' /\ HeaderDistinct'
        /\ CommitExclusive'
    BY <1>u, Zenon DEF LogInv, BootClean, OpsCounted, LogSpace, Reserved, OpBudget,
       HeaderDistinct, CommitExclusive, diskVars, logVars, ghostVars
  <1>3. HeldCached'
    BY <1>u, Zenon DEF LogInv, HeldCached, TypeOK
  <1>4. CheckpointPhases'
    BY <1>u, PhasesFrame, Zenon DEF LogInv, logVars, ghostVars
  <1> QED BY <1>1, <1>2, <1>3, <1>4, Zenon DEF LogInv

\* Steps that only move processes between places outside operations and
\* checkpoints.
LEMMA QuietStep ==
    ASSUME LogInv, up,
           UNCHANGED <<diskVars, cacheVars, logVars, ci, up, latest>>,
           pc' \in [Procs -> PCs], dirty' \in [Procs -> SUBSET Blocks],
           \A q \in Procs, ph \in Checkpointing \cup {"op"} :
                pc'[q] = ph <=> pc[q] = ph,
           \A q \in Procs :
              /\ pc[q] = "op" => dirty'[q] = dirty[q]
              /\ pc'[q] \in {"begin", "begin_sleep", "begin_wait"} => dirty'[q] = {}
    PROVE  LogInv'
  <1>1. TypeOK'
    BY Zenon DEF LogInv, TypeOK, diskVars, cacheVars, logVars
  <1>2. {q \in Procs : pc'[q] = "op"} = {q \in Procs : pc[q] = "op"}
    BY Zenon
  <1>3. OpsCounted' /\ LogSpace'
    BY <1>2, Zenon DEF LogInv, OpsCounted, LogSpace, Reserved, logVars
  <1>4. BootClean' /\ OpBudget' /\ HeldCached' /\ HeaderDistinct'
    BY ZenonT(60) DEF LogInv, BootClean, OpBudget, HeldCached, HeaderDistinct,
       cacheVars, logVars
  <1>5. CommitExclusive'
    <2>1. \A q \in Procs : /\ pc'[q] = "op" <=> pc[q] = "op"
                           /\ pc'[q] \in Checkpointing <=> pc[q] \in Checkpointing
      BY Zenon
    <2> QED BY <2>1, Zenon DEF LogInv, CommitExclusive, logVars
  <1>6. CheckpointPhases'
    <2>1. \A q \in Procs, ph \in {"log", "commit", "persist", "clear"} :
                pc'[q] = ph <=> pc[q] = ph
      BY Zenon DEF Checkpointing
    <2> QED BY <2>1, PhasesFrame, Zenon DEF LogInv, cacheVars, logVars
  <1> QED BY <1>1, <1>3, <1>4, <1>5, <1>6, Zenon DEF LogInv

\* Entering cache_begin_op keeps LogInv.
LEMMA CallInv ==
    ASSUME LogInv, NEW p \in Procs, Call(p)
    PROVE  LogInv'
  <1>1. pc' \in [Procs -> PCs] /\ dirty' \in [Procs -> SUBSET Blocks]
    BY Zenon DEF Call, Goto, LogInv, TypeOK, PCs
  <1> QED BY <1>1, QuietStep, Zenon DEF Call, Goto, LogInv, TypeOK, Checkpointing, OpBudget

\* Going to sleep in cache_begin_op keeps LogInv.
LEMMA BeginSleepInv ==
    ASSUME LogInv, NEW p \in Procs, BeginSleep(p)
    PROVE  LogInv'
  <1>1. pc' \in [Procs -> PCs] /\ dirty' \in [Procs -> SUBSET Blocks]
    BY Zenon DEF BeginSleep, Goto, LogInv, TypeOK, PCs, ghostVars
  <1> QED BY <1>1, QuietStep, Zenon
          DEF BeginSleep, Goto, LogInv, TypeOK, Checkpointing, ghostVars, OpBudget

\* Waking the waiters of log_commit_sem in cache_end_op keeps LogInv.
LEMMA PostCommitInv ==
    ASSUME LogInv, NEW p \in Procs, PostCommit(p)
    PROVE  LogInv'
  <1>1. pc' \in [Procs -> PCs] /\ dirty' \in [Procs -> SUBSET Blocks]
    BY Zenon DEF PostCommit, WakeAll, LogInv, TypeOK, PCs, ghostVars
  <1> QED BY <1>1, QuietStep, Zenon
          DEF PostCommit, WakeAll, LogInv, TypeOK, Checkpointing, ghostVars, OpBudget

\* Waking the waiters of log_sem in cache_end_op keeps LogInv.
LEMMA PostLogInv ==
    ASSUME LogInv, NEW p \in Procs, PostLog(p)
    PROVE  LogInv'
  <1>1. pc' \in [Procs -> PCs] /\ dirty' \in [Procs -> SUBSET Blocks]
    BY Zenon DEF PostLog, WakeAll, LogInv, TypeOK, PCs, ghostVars
  <1> QED BY <1>1, QuietStep, Zenon
          DEF PostLog, WakeAll, LogInv, TypeOK, Checkpointing, ghostVars, OpBudget
-----------------------------------------------------------------------------
(* Counting operations and reservations.                                    *)

\* The reservations counted by log_used form a finite set.
LEMMA ReservedFinite ==
    TypeOK => IsFiniteSet(Reserved) /\ Cardinality(Reserved) \in Nat
  <1>0. IsFiniteSet(Procs) /\ IsFiniteSet(1..OpMax)
    BY LogAssumption, FS_Interval
  <1>1. IsFiniteSet(Procs \X (1..OpMax))
    BY <1>0, FS_Product, Zenon
  <1>2. Reserved \in SUBSET (Procs \X (1..OpMax))
    BY Zenon DEF Reserved
  <1> QED BY <1>1, <1>2, FS_Subset, FS_CardinalityType, Zenon

\* the tokens of one operation
LEMMA TokensCard ==
    ASSUME NEW p, NEW n \in Nat
    PROVE  /\ IsFiniteSet({p} \X (1..n))
           /\ Cardinality({p} \X (1..n)) = n
  <1>1. IsFiniteSet({p}) /\ Cardinality({p}) = 1
    BY FS_Singleton, Zenon
  <1>2. IsFiniteSet(1..n) /\ Cardinality(1..n) = n
    BY FS_Interval
  <1>3. /\ IsFiniteSet({p} \X (1..n))
        /\ Cardinality({p} \X (1..n)) = Cardinality({p}) * Cardinality(1..n)
    BY <1>1, <1>2, FS_Product, Zenon
  <1> QED BY <1>1, <1>2, <1>3

\* The operations counted by outstanding form a finite set.
LEMMA OpsFinite ==
    LET Ops == {q \in Procs : pc[q] = "op"} IN
    IsFiniteSet(Ops) /\ Cardinality(Ops) \in Nat
  BY LogAssumption, FS_Subset, FS_CardinalityType, Zenon

\* Admission by cache_begin_op, or its decision to wait, keeps LogInv.
LEMMA BeginOpInv ==
    ASSUME LogInv, NEW p \in Procs, BeginOp(p)
    PROVE  LogInv'
  <1> USE LogAssumption
  <1>0. TypeOK
    BY Zenon DEF LogInv
  <1>1. CASE committing \/ log_used + Len(header) + OpMax > MaxSize
    <2>1. /\ pc' \in [Procs -> PCs] /\ dirty' \in [Procs -> SUBSET Blocks]
          /\ up /\ pc[p] = "begin" /\ pc' = [pc EXCEPT ![p] = "begin_sleep"]
          /\ UNCHANGED <<diskVars, cacheVars, logVars, ci, up, latest>>
          /\ dirty' = dirty
      BY <1>1, <1>0, Zenon DEF BeginOp, MustWait, Goto, TypeOK, PCs, ghostVars, logVars
    <2> QED BY <2>1, <1>0, QuietStep, Zenon DEF LogInv, TypeOK, OpBudget, Checkpointing
  <1>2. CASE ~(committing \/ log_used + Len(header) + OpMax > MaxSize)
    <2>u. /\ up /\ pc[p] = "begin" /\ pc' = [pc EXCEPT ![p] = "op"]
          /\ outstanding' = outstanding + 1 /\ log_used' = log_used + OpMax
          /\ rm' = [rm EXCEPT ![p] = OpMax]
          /\ UNCHANGED <<diskVars, cacheVars, header, committing, ci, up, ghostVars>>
      BY <1>2, Zenon DEF BeginOp, MustWait, Goto
    <2>p. \A q \in Procs : /\ q # p => pc'[q] = pc[q] /\ rm'[q] = rm[q]
                           /\ q = p => pc'[q] = "op" /\ rm'[q] = OpMax
      BY <1>0, <2>u, Zenon DEF TypeOK
    <2>r. rm[p] = 0
      BY <2>u, Zenon DEF LogInv, OpsCounted
    <2>1. TypeOK'
      BY <1>0, <2>u, SMTT(30) DEF TypeOK, PCs, diskVars, cacheVars, ghostVars
    <2>2. OpsCounted'
      <3> DEFINE Ops == {q \in Procs : pc[q] = "op"}
      <3>1. {q \in Procs : pc'[q] = "op"} = Ops \cup {p} /\ p \notin Ops
        BY <2>p, <2>u, Zenon
      <3>2. IsFiniteSet(Ops) /\ outstanding = Cardinality(Ops)
        BY OpsFinite, Zenon DEF LogInv, OpsCounted
      <3>3. Cardinality(Ops \cup {p}) = outstanding + 1
        BY <3>1, <3>2, FS_AddElement, Zenon
      <3> QED BY <3>1, <3>3, <2>u, <2>p, Zenon DEF LogInv, OpsCounted
    <2>3. LogSpace'
      <3> DEFINE T == {p} \X (1..OpMax)
      <3>a. \A q \in Procs, k \in 1..OpMax :
                 /\ <<q, k>> \in Reserved <=> k <= rm[q]
                 /\ <<q, k>> \in Reserved' <=> k <= rm'[q]
                 /\ <<q, k>> \in T <=> q = p
        BY Zenon DEF Reserved
      <3>b. /\ Reserved \subseteq Procs \X (1..OpMax) /\ T \subseteq Procs \X (1..OpMax)
            /\ Reserved' \subseteq Procs \X (1..OpMax)
        BY Zenon DEF Reserved
      <3>c. \A t \in Procs \X (1..OpMax) :
                 /\ t \in Reserved' <=> t \in Reserved \cup T
                 /\ ~(t \in Reserved /\ t \in T)
        BY <3>a, <2>p, <2>r
      <3>1. Reserved' = Reserved \cup T /\ Reserved \cap T = {}
        BY <3>b, <3>c, Zenon
      <3>2. IsFiniteSet(T) /\ Cardinality(T) = OpMax
        BY TokensCard, Zenon
      <3>3. Cardinality(Reserved') = Cardinality(Reserved) + OpMax
        <4>1. IsFiniteSet(Reserved) /\ Cardinality(Reserved) \in Nat
          BY <1>0, ReservedFinite, Zenon
        <4> HIDE DEF T
        <4>2. Cardinality(Reserved \cup T) =
                Cardinality(Reserved) + Cardinality(T) - Cardinality(Reserved \cap T)
          BY <4>1, <3>2, FS_Union, Zenon
        <4>3. Cardinality(Reserved \cap T) = 0
          BY <3>1, FS_EmptySet, Zenon
        <4> QED BY <4>1, <4>2, <4>3, <3>1, <3>2, SMTT(30)
      <3> QED BY <3>3, <2>u, <1>2, <1>0, SMTT(30) DEF LogInv, LogSpace, TypeOK
    <2>4. OpBudget'
      <3>1. dirty[p] = {} /\ Cardinality(dirty[p]) = 0
        BY <2>u, FS_EmptySet, Zenon DEF LogInv, OpBudget
      <3> QED BY <3>1, <2>u, <2>p, SMTT(30) DEF LogInv, OpBudget, ghostVars
    <2>5. BootClean' /\ HeldCached' /\ HeaderDistinct'
      BY <2>u, <2>p, Zenon DEF LogInv, BootClean, HeldCached, HeaderDistinct, cacheVars
    <2>6. CommitExclusive'
      BY <2>u, <2>p, <1>2, Zenon DEF LogInv, CommitExclusive, Checkpointing
    <2>7. CheckpointPhases'
      <3>1. \A q \in Procs, ph \in {"log", "commit", "persist", "clear"} :
                pc'[q] = ph <=> pc[q] = ph
        BY <2>u, <2>p, Zenon
      <3> QED BY <3>1, <2>u, PhasesFrame, Zenon DEF LogInv, cacheVars, ghostVars
    <2> QED BY <2>1, <2>2, <2>3, <2>4, <2>5, <2>6, <2>7, Zenon DEF LogInv
  <1> QED BY <1>1, <1>2, Zenon

\* Writing a held block and cache_sync keep LogInv.
LEMMA UpdateInv ==
    ASSUME LogInv, NEW p \in Procs, NEW v \in Values, Update(p, v)
    PROVE  LogInv'
  <1> USE LogAssumption
  <1> DEFINE b == held[p]
  <1>0. TypeOK
    BY Zenon DEF LogInv
  <1>b. b \in Blocks /\ pc[p] = "op" /\ up
    BY <1>0, Zenon DEF Update, TypeOK
  <1>u. /\ cache' = [cache EXCEPT ![b] = v] /\ latest' = [latest EXCEPT ![b] = v]
        /\ dirty' = [dirty EXCEPT ![p] = @ \cup {b}]
        /\ UNCHANGED <<diskVars, held, outstanding, committing, pc, ci, up>>
    BY Zenon DEF Update
  <1>v. /\ \A q \in Procs : q # p => dirty'[q] = dirty[q]
        /\ dirty'[p] = dirty[p] \cup {b} /\ IsFiniteSet(dirty[p])
        /\ Cardinality(dirty[p]) \in Nat
    <2>1. dirty[p] \in SUBSET Blocks
      BY <1>0, Zenon DEF TypeOK
    <2>2. IsFiniteSet(dirty[p]) /\ Cardinality(dirty[p]) \in Nat
      BY <2>1, FS_Subset, FS_CardinalityType, Zenon
    <2> QED BY <2>2, <1>0, <1>u, Zenon DEF TypeOK
  <1>q. \A q \in Procs : pc[q] \notin {"log", "commit", "persist", "clear"}
    BY <1>b, Zenon DEF LogInv, CommitExclusive, Checkpointing
  <1>c. \A c \in Blocks : /\ c # b => cache'[c] = cache[c] /\ latest'[c] = latest[c]
                          /\ c = b => cache'[c] = v /\ latest'[c] = v
    BY <1>0, <1>u, <1>b, Zenon DEF TypeOK
  <1>h. header \in Seq(Blocks) /\ \A i \in 1..Len(header) : header[i] \in Blocks
    BY <1>0, SMTT(30) DEF TypeOK
  <1>k. HeldCached' /\ CommitExclusive' /\ BootClean'
    <2>1. HeldCached'
      BY <1>0, <1>u, <1>c, <1>b, SMTT(30) DEF LogInv, HeldCached, TypeOK
    <2> QED BY <2>1, <1>u, <1>b, Zenon DEF LogInv, CommitExclusive, BootClean
  <1> HIDE DEF b
  <1>1. CASE b \in Range(header)
    <2>u. UNCHANGED <<header, pinned, rm, log_used>>
      BY <1>1, Zenon DEF Update, b
    <2>1. TypeOK'
      BY <1>0, <1>u, <2>u, <1>b, Zenon DEF TypeOK, diskVars
    <2>2. OpsCounted' /\ LogSpace' /\ HeaderDistinct'
      BY <1>u, <2>u, Zenon DEF LogInv, OpsCounted, LogSpace, Reserved, HeaderDistinct
    <2>3. OpBudget'
      <3>1. Cardinality(dirty'[p]) >= Cardinality(dirty[p]) /\ Cardinality(dirty'[p]) \in Nat
        <4>1. Cardinality(dirty[p] \cup {b}) =
                IF b \in dirty[p] THEN Cardinality(dirty[p]) ELSE Cardinality(dirty[p]) + 1
          BY <1>v, FS_AddElement, Zenon
        <4> QED BY <4>1, <1>v
      <3>2. \A q \in Procs : pc'[q] = "op" => dirty'[q] \subseteq Range(header')
        BY <1>v, <1>u, <2>u, <1>1, Zenon DEF LogInv, OpBudget
      <3>3. \A q \in Procs : pc'[q] = "op" => rm'[q] + Cardinality(dirty'[q]) >= OpMax
        BY <3>1, <1>v, <1>u, <2>u, <1>0, SMTT(30) DEF LogInv, OpBudget, TypeOK
      <3> QED BY <3>2, <3>3, <1>v, <1>u, <1>b, Zenon DEF LogInv, OpBudget
    <2>4. CheckpointPhases'
      <3>1. \A c \in Blocks \ Range(header) : Settled(c) => Settled(c)'
        BY <1>c, <1>u, <1>1, Zenon DEF Settled, Coherent, diskVars
      <3>2. \A i \in 1..Len(header) : Pending(i) => Pending(i)'
        BY <1>c, <1>h, <2>u, Zenon DEF Pending
      <3> QED BY Zenon, <3>1, <3>2, <1>q, <1>b, <1>u, <2>u DEF LogInv, CheckpointPhases, diskVars
    <2> QED BY <2>1, <2>2, <2>3, <2>4, <1>k, Zenon DEF LogInv
  <1>2. CASE b \notin Range(header)
    <2>u. /\ rm[p] > 0 /\ header' = Append(header, b) /\ pinned' = pinned \cup {b}
          /\ rm' = [rm EXCEPT ![p] = @ - 1] /\ log_used' = log_used - 1
      BY <1>2, Zenon DEF Update, b
    <2>r. /\ \A q \in Procs : q # p => rm'[q] = rm[q]
          /\ rm'[p] = rm[p] - 1 /\ rm[p] \in 1..OpMax
      BY <2>u, <1>0, SMTT(30) DEF TypeOK
    <2>h. /\ Len(header') = Len(header) + 1 /\ header'[Len(header')] = b
          /\ \A i \in 1..Len(header) : header'[i] = header[i]
          /\ Len(header) \in Nat
      BY <2>u, <1>h, <1>b, SMTT(30)
    <2>g. Range(header') = Range(header) \cup {b}
      <3>1. \A i \in 1..Len(header') : i \in 1..Len(header) \/ i = Len(header')
        BY <2>h
      <3>2. DOMAIN header = 1..Len(header) /\ DOMAIN header' = 1..Len(header')
        BY <2>u, <1>h, <1>b, SMTT(30)
      <3> QED BY <3>1, <3>2, <2>h, SMTT(30) DEF Range
    <2>t. /\ log_used = Cardinality(Reserved) /\ Len(header) + log_used <= MaxSize
          /\ IsFiniteSet(Reserved) /\ Cardinality(Reserved') = log_used - 1
          /\ log_used > 0
      <3> DEFINE t == <<p, rm[p]>>
      <3>1. t \in Reserved
        BY <2>r DEF Reserved
      <3>a. \A q \in Procs, k \in 1..OpMax :
                 /\ <<q, k>> \in Reserved <=> k <= rm[q]
                 /\ <<q, k>> \in Reserved' <=> k <= rm'[q]
                 /\ <<q, k>> = t <=> q = p /\ k = rm[p]
        BY Zenon DEF Reserved
      <3>b. /\ Reserved \subseteq Procs \X (1..OpMax)
            /\ Reserved' \subseteq Procs \X (1..OpMax)
        BY Zenon DEF Reserved
      <3>c. \A q \in Procs, k \in 1..OpMax :
                 <<q, k>> \in Reserved' <=> <<q, k>> \in Reserved /\ <<q, k>> # t
        <4> TAKE q \in Procs, k \in 1..OpMax
        <4> HIDE DEF t
        <4>1. CASE q = p
          BY <4>1, <3>a, <2>r, SMTT(30)
        <4>2. CASE q # p
          BY <4>2, <3>a, <2>r, Zenon
        <4> QED BY <4>1, <4>2, Zenon
      <3>2. Reserved' = Reserved \ {t}
        BY <3>b, <3>c
      <3>3. IsFiniteSet(Reserved) /\ Cardinality(Reserved) \in Nat
        BY <1>0, ReservedFinite, Zenon
      <3> HIDE DEF t
      <3>4. Cardinality(Reserved \ {t}) = Cardinality(Reserved) - 1 /\ Cardinality(Reserved \ {t}) \in Nat
        BY <3>1, <3>3, FS_RemoveElement, FS_CardinalityType, Zenon
      <3> QED BY <3>2, <3>3, <3>4, SMTT(30) DEF LogInv, LogSpace
    <2>1. TypeOK'
      <3>1. header' \in Seq(Blocks)
        BY <2>u, <1>h, <1>b, SMTT(30)
      <3>2. rm' \in [Procs -> 0..OpMax] /\ log_used' \in Nat
        BY <2>u, <2>r, <2>t, <1>0, SMTT(30) DEF TypeOK
      <3> QED BY <3>1, <3>2, <1>0, <1>u, <2>u, <1>b, Zenon DEF TypeOK, diskVars
    <2>2. OpsCounted'
      BY <1>u, <2>r, <1>b, Zenon DEF LogInv, OpsCounted
    <2>3. LogSpace'
      BY <2>t, <2>u, <2>h, <1>0, SMTT(30) DEF LogSpace, TypeOK
    <2>4. HeaderDistinct'
      <3>1. \A i \in 1..Len(header) : header[i] # b
        BY <1>2, <1>h, SMTT(30) DEF Range
      <3> QED BY <3>1, <2>h, SMTT(30) DEF LogInv, HeaderDistinct
    <2>5. OpBudget'
      <3>1. b \notin dirty[p]
        BY <1>2, <1>b, Zenon DEF LogInv, OpBudget
      <3>2. Cardinality(dirty'[p]) = Cardinality(dirty[p]) + 1
        BY ZenonT(60), <3>1, <1>v, FS_AddElement
      <3>3. \A q \in Procs : pc'[q] = "op" => dirty'[q] \subseteq Range(header')
        BY <1>v, <1>u, <2>g, Zenon DEF LogInv, OpBudget
      <3>4. \A q \in Procs : pc'[q] = "op" => rm'[q] + Cardinality(dirty'[q]) >= OpMax
        BY <3>2, <1>v, <1>u, <2>r, <1>0, SMTT(30) DEF LogInv, OpBudget, TypeOK
      <3> QED BY <3>3, <3>4, <1>v, <1>u, <1>b, Zenon DEF LogInv, OpBudget
    <2>6. CheckpointPhases'
      <3>1. \A c \in Blocks \ Range(header') : Settled(c)'
        BY Zenon, <1>c, <1>u, <2>g DEF LogInv, CheckpointPhases, Settled, Coherent, diskVars
      <3>2. \A i \in 1..Len(header) : Pending(i)
        BY ZenonT(60), <1>q, <1>b DEF LogInv, CheckpointPhases
      <3>3. \A i \in 1..Len(header') : Pending(i)'
        BY <3>2, <1>c, <1>h, <1>b, <2>h, <2>u, SMTT(30) DEF Pending
      <3> QED BY ZenonT(60), <3>1, <3>3, <1>q, <1>b, <1>u DEF LogInv, CheckpointPhases, diskVars
    <2> QED BY <2>1, <2>2, <2>3, <2>4, <2>5, <2>6, <1>k, Zenon DEF LogInv
  <1> QED BY <1>1, <1>2, Zenon

\* cache_end_op, as the last operation or as one that waits, keeps LogInv.
LEMMA EndOpInv ==
    ASSUME LogInv, NEW p \in Procs, EndOp(p)
    PROVE  LogInv'
  <1> USE LogAssumption
  <1>0. TypeOK
    BY Zenon DEF LogInv
  <1>u. /\ up /\ pc[p] = "op" /\ outstanding' = outstanding - 1
        /\ log_used' = log_used - rm[p] /\ rm' = [rm EXCEPT ![p] = 0] /\ ci' = 1
        /\ UNCHANGED <<diskVars, cacheVars, header, up, ghostVars>>
    BY Zenon DEF EndOp
  <1>r. rm[p] \in 0..OpMax /\ rm'[p] = 0 /\ \A q \in Procs : q # p => rm'[q] = rm[q]
    BY <1>u, <1>0, Zenon DEF TypeOK
  <1>q. \A q \in Procs : pc[q] \notin Checkpointing
    BY <1>u, Zenon DEF LogInv, CommitExclusive
  <1>h. header \in Seq(Blocks) /\ Len(header) \in Nat
    BY <1>0, SMTT(30) DEF TypeOK
  <1>ops. /\ IsFiniteSet({q \in Procs : pc[q] = "op"})
          /\ outstanding = Cardinality({q \in Procs : pc[q] = "op"})
          /\ Cardinality({q \in Procs : pc[q] = "op"} \ {p}) = outstanding - 1
          /\ outstanding \in Nat /\ outstanding > 0
    <2> DEFINE Ops == {q \in Procs : pc[q] = "op"}
    <2>1. IsFiniteSet(Ops) /\ Cardinality(Ops) \in Nat /\ outstanding = Cardinality(Ops)
      BY OpsFinite, Zenon DEF LogInv, OpsCounted
    <2>2. p \in Ops
      BY <1>u, Zenon
    <2> HIDE DEF Ops
    <2>3. IsFiniteSet(Ops \ {p}) /\ Cardinality(Ops \ {p}) = Cardinality(Ops) - 1
      BY <2>1, <2>2, FS_RemoveElement, Zenon
    <2>4. Cardinality(Ops \ {p}) \in Nat
      BY <2>3, FS_CardinalityType, Zenon
    <2> QED BY <2>1, <2>3, <2>4, SMTT(30) DEF Ops
  <1>t. LogSpace' /\ log_used' \in Nat
    <2> DEFINE T == {p} \X (1..rm[p])
    <2>a. \A q \in Procs, k \in 1..OpMax :
               /\ <<q, k>> \in Reserved <=> k <= rm[q]
               /\ <<q, k>> \in Reserved' <=> k <= rm'[q]
               /\ <<q, k>> \in T <=> q = p /\ k <= rm[p]
      BY <1>r DEF Reserved
    <2>b. /\ Reserved \subseteq Procs \X (1..OpMax)
          /\ Reserved' \subseteq Procs \X (1..OpMax)
          /\ T \subseteq Procs \X (1..OpMax)
      BY <1>r DEF Reserved
    <2>1. IsFiniteSet(T) /\ Cardinality(T) = rm[p]
      <3>1. rm[p] \in Nat
        BY <1>r
      <3> QED BY <3>1, TokensCard, Zenon
    <2> HIDE DEF T
    <2>c. \A q \in Procs, k \in 1..OpMax :
               /\ <<q, k>> \in Reserved' <=> <<q, k>> \in Reserved /\ <<q, k>> \notin T
               /\ <<q, k>> \in T => <<q, k>> \in Reserved
      <3> TAKE q \in Procs, k \in 1..OpMax
      <3>1. CASE q = p
        BY <3>1, <2>a, <1>r, SMTT(30)
      <3>2. CASE q # p
        BY <3>2, <2>a, <1>r, Zenon
      <3> QED BY <3>1, <3>2, Zenon
    <2>d. \A t \in Procs \X (1..OpMax) :
               /\ t \in Reserved' <=> t \in Reserved /\ t \notin T
               /\ t \in T => t \in Reserved
      <3> TAKE t \in Procs \X (1..OpMax)
      <3>1. PICK q \in Procs, k \in 1..OpMax : t = <<q, k>>
        OBVIOUS
      <3> QED BY <3>1, <2>c, Zenon
    <2>2. Reserved' = Reserved \ T /\ Reserved \cap T = T
      BY <2>b, <2>d, Zenon
    <2>3. IsFiniteSet(Reserved) /\ Cardinality(Reserved) \in Nat
      BY <1>0, ReservedFinite, Zenon
    <2>4. /\ Cardinality(Reserved \ T) = Cardinality(Reserved) - rm[p]
          /\ Cardinality(Reserved \ T) \in Nat
      <3>1. /\ IsFiniteSet(Reserved \ T)
            /\ Cardinality(Reserved \ T) = Cardinality(Reserved) - Cardinality(Reserved \cap T)
        BY <2>3, FS_Difference, Zenon
      <3> QED BY <3>1, <2>1, <2>2, FS_CardinalityType, Zenon
    <2>5. Len(header') + log_used' <= MaxSize
      BY <1>u, <1>r, <1>0, <1>h, SMTT(30) DEF LogInv, LogSpace, TypeOK
    <2> QED BY <2>2, <2>4, <2>5, <1>u, Zenon DEF LogInv, LogSpace
  <1>d. dirty' = dirty /\ header' = header /\ up' = up
    BY <1>u, Zenon DEF ghostVars
  <1>1. CASE outstanding = 1
    <2>u. committing' /\ pc' = [pc EXCEPT ![p] = IF header = <<>> THEN "done" ELSE "log"]
      BY <1>1, Zenon DEF EndOp, Goto
    <2>p. /\ \A q \in Procs : q # p => pc'[q] = pc[q]
          /\ pc'[p] = IF header = <<>> THEN "done" ELSE "log"
      BY <2>u, <1>0, Zenon DEF TypeOK
    <2>1. TypeOK'
      BY <2>u, <1>u, <1>0, <1>t, <1>ops, SMTT(30) DEF TypeOK, PCs, Checkpointing, EndOp, diskVars,
         cacheVars, ghostVars
    <2>2. OpsCounted'
      <3>1. {q \in Procs : pc'[q] = "op"} = {q \in Procs : pc[q] = "op"} \ {p}
        BY <2>p, Zenon
      <3> QED BY <3>1, <1>ops, <1>u, <1>r, <2>p, Zenon DEF LogInv, OpsCounted
    <2>3. \A q \in Procs : q # p => pc[q] # "op"
      <3>1. {q \in Procs : pc[q] = "op"} \ {p} = {}
        <4>1. IsFiniteSet({q \in Procs : pc[q] = "op"} \ {p})
          BY <1>ops, FS_RemoveElement, Zenon
        <4> QED BY <4>1, <1>1, <1>ops, FS_EmptySet, SMTT(30)
      <3> QED BY <3>1, Zenon
    <2>4. CommitExclusive'
      BY <2>u, <2>p, <2>3, <1>q, Zenon DEF CommitExclusive, Checkpointing
    <2>5. BootClean' /\ HeldCached' /\ HeaderDistinct'
      BY <1>u, Zenon DEF LogInv, BootClean, HeldCached, HeaderDistinct, cacheVars
    <2>6. OpBudget'
      <3>1. OpBudget
        BY Zenon DEF LogInv
      <3>2. pc'[p] \notin {"op", "begin", "begin_sleep", "begin_wait"}
        BY ZenonT(60), <2>p
      <3> QED BY <1>d, <1>r, <2>p, <3>1, <3>2, Zenon DEF OpBudget
    <2>7. CheckpointPhases'
      <3>1. /\ \A b \in Blocks \ Range(header) : Settled(b)'
            /\ logHead' = <<>> /\ \A i \in 1..Len(header) : Pending(i)'
        BY ZenonT(60), <1>u, <1>q DEF LogInv, CheckpointPhases, Settled, Coherent, Pending,
           Checkpointing, diskVars, cacheVars, ghostVars
      <3>2. header # <<>> => Len(header) > 0
        BY <1>h, SMTT(30)
      <3> QED BY <3>1, <3>2, <1>h, <1>u, <1>d, <1>q, <2>p, SMTT(30) DEF CheckpointPhases, Checkpointing
    <2> QED BY <2>1, <2>2, <2>4, <2>5, <2>6, <2>7, <1>t, Zenon DEF LogInv
  <1>2. CASE outstanding # 1
    <2>u. /\ UNCHANGED committing
          /\ pc' = [WakeAll("begin_wait", "begin") EXCEPT ![p] = "end_wait"]
      BY <1>2, Zenon DEF EndOp
    <2>p. /\ \A q \in Procs : q # p => pc'[q] = pc[q] \/ (pc[q] = "begin_wait" /\ pc'[q] = "begin")
          /\ pc'[p] = "end_wait"
      BY <2>u, <1>0, Zenon DEF TypeOK, WakeAll
    <2>1. TypeOK'
      <3>1. pc' \in [Procs -> PCs]
        BY <2>u, <1>0, Zenon DEF TypeOK, PCs, WakeAll
      <3> QED BY <3>1, <2>u, <1>u, <1>0, <1>t, <1>ops, SMTT(30) DEF TypeOK, diskVars, cacheVars, ghostVars
    <2>2. OpsCounted'
      <3>1. {q \in Procs : pc'[q] = "op"} = {q \in Procs : pc[q] = "op"} \ {p}
        BY <2>p, Zenon
      <3> QED BY <3>1, <1>ops, <1>u, <1>r, <2>p, Zenon DEF LogInv, OpsCounted
    <2>3. CommitExclusive'
      <3>1. \A q \in Procs : pc'[q] \notin Checkpointing
        BY <2>p, <1>q, Zenon DEF Checkpointing
      <3> QED BY <3>1, <2>u, <1>q, Zenon DEF LogInv, CommitExclusive
    <2>4. BootClean' /\ HeldCached' /\ HeaderDistinct'
      BY <1>u, Zenon DEF LogInv, BootClean, HeldCached, HeaderDistinct, cacheVars
    <2>5. OpBudget'
      BY <1>d, <1>r, <2>p, Zenon DEF LogInv, OpBudget
    <2>6. CheckpointPhases'
      <3>1. /\ \A b \in Blocks \ Range(header) : Settled(b)'
            /\ logHead' = <<>> /\ \A i \in 1..Len(header) : Pending(i)'
        BY <1>u, <1>q, Zenon DEF LogInv, CheckpointPhases, Settled, Coherent, Pending,
           Checkpointing, diskVars, cacheVars, ghostVars
      <3> QED BY <3>1, <1>u, <1>d, <1>q, <2>p, SMTT(30) DEF CheckpointPhases, Checkpointing
    <2> QED BY <2>1, <2>2, <2>3, <2>4, <2>5, <2>6, <1>t, Zenon DEF LogInv
  <1> QED BY <1>1, <1>2, Zenon

-----------------------------------------------------------------------------
(* The steps of a checkpoint, a crash and recovery.                         *)


\* Facts shared by the steps of a checkpoint: nobody else is in one, and no
\* operation runs.
LEMMA CommitterAlone ==
    ASSUME LogInv, NEW p \in Procs, pc[p] \in Checkpointing
    PROVE  /\ committing /\ \A q \in Procs : pc[q] # "op"
           /\ \A q \in Procs : q # p => pc[q] \notin Checkpointing
           /\ up
  BY Zenon DEF LogInv, CommitExclusive, BootClean, Checkpointing

\* Steps of the committer that change neither the log header in memory nor
\* the bookkeeping keep everything but the phases.
LEMMA CommitterFrame ==
    ASSUME LogInv, NEW p \in Procs, pc[p] \in Checkpointing,
           NEW ph \in Checkpointing, pc' = [pc EXCEPT ![p] = ph],
           UNCHANGED <<logVars, held, up>>,
           \A q \in Procs : dirty'[q] = dirty[q] \/ dirty'[q] = {}
    PROVE  /\ OpsCounted' /\ LogSpace' /\ OpBudget' /\ HeaderDistinct' /\ BootClean'
           /\ CommitExclusive' /\ pc' \in [Procs -> PCs] /\ pc'[p] = ph
           /\ \A q \in Procs : q # p => pc'[q] \notin Checkpointing
           /\ up' /\ up
  <1>0. TypeOK
    BY Zenon DEF LogInv
  <1>a. /\ committing /\ up /\ \A q \in Procs : pc[q] # "op"
        /\ \A q \in Procs : q # p => pc[q] \notin Checkpointing
    BY CommitterAlone, Zenon
  <1>p. \A q \in Procs : /\ q # p => pc'[q] = pc[q]
                         /\ q = p => pc'[q] = ph
    BY <1>0, Zenon DEF TypeOK
  <1>1. pc' \in [Procs -> PCs]
    BY <1>0, Zenon DEF TypeOK, PCs
  <1>o. \A q \in Procs : pc'[q] # "op"
    BY <1>a, <1>p, Zenon DEF Checkpointing
  <1>2. {q \in Procs : pc'[q] = "op"} = {q \in Procs : pc[q] = "op"}
    BY <1>a, <1>o, Zenon
  <1>3. OpsCounted' /\ LogSpace'
    BY <1>2, <1>a, <1>o, Zenon DEF LogInv, OpsCounted, LogSpace, Reserved, logVars
  <1>4. OpBudget'
    <2>1. \A q \in Procs : pc'[q] \in {"begin", "begin_sleep", "begin_wait"} => pc'[q] = pc[q]
      BY <1>p, Zenon DEF Checkpointing
    <2> QED BY <2>1, <1>o, Zenon DEF LogInv, OpBudget
  <1>5. HeaderDistinct' /\ BootClean'
    BY <1>a, Zenon DEF LogInv, HeaderDistinct, BootClean, logVars
  <1>6. CommitExclusive'
    BY <1>a, <1>p, <1>o, Zenon DEF CommitExclusive, logVars
  <1> QED BY <1>1, <1>3, <1>4, <1>5, <1>6, <1>p, <1>a, Zenon

\* One iteration of write_block_to_log keeps LogInv.
LEMMA WriteBlockToLogInv ==
    ASSUME LogInv, NEW p \in Procs, WriteBlockToLog(p)
    PROVE  LogInv'
  <1> USE LogAssumption
  <1> DEFINE b == header[ci]
             n == Len(header)
  <1>0. TypeOK
    BY Zenon DEF LogInv
  <1>u. /\ up /\ pc[p] = "log" /\ pinned' = pinned \ {b}
        /\ logArea' = [logArea EXCEPT ![ci] = cache'[b]]
        /\ IF ci < n THEN ci' = ci + 1 /\ UNCHANGED pc
                     ELSE ci' = 1 /\ pc' = [pc EXCEPT ![p] = "commit"]
        /\ UNCHANGED <<disk, logHead, logVars, held, up, ghostVars>>
    BY Zenon DEF WriteBlockToLog, Goto
  <1>ph. /\ \A c \in Blocks \ Range(header) : Settled(c)
         /\ logHead = <<>> /\ ci <= n
         /\ \A i \in 1..n : IF i < ci THEN Logged(i) ELSE Pending(i)
    BY <1>u, Zenon DEF LogInv, CheckpointPhases
  <1>h. /\ header \in Seq(Blocks) /\ n \in Nat /\ n <= MaxSize /\ ci \in 1..n
        /\ \A i \in 1..n : header[i] \in Blocks
    <2>2. ci \in Nat \ {0} /\ log_used \in Nat
      BY <1>0, Zenon DEF TypeOK
    <2>1. n <= MaxSize
      BY SMTT(30), <2>2, <1>0, HeaderFacts DEF LogInv, LogSpace
    <2> QED BY <2>1, <2>2, <1>0, <1>ph, HeaderFacts
  <1>b. b \in Blocks /\ b \in pinned /\ cache[b] = latest[b] /\ latest[b] \in Values
    BY <1>h, <1>ph, <1>0 DEF Pending, TypeOK
  <1>1. PICK E \in LRU_shrink(b) : cache' = Loaded(b, E)
    BY Zenon DEF WriteBlockToLog
  <1>2. /\ cache' \in [Blocks -> Values \cup {NoData}]
        /\ cache'[b] = latest[b]
        /\ \A c \in Blocks : c # b =>
              \/ cache'[c] = cache[c]
              \/ cache'[c] = NoData /\ c \notin pinned /\ c \notin Held
    BY <1>0, <1>1, <1>b, LoadedIs
  <1> HIDE DEF b
  <1>3. PICK ph \in Checkpointing : /\ pc' = [pc EXCEPT ![p] = ph]
                                    /\ ph = IF ci < n THEN "log" ELSE "commit"
    <2>1. CASE ci < n
      <3>1. pc' = [pc EXCEPT ![p] = "log"]
        BY <2>1, <1>u, <1>0, Zenon DEF TypeOK
      <3> QED BY <3>1, <2>1, Zenon DEF Checkpointing
    <2>2. CASE ~(ci < n)
      BY <2>2, <1>u, Zenon DEF Checkpointing
    <2> QED BY <2>1, <2>2, Zenon
  <1>4. /\ OpsCounted' /\ LogSpace' /\ OpBudget' /\ HeaderDistinct' /\ BootClean'
        /\ CommitExclusive' /\ pc' \in [Procs -> PCs] /\ pc'[p] = ph
        /\ \A q \in Procs : q # p => pc'[q] \notin Checkpointing
        /\ up' /\ up
    BY <1>u, <1>3, CommitterFrame, Zenon DEF Checkpointing, ghostVars
  <1>5. TypeOK'
    <2>1. logArea' \in [1..MaxSize -> Values] /\ ci' \in Nat \ {0}
      BY <1>u, <1>0, <1>2, <1>b, <1>h, SMTT(30) DEF TypeOK
    <2> QED BY <2>1, <1>u, <1>0, <1>2, <1>4, Zenon DEF TypeOK, logVars, ghostVars
  <1>6. HeldCached'
    <2> SUFFICES ASSUME NEW q \in Procs, held'[q] # NoBlock
                 PROVE  cache'[held'[q]] # NoData
      BY Zenon DEF HeldCached
    <2>1. held'[q] = held[q] /\ held[q] \in Blocks /\ held[q] \in Held
      BY <1>0, <1>u, Zenon DEF TypeOK, Held
    <2>2. cache[held[q]] # NoData
      BY <2>1, Zenon DEF LogInv, HeldCached
    <2> QED BY <2>1, <2>2, <1>2, <1>b, Zenon
  <1>7. CheckpointPhases'
    <2>1. \A c \in Blocks \ Range(header) : Settled(c)'
      BY <1>ph, <1>2, <1>u, <1>b, Zenon DEF Settled, Coherent, ghostVars
    <2>2. \A i \in 1..n : i <= ci => Logged(i)'
      <3> SUFFICES ASSUME NEW i \in 1..n, i <= ci PROVE Logged(i)'
        BY Zenon
      <3>1. CASE i = ci
        <4>1. logArea'[i] = cache'[b]
          BY <3>1, <1>u, <1>h, <1>0, SMTT(30) DEF TypeOK
        <4> QED BY <4>1, <3>1, <1>2, <1>u, Zenon DEF Logged, b, logVars, ghostVars
      <3>2. CASE i < ci
        <4>1. logArea'[i] = logArea[i]
          BY <3>2, <1>u, <1>h, <1>0, SMTT(30) DEF TypeOK
        <4> QED BY ZenonT(60), <4>1, <3>2, <1>u, <1>ph DEF Logged, logVars, ghostVars
      <3> QED BY <3>1, <3>2, <1>h
    <2>3. \A i \in 1..n : i > ci => Pending(i)'
      <3> SUFFICES ASSUME NEW i \in 1..n, i > ci PROVE Pending(i)'
        BY Zenon
      <3>1. header[i] # b /\ header[i] \in Blocks
        BY SMTT(30), <1>h DEF LogInv, HeaderDistinct, b
      <3>2. header[i] \in pinned /\ cache[header[i]] = latest[header[i]]
        BY <1>ph, <1>h DEF Pending
      <3> QED BY <3>1, <3>2, <1>2, <1>u, Zenon DEF Pending, logVars, ghostVars
    <2>4. header' = header /\ logHead' = <<>>
      BY ZenonT(60), <1>u, <1>ph DEF logVars
    <2>5. CASE ci < n
      <3>1. ci' = ci + 1 /\ ph = "log"
        BY <2>5, <1>u, <1>3, Zenon
      <3>2. \A i \in 1..n : IF i < ci' THEN Logged(i)' ELSE Pending(i)'
        BY <3>1, <2>2, <2>3, <1>h, SMTT(30)
      <3> QED BY <3>1, <3>2, <2>1, <2>4, <2>5, <1>4, <1>h, SMTT(30) DEF CheckpointPhases, Checkpointing
    <2>6. CASE ~(ci < n)
      <3>1. ci' = 1 /\ ph = "commit" /\ ci = n /\ n > 0
        BY <2>6, <1>u, <1>3, <1>h
      <3> QED BY <3>1, <2>1, <2>2, <2>4, <1>4, <1>h, SMTT(30) DEF CheckpointPhases, Checkpointing
    <2> QED BY <2>5, <2>6, Zenon
  <1> QED BY <1>4, <1>5, <1>6, <1>7, Zenon DEF LogInv

\* write_header at the commit point of checkpoint keeps LogInv.
LEMMA WriteHeaderInv ==
    ASSUME LogInv, NEW p \in Procs, WriteHeader(p)
    PROVE  LogInv'
  <1>0. TypeOK
    BY Zenon DEF LogInv
  <1>u. /\ up /\ pc[p] = "commit" /\ logHead' = header
        /\ pc' = [pc EXCEPT ![p] = "persist"] /\ dirty' = [q \in Procs |-> {}]
        /\ UNCHANGED <<disk, logArea, cacheVars, logVars, ci, up, latest>>
    BY Zenon DEF WriteHeader, Goto
  <1>1. /\ OpsCounted' /\ LogSpace' /\ OpBudget' /\ HeaderDistinct' /\ BootClean'
        /\ CommitExclusive' /\ pc' \in [Procs -> PCs] /\ pc'[p] = "persist"
        /\ \A q \in Procs : q # p => pc'[q] \notin Checkpointing
        /\ up' /\ up
    <2>1. "persist" \in Checkpointing /\ pc[p] \in Checkpointing
      BY <1>u, Zenon DEF Checkpointing
    <2> QED BY <2>1, <1>u, CommitterFrame, Zenon DEF cacheVars
  <1>2. TypeOK'
    BY <1>0, <1>u, <1>1, Zenon DEF TypeOK, cacheVars, logVars
  <1>3. HeldCached'
    BY <1>u, Zenon DEF LogInv, HeldCached, cacheVars
  <1>4. CheckpointPhases'
    <2>1. /\ \A c \in Blocks \ Range(header) : Settled(c)
          /\ ci = 1 /\ Len(header) > 0 /\ \A i \in 1..Len(header) : Logged(i)
      BY <1>u, Zenon DEF LogInv, CheckpointPhases
    <2>2. /\ \A c : Settled(c)' = Settled(c)
          /\ \A i : Logged(i)' = Logged(i)
      BY <1>u, Zenon DEF Settled, Coherent, Logged, cacheVars, logVars
    <2>3. header' = header /\ ci' = ci /\ Len(header) \in Nat
      BY SMTT(30), <1>u, <1>0 DEF logVars, TypeOK
    <2> QED BY <2>1, <2>2, <2>3, <1>1, <1>u, SMTT(30) DEF CheckpointPhases, Checkpointing
  <1> QED BY <1>1, <1>2, <1>3, <1>4, Zenon DEF LogInv

\* One iteration of persist_from_log keeps LogInv.
LEMMA PersistFromLogInv ==
    ASSUME LogInv, NEW p \in Procs, PersistFromLog(p)
    PROVE  LogInv'
  <1> USE LogAssumption
  <1> DEFINE b == header[ci]
             n == Len(header)
  <1>0. TypeOK
    BY Zenon DEF LogInv
  <1>u. /\ up /\ pc[p] = "persist"
        /\ disk' = [disk EXCEPT ![b] = logArea[ci]]
        /\ IF ci < n THEN ci' = ci + 1 /\ UNCHANGED pc
                     ELSE ci' = 1 /\ pc' = [pc EXCEPT ![p] = "clear"]
        /\ UNCHANGED <<logArea, logHead, pinned, held, logVars, up, ghostVars>>
    BY Zenon DEF PersistFromLog, Goto
  <1>ph. /\ \A c \in Blocks \ Range(header) : Settled(c)
         /\ logHead = header /\ ci <= n
         /\ \A i \in 1..n : Logged(i)
         /\ \A i \in 1..n : i < ci => Settled(header[i])
    BY <1>u, Zenon DEF LogInv, CheckpointPhases
  <1>h. /\ header \in Seq(Blocks) /\ n \in Nat /\ ci \in 1..n
        /\ \A i \in 1..n : header[i] \in Blocks
    <2>1. ci \in Nat \ {0}
      BY <1>0, Zenon DEF TypeOK
    <2> QED BY <2>1, <1>0, <1>ph, HeaderFacts
  <1>b. b \in Blocks /\ logArea[ci] = latest[b] /\ latest[b] \in Values
    BY <1>h, <1>ph, <1>0, Zenon DEF Logged, TypeOK
  <1>1. PICK E \in LRU_shrink(b) : cache' = [Loaded(b, E) EXCEPT ![b] = logArea[ci]]
    BY Zenon DEF PersistFromLog
  <1>2. /\ cache' \in [Blocks -> Values \cup {NoData}]
        /\ cache'[b] = latest[b] /\ disk'[b] = latest[b]
        /\ \A c \in Blocks : c # b =>
              /\ disk'[c] = disk[c]
              /\ \/ cache'[c] = cache[c]
                 \/ cache'[c] = NoData /\ c \notin pinned /\ c \notin Held
    <2>1. /\ Loaded(b, E) \in [Blocks -> Values \cup {NoData}]
          /\ \A c \in Blocks : c # b =>
                 \/ Loaded(b, E)[c] = cache[c]
                 \/ Loaded(b, E)[c] = NoData /\ c \notin pinned /\ c \notin Held
      BY <1>0, <1>b, LoadedIs, Zenon
    <2>2. disk \in [Blocks -> Values]
      BY <1>0, Zenon DEF TypeOK
    <2> HIDE DEF b
    <2> QED BY <2>1, <2>2, <1>1, <1>b, <1>u, Zenon
  <1> HIDE DEF b
  <1>3. PICK ph \in Checkpointing : /\ pc' = [pc EXCEPT ![p] = ph]
                                    /\ ph = IF ci < n THEN "persist" ELSE "clear"
    <2>1. CASE ci < n
      <3>1. pc' = [pc EXCEPT ![p] = "persist"]
        BY <2>1, <1>u, <1>0, Zenon DEF TypeOK
      <3> QED BY <3>1, <2>1, Zenon DEF Checkpointing
    <2>2. CASE ~(ci < n)
      BY <2>2, <1>u, Zenon DEF Checkpointing
    <2> QED BY <2>1, <2>2, Zenon
  <1>4. /\ OpsCounted' /\ LogSpace' /\ OpBudget' /\ HeaderDistinct' /\ BootClean'
        /\ CommitExclusive' /\ pc' \in [Procs -> PCs] /\ pc'[p] = ph
        /\ \A q \in Procs : q # p => pc'[q] \notin Checkpointing
        /\ up' /\ up
    BY <1>u, <1>3, CommitterFrame, Zenon DEF Checkpointing, ghostVars
  <1>5. TypeOK'
    <2>1. disk' \in [Blocks -> Values] /\ ci' \in Nat \ {0}
      BY <1>u, <1>0, <1>b, <1>h, SMTT(30) DEF TypeOK
    <2> QED BY <2>1, <1>u, <1>0, <1>2, <1>4, Zenon DEF TypeOK, logVars, ghostVars
  <1>6. HeldCached'
    <2> SUFFICES ASSUME NEW q \in Procs, held'[q] # NoBlock
                 PROVE  cache'[held'[q]] # NoData
      BY Zenon DEF HeldCached
    <2>1. held'[q] = held[q] /\ held[q] \in Blocks /\ held[q] \in Held
      BY <1>0, <1>u, Zenon DEF TypeOK, Held
    <2>2. cache[held[q]] # NoData
      BY <2>1, Zenon DEF LogInv, HeldCached
    <2> QED BY <2>1, <2>2, <1>2, <1>b, Zenon
  <1>7. CheckpointPhases'
    <2>1. \A c \in Blocks : Settled(c) \/ c = b => Settled(c)'
      BY <1>2, <1>u, <1>b, Zenon DEF Settled, Coherent, ghostVars
    <2>2. \A i \in 1..n : Logged(i)'
      BY <1>ph, <1>u, Zenon DEF Logged, logVars, ghostVars
    <2>3. \A i \in 1..n : i <= ci => Settled(header[i])'
      <3> SUFFICES ASSUME NEW i \in 1..n, i <= ci PROVE Settled(header[i])'
        BY Zenon
      <3>1. header[i] \in Blocks /\ header' = header
        BY <1>h, <1>u, Zenon DEF logVars
      <3>2. Settled(header[i]) \/ header[i] = b
        BY <1>ph, <1>h DEF b
      <3> QED BY <3>1, <3>2, <2>1, <1>2, <1>u, Zenon DEF Settled, Coherent, logVars, ghostVars
    <2>4. header' = header /\ logHead' = header
      BY ZenonT(60), <1>u, <1>ph DEF logVars
    <2>5. CASE ci < n
      <3>1. ci' = ci + 1 /\ ph = "persist"
        BY <2>5, <1>u, <1>3, Zenon
      <3>2. \A i \in 1..n : i < ci' => Settled(header[i])'
        BY <3>1, <2>3, <1>h, SMTT(30)
      <3> QED BY <3>1, <3>2, <2>1, <2>2, <2>4, <2>5, <1>4, <1>h, <1>ph, SMTT(30)
              DEF CheckpointPhases, Checkpointing
    <2>6. CASE ~(ci < n)
      <3>1. ci' = 1 /\ ph = "clear" /\ ci = n
        BY <2>6, <1>u, <1>3, <1>h, SMTT(30)
      <3>2. \A i \in 1..n : Settled(header[i])'
        BY <3>1, <2>3, <1>h, SMTT(30)
      <3> QED BY Zenon, <3>1, <3>2, <2>1, <2>2, <2>4, <1>4, <1>h, <1>ph
              DEF CheckpointPhases, Checkpointing
    <2> QED BY <2>5, <2>6, Zenon
  <1> QED BY <1>4, <1>5, <1>6, <1>7, Zenon DEF LogInv

\* A clean start: every block is up to date at home and the header is empty.
LEMMA CleanPhases ==
    ASSUME header' = <<>>, logHead' = <<>>, \A c \in Blocks : Settled(c)', up',
           \A q \in Procs : pc'[q] \notin {"log", "commit", "persist", "clear"}
    PROVE  CheckpointPhases'
  <1>1. Len(header') = 0 /\ 1..Len(header') = {}
    OBVIOUS
  <1> QED BY <1>1, Zenon DEF CheckpointPhases

\* Clearing the header on disk at the end of checkpoint keeps LogInv.
LEMMA ClearHeaderInv ==
    ASSUME LogInv, NEW p \in Procs, ClearHeader(p)
    PROVE  LogInv'
  <1> USE LogAssumption
  <1>0. TypeOK
    BY Zenon DEF LogInv
  <1>u. /\ up /\ pc[p] = "clear" /\ header' = <<>> /\ logHead' = <<>>
        /\ pc' = [pc EXCEPT ![p] = "done"]
        /\ UNCHANGED <<disk, logArea, cacheVars, outstanding, log_used, committing,
                       rm, ci, up, ghostVars>>
    BY Zenon DEF ClearHeader, Goto
  <1>a. /\ committing /\ up /\ \A q \in Procs : pc[q] # "op"
        /\ \A q \in Procs : q # p => pc[q] \notin Checkpointing
    BY <1>u, CommitterAlone, Zenon DEF Checkpointing
  <1>p. \A q \in Procs : /\ q # p => pc'[q] = pc[q]
                         /\ q = p => pc'[q] = "done"
    BY <1>0, <1>u, Zenon DEF TypeOK
  <1>1. TypeOK'
    <2>1. pc' \in [Procs -> PCs] /\ header' \in Seq(Blocks) /\ logHead' \in Seq(Blocks)
      BY <1>0, <1>u DEF TypeOK, PCs, Checkpointing
    <2> QED BY <2>1, <1>0, <1>u, Zenon DEF TypeOK, cacheVars, ghostVars
  <1>2. OpsCounted' /\ LogSpace' /\ OpBudget'
    <2>1. {q \in Procs : pc'[q] = "op"} = {q \in Procs : pc[q] = "op"}
      BY <1>p, <1>u, Zenon
    <2>2. OpsCounted'
      BY <2>1, <1>u, <1>p, Zenon DEF LogInv, OpsCounted
    <2>3. Len(header') = 0 /\ Len(header) \in Nat
      BY <1>u, <1>0, SMTT(30) DEF TypeOK
    <2>4. LogSpace'
      BY <2>3, <1>u, <1>0, SMTT(30) DEF LogInv, LogSpace, Reserved, TypeOK
    <2>5. OpBudget'
      BY <1>a, <1>p, <1>u, Zenon DEF LogInv, OpBudget, ghostVars
    <2> QED BY <2>2, <2>4, <2>5, Zenon
  <1>3. HeldCached' /\ HeaderDistinct' /\ BootClean'
    BY <1>u DEF LogInv, HeldCached, HeaderDistinct, BootClean, cacheVars
  <1>4. CommitExclusive'
    BY <1>a, <1>p, <1>u, Zenon DEF CommitExclusive, Checkpointing
  <1>5. CheckpointPhases'
    <2>1. /\ \A c \in Blocks \ Range(header) : Settled(c)
          /\ \A i \in 1..Len(header) : Settled(header[i])
      BY <1>u, Zenon DEF LogInv, CheckpointPhases
    <2>2. \A c \in Blocks : Settled(c)
      <3> SUFFICES ASSUME NEW c \in Blocks, c \in Range(header) PROVE Settled(c)
        BY <2>1, Zenon
      <3>1. PICK i \in 1..Len(header) : c = header[i]
        BY <1>0, HeaderFacts, Zenon
      <3> QED BY <3>1, <2>1, Zenon
    <2>3. \A c \in Blocks : Settled(c)'
      BY <2>2, <1>u, Zenon DEF Settled, Coherent, cacheVars, ghostVars
    <2>4. \A q \in Procs : pc'[q] \notin {"log", "commit", "persist", "clear"}
      BY <1>a, <1>p, Zenon DEF Checkpointing
    <2> QED BY <2>3, <2>4, <1>u, CleanPhases, Zenon
  <1> QED BY <1>1, <1>2, <1>3, <1>4, <1>5, Zenon DEF LogInv

\* Clearing committing in cache_end_op keeps LogInv.
LEMMA StopCommittingInv ==
    ASSUME LogInv, NEW p \in Procs, StopCommitting(p)
    PROVE  LogInv'
  <1> USE LogAssumption
  <1>0. TypeOK
    BY Zenon DEF LogInv
  <1>u. /\ up /\ pc[p] = "done" /\ committing' = FALSE
        /\ pc' = [pc EXCEPT ![p] = "post_commit"]
        /\ UNCHANGED <<diskVars, cacheVars, header, outstanding, log_used, rm, ci,
                       up, ghostVars>>
    BY Zenon DEF StopCommitting, Goto
  <1>a. /\ committing /\ up /\ \A q \in Procs : pc[q] # "op"
        /\ \A q \in Procs : q # p => pc[q] \notin Checkpointing
    BY <1>u, CommitterAlone, Zenon DEF Checkpointing
  <1>p. \A q \in Procs : /\ q # p => pc'[q] = pc[q]
                         /\ q = p => pc'[q] = "post_commit"
    BY <1>0, <1>u, Zenon DEF TypeOK
  <1>1. TypeOK'
    BY <1>0, <1>u, Zenon DEF TypeOK, PCs, diskVars, cacheVars, ghostVars
  <1>2. OpsCounted' /\ LogSpace' /\ OpBudget'
    <2>1. {q \in Procs : pc'[q] = "op"} = {q \in Procs : pc[q] = "op"}
      BY <1>p, <1>u, Zenon
    <2> QED BY <2>1, <1>a, <1>u, <1>p, Zenon DEF LogInv, OpsCounted, LogSpace, Reserved,
               OpBudget, ghostVars
  <1>3. HeldCached' /\ HeaderDistinct' /\ BootClean'
    BY <1>u, Zenon DEF LogInv, HeldCached, HeaderDistinct, BootClean, cacheVars
  <1>4. CommitExclusive'
    BY <1>a, <1>p, <1>u, Zenon DEF CommitExclusive, Checkpointing
  <1>5. CheckpointPhases'
    <2>1. \A q \in Procs, ph \in {"log", "commit", "persist", "clear"} :
              pc'[q] = ph <=> pc[q] = ph
      BY <1>u, <1>p, Zenon
    <2> QED BY <2>1, <1>u, PhasesFrame, Zenon DEF LogInv, cacheVars, ghostVars
  <1> QED BY <1>1, <1>2, <1>3, <1>4, <1>5, Zenon DEF LogInv
-----------------------------------------------------------------------------
(* Crash and recovery.                                                      *)

\* The header on disk is empty or the one in memory, so its entries are
\* distinct and recovery reads entry i from log slot i.
LEMMA HeadOnDisk ==
    ASSUME LogInv
    PROVE  /\ logHead = <<>> \/ logHead = header
           /\ Len(logHead) \in 0..MaxSize
           /\ \A i \in 1..Len(logHead) : Recovered[logHead[i]] = logArea[i]
           /\ Recovered \in [Blocks -> Values]
  <1> USE LogAssumption
  <1>0. TypeOK
    BY Zenon DEF LogInv
  <1>1. logHead = <<>> \/ logHead = header
    BY Zenon DEF LogInv, CheckpointPhases, BootClean
  <1>2. Len(header) \in 0..MaxSize
    BY <1>0 DEF LogInv, LogSpace, TypeOK
  <1>3. Len(logHead) \in 0..MaxSize
    BY <1>1, <1>2
  <1>4. \A i, j \in 1..Len(logHead) : logHead[i] = logHead[j] => i = j
    BY <1>1 DEF LogInv, HeaderDistinct
  <1>5. \A i \in 1..Len(logHead) : Recovered[logHead[i]] = logArea[i]
    <2> TAKE i \in 1..Len(logHead)
    <2> DEFINE k == CHOOSE j \in DOMAIN logHead : logHead[j] = logHead[i]
    <2>1. i \in DOMAIN logHead /\ logHead[i] \in Blocks
      BY <1>0 DEF TypeOK
    <2>2. k \in DOMAIN logHead /\ logHead[k] = logHead[i]
      BY <2>1, Zenon
    <2>3. Recovered[logHead[i]] = logArea[k]
      BY <2>1, Zenon DEF Recovered, Range
    <2> HIDE DEF k
    <2> QED BY <2>2, <2>3, <1>4, <1>0 DEF TypeOK
  <1>6. ASSUME NEW c \in Blocks PROVE Recovered[c] \in Values
    <2>1. CASE c \in Range(logHead)
      <3>1. PICK i \in 1..Len(logHead) : c = logHead[i]
        BY <2>1, <1>0, DiskHeaderFacts, Zenon
      <3> QED BY <3>1, <1>5, <1>3, <1>0 DEF TypeOK
    <2>2. CASE c \notin Range(logHead)
      BY <2>2, <1>0, Zenon DEF Recovered, TypeOK
    <2> QED BY <2>1, <2>2, Zenon
  <1>7. Recovered \in [Blocks -> Values]
    BY <1>6, Zenon DEF Recovered
  <1> QED BY <1>1, <1>3, <1>5, <1>7, Zenon

\* A crash at any step leaves a disk that recovery can work from.
LEMMA CrashInv ==
    ASSUME LogInv, Crash
    PROVE  LogInv'
  <1> USE LogAssumption
  <1>0. TypeOK
    BY Zenon DEF LogInv
  <1>1. TypeOK'
    <2>1. latest' \in [Blocks -> Values]
      BY HeadOnDisk, Zenon DEF Crash
    <2>2. pc' \in [Procs -> PCs]
      BY Zenon DEF Crash, PCs
    <2>3. /\ rm' \in [Procs -> 0..OpMax]
          /\ held' \in [Procs -> Blocks \cup {NoBlock}]
          /\ cache' \in [Blocks -> Values \cup {NoData}]
          /\ dirty' \in [Procs -> SUBSET Blocks]
      BY DEF Crash
    <2>4. disk' \in [Blocks -> Values] /\ logArea' \in [1..MaxSize -> Values]
      BY <1>0, Zenon DEF Crash, diskVars, TypeOK
    <2>5. logHead' \in Seq(Blocks) /\ header' \in Seq(Blocks) /\ pinned' \subseteq Blocks
      BY <1>0, Zenon DEF Crash, diskVars, TypeOK
    <2>6. committing' \in BOOLEAN /\ up' \in BOOLEAN
      BY Zenon DEF Crash
    <2>7. outstanding' \in Nat /\ log_used' \in Nat /\ ci' \in Nat \ {0}
      BY DEF Crash
    <2> QED BY <2>1, <2>2, <2>3, <2>4, <2>5, <2>6, <2>7, Zenon DEF TypeOK
  <1>2. OpsCounted' /\ LogSpace'
    <2>1. {q \in Procs : pc'[q] = "op"} = {} /\ Reserved' = {}
      BY DEF Crash, Reserved
    <2>2. Cardinality({}) = 0
      BY FS_EmptySet, Zenon
    <2>3. Len(header') \in 0..MaxSize
      BY HeadOnDisk, Zenon DEF Crash
    <2>4. OpsCounted'
      BY <2>1, <2>2, Zenon DEF Crash, OpsCounted
    <2> QED BY <2>1, <2>2, <2>3, <2>4 DEF Crash, LogSpace
  <1>3. HeldCached' /\ BootClean' /\ OpBudget' /\ CommitExclusive'
    BY Zenon DEF Crash, HeldCached, BootClean, OpBudget, CommitExclusive, Checkpointing,
           diskVars
  <1>4. HeaderDistinct'
    BY HeadOnDisk, SMTT(30) DEF Crash, HeaderDistinct, LogInv
  <1>5. CheckpointPhases'
    <2>1. \A c \in Blocks \ Range(header') : Settled(c)'
      BY Zenon DEF Crash, Settled, Coherent, Recovered, diskVars
    <2>2. ASSUME NEW i \in 1..Len(header') PROVE Logged(i)'
      BY <2>2, HeadOnDisk, Zenon DEF Crash, Logged, diskVars
    <2>3. ~up' /\ ci' = 1 /\ \A q \in Procs : pc'[q] = "idle"
      BY Zenon DEF Crash
    <2> QED BY <2>1, <2>2, <2>3, SMTT(30) DEF CheckpointPhases
  <1> QED BY <1>1, <1>2, <1>3, <1>4, <1>5, Zenon DEF LogInv

\* recover_from_log copies one logged block home; it may be repeated.
LEMMA RecoverBlockInv ==
    ASSUME LogInv, RecoverBlock
    PROVE  LogInv'
  <1> USE LogAssumption
  <1>0. TypeOK
    BY Zenon DEF LogInv
  <1>u. /\ ~up /\ ci \in 1..Len(header)
        /\ disk' = [disk EXCEPT ![header[ci]] = logArea[ci]] /\ ci' = ci + 1
        /\ UNCHANGED <<logArea, logHead, cacheVars, logVars, pc, up, ghostVars>>
    BY <1>0, SMTT(30) DEF RecoverBlock, TypeOK
  <1>h. header[ci] \in Blocks /\ Logged(ci) /\ Len(header) \in 0..MaxSize
    BY <1>u, <1>0, SMTT(30) DEF TypeOK, LogInv, CheckpointPhases, LogSpace
  <1>1. TypeOK'
    <2>1. logArea[ci] \in Values
      BY <1>h, <1>u, <1>0, SMTT(30) DEF TypeOK
    <2> QED BY <2>1, <1>h, <1>u, <1>0, SMTT(30) DEF TypeOK, cacheVars, logVars, ghostVars
  <1>2. OpsCounted' /\ LogSpace' /\ OpBudget'
    BY <1>u, Zenon DEF LogInv, OpsCounted, LogSpace, Reserved, OpBudget, logVars, ghostVars
  <1>3. HeldCached' /\ HeaderDistinct' /\ BootClean' /\ CommitExclusive'
    BY <1>u, Zenon DEF LogInv, HeldCached, HeaderDistinct, BootClean, CommitExclusive,
                cacheVars, logVars
  <1>4. CheckpointPhases'
    <2>1. /\ header' = header /\ latest' = latest /\ logArea' = logArea
          /\ cache' = cache /\ ~up' /\ \A q \in Procs : pc'[q] = "idle"
      BY <1>u, Zenon DEF LogInv, BootClean, logVars, cacheVars, ghostVars
    <2>2. \A c \in Blocks \ Range(header) : Settled(c)'
      <3>1. header[ci] \in Range(header)
        BY <1>u, <1>0, HeaderFacts, Zenon
      <3> QED BY ZenonT(60), <3>1, <2>1, <1>u, <1>0
              DEF LogInv, CheckpointPhases, Settled, Coherent, TypeOK
    <2>3. ASSUME NEW i \in 1..Len(header)
          PROVE  Logged(i)' /\ (i < ci' => disk'[header[i]] = latest[header[i]])
      <3>1. Logged(i) /\ (i < ci => disk[header[i]] = latest[header[i]])
        BY Zenon, <1>u DEF LogInv, CheckpointPhases
      <3>2. header[i] \in Blocks /\ (i < ci' => i < ci \/ i = ci)
        BY SMTT(30), <1>u, <1>0 DEF TypeOK
      <3> QED BY <3>1, <3>2, <2>1, <1>u, <1>h, <1>0, Zenon DEF Logged, TypeOK
    <2> QED BY <2>1, <2>2, <2>3, Zenon DEF CheckpointPhases
  <1> QED BY <1>1, <1>2, <1>3, <1>4, Zenon DEF LogInv

\* When the header is cleared every logged block has been copied home.
LEMMA RecoverDoneInv ==
    ASSUME LogInv, RecoverDone
    PROVE  LogInv'
  <1> USE LogAssumption
  <1>0. TypeOK
    BY Zenon DEF LogInv
  <1>u. /\ ~up /\ ci > Len(header) /\ header' = <<>> /\ logHead' = <<>>
        /\ ci' = 1 /\ up' = TRUE
        /\ UNCHANGED <<disk, logArea, cacheVars, outstanding, log_used, committing,
                       rm, pc, ghostVars>>
    BY Zenon DEF RecoverDone
  <1>b. /\ \A b \in Blocks : cache[b] = NoData
        /\ \A q \in Procs : pc[q] = "idle"
    BY <1>u, Zenon DEF LogInv, BootClean
  <1>1. TypeOK'
    BY <1>u, <1>0, SMTT(30) DEF TypeOK, cacheVars, ghostVars
  <1>2. OpsCounted' /\ LogSpace' /\ OpBudget'
    <2>1. Len(header') = 0 /\ Len(header) \in Nat
      BY <1>u, <1>0, SMTT(30) DEF TypeOK
    <2>2. LogSpace'
      BY <2>1, <1>u, <1>0, SMTT(30) DEF LogInv, LogSpace, Reserved, TypeOK
    <2> QED BY <2>2, <1>b, <1>u, Zenon DEF LogInv, OpsCounted, OpBudget, ghostVars
  <1>3. HeldCached' /\ HeaderDistinct' /\ BootClean' /\ CommitExclusive'
    BY <1>u, SMTT(30) DEF LogInv, HeldCached, HeaderDistinct, BootClean, CommitExclusive,
                cacheVars
  <1>4. CheckpointPhases'
    <2>1. \A c \in Blocks : disk[c] = latest[c]
      <3> SUFFICES ASSUME NEW c \in Blocks, c \in Range(header)
                   PROVE  disk[c] = latest[c]
        BY Zenon DEF LogInv, CheckpointPhases, Settled
      <3>1. PICK i \in 1..Len(header) : c = header[i]
        BY <1>0, HeaderFacts, Zenon
      <3>2. i < ci
        BY <1>u, <1>0, SMTT(30) DEF TypeOK
      <3> QED BY ZenonT(60), <3>1, <3>2, <1>u DEF LogInv, CheckpointPhases
    <2>2. \A c \in Blocks : Settled(c)'
      BY <2>1, <1>b, <1>u, Zenon DEF Settled, Coherent, cacheVars, ghostVars
    <2>3. \A q \in Procs : pc'[q] \notin {"log", "commit", "persist", "clear"}
      BY <1>b, <1>u, Zenon
    <2> QED BY <2>2, <2>3, <1>u, CleanPhases, Zenon
  <1> QED BY <1>1, <1>2, <1>3, <1>4, Zenon DEF LogInv

-----------------------------------------------------------------------------
(* The theorems.                                                            *)

\* Every step, of a process or of the machine, preserves the invariant.
LEMMA NextInv ==
    ASSUME LogInv, [Next]_vars
    PROVE  LogInv'
  <1>1. ASSUME NEW p \in Procs, Step(p) PROVE LogInv'
    <2>1. CASE Checkpoint(p)
      BY ZenonT(60), <2>1, WriteBlockToLogInv, WriteHeaderInv, PersistFromLogInv, ClearHeaderInv,
         StopCommittingInv, PostCommitInv, PostLogInv DEF Checkpoint
    <2> QED BY Zenon, <1>1, <2>1, AcquireInv, UpdateInv, ReleaseInv, CallInv, BeginOpInv,
               BeginSleepInv, EndOpInv DEF Step
  <1>2. CASE UNCHANGED vars
    <2>1. /\ UNCHANGED <<disk, logArea, logHead, header, cache, pinned, held>>
          /\ UNCHANGED <<outstanding, log_used, committing, rm, pc, ci, up>>
          /\ UNCHANGED <<latest, dirty>>
      BY <1>2, Zenon DEF vars, diskVars, cacheVars, logVars, ghostVars
    <2>2. TypeOK' /\ BootClean'
      BY <2>1, Zenon DEF LogInv, TypeOK, BootClean
    <2>3. OpsCounted' /\ LogSpace' /\ OpBudget'
      BY <2>1, Zenon DEF LogInv, OpsCounted, LogSpace, Reserved, OpBudget
    <2>4. HeldCached' /\ HeaderDistinct' /\ CommitExclusive'
      BY <2>1, Zenon DEF LogInv, HeldCached, HeaderDistinct, CommitExclusive
    <2>5. CheckpointPhases'
      BY <2>1, Zenon DEF LogInv, CheckpointPhases, Settled, Coherent, Logged, Pending
    <2> QED BY <2>2, <2>3, <2>4, <2>5, Zenon DEF LogInv
  <1> QED BY <1>1, <1>2, CrashInv, RecoverBlockInv, RecoverDoneInv, Zenon DEF Next, Running

\* The invariant of the log and its checkpoint holds in every reachable state,
\* for any number of processes, blocks, contents and any log size.
THEOREM LogInvariant == Spec => []LogInv
  BY InitInv, NextInv, PTL DEF Spec

\* Write-ahead order: every phase of checkpoint() and of recover_from_log()
\* finds cache, log area and home locations in the state it relies on.
THEOREM WriteAhead == Spec => [](TypeOK /\ CheckpointPhases)
  <1>1. LogInv => TypeOK /\ CheckpointPhases
    BY Zenon DEF LogInv
  <1> QED BY <1>1, LogInvariant, PTL

\* cache_begin_op never admits an operation whose blocks might not fit.
THEOREM LogSpaceSuffices == Spec => []LogSpace
  <1>1. LogInv => LogSpace
    BY Zenon DEF LogInv
  <1> QED BY <1>1, LogInvariant, PTL

\* checkpoint() is exclusive although it runs without log_lock.
THEOREM CheckpointExclusive == Spec => []CommitExclusive
  <1>1. LogInv => CommitExclusive
    BY Zenon DEF LogInv
  <1> QED BY <1>1, LogInvariant, PTL

\* cache_sync does not reach its PANIC for an operation within its budget.
THEOREM NoSyncPanic == Spec => []SyncNeverPanics
  <1>1. ASSUME LogInv PROVE SyncNeverPanics
    <2> USE LogAssumption
    <2>1. SUFFICES ASSUME NEW p \in Procs, NEW b \in Blocks, pc[p] = "op",
                          WithinOp(p, b), b \notin Range(header)
                   PROVE  rm[p] > 0
      BY Zenon DEF SyncNeverPanics
    <2>2. /\ dirty[p] \subseteq Range(header) /\ rm[p] + Cardinality(dirty[p]) >= OpMax
          /\ dirty[p] \in SUBSET Blocks /\ rm[p] \in 0..OpMax
      BY <1>1, <2>1, Zenon DEF LogInv, OpBudget, TypeOK
    <2>3. IsFiniteSet(dirty[p]) /\ Cardinality(dirty[p]) \in Nat
      BY <2>2, FS_Subset, FS_CardinalityType, Zenon
    <2>4. Cardinality(dirty[p] \cup {b}) = Cardinality(dirty[p]) + 1
      BY <2>1, <2>2, <2>3, FS_AddElement, Zenon
    <2>5. Cardinality(dirty[p] \cup {b}) <= OpMax
      BY <2>1, Zenon DEF WithinOp
    <2> QED BY <2>2, <2>3, <2>4, <2>5
  <1> QED BY <1>1, LogInvariant, PTL

\* An operation reads what was last synced, across evictions, checkpoints and
\* readers that run outside operations.
THEOREM OpReads == Spec => []OpReadsLatest
  <1>1. ASSUME LogInv PROVE OpReadsLatest
    <2>1. SUFFICES ASSUME NEW p \in Procs, pc[p] = "op", held[p] # NoBlock
                   PROVE  cache[held[p]] = latest[held[p]]
      BY Zenon DEF OpReadsLatest
    <2>2. TypeOK /\ held[p] \in Blocks /\ cache[held[p]] # NoData
      BY <1>1, <2>1, Zenon DEF LogInv, TypeOK, HeldCached
    <2>3. up /\ \A q \in Procs : pc[q] \notin Checkpointing
      BY <1>1, <2>1, Zenon DEF LogInv, BootClean, CommitExclusive
    <2>4. CASE held[p] \in Range(header)
      <3>1. PICK i \in 1..Len(header) : held[p] = header[i]
        BY <2>2, <2>4, HeaderFacts, Zenon
      <3>2. Pending(i)
        BY ZenonT(60), <1>1, <2>3 DEF LogInv, CheckpointPhases, Checkpointing
      <3> QED BY <3>1, <3>2, Zenon DEF Pending
    <2>5. CASE held[p] \notin Range(header)
      BY ZenonT(60), <1>1, <2>2, <2>5 DEF LogInv, CheckpointPhases, Settled, Coherent
    <2> QED BY <2>4, <2>5, Zenon
  <1> QED BY <1>1, LogInvariant, PTL
-----------------------------------------------------------------------------
(* Refinement of AtomicStore.                                               *)

\* With an empty header on disk recovery changes nothing.
LEMMA BeforeCommit == TypeOK /\ logHead = <<>> => Recovered = disk
  BY DEF Recovered, Range, TypeOK

\* From the commit point on, and during recovery, recovery would bring back
\* the latest content of every block.
LEMMA AfterCommit ==
    LogInv /\ (~up \/ \E p \in Procs : pc[p] \in {"persist", "clear"})
        => Recovered = latest
  <1> SUFFICES ASSUME LogInv, ~up \/ \E p \in Procs : pc[p] \in {"persist", "clear"}
               PROVE  Recovered = latest
    BY Zenon
  <1>1. DOMAIN logHead = 1..Len(logHead) /\ latest \in [Blocks -> Values]
    BY SMTT(30) DEF LogInv, TypeOK
  <1>2. logHead = header /\ \A i \in 1..Len(header) : Logged(i)
    BY Zenon DEF LogInv, CheckpointPhases, BootClean
  <1>3. ASSUME NEW c \in Blocks PROVE Recovered[c] = latest[c]
    <2>1. CASE c \in Range(logHead)
      <3>1. PICK i \in 1..Len(logHead) : c = logHead[i]
        BY <2>1, <1>1, Zenon DEF Range
      <3> QED BY <3>1, <1>2, HeadOnDisk, Zenon DEF Logged
    <2>2. CASE c \notin Range(logHead)
      BY ZenonT(60), <2>2, <1>2 DEF LogInv, CheckpointPhases, Settled, Recovered
    <2> QED BY <2>1, <2>2, Zenon
  <1> QED BY <1>1, <1>3, Zenon DEF Recovered

\* Both facts hold in the state after a step as well.
LEMMA BeforeCommitNext == (TypeOK /\ logHead = <<>> => Recovered = disk)'
  BY BeforeCommit, PTL

\* See AfterCommit.
LEMMA AfterCommitNext ==
    (LogInv /\ (~up \/ \E p \in Procs : pc[p] \in {"persist", "clear"})
        => Recovered = latest)'
  BY AfterCommit, PTL

\* Steps that leave the disk alone leave alone what recovery would bring back.
LEMMA SameDisk == UNCHANGED diskVars => Recovered' = Recovered
  BY DEF Recovered, diskVars

\* A step of the checkpoint is a stutter, or the abstract Commit.
LEMMA CheckpointRefines ==
    ASSUME LogInv, LogInv', NEW p \in Procs, Checkpoint(p)
    PROVE  [Store!Next]_Store!store
  <1>0. TypeOK /\ TypeOK' /\ pc \in [Procs -> PCs] /\ up
    BY Zenon DEF LogInv, TypeOK, Checkpoint, WriteBlockToLog, WriteHeader, PersistFromLog,
           ClearHeader, StopCommitting, PostCommit, PostLog
  <1>1. ASSUME NEW to \in PCs, to # "op", pc[p] # "op", pc' = [pc EXCEPT ![p] = to]
        PROVE  InOp' = InOp
    BY <1>0, <1>1, Zenon DEF InOp
  <1>2. CASE WriteBlockToLog(p)
    <2>1. logHead = <<>> /\ UNCHANGED <<logHead, disk, latest>>
      BY <1>2, Zenon DEF WriteBlockToLog, LogInv, CheckpointPhases, ghostVars
    <2>2. Recovered' = Recovered
      BY <2>1, <1>0, BeforeCommit, BeforeCommitNext, Zenon
    <2>3. InOp' = InOp
      BY <1>2, <1>1, Zenon DEF WriteBlockToLog, Goto, InOp, PCs, Checkpointing
    <2> QED BY <2>1, <2>2, <2>3, Zenon DEF Store!store
  <1>3. CASE WriteHeader(p)
    <2>1. pc'[p] = "persist" /\ latest' = latest /\ pc[p] = "commit"
      BY <1>3, <1>0, Zenon DEF WriteHeader, Goto
    <2>2. Recovered' = latest
      BY <2>1, AfterCommitNext, Zenon
    <2>3. InOp = {}
      BY <2>1, CommitterAlone, Zenon DEF InOp, Checkpointing
    <2>4. InOp' = InOp
      BY <1>3, <1>1, Zenon DEF WriteHeader, Goto, PCs, Checkpointing
    <2> QED BY <2>1, <2>2, <2>3, <2>4, Zenon DEF Store!Next, Store!Commit
  <1>4. CASE PersistFromLog(p)
    <2>1. pc[p] = "persist" /\ pc'[p] \in {"persist", "clear"} /\ latest' = latest
      BY <1>4, <1>0, Zenon DEF PersistFromLog, Goto, ghostVars
    <2>2. Recovered = latest /\ Recovered' = latest'
      BY <2>1, AfterCommit, AfterCommitNext, Zenon
    <2>3. InOp' = InOp
      BY <1>4, <1>1, Zenon DEF PersistFromLog, Goto, InOp, PCs, Checkpointing
    <2> QED BY <2>1, <2>2, <2>3, Zenon DEF Store!store
  <1>5. CASE ClearHeader(p)
    <2>1. /\ pc[p] = "clear" /\ pc'[p] = "done" /\ latest' = latest
          /\ logHead' = <<>> /\ disk' = disk /\ up'
      BY <1>5, <1>0, Zenon DEF ClearHeader, Goto, ghostVars
    <2>2. Recovered = latest /\ Recovered' = disk
      BY <2>1, <1>0, AfterCommit, BeforeCommitNext, Zenon
    <2>3. disk = latest
      <3>1. \A c \in Blocks \ Range(header) : disk[c] = latest[c]
        BY Zenon DEF LogInv, CheckpointPhases, Settled
      <3>2. \A i \in 1..Len(header) : disk[header[i]] = latest[header[i]]
        BY ZenonT(60), <2>1 DEF LogInv, CheckpointPhases, Settled
      <3>3. \A c \in Range(header) : \E i \in 1..Len(header) : c = header[i]
        BY <1>0, HeaderFacts, Zenon
      <3>4. \A c \in Blocks : disk[c] = latest[c]
        BY <3>1, <3>2, <3>3
      <3> QED BY <3>4, <1>0, SMTT(30) DEF TypeOK
    <2>4. InOp' = InOp
      BY <1>5, <1>1, Zenon DEF ClearHeader, Goto, PCs, Checkpointing
    <2> QED BY <2>1, <2>2, <2>3, <2>4, Zenon DEF Store!store
  <1>6. CASE StopCommitting(p)
    <2>1. InOp' = InOp
      BY <1>6, <1>1, Zenon DEF StopCommitting, Goto, PCs
    <2> QED BY <2>1, <1>6, SameDisk, Zenon DEF StopCommitting, Store!store, ghostVars
  <1>7. CASE PostCommit(p) \/ PostLog(p)
    <2>1. InOp' = InOp
      BY <1>7, <1>0, Zenon DEF PostCommit, PostLog, WakeAll, InOp
    <2> QED BY <2>1, <1>7, SameDisk, Zenon DEF PostCommit, PostLog, Store!store, ghostVars
  <1> QED BY <1>2, <1>3, <1>4, <1>5, <1>6, <1>7, Zenon DEF Checkpoint

\* begin_op, sync and end_op are the abstract Begin, Write and End; taking and
\* releasing blocks, and sleeping in begin_op, are stutters.
LEMMA StepRefines ==
    ASSUME LogInv, LogInv', NEW p \in Procs, Step(p)
    PROVE  [Store!Next]_Store!store
  <1>0. pc \in [Procs -> PCs] /\ pc' \in [Procs -> PCs]
    BY Zenon DEF LogInv, TypeOK
  <1>1. ASSUME NEW b \in Blocks, Acquire(p, b) PROVE [Store!Next]_Store!store
    BY <1>1, SameDisk, Zenon DEF Acquire, Store!store, ghostVars, InOp
  <1>2. CASE Release(p)
    BY <1>2, SameDisk, Zenon DEF Release, Store!store, ghostVars, InOp
  <1>3. CASE Call(p) \/ BeginSleep(p)
    <2>1. InOp' = InOp
      BY <1>3, <1>0, Zenon DEF Call, BeginSleep, Goto, InOp
    <2> QED BY <1>3, <2>1, SameDisk, Zenon DEF Call, BeginSleep, Store!store, ghostVars
  <1>4. CASE BeginOp(p)
    <2>1. Recovered' = Recovered /\ latest' = latest
      BY <1>4, SameDisk, Zenon DEF BeginOp, ghostVars
    <2>2. p \notin InOp /\ (InOp' = InOp \/ InOp' = InOp \cup {p})
      BY <1>4, <1>0, Zenon DEF BeginOp, MustWait, Goto, InOp
    <2> QED BY <2>1, <2>2, Zenon DEF Store!store, Store!Next, Store!Begin
  <1>5. ASSUME NEW v \in Values, Update(p, v) PROVE [Store!Next]_Store!store
    <2>1. /\ Recovered' = Recovered /\ InOp' = InOp /\ p \in InOp
          /\ held[p] # NoBlock /\ latest' = [latest EXCEPT ![held[p]] = v]
      BY <1>5, SameDisk, Zenon DEF Update, InOp
    <2>2. held[p] \in Blocks
      BY <2>1, Zenon DEF LogInv, TypeOK
    <2>3. Store!Write(p, held[p], v)
      BY <2>1, Zenon DEF Store!Write
    <2> QED BY <2>2, <2>3, Zenon DEF Store!Next
  <1>6. CASE EndOp(p)
    <2>1. Recovered' = Recovered /\ latest' = latest
      BY <1>6, SameDisk, Zenon DEF EndOp, ghostVars
    <2>2. p \in InOp /\ InOp' = InOp \ {p}
      BY <1>6, <1>0, Zenon DEF EndOp, Goto, WakeAll, InOp
    <2> QED BY <2>1, <2>2, Zenon DEF Store!store, Store!Next, Store!End
  <1>7. CASE Checkpoint(p)
    BY <1>7, CheckpointRefines, Zenon
  <1> QED BY <1>1, <1>2, <1>3, <1>4, <1>5, <1>6, <1>7, Zenon DEF Step

\* The log implements the atomic store: the specification of fs/cache.c's log
\* with crashes refines AtomicStore, so that no crash exposes part of an
\* operation or forgets a committed one.
THEOREM CrashAtomicity == Spec => Atomic
  <1>1. Init => Store!Init
    <2> SUFFICES ASSUME Init PROVE Store!Init
      BY Zenon
    <2>1. TypeOK /\ logHead = <<>>
      BY InitInv, Zenon DEF LogInv, Init
    <2>2. InOp = {}
      BY Zenon DEF Init, InOp
    <2> QED BY <2>1, <2>2, BeforeCommit, Zenon DEF Init, Store!Init
  <1>2. ASSUME LogInv, LogInv', [Next]_vars PROVE [Store!Next]_Store!store
    <2>1. CASE Crash
      <3>1. Recovered' = Recovered /\ latest' = Recovered
        BY <2>1, SameDisk, Zenon DEF Crash
      <3>2. InOp' = {}
        BY <2>1, Zenon DEF Crash, InOp
      <3> QED BY <3>1, <3>2, Zenon DEF Store!Next, Store!Crash
    <2>2. CASE RecoverBlock \/ RecoverDone
      <3>1. ~up /\ latest' = latest /\ InOp' = InOp
        BY <2>2, Zenon DEF RecoverBlock, RecoverDone, ghostVars, InOp
      <3>2. Recovered = latest
        BY <1>2, <3>1, AfterCommit, Zenon
      <3>3. Recovered' = latest'
        <4>1. CASE RecoverBlock
          BY <1>2, <4>1, AfterCommitNext, Zenon DEF RecoverBlock
        <4>2. CASE RecoverDone
          <5>1. logHead' = <<>> /\ header' = <<>> /\ TypeOK'
            BY <4>2, <1>2, Zenon DEF RecoverDone, LogInv
          <5>2. \A c \in Blocks : disk'[c] = latest'[c]
            <6>1. Range(header') = {}
              BY <5>1, SMTT(30) DEF Range
            <6>2. \A c \in Blocks \ Range(header') : disk'[c] = latest'[c]
              BY ZenonT(60), <1>2 DEF LogInv, CheckpointPhases, Settled
            <6> QED BY <6>1, <6>2, Zenon
          <5> QED BY <5>1, <5>2, BeforeCommitNext, SMTT(30) DEF TypeOK
        <4> QED BY <2>2, <4>1, <4>2, Zenon
      <3> QED BY <3>1, <3>2, <3>3, Zenon DEF Store!store
    <2>3. CASE UNCHANGED vars
      BY <2>3, SameDisk, Zenon DEF vars, ghostVars, Store!store, InOp
    <2> QED BY <1>2, <2>1, <2>2, <2>3, StepRefines, Zenon DEF Next, Running
  <1> QED BY <1>1, <1>2, LogInvariant, PTL DEF Spec, Atomic, Store!Spec

\* All that fs/cache.c promises its callers between begin_op and end_op, for any
\* number of processes and blocks and with crashes at any step.
THEOREM LogIsSafe == Spec => []LogSafe
  <1>1. LogInv => TypeOK /\ LogSpace /\ CommitExclusive
    BY Zenon DEF LogInv
  <1>2. (TypeOK /\ LogSpace /\ CommitExclusive) /\ SyncNeverPanics /\ OpReadsLatest => LogSafe
    BY Zenon DEF LogSafe
  <1> QED BY <1>1, <1>2, LogInvariant, NoSyncPanic, OpReads, PTL
=============================================================================
