-------------------------------- MODULE Log --------------------------------
(* The write-ahead log of fs/cache.c: begin_op, sync, end_op, checkpoint,   *)
(* and recover_from_log after a crash at any step.                          *)
(*                                                                          *)
(* log_lock is held across steps only between the test in begin_op and the  *)
(* sleep that follows (pc "begin_sleep"); every other critical section is   *)
(* one step.  committing is cleared, and both semaphores are posted,        *)
(* without log_lock, so these are steps of their own.  A block is held from *)
(* acquire to release; how waiters for a held block queue up is the subject *)
(* of module BlockCache, which block the LRU list evicts first is too.      *)
EXTENDS Integers, Sequences, FiniteSets, Functions

CONSTANTS Procs,       \* processes that run file system calls
          Readers,     \* those that also read blocks outside operations (fileread)
          Blocks,      \* home blocks of the file system
          Values,      \* block contents
          OpMax,       \* OP_MAX_NUM_BLOCKS
          MaxSize,     \* log.max_size
          Threshold,   \* EVICTION_THRESHOLD
          NoBlock, NoData

ASSUME LogAssumption ==
    /\ IsFiniteSet(Procs) /\ Readers \subseteq Procs
    /\ IsFiniteSet(Blocks) /\ NoBlock \notin Blocks /\ NoData \notin Values
    /\ OpMax \in Nat \ {0} /\ MaxSize \in Nat /\ OpMax <= MaxSize
    /\ Threshold \in Nat \ {0}

VARIABLES disk,        \* home location of each block
          logArea,     \* log slots on disk, log_start + 1 + i
          logHead,     \* log header on disk
          header,      \* in-memory log header
          cache,       \* content of each cached block, NoData when not cached
          pinned,      \* blocks whose pinned flag is set
          held,        \* the block each process has acquired
          outstanding, log_used, committing,
          rm,          \* ctx->rm of each process's operation
          pc,          \* where each process is
          ci,          \* loop index of checkpoint or of recover_from_log
          up,          \* FALSE while init_bcache recovers
          latest,      \* ghost: content last given to sync for each block
          dirty        \* ghost: blocks updated by each operation, not yet durable

diskVars == <<disk, logArea, logHead>>
cacheVars == <<cache, pinned, held>>
logVars == <<header, outstanding, log_used, committing, rm>>
ghostVars == <<latest, dirty>>
vars == <<diskVars, cacheVars, logVars, pc, ci, up, ghostVars>>

\* places inside checkpoint, with committing set
Checkpointing == {"log", "commit", "persist", "clear", "done"}
PCs == {"idle", "begin", "begin_sleep", "begin_wait", "op", "end_wait",
        "post_commit", "post_log"} \cup Checkpointing

\* The types of the log's and the cache's state.
TypeOK ==
    /\ disk \in [Blocks -> Values]
    /\ logArea \in [1..MaxSize -> Values]
    /\ logHead \in Seq(Blocks) /\ header \in Seq(Blocks)
    /\ cache \in [Blocks -> Values \cup {NoData}]
    /\ pinned \subseteq Blocks
    /\ held \in [Procs -> Blocks \cup {NoBlock}]
    /\ outstanding \in Nat /\ log_used \in Nat /\ committing \in BOOLEAN
    /\ rm \in [Procs -> 0..OpMax]
    /\ pc \in [Procs -> PCs]
    /\ ci \in Nat \ {0} /\ up \in BOOLEAN
    /\ latest \in [Blocks -> Values]
    /\ dirty \in [Procs -> SUBSET Blocks]

Init ==
    /\ disk \in [Blocks -> Values] /\ latest = disk
    /\ \E v \in Values : logArea = [i \in 1..MaxSize |-> v]
    /\ logHead = <<>> /\ header = <<>>
    /\ cache = [b \in Blocks |-> NoData] /\ pinned = {}
    /\ held = [p \in Procs |-> NoBlock]
    /\ outstanding = 0 /\ log_used = 0 /\ committing = FALSE
    /\ rm = [p \in Procs |-> 0]
    /\ pc = [p \in Procs |-> "idle"]
    /\ ci = 1 /\ up = TRUE
    /\ dirty = [p \in Procs |-> {}]
-----------------------------------------------------------------------------
Goto(p, to) == pc' = [pc EXCEPT ![p] = to]

\* post_all_sem wakes every sleeper, which goes on at `to`; sleepers at `at`
WakeAll(at, to) == [q \in Procs |-> IF pc[q] = at THEN to ELSE pc[q]]

LogLockFree == \A p \in Procs : pc[p] # "begin_sleep"

Cached == {b \in Blocks : cache[b] # NoData}
Held == {held[p] : p \in Procs} \ {NoBlock}

\* mutant of LRU_shrink: pinned blocks may go
LRU_shrink_Pinned(b) ==
    LET evictable == Cached \ Held
        excess == Cardinality(Cached) - Threshold + 1
    IN  IF b \in Cached \/ excess <= 0 THEN {{}}
        ELSE {E \in SUBSET evictable :
                \/ Cardinality(E) = excess
                \/ E = evictable /\ Cardinality(E) < excess}

\* LRU_shrink, called by an acquire of b that misses: unpinned blocks nobody
\* holds go until the count drops below the threshold
LRU_shrink(b) ==
    LET evictable == Cached \ (pinned \cup Held)
        excess == Cardinality(Cached) - Threshold + 1
    IN  IF b \in Cached \/ excess <= 0 THEN {{}}
        ELSE {E \in SUBSET evictable :
                \/ Cardinality(E) = excess
                \/ E = evictable /\ Cardinality(E) < excess}

\* the cache after cache_acquire(b), when the blocks in E were evicted
Loaded(b, E) ==
    [c \in Blocks |-> IF c = b /\ cache[b] = NoData THEN disk[b]
                      ELSE IF c \in E THEN NoData ELSE cache[c]]

\* cache_acquire by an operation, or by a reader outside operations
Acquire(p, b) ==
    /\ up /\ held[p] = NoBlock /\ b \notin Held
    /\ pc[p] = "op" \/ (pc[p] = "idle" /\ p \in Readers)
    /\ \E E \in LRU_shrink(b) : cache' = Loaded(b, E)
    /\ held' = [held EXCEPT ![p] = b]
    /\ UNCHANGED <<diskVars, logVars, pinned, pc, ci, up, ghostVars>>

\* cache_release
Release(p) ==
    /\ up /\ held[p] # NoBlock
    /\ held' = [held EXCEPT ![p] = NoBlock]
    /\ UNCHANGED <<diskVars, logVars, cache, pinned, pc, ci, up, ghostVars>>

\* a process outside operations calls begin_op
Call(p) ==
    /\ up /\ pc[p] = "idle" /\ held[p] = NoBlock
    /\ Goto(p, "begin")
    /\ dirty' = [dirty EXCEPT ![p] = {}]
    /\ UNCHANGED <<diskVars, cacheVars, logVars, ci, up, latest>>

\* mutant of MustWait: logged blocks are not counted
MustWait_Header == committing \/ log_used + OpMax > MaxSize

\* the two conditions under which cache_begin_op sleeps
MustWait == committing \/ log_used + Len(header) + OpMax > MaxSize

\* cache_begin_op, one round of its loop: admit the operation, or decide to
\* sleep on log_sem with log_lock still held
BeginOp(p) ==
    /\ up /\ pc[p] = "begin" /\ LogLockFree
    /\ IF MustWait
       THEN /\ Goto(p, "begin_sleep")
            /\ UNCHANGED <<outstanding, log_used, rm>>
       ELSE /\ Goto(p, "op")
            /\ outstanding' = outstanding + 1
            /\ log_used' = log_used + OpMax
            /\ rm' = [rm EXCEPT ![p] = OpMax]
    /\ UNCHANGED <<diskVars, cacheVars, header, committing, ci, up, ghostVars>>

\* _lock_sem, release log_lock, _wait_sem: asleep on log_sem
BeginSleep(p) ==
    /\ up /\ pc[p] = "begin_sleep"
    /\ Goto(p, "begin_wait")
    /\ UNCHANGED <<diskVars, cacheVars, logVars, ci, up, ghostVars>>

\* the contract of cache.h: an operation writes at most OpMax distinct blocks
WithinOp(p, b) == Cardinality(dirty[p] \cup {b}) <= OpMax

\* the caller changes the block it holds and calls cache_sync
Update(p, v) ==
    LET b == held[p] IN
    /\ up /\ pc[p] = "op" /\ b # NoBlock /\ LogLockFree
    /\ WithinOp(p, b)
    /\ cache' = [cache EXCEPT ![b] = v]
    /\ latest' = [latest EXCEPT ![b] = v]
    /\ dirty' = [dirty EXCEPT ![p] = @ \cup {b}]
    /\ IF b \in Range(header)
       THEN UNCHANGED <<header, pinned, rm, log_used>>
       ELSE /\ rm[p] > 0            \* otherwise PANIC, see SyncNeverPanics
            /\ header' = Append(header, b)
            /\ pinned' = pinned \cup {b}
            /\ rm' = [rm EXCEPT ![p] = @ - 1]
            /\ log_used' = log_used - 1
    /\ UNCHANGED <<diskVars, held, outstanding, committing, pc, ci, up>>

\* cache_end_op up to the checkpoint (last operation) or to the wait
EndOp(p) ==
    /\ up /\ pc[p] = "op" /\ held[p] = NoBlock /\ LogLockFree
    /\ outstanding' = outstanding - 1
    /\ log_used' = log_used - rm[p]
    /\ rm' = [rm EXCEPT ![p] = 0]
    /\ IF outstanding = 1
       THEN /\ committing' = TRUE
            /\ Goto(p, IF header = <<>> THEN "done" ELSE "log")
       ELSE /\ pc' = [WakeAll("begin_wait", "begin") EXCEPT ![p] = "end_wait"]
            /\ UNCHANGED committing
    /\ ci' = 1
    /\ UNCHANGED <<diskVars, cacheVars, header, up, ghostVars>>
-----------------------------------------------------------------------------
\* one round of write_block_to_log
WriteBlockToLog(p) ==
    LET b == header[ci] IN
    /\ up /\ pc[p] = "log" /\ b \notin Held
    /\ \E E \in LRU_shrink(b) : cache' = Loaded(b, E)
    /\ logArea' = [logArea EXCEPT ![ci] = cache'[b]]
    /\ pinned' = pinned \ {b}
    /\ IF ci < Len(header) THEN ci' = ci + 1 /\ UNCHANGED pc
                           ELSE ci' = 1 /\ Goto(p, "commit")
    /\ UNCHANGED <<disk, logHead, logVars, held, up, ghostVars>>

\* write_header of the full header: the commit point
WriteHeader(p) ==
    /\ up /\ pc[p] = "commit"
    /\ logHead' = header
    /\ Goto(p, "persist")
    /\ dirty' = [q \in Procs |-> {}]
    /\ UNCHANGED <<disk, logArea, cacheVars, logVars, ci, up, latest>>

\* one round of persist_from_log
PersistFromLog(p) ==
    LET b == header[ci] IN
    /\ up /\ pc[p] = "persist" /\ b \notin Held
    /\ \E E \in LRU_shrink(b) :
            cache' = [Loaded(b, E) EXCEPT ![b] = logArea[ci]]
    /\ disk' = [disk EXCEPT ![b] = logArea[ci]]
    /\ IF ci < Len(header) THEN ci' = ci + 1 /\ UNCHANGED pc
                           ELSE ci' = 1 /\ Goto(p, "clear")
    /\ UNCHANGED <<logArea, logHead, pinned, held, logVars, up, ghostVars>>

\* num_blocks = 0 and the second write_header
ClearHeader(p) ==
    /\ up /\ pc[p] = "clear"
    /\ header' = <<>> /\ logHead' = <<>>
    /\ Goto(p, "done")
    /\ UNCHANGED <<disk, logArea, cacheVars, outstanding, log_used, committing,
                   rm, ci, up, ghostVars>>

\* committing = false, without log_lock
StopCommitting(p) ==
    /\ up /\ pc[p] = "done"
    /\ committing' = FALSE
    /\ Goto(p, "post_commit")
    /\ UNCHANGED <<diskVars, cacheVars, header, outstanding, log_used, rm, ci,
                   up, ghostVars>>

\* mutant of PostCommit: post_sem, which wakes one sleeper
PostCommit_One(p) ==
    /\ up /\ pc[p] = "post_commit"
    /\ LET asleep == {q \in Procs : pc[q] = "end_wait"}
           woken == IF asleep = {} THEN p ELSE CHOOSE q \in asleep : TRUE
       IN  pc' = [pc EXCEPT ![woken] = "idle", ![p] = "post_log"]
    /\ UNCHANGED <<diskVars, cacheVars, logVars, ci, up, ghostVars>>

\* post_all_sem(&log_commit_sem): end_op returns for its sleepers
PostCommit(p) ==
    /\ up /\ pc[p] = "post_commit"
    /\ pc' = [WakeAll("end_wait", "idle") EXCEPT ![p] = "post_log"]
    /\ UNCHANGED <<diskVars, cacheVars, logVars, ci, up, ghostVars>>

\* post_all_sem(&log_sem), and the committer's end_op returns
PostLog(p) ==
    /\ up /\ pc[p] = "post_log"
    /\ pc' = [WakeAll("begin_wait", "begin") EXCEPT ![p] = "idle"]
    /\ UNCHANGED <<diskVars, cacheVars, logVars, ci, up, ghostVars>>
-----------------------------------------------------------------------------
InOp == {p \in Procs : pc[p] = "op"}

\* what recover_from_log would leave on disk
Recovered ==
    [b \in Blocks |-> IF b \in Range(logHead)
                      THEN logArea[CHOOSE i \in DOMAIN logHead : logHead[i] = b]
                      ELSE disk[b]]

\* power loss; init_bcache resets memory and read_header loads the header
Crash ==
    /\ up' = FALSE
    /\ header' = logHead
    /\ cache' = [b \in Blocks |-> NoData] /\ pinned' = {}
    /\ held' = [p \in Procs |-> NoBlock]
    /\ outstanding' = 0 /\ log_used' = 0 /\ committing' = FALSE
    /\ rm' = [p \in Procs |-> 0]
    /\ pc' = [p \in Procs |-> "idle"]
    /\ ci' = 1
    /\ latest' = Recovered
    /\ dirty' = [p \in Procs |-> {}]
    /\ UNCHANGED diskVars

\* one round of recover_from_log
RecoverBlock ==
    /\ ~up /\ ci <= Len(header)
    /\ disk' = [disk EXCEPT ![header[ci]] = logArea[ci]]
    /\ ci' = ci + 1
    /\ UNCHANGED <<logArea, logHead, cacheVars, logVars, pc, up, ghostVars>>

\* mutant of RecoverDone: the loop ends one block early
RecoverDone_Early ==
    /\ ~up /\ ci >= Len(header)
    /\ header' = <<>> /\ logHead' = <<>>
    /\ ci' = 1 /\ up' = TRUE
    /\ UNCHANGED <<disk, logArea, cacheVars, outstanding, log_used, committing,
                   rm, pc, ghostVars>>

\* the end of recover_from_log: the header is cleared on disk
RecoverDone ==
    /\ ~up /\ ci > Len(header)
    /\ header' = <<>> /\ logHead' = <<>>
    /\ ci' = 1 /\ up' = TRUE
    /\ UNCHANGED <<disk, logArea, cacheVars, outstanding, log_used, committing,
                   rm, pc, ghostVars>>

Checkpoint(p) == \/ WriteBlockToLog(p) \/ WriteHeader(p) \/ PersistFromLog(p)
                 \/ ClearHeader(p) \/ StopCommitting(p) \/ PostCommit(p)
                 \/ PostLog(p)

Step(p) == \/ \E b \in Blocks : Acquire(p, b)
           \/ \E v \in Values : Update(p, v)
           \/ Release(p) \/ Call(p) \/ BeginOp(p) \/ BeginSleep(p) \/ EndOp(p)
           \/ Checkpoint(p)

Running == \E p \in Procs : Step(p)
Next == Running \/ Crash \/ RecoverBlock \/ RecoverDone

Spec == Init /\ [][Next]_vars

\* Without crashes.  A caller's code between begin_op and end_op is finite
\* (SF on EndOp); a spinlock is eventually won (SF on BeginOp); everything
\* else runs because a RUNNABLE process is eventually scheduled.
LiveSpec ==
    /\ Init /\ [][Running]_vars
    /\ \A p \in Procs : /\ WF_vars(Release(p)) /\ WF_vars(Checkpoint(p))
                        /\ WF_vars(BeginSleep(p))
                        /\ SF_vars(BeginOp(p)) /\ SF_vars(EndOp(p))
-----------------------------------------------------------------------------
\* one token for every block an operation may still add to the log
Reserved == {t \in Procs \X (1..OpMax) : t[2] <= rm[t[1]]}

\* log_used counts exactly the reservations left to running operations, and
\* the header plus all reservations fits in the log: begin_op admits an
\* operation only when sync cannot run out of log slots.
LogSpace == /\ log_used = Cardinality(Reserved)
            /\ Len(header) + log_used <= MaxSize

\* sync's PANIC branch is unreachable for an operation that keeps to
\* OP_MAX_NUM_BLOCKS distinct blocks, whatever other operations log.
SyncNeverPanics ==
    \A p \in Procs, b \in Blocks :
        pc[p] = "op" /\ held[p] = b /\ WithinOp(p, b) /\ b \notin Range(header)
            => rm[p] > 0

\* A block acquired inside an operation holds the content last synced for it,
\* although checkpoint unpins blocks before their home location is written
\* and readers outside operations may then reload the old home content.
OpReadsLatest ==
    \A p \in Procs : pc[p] = "op" /\ held[p] # NoBlock
                        => cache[held[p]] = latest[held[p]]

\* At most one process is between `committing = true` and
\* `committing = false`, and no operation runs meanwhile: the header and the
\* log area, which checkpoint uses without log_lock, are its own.
CommitExclusive ==
    /\ \A p, q \in Procs :
         pc[p] \in Checkpointing => pc[q] # "op" /\ (p # q => pc[q] \notin Checkpointing)
    /\ committing <=> \E p \in Procs : pc[p] \in Checkpointing

\* what recovery would bring back changes only at the commit point, with no
\* operation half done, to everything synced so far; recovery itself may crash
\* and rerun
Store == INSTANCE AtomicStore
            WITH committed <- Recovered, current <- latest, active <- InOp

\* The log implements AtomicStore: what recovery would leave on disk changes
\* only by whole groups of ended operations, through every crash.
Atomic == Store!Spec

\* cache.h: end_op "returns when all associated blocks are persisted to disk":
\* a process whose end_op has returned has no update left to lose.
EndOpDurable == \A p \in Procs : pc[p] = "idle" => dirty[p] = {}

\* A process asleep in end_op on log_commit_sem is woken by the committer.
EndOpReturns == \A p \in Procs : pc[p] = "end_wait" ~> pc[p] = "idle"

\* lab6.md: an unalertable wait is woken within a foreseeable short time:
\* nobody sleeps in begin_op on log_sem for ever.
BeginOpWoken == \A p \in Procs : pc[p] = "begin_wait" ~> pc[p] # "begin_wait"
-----------------------------------------------------------------------------
(* The inductive invariant: what each phase of the checkpoint relies on.    *)

\* memory is clean and the header is the one on disk while recovery runs
BootClean ==
    ~up => /\ header = logHead /\ pinned = {} /\ ~committing
           /\ outstanding = 0 /\ log_used = 0
           /\ \A b \in Blocks : cache[b] = NoData
           /\ \A p \in Procs : pc[p] = "idle" /\ held[p] = NoBlock /\ rm[p] = 0

\* outstanding counts the running operations, and only they have reservations
OpsCounted == /\ outstanding = Cardinality({p \in Procs : pc[p] = "op"})
              /\ \A p \in Procs : pc[p] # "op" => rm[p] = 0

\* every block an operation dirtied is logged, and each logged block cost at
\* most one reservation
OpBudget ==
    \A p \in Procs :
        /\ pc[p] = "op" => /\ dirty[p] \subseteq Range(header)
                           /\ rm[p] + Cardinality(dirty[p]) >= OpMax
        /\ pc[p] \in {"begin", "begin_sleep", "begin_wait"} => dirty[p] = {}

HeldCached == \A p \in Procs : held[p] # NoBlock => cache[held[p]] # NoData

HeaderDistinct == \A i, j \in 1..Len(header) : header[i] = header[j] => i = j

\* the cached copy, if there is one, and the home location are up to date
Coherent(b) == cache[b] # NoData => cache[b] = latest[b]
Settled(b) == disk[b] = latest[b] /\ Coherent(b)
Logged(i) == logArea[i] = latest[header[i]]
Pending(i) == header[i] \in pinned /\ cache[header[i]] = latest[header[i]]

\* Write-ahead order: until its log slot is written a logged block is pinned
\* and up to date in the cache; the header reaches the disk only when every
\* slot holds the latest content; home locations change only after that; and
\* outside a checkpoint the header on disk is empty.
CheckpointPhases ==
    /\ \A b \in Blocks \ Range(header) : Settled(b)
    /\ up /\ (\A p \in Procs : pc[p] \notin {"log", "commit", "persist", "clear"})
         => logHead = <<>> /\ \A i \in 1..Len(header) : Pending(i)
    /\ \A p \in Procs :
         /\ pc[p] = "log" => /\ logHead = <<>> /\ ci <= Len(header)
                             /\ \A i \in 1..Len(header) :
                                   IF i < ci THEN Logged(i) ELSE Pending(i)
         /\ pc[p] = "commit" => /\ logHead = <<>> /\ ci = 1 /\ Len(header) > 0
                                /\ \A i \in 1..Len(header) : Logged(i)
         /\ pc[p] = "persist" => /\ logHead = header /\ ci <= Len(header)
                                 /\ \A i \in 1..Len(header) : Logged(i)
                                 /\ \A i \in 1..Len(header) :
                                       i < ci => Settled(header[i])
         /\ pc[p] = "clear" => /\ logHead = header
                               /\ \A i \in 1..Len(header) :
                                     Logged(i) /\ Settled(header[i])
    /\ ~up => \A i \in 1..Len(header) :
                 Logged(i) /\ (i < ci => disk[header[i]] = latest[header[i]])

LogInv == /\ TypeOK /\ BootClean /\ OpsCounted /\ LogSpace /\ OpBudget
          /\ HeldCached /\ HeaderDistinct /\ CommitExclusive /\ CheckpointPhases

\* What fs/cache.c promises its callers between begin_op and end_op: the log has
\* room for what was admitted, sync finds a slot, reads see the latest write, and
\* nobody is inside while a group is written.
LogSafe == TypeOK /\ LogSpace /\ SyncNeverPanics /\ OpReadsLatest /\ CommitExclusive
=============================================================================
