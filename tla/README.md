# A TLA+ model of OS-2022-FDU

The repository is a small operating system for AArch64 (Raspberry Pi 3 under QEMU): a kernel in C
under `src/src`, its lab documents under `src/doc`. This directory holds TLA+ modules translated
from the C code, TLC configurations that check them on small instances, and TLAPS proofs of the
main invariants for every instance.

## 1. The system

| part | code | state | operations | interacts with |
|---|---|---|---|---|
| semaphores, sleep locks | `common/sem.c`, `sem.h` | `val`, `sleeplist`, `up` per waiter | `_wait_sem`, `_post_sem`, `post_all_sem`, `_get_sem`, `get_all_sem` | scheduler (sleep, activate), kill (alert) |
| scheduler | `kernel/sched.c` | process states, run queues (red-black trees) per container, `cur_proc`, timers | `_sched`, `_activate_proc`, `pick_next` | everything that sleeps |
| containers, pid maps | `kernel/container.c`, `pidmap.h` | container tree, bitmaps of used pids | `create_container`, `get_next_pid`, `free_pid` | scheduler, process tree |
| process tree | `kernel/proc.c` | `state`, `parent`, `children`, `killed`, `childexit` | `create_proc`, `start_proc`, `fork`, `wait`, `exit`, `kill` | semaphores, scheduler, pid maps, files |
| log | `fs/cache.c` | in-memory and on-disk header, log area, `outstanding`, `log_used`, `committing` | `begin_op`, `sync`, `end_op`, `checkpoint`, `recover_from_log` | block cache, semaphores, disk |
| block cache | `fs/cache.c` | LRU list of `Block`s, `cache_cnt`, `acquired`, `pinned`, a sleep lock each | `cache_acquire`, `cache_release`, `LRU_shrink` | semaphores, disk, kernel memory |
| block bitmap, swap bitmap | `fs/cache.c` | one bit per block | `cache_alloc`, `cache_free`, `find_and_set_8_blocks`, `release_8_blocks` | log, paging |
| inodes and paths | `fs/inode.c` | inode list, reference counts, sleep locks, entries | `get`, `put`, `share`, `lock`, `sync`, `clear`, `read`, `write`, `lookup`, `insert`, `remove`, `namex` | log, block cache |
| files and pipes | `fs/file.c`, `fs/pipe.c`, `kernel/sysfile.c` | file table with reference counts, pipe ring buffers | `filealloc`, `filedup`, `fileclose`, `pipeRead`, `pipeWrite`, `pipeClose` | inodes, semaphores |
| message queues | `common/ipc.c` | queues of messages, senders and receivers | `msgget`, `msgsnd`, `msgrcv`, `msgctl` | scheduler |
| SD card driver | `driver/sd.c`, `sddef.h` | request queue, a semaphore per request; the card's descriptor | `sdrw`, `sd_intr`, `sdInit` | block device, semaphores |
| console | `kernel/console.c` | input ring `r`, `w`, `e` | `console_read`, `console_write`, `console_intr` | semaphores, kill |
| kernel memory | `kernel/mem.c`, `common/list.c` | lock-free page queue, size classes, page reference counts | `kalloc_page`, `kfree_page`, `kalloc`, `kfree` | paging |
| paging, exec | `kernel/paging.c`, `exec.c`, `pt.c` | page tables, sections | page faults, copy on write, swap, `sbrk`, `execve` | memory, swap blocks |
| red-black tree, lists, strings | `common/` | - | pure data structures | scheduler, pid map |

What is hard in it: processes on several CPUs interleave between the places where a spinlock is
dropped and a semaphore is waited for; a wait can be ended by a post, by kill, or by both; the log
is written by one process while others begin operations; the machine may lose power between any
two disk writes; structs are freed while others still have a pointer to them.

## 2. Modules

| module | models | state | actions |
|---|---|---|---|
| `AtomicStore` | what the log promises: blocks that change atomically | `committed`, `current`, `active` | `Begin`, `Write`, `End`, `Commit`, `Crash` |
| `Log` | the write-ahead log of `fs/cache.c` | disk (home blocks, log area, header), cache content, pins, the fields of `log`, a program counter per process | one per step of `begin_op`, `sync`, `end_op`, one per iteration of `write_block_to_log`, `persist_from_log` and `recover_from_log`, `Crash` |
| `BlockCache` | `cache_acquire`, `cache_release`, `LRU_shrink` over `Block` structs that are freed and reused | the list, each struct's `block_no`, `acquired`, `pinned` and semaphore | `Call`, `HitAcquired`, `HitFree`, `Miss`, `Wait`, `Release`, `Pin` |
| `Semaphore` | `common/sem.c` with the scheduler's sleep and kill's alert | `val`, `sleeplist`, `up`, process states, `killed` | `WaitSem`, `Sleep`, `Run`, `Recheck`, `PostSem`, `PostAllSem`, `GetSem`, `GetAllSem`, `Kill`, `Alert` |
| `ProcTree` | the process tree of `kernel/proc.c` | `state`, `parent`, `killed`, `childexit` (`val`, `up`) | `Create`, `StartProc`, `Wait`, `WaitSem`, `Woken`, `Reap`, `Kill`, `Exit`, `ExitTree`, `Zombify` |
| `Pipe` | one pipe of `fs/pipe.c` with its readers and writers | the ring, `readopen`/`writeopen`, the three spinlocks, who sleeps | `Call`, `Acquire`, `Move`, `Block`, `Notify`, `Sleep`, `Resume`, `Leave`, `Release`, `Post`, `Close`, `Kill` |
| `SdCard` | `sdInit` of `driver/sddef.h`, with the controller and the card as environment | the card, the controller's registers, the descriptor, the step of `sdInit` | one per command: send, poll, take the response; loss, delay, error and busy are the environment's |
| `SdQueue` | `sdrw` and `sd_intr` of `driver/sd.c` | the queue of bufs, flags and semaphore of each buf, which frames exist, the handler's place | enqueue, check, wait, and the handler's flags, post, pop, start |
| `Console` | `kernel/console.c` | the ring with `r`, `w`, `e`, the semaphore, the inode's lock | typing, `^U`, backspace, `^D`, the steps of a read (those inside `_wait_sem` too, which it calls without the semaphore's lock), a write, kill |
| `Ipc` | `common/ipc.c` | `entries`, the waiting senders and receivers, each receiver's `r_msg` | `MsgGet`, `MsgSnd`, `MsgRcv`, `MsgCtl`, the two wake-ups, kill |
| `RunQueue` | `kernel/sched.c`, `container.c` | states, `vruntime`, `weight`, a tree per container, `nr_running`, `weight_sum`, `cur_proc`, timers | `RqActivate`, `ActivateGroup`, `RqSched`, `RqTimer`, kill and its alert |
| `FileSpec` | what the inode layer promises: byte sequences and a name map | `content`, `entriesOf` | write, clear, insert, remove |
| `FileData` | `inode_map`, `inode_read`, `inode_write`, `inode_clear`, `cache_alloc`, `cache_free`, `inode_lookup`, `inode_insert`, `inode_remove` | the bitmap, inode entries, blocks, the slots of a directory | one per call |
| `InodeTree` | `inode_get`, `inode_put`, `inode_alloc`, `namex` under `create`, `openat`, `unlinkat` and close | on-disk entries, the directory, in-memory inodes with `rc`, their locks, a place per process | one per piece between two releases of a lock |
| `Paging` | `mem.c` (counts), `pt.c`, `paging.c`, and what `fork`, `execve`, `exit`, `wait` do to memory | per process a page table and sections; `pages_ref`, free pages, bytes | `fork`, `execve` (also failing), `sbrk`, reads and writes with `pgfault`, exit, wait |
| `PageQueue` | `add_to_queue`, `fetch_from_queue` of `common/list.c` as `mem.c` uses them | `head`, `next`, each CPU's place | one per memory access |
| `Kalloc` | `kalloc`, `kfree` | free lists per size, headers, blocks handed out | one per call |
| `FileTable` | `file.c`, the descriptors, `pipeAlloc`, `pipeClose`, the loops of `fork` and `exit` | slots, `ftable.lock`, descriptors, pipes, inode references | one per piece between two uses of the lock |
| `PidMap` | `pidmap.h` as `start_proc` and `wait` use it | the bits, `nr_free`, `pid_base` | start, reap |
| `RbTree` | `common/rbtree.c` | the nodes' links and colours, and the set they should hold | insert, erase |
| `LogProofs` | the steps of `Log` and the theorems about it | | |
| `BlockCacheProofs` | theorems about `BlockCache` | | |
| `WaitProofs` | theorems about `Semaphore` and `SdQueue` | | |
| `ProcProofs` | theorems about `ProcTree`, `PidMap` and `RunQueue` | | |
| `ChannelProofs` | theorems about `Pipe` and `Console` | | |
| `ResourceProofs` | theorems about `PageQueue` and `Kalloc` | | |
| `InodeStepProofs`, `InodeProofs` | lemmas on the steps of `InodeTree`, and the theorems about it | | |
| `MC...` | the instances for TLC: `MCResources`, `MCFilesLive`, `MCWaits`, `MCProcs` and `MCChannels` join several components (section 3), the others have one | | |

Granularity. A critical section under a spinlock is one step. Where the code drops a lock, sleeps,
or changes shared state without the lock that guards it elsewhere, the step ends: `end_op` clears
`committing` and posts the two semaphores in three steps, because it does so without `log_lock`;
`exit` becomes `ZOMBIE` in a step of its own after posting its parent, because it holds only
`sched_lock` then; `Pipe` has a step per loop iteration, because a wait ended by kill goes on to
release a lock it does not hold. From then on (`broken`) the pipe's lock protects nothing and its
properties say nothing. Operators named `X_Something` are changed forms of `X`, used to make sure that a
property notices the change.

Abstractions. Block contents are model values. In `Log` a process holds one block at a time, and
how waiters for a held block queue is left to `BlockCache`; the block evicted is any that may be
evicted, since the list's order is also there. In `BlockCache` memory freed by `kfree` is reused
only for other `Block`s. `ProcTree` has one container, merges kill's flag with its alert
(`Semaphore` has them apart) and reduces `childexit` to its only possible waiter, the owner.

Lapses. Some paths of the code leave the states a component is about: memory read after it was
freed, a lock released by someone who does not hold it, a field left from an earlier use. A history
variable records each. Where the outcome is undefined, the behaviour ends there; where it is defined
but wrong, the model goes on and the properties it would refute speak of the states before. So these
properties say nothing of what follows a lapse; the hazards in `PROJECT.json` that are lapses name no
property, and their notes say so.

| variable | recorded | afterwards |
|---|---|---|
| `broken` (`Pipe`) | a killed waiter clears `pi->lock`, which it does not hold | goes on |
| `lapse` (`Console`) | a reader goes on with nothing to read, or the `r--` of `^D` hides a full ring | nothing more is typed |
| `leaked` (`Console`) | a killed reader has returned without the inode's lock | goes on |
| `semRace` (`Console`) | a post or a wait runs while a reader is in `_wait_sem` without the semaphore's lock | goes on, with every outcome of the waits; the properties are not restricted by it |
| `ftFault` (`FileTable`), a set | `"stale"`: a pipe's end closed by fields of another use of the slot; `"ip"`: a pipe's close puts the inode of an earlier use | goes on; `FtPipeEnds` and the inode part of `FtCounts` stop |
| | `"null"`: the close of an unused descriptor, or the put of an inode the slot never had; `"torn"`: the second release of `ftable.lock` finds another process inside | ends |
| `lost` (`FileTable`) | the slots that a failing `pipeAlloc` or `pipe2` keeps | goes on |
| `staleGet` (`InodeTree`) | `inode_get` of a number that no name leads to and nobody has in memory | ends |
| `mixed` (`RunQueue`) | kill changes the weight of a process that `weight_sum` counts | goes on; the part of `RqSafe` on weights stops |
| `recycled` (`PageQueue`) | a recycled head is swapped in | ends |
| `pidLost` (`PidMap`) | the -1 of a full map is freed | ends |
| `pgLapse` (`Paging`) | `sbrk` without a heap makes sections overlap, or shrinks from inside a page | ends |
| `ipcFault` (`Ipc`) | a pointer nobody set is read, or a send does not end | ends |
| `corrupt` (`SdQueue`) | a frame that is gone is touched | ends |

Data. A message is its type, its size and a number; a page is one byte that says who wrote it;
addresses count half pages in `Paging` and cells in `Kalloc` and `FileData`; a red-black tree is a set
of nodes in `RunQueue` and a real tree in `RbTree`; interrupt and response bits of the SD controller are
members of sets, its clock registers are numbers.

## 3. Runs

A joint run has one variable, `part`, that is chosen at the start: a behaviour is one component's, with
the others at rest, so that their states add up and do not multiply. The components of one run do not
share state.

| run | instance | checks |
|---|---|---|
| `resources` | `Log`: 3 processes, one also reading outside operations, 2 blocks, 2 contents, operations of 1 block, 2 log slots, eviction at every miss, crashes. `FileTable`: 2 processes, 3 slots, 3 descriptors, 1 inode, 2 pipes, 5 calls. `PageQueue`: 3 CPUs, 3 nodes, 5 operations. `Kalloc`: 2 pages of 6 units. `RbTree`: 11 keys; 316,000 states up to symmetry | `LogSafe`, `CheckpointPhases`, `Atomic` (the log implements `AtomicStore`); `FtCounts`, `FtPipeEnds`; `PqSafe`; `KaSafe`; `RbSafe` |
| `files_live` | `Log`: 3 processes, 1 block, no crash. `InodeTree`: 3 processes, 1 name, 4 inodes, 4 calls. `FileData`: 2 files of up to 3 blocks of 2 cells, 4 free blocks over 2 bitmap blocks, 3 directory slots; 23,000 states | `EndOpReturns`; `ItSafe`, `ItAlive`, `ItReturns`; `FdSafe`, `FdRefinesFile` (the inode layer implements `FileSpec`) |
| `waits` | `Semaphore`: 2 processes, `val` up to 2. `SdCard`: high capacity, standard and version 1 cards, three host versions, 6 retries. `SdQueue`: 3 threads, 4 requests; 101,000 states | `SemSafe`, `WaiterReturns`; `SdResponseIsOurs`, `SdSetUp`, `SdInitReturns`; `SdqSafe`, `SdqServed` |
| `cache` | 3 processes, 2 blocks, 3 structs, threshold 1; 1,503,156 states up to symmetry | `CacheSafe`, `SleepersMatch`, `PinnedStay` |
| `procs` | `ProcTree`: root and 2 processes. `RunQueue`: 2 CPUs, 2 processes in containers nested two deep, 1 kill. `PidMap`: 4 ids, 5 processes, any content in the half of the map that is not cleared. `Paging`: 3 processes, 4 frames, 4 pages, 3 system calls; 102,000 states | `TreeSafe`, `KilledDies`, `WaitReturns`; `RqSafe`, `RqKilledAwake`, `RqPreemptible`; `PidSafe`, `PidFoundIfAny`; `PgCounts`, `PgIsolated` |
| `channels` | `Pipe`: 1 reader, 2 writers, 2 byte values, ring of 2, counters modulo 4, calls of up to 3 bytes. `Console`: 2 readers, ring of 3, 3 characters typed. `Ipc`: 3 processes, 1 slot, 2 queues one after the other, 2 places, 3 messages; 1,954,000 states up to symmetry | `RingSafe`, `NoSleepOnData`; `ConSafe`, `ConInodeLock`; `IpcSafe`, `IpcNoMissedWakeup`; no deadlock check, see section 6 |
| `log_begin_woken` | 2 processes, no crash | `BeginOpWoken` is violated |
| `log_end_durable` | 3 processes | `EndOpDurable` is violated |
| `sem_unalertable` | 2 processes | `UnalertableCompletes` is violated |
| `cache_lost_sleeper` | as `cache` with 2 structs | `SleeperWoken` is violated |
| `sched_idle` | 2 CPUs, 2 processes, nested containers | `RqIdleOnlyWhenEmpty` is violated |
| `fork_copies` | 2 processes | `PgForkCopies` is violated |

What the joined invariants say (each is a conjunction of invariants that the module states and comments
one by one, the type invariant among them):

| invariant | joins | in words |
|---|---|---|
| `LogSafe` | `LogSpace`, `SyncNeverPanics`, `OpReadsLatest`, `CommitExclusive` | reservations fit the log, `cache_sync` never panics, an operation reads the latest content, no operation runs during a checkpoint |
| `SemSafe` | `SleepersCounted`, `NoLostWakeup`, `NoLostKill` | `val` counts the sleepers; no post and no kill is lost |
| `TreeSafe` | `ChildExitCounts`, `WaitFindsZombie`, `LiveParents` | `childexit` counts exited children, `wait` never panics, nobody's parent is gone |
| `CacheSafe` | `HeldExclusively`, `OneCopy` | a held block has one holder and the cache one copy of it |
| `RingSafe` | `RingMatchesQueue` | the ring is the queue of the bytes written and not yet read |
| `FtCounts` | `FtRefs`, `FtInodeRefs` | a slot's count is the number of its descriptors and of calls under way; so is an inode's, until a pipe's close puts an inode |
| `PqSafe` | `PqPartition`, `PqNoRecycling` | every node is free or has one owner; under the lock no head is recycled |
| `KaSafe` | `KaTiling`, `KaFits` | the blocks tile their page, and one handed out is large enough |
| `RbSafe` | `RbBalanced`, `RbHolds` | a red-black search tree of exactly the keys inserted and not erased |
| `ItSafe` | `ItCounts`, `ItOneInode`, `ItPutFree`, `ItNoDoubleFree` | `rc` counts the users of an in-memory inode, a number has one; what `inode_put` waits for is free, and what it clears is in use |
| `FdSafe` | `FdBitmapExact`, `FdReadMapped` | the bitmap marks exactly the blocks in use, and a read below the size finds a block |
| `SdSetUp` | `SdReady`, `SdAddressing`, `SdIdentClock` | a set-up that succeeded has selected the card, addresses it by its own unit and identified it at a slow clock |
| `SdqSafe` | `SdqServesFront`, `SdqDeadFrame` | the card works on the front request, and only a posted request's frame can be gone |
| `RqSafe` | `RqReachable`, `RqWeights` | a RUNNABLE process is reachable from the root queue; the weights are the sums they stand for |
| `PidSafe` | `PidUnique`, `PidFreeCount` | no pid is used twice, `nr_free` is the number of ids not in use |
| `PgCounts` | `PgRefs`, `PgLeftCount` | a page's count is the number of its mappings, `left_page_cnt` that of free pages |
| `PgIsolated` | `PgOneWriter`, `PgOwnView` | no two processes may write one page, and what it may write, a process sees as it wrote it |
| `ConSafe` | `ConRing` | the ring is what was typed and not erased, in order |
| `IpcSafe` | `IpcConserved`, `IpcIdsFresh` | a message sent is received once, queued or dropped with its queue; a msgid is not handed out again before the number wraps |

The bounds. Two log slots and operations of one block make two operations fill the log and a third
wait, so admission, group commit and waiting all happen; two blocks and a threshold of one make
every miss evict. Three structs for two blocks let a freed struct be reused for another block while
a waiter still points to it. Three processes in the tree are what inheritance needs (root, parent,
child); the proofs cover every larger tree. Calls of three bytes on a ring of two block in the
middle of a call, and counters modulo four wrap within two fillings. Three slots of the file table are
one short of two pipes; five calls are enough for open, fork, two closes and a reuse. Four calls on
a name are a create, an open, an unlink and a create anew, closes not counted. Two
CPUs and four operations recycle a head (one has read it, the other takes two nodes and gives the
first back); a third CPU and a fifth operation act on the queue meanwhile. Eleven keys make trees in which an erasure runs up two levels. Files of
three blocks have a direct, a first and a last indirect block. Two containers deep, a process's
activation and exit cascade through a level that empties. Three system calls are fork, a write and
one more in either process. Two sequence numbers and two queues in one slot make a msgid's slot change
hands before the number wraps. Four requests of three threads make one thread queue its second request
while the handler finishes its first.

## 4. Fairness

A RUNNABLE process is dispatched in the end (the scheduler picks the smallest virtual run time,
which grows while a process runs; `sched_idle` shows an idle CPU beside a runnable process, but only
while another one runs, until the next timer), a spinlock that is released again and again is won in
the end, and code between two kernel calls of the model is finite. So a step that only needs the
processor has weak fairness, one that competes for a lock strong fairness. Nothing is assumed of a
caller that begins operations, forks, waits, kills, opens or sends; the part of `files_live` that is
the log has no crash. A killed process leaves through `exit` when it returns to user space
(`trap.c`). In `SdCard` only the driver's own steps are fair: its polls and retries are counted loops,
and the card may never answer. In `SdQueue` the card ends the transfer it was given, as `sd_intr`
panics otherwise, and the handler and the callers go on.

## 5. Proofs

TLAPS checks, for every value of the constants allowed by the named assumptions, that an invariant is
inductive, and from it the properties the runs check. There is one lemma per action, and under it one
step per conjunct the action can disturb.

- `Log` (`LogInv`). Its core is `CheckpointPhases`, which says for each phase of a
  checkpoint (logging, committed, copying home, clearing) and of recovery what holds of log area,
  headers, home blocks and cached copies; the accounting of reservations (`LogSpace`, `OpBudget`)
  counts one token per block an operation may still log. From it: `WriteAhead`, `LogSpaceSuffices`,
  `CheckpointExclusive`, `NoSyncPanic`, `OpReads`, which `LogIsSafe` joins to `LogSafe`, and
  `CrashAtomicity`, the refinement of `AtomicStore` under the mapping committed = what recovery would
  produce.
- `BlockCache` (`CacheInv`). To one holder, one copy and a sleeper list that agrees with `val`, it adds
  that an acquired struct has its holder and that whoever is on a list sleeps there once. Hence
  `CacheIsSafe`, `CacheSleepers` and the action property `PinnedBlocksStay`.
- `Semaphore` (`SemInv`): `ListMatchesVal`, `NoWakeupLost`, `NoKillLost`, joined in `SemIsSafe`.
- `SdQueue` (`SdqInv`). Until `corrupt`: for each place of the handler, what the front of the queue and
  the card are doing, and how many posts a frame can have got. Hence `SdqIsSafe`.
- `ProcTree` (`TreeInv`): `childexit` equals the number of exited children not collected (a
  cardinality argument when root inherits zombies), hence `TokensMatchExits`, `ParentsLive`,
  `WaitNeverPanics`, joined in `TreeIsSafe`.
- `PidMap`: `PidSafe` is itself inductive: an id in use is marked and nobody else's, and `nr_free` is the
  number of the others (`PidIsSafe`, until `pidLost`). `PidSearchComplete` is about the search alone.
- `RunQueue` (`RqInv`): a RUNNING process is the current one of one CPU, a level's node is in its
  parent's tree or running exactly when something is ready under it, and the sums at a level are those
  of its nodes. Induction runs along the path to the root. Hence `RunQueueIsSafe`, `RunQueueKilledAwake`, `RunQueuePreemptible`.
- `Pipe` (`PipeInv`): the ring is the queue of bytes by position modulo its size, who is about to
  sleep has its semaphore's spinlock alone, for a sleeper that could go on the other end has yet to post, and the lock has its owner until a kill breaks
  it. Hence `RingIsSafe`, `NoSleeperForgotten`, `LoopsExclude`.
- `Console` (`ConInv`): some number of characters lies between `w` and `e`, so that the ring is the
  committed ones and then those; the value of the inode's lock tells how many
  readers have it and how many returned killed.
  It holds through races inside the semaphore. Hence `ConsoleIsSafe`, `ConsoleInodeLocked`.
- `InodeTree` (`ItInv`): `rc` counts references always; until `staleGet`, the place of each process
  tells its locks and what its number names, and an inode is off the list exactly while its last user
  clears it. Hence `InodesAreSafe`, `InodesAlive` and `NoDoubleFree`. Apart from `rc` they speak of the states before the
  first `inode_get` of a dead number (`staleGet`, in the statements); an unlink, and a reuse of the number, between the
  lookup and `inode_get` are in their scope.
- `PageQueue` (`PqInv`): some sequence of nodes is chained from `head`, and what is not in it has one
  holder, always under `mem_list_lock`, else until `recycled`. Hence `PageQueueIsSafe`.
- `Kalloc` (`KaInv`): free and used pieces tile the pages taken, and headers tell the sizes. Hence `KallocIsSafe`.

What the proofs assume, each by name in its module: `LogAssumption` (finite sets of processes and
blocks, `NoData` and `NoBlock` outside the data, an operation may log at least one block and at most the
whole log), `CacheAssumption` (a threshold of at least one), `SemAssumption`, `TreeAssumption`,
`PidAssumption` and `ConAssumption` (finite process sets, natural bounds, a root, a ring of at least
one), `PipeAssumption` (nobody is reader and writer, the counters wrap at a multiple of the ring's size
that is larger than it),
`RqAssumption` (finite processes and containers; `Up` gives each container its path to the root),
`ItAssumption` (finite sets, as many in-memory inodes as processes), `PqAssumption` (finitely many nodes, one at least) and
`KaAssumption` (blocks divide a page). `SdQueue` needs none. They put no bound on the numbers of processes,
blocks, slots, values or CPUs.

Only model-checked: every liveness property (`EndOpReturns`, `ItReturns`, `WaiterReturns`,
`SdInitReturns`, `SdqServed`, `KilledDies`, `WaitReturns`), because liveness under fairness and `ENABLED` are out of the
prover's reach; `RbTree`, which follows the code's loops with recursive operators; and the properties
of `FileTable`, `FileData`, `SdCard`, `Ipc` and `Paging`.

## 6. Where the code and its documents disagree

Each of these is a run that ends in a counterexample.

- `log_end_durable`: `end_op` promises to return when all its blocks are on disk (`cache.h:83`).
  `committing` is cleared before `log_commit_sem` is posted and without `log_lock`, so a process of
  the next group that already sleeps there is woken by the previous group's post.
- `log_begin_woken`: the last `end_op` clears `committing` and posts `log_sem` between another
  process's test and its sleep; if no further operation comes, it sleeps for ever.
- `sem_unalertable`: an unalertable wait must not be ended by kill (`lab6.md:20`), but the scheduler
  does not put a killed process to sleep, so the wait returns without a token and the `ASSERT` fails.
- `cache_lost_sleeper`: `cache_acquire` goes to sleep on the lock of a `Block` that was released,
  evicted and freed after the cache lock was dropped.
- `sched_idle`: idle is to be scheduled only when nothing else can be (`lab7-more.md:25`).
  `recur_get_proc` descends into the first node only; if that is a container whose one process is
  running on another CPU, the CPU idles although other processes are RUNNABLE.
- `fork_copies`: `fork` creates a process "copying p as the parent" (`proc.c:318`), but it
  write-protects the shared pages in the child alone: what the parent writes next, the child sees.

What the models show that no document speaks of, each at the lapse of its module:

- `Pipe`: a blocked reader and a blocked writer, each holding its semaphore's spinlock and posting the
  other's, wait for each other for ever (one write has to fill the ring after the reader found it
  empty), and `pipeClose` leaves a reader asleep that waits for the end just closed.
- `FileTable`: the last `fileclose` releases `ftable.lock` twice, reads the pipe from a slot it has
  given back, and for a pipe too puts the slot's inode, that of an earlier use or none; `close` tests
  only the range of its argument, so that an unused descriptor gives `fileclose` a null pointer; a read
  end inherits `writable`; `pipeAlloc` and `pipe2` keep what they took when they fail.
- `Ipc`: a send to a waiting receiver with too small a buffer never ends; a receiver woken by the
  removal of its queue or by kill reads a pointer nobody set; senders of a removed queue sleep on.
- `SdQueue`: the handler posts a caller before it unlinks the buf on that caller's stack.
- `Console`: tokens of `can_read_sem` are left over, so that a reader goes on without input; `^D` at index
  0 makes `r` wrap; a killed reader returns without the inode's lock; the wait runs without the
  semaphore's lock, so that a post or another wait may come in between.
- `InodeTree`: `namex` uses a number after it gave up the directory. While the unlinked file is still
  open, the caller gets that file; when the number was reused, the file that has it now; otherwise
  an inode that is free, about to be cleared or just allocated. `create` of `.` waits for itself.
- `PageQueue`: a recycled head breaks the page queue, which has no lock; `free_mem` is safe.
- `RunQueue`: kill changes the weight of a process that `weight_sum` counts.
- `PidMap`: the -1 of a full map is kept as a pid and frees the last one.
- `Paging`: `sbrk` without a heap section moves the end of the last section.

## 7. What is not modelled, and why

- Swapping (`swapin`, `swapout`, `find_and_set_8_blocks`, `release_8_blocks`, `get_offline_proc`): the code
  that would start it is commented out, and only a test calls it.
- Argument fetching and checking in the system calls, ELF headers, formatting, strings, printing: no
  shared state.
- `mkdirat`, `mknodat`, `chdir`, the reference a process holds to its working directory, paths of several
  components, the offset of an open file, `filestat`: further callers of what `InodeTree`, `FileTable`
  and `FileData` model.
- CPUs that spin with interrupts off while another sleeps with the lock (`cache.c:118`): no module has
  CPUs and sleep locks together.
- The interrupt controller, the clock, the mailbox, the serial port, the kernel's page table and boot: hardware
  registers in a fixed order and constants.
- User programs, `mkfs` and the tests run on top of the system or beside it.

## 8. What could follow

Theorems for the modules that are only model-checked and have no recursion: `Ipc` (conservation),
`FileTable` and `Paging` (reference counts), `SdCard` (the response taken is the command's own). They
state what an inductive proof would need. Once the code is changed where a lapse begins, its history
variable can go, and the properties restricted by it hold without the restriction or show what is left.
