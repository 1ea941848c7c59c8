-------------------------------- MODULE Pipe --------------------------------
(* One pipe of fs/pipe.c between the processes that read it and those that  *)
(* write it.  A critical section under pi->lock is not one step here: the   *)
(* lock is a flag anyone can clear, and a wait that kill interrupts goes on *)
(* to clear it without holding it (pipe.c:73-83).  So there is a step per   *)
(* iteration of the loops and per lock that changes hands.  Once that has   *)
(* happened (broken) the code has data races, and no property speaks of it. *)
(*                                                                          *)
(* rlock and wlock are semaphores of value 0 that are only waited for and   *)
(* posted with post_all_sem: what is left of them is their spinlock and who *)
(* sleeps (module Semaphore has the rest).                                  *)
EXTENDS Integers, Sequences

CONSTANTS Readers, Writers,    \* processes with the end in question open
          Bytes,               \* what a byte can be
          PIPESIZE,
          Wrap,                \* the counters wrap here (2^32 in the code)
          MaxN,                \* bound: bytes asked for by one call
          Nobody               \* not a process

Users == Readers \cup Writers

ASSUME PipeAssumption == /\ Readers \cap Writers = {} /\ Nobody \notin Users
                         /\ PIPESIZE \in Nat \ {0} /\ MaxN \in Nat
                         /\ Wrap \in Nat /\ Wrap > PIPESIZE /\ Wrap % PIPESIZE = 0

VARIABLES nread, nwrite, data, \* the ring
          open,                \* open["r"], open["w"]: readopen, writeopen
          lock,                \* pi->lock is set
          semlock,             \* the spinlocks of rlock ("r") and wlock ("w")
          pipeUp,              \* WaitData.up of a sleeping process
          pipeKilled,
          at,                  \* where a process is in its call
          left,                \* iterations its loop has left: n - i
          queue,               \* ghost: bytes written and not yet read
          owner,               \* ghost: who set pi->lock
          broken               \* ghost: pi->lock was cleared by another

ringVars == <<nread, nwrite, data, queue>>
lockVars == <<lock, owner, broken>>
pipeVars == <<ringVars, open, lockVars, semlock, pipeUp, pipeKilled, at, left>>

Ends == {"r", "w"}
End(p) == IF p \in Readers THEN "r" ELSE "w"
Other(e) == IF e = "r" THEN "w" ELSE "r"

\* pi->nwrite - pi->nread on unsigned counters.
Used == (nwrite - nread) % Wrap

PipeGoto(p, l) == at' = [at EXCEPT ![p] = l]
-----------------------------------------------------------------------------
\* pipeAlloc: memset, init_sem, both ends open.
PipeInit ==
    /\ nread = 0 /\ nwrite = 0 /\ queue = <<>>
    /\ \E zero \in Bytes : data = [k \in 0..PIPESIZE-1 |-> zero]
    /\ open = [e \in Ends |-> TRUE] /\ semlock = [e \in Ends |-> FALSE]
    /\ lock = FALSE /\ owner = Nobody /\ broken = FALSE
    /\ pipeUp = [p \in Users |-> FALSE] /\ pipeKilled = [p \in Users |-> FALSE]
    /\ at = [p \in Users |-> "idle"]
    /\ left = [p \in Users |-> 0]

\* A process calls pipeRead or pipeWrite for k bytes.
Call(p, k) ==
    /\ at[p] = "idle" /\ ~pipeKilled[p] /\ open[End(p)]
    /\ left' = [left EXCEPT ![p] = k] /\ PipeGoto(p, "acquire")
    /\ UNCHANGED <<ringVars, open, lockVars, semlock, pipeUp, pipeKilled>>

\* _acquire_spinlock(&pi->lock), at the start and after a wait.
Acquire(p) ==
    /\ at[p] = "acquire" /\ ~lock
    /\ lock' = TRUE /\ owner' = p /\ PipeGoto(p, "loop")
    /\ UNCHANGED <<ringVars, open, broken, semlock, pipeUp, pipeKilled, left>>

\* mutant of CanMove: one byte more than the ring has
CanMove_Full(p) == IF p \in Writers THEN Used <= PIPESIZE ELSE Used > 0

\* The test at the head of the loops' bodies, unsigned.
CanMove(p) == IF p \in Writers THEN (PIPESIZE - Used) % Wrap > 0 ELSE Used > 0

\* One byte written.
Put(p) == \E b \in Bytes :
    /\ data' = [data EXCEPT ![nwrite % PIPESIZE] = b]
    /\ nwrite' = (nwrite + 1) % Wrap /\ queue' = Append(queue, b)
    /\ UNCHANGED nread

\* One byte read.
Take(p) == /\ nread' = (nread + 1) % Wrap
           /\ queue' = IF queue = <<>> THEN <<>> ELSE Tail(queue)
           /\ UNCHANGED <<data, nwrite>>

\* An iteration that moves a byte.
Move(p) ==
    /\ at[p] = "loop" /\ left[p] > 0 /\ CanMove(p)
    /\ IF p \in Writers THEN Put(p) ELSE Take(p)
    /\ left' = [left EXCEPT ![p] = @ - 1]
    /\ UNCHANGED <<open, lockVars, semlock, pipeUp, pipeKilled, at>>

\* An iteration that has to wait: _lock_sem of its own semaphore, then pi->lock
\* is released.
Block(p) ==
    /\ at[p] = "loop" /\ left[p] > 0 /\ ~CanMove(p) /\ open[Other(End(p))]
    /\ ~semlock[End(p)] /\ semlock' = [semlock EXCEPT ![End(p)] = TRUE]
    /\ lock' = FALSE /\ owner' = Nobody /\ broken' = (broken \/ owner # p)
    /\ PipeGoto(p, "notify")
    /\ UNCHANGED <<ringVars, open, pipeUp, pipeKilled, left>>

\* post_all_sem of the semaphore of end e: everyone asleep there is woken.
PostAll(e) == /\ ~semlock[e]
              /\ pipeUp' = [q \in Users |-> pipeUp[q] \/ (at[q] = "asleep" /\ End(q) = e)]

\* post_all_sem of the other end before the wait.
Notify(p) ==
    /\ at[p] = "notify" /\ PostAll(Other(End(p))) /\ PipeGoto(p, "wait")
    /\ UNCHANGED <<ringVars, open, lockVars, semlock, pipeKilled, left>>

\* _wait_sem: onto the sleeplist, and the semaphore's lock is released.
PipeSleep(p) ==
    /\ at[p] = "wait" /\ PipeGoto(p, "asleep") /\ pipeUp' = [pipeUp EXCEPT ![p] = FALSE]
    /\ semlock' = [semlock EXCEPT ![End(p)] = FALSE]
    /\ UNCHANGED <<ringVars, open, lockVars, pipeKilled, left>>

\* The end of _wait_sem.  Posted: take pi->lock again and go on with the next
\* iteration.  Only alerted: leave the loop.
Resume(p) ==
    /\ at[p] = "asleep" /\ (pipeUp[p] \/ pipeKilled[p]) /\ ~semlock[End(p)]
    /\ IF pipeUp[p] THEN PipeGoto(p, "acquire") /\ left' = [left EXCEPT ![p] = @ - 1]
                ELSE PipeGoto(p, "release") /\ UNCHANGED left
    /\ pipeUp' = [pipeUp EXCEPT ![p] = FALSE]
    /\ UNCHANGED <<ringVars, open, lockVars, semlock, pipeKilled>>

\* The loop ends: all iterations done, or stuck with the other end closed.
Leave(p) ==
    /\ at[p] = "loop" /\ (left[p] = 0 \/ (~CanMove(p) /\ ~open[Other(End(p))]))
    /\ PipeGoto(p, "release")
    /\ UNCHANGED <<ringVars, open, lockVars, semlock, pipeUp, pipeKilled, left>>

\* _release_spinlock(&pi->lock), whoever holds it.
Release(p) ==
    /\ at[p] = "release" /\ lock' = FALSE /\ owner' = Nobody
    /\ broken' = (broken \/ owner # p) /\ PipeGoto(p, "post")
    /\ left' = [left EXCEPT ![p] = 0]
    /\ UNCHANGED <<ringVars, open, semlock, pipeUp, pipeKilled>>

\* mutant of Post: wakes its own end
Post_Own(p) ==
    /\ at[p] = "post" /\ PostAll(End(p)) /\ PipeGoto(p, "idle")
    /\ UNCHANGED <<ringVars, open, lockVars, semlock, pipeKilled, left>>

\* The closing post_all_sem.
Post(p) ==
    /\ at[p] = "post" /\ PostAll(Other(End(p))) /\ PipeGoto(p, "idle")
    /\ UNCHANGED <<ringVars, open, lockVars, semlock, pipeKilled, left>>

\* pipeClose, called for the last descriptor of an end, hence by nobody who is
\* in a call.  The second close frees the pipe with its lock set.
Close(e) ==
    /\ open[e] /\ \A p \in Users : End(p) = e => at[p] = "idle"
    /\ ~lock /\ open' = [open EXCEPT ![e] = FALSE]
    /\ lock' = ~open[Other(e)]
    /\ UNCHANGED <<ringVars, owner, broken, semlock, pipeUp, pipeKilled, at, left>>

\* kill, its flag and its alert together.
PipeKill(p) ==
    /\ ~pipeKilled[p] /\ pipeKilled' = [pipeKilled EXCEPT ![p] = TRUE]
    /\ UNCHANGED <<ringVars, open, lockVars, semlock, pipeUp, at, left>>

Step(p) == Acquire(p) \/ Move(p) \/ Block(p) \/ Notify(p) \/ PipeSleep(p) \/ Resume(p)
           \/ Leave(p) \/ Release(p) \/ Post(p)

PipeNext ==
    \/ \E p \in Users : Step(p) \/ PipeKill(p) \/ \E k \in 0..MaxN : Call(p, k)
    \/ \E e \in Ends : Close(e)

PipeSpec == PipeInit /\ [][PipeNext]_pipeVars
-----------------------------------------------------------------------------
PipePCs == {"idle", "acquire", "loop", "notify", "wait", "asleep", "release", "post"}

RingTypeOK ==
    /\ nread \in 0..Wrap-1 /\ nwrite \in 0..Wrap-1
    /\ data \in [0..PIPESIZE-1 -> Bytes] /\ queue \in Seq(Bytes)

CallTypeOK ==
    /\ open \in [Ends -> BOOLEAN] /\ semlock \in [Ends -> BOOLEAN]
    /\ lock \in BOOLEAN /\ broken \in BOOLEAN
    /\ owner \in Users \cup {Nobody} /\ at \in [Users -> PipePCs]
    /\ pipeUp \in [Users -> BOOLEAN] /\ pipeKilled \in [Users -> BOOLEAN]
    /\ left \in [Users -> 0..MaxN]

PipeTypeOK == RingTypeOK /\ CallTypeOK

\* The ring holds the bytes written and not yet read, oldest first, and never
\* more than PIPESIZE, also after the counters wrapped: what pipeRead takes at
\* nread is the oldest byte pipeWrite put in.
RingHolds ==
    /\ Used = Len(queue) /\ Len(queue) <= PIPESIZE
    /\ \A k \in 1..Len(queue) : data[(nread + k - 1) % PIPESIZE] = queue[k]

RingMatchesQueue == ~broken => RingHolds

\* Places of a call from which a post of the other end's semaphore follows.
YetToPost == {"loop", "notify", "release", "post"}

\* Nobody sleeps on a byte or on a free slot: when a sleeper that no post has
\* reached could move a byte, a process of the other end has yet to post.
NoSleepOnData == ~broken =>
    \A p \in Users : at[p] = "asleep" /\ ~pipeUp[p] /\ CanMove(p) =>
        \E q \in Users : End(q) # End(p) /\ at[q] \in YetToPost

\* The ring of pipe.c holds the bytes written and not yet read, in order, while
\* its counters wrap.
RingSafe == PipeTypeOK /\ RingMatchesQueue

\* Between _lock_sem and _wait_sem a process has the spinlock of its own
\* semaphore, alone; it has iterations left as long as it waits.
WaitsLocked ==
    /\ \A p \in Users : at[p] \in {"notify", "wait", "asleep"} => left[p] > 0
    /\ \A p \in Users : at[p] \in {"notify", "wait"} => semlock[End(p)]
    /\ \A p, q \in Users : /\ at[p] \in {"notify", "wait"} /\ at[q] \in {"notify", "wait"}
                           /\ End(p) = End(q)
                           => p = q

\* A process about to sleep, or asleep and not posted, that could move a byte
\* by now: the other end has yet to post.
Unposted(p) == at[p] \in {"notify", "wait"} \/ (at[p] = "asleep" /\ ~pipeUp[p])
PostPending ==
    \A p \in Users : Unposted(p) /\ CanMove(p) =>
        \E q \in Users : End(q) # End(p) /\ at[q] \in YetToPost

\* The process in the loop set pi->lock, and so did the one that releases it,
\* unless kill ended its wait.
LockOwned ==
    /\ owner # Nobody => lock
    /\ ~broken => \A p \in Users :
           /\ at[p] = "loop" => owner = p
           /\ at[p] = "release" => owner = p \/ pipeKilled[p]

\* Only kill can make a process clear a lock that it does not hold.
OnlyKillBreaks == broken => \E p \in Users : pipeKilled[p]

\* The inductive invariant of the pipe.
PipeInv ==
    PipeTypeOK /\ RingHolds /\ WaitsLocked /\ PostPending /\ LockOwned /\ OnlyKillBreaks
=============================================================================
