------------------------------ MODULE SdQueue ------------------------------
(***************************************************************************)
(* driver/sd.c: the request queue of the SD driver.  sdrw (called by       *)
(* sd_read and sd_write of fs/block_device.c, with a buf on the caller's   *)
(* stack) queues the request, starts it when the queue was empty, and      *)
(* waits until the interrupt handler has marked it.  The handler runs on   *)
(* core 0 (GPU_INT_ROUTE); it finishes the request at the front, posts its *)
(* semaphore, removes it from the queue and starts the next one.           *)
(*                                                                         *)
(* The queue links the bufs themselves.  Once sdrw has returned, its frame *)
(* is gone: an operation that follows a link of such a buf, posts its      *)
(* semaphore, or queues the frame's next buf while this one is linked has  *)
(* no defined outcome.  The model stops there (corrupt).                   *)
(***************************************************************************)
EXTENDS Integers, Sequences, Functions

CONSTANTS SdThreads,
          SdMaxCalls   \* requests of all threads (a bound of the model)

VARIABLES dev,       \* external: the transfer in progress: its request, or {}
          irq,       \* external: READ_RDY or DATA_DONE is up
          buf,       \* thread -> flags and sd_sem of its struct buf
          live,      \* threads inside sdrw: their frames exist
          bufQueue,  \* buf_queue, as the threads that own its bufs
          sdPc,      \* thread -> "out", "enter", "check", "wait"
          intrPc,    \* sd_intr: "idle", "flags", "post", "pop", "start"
          front,     \* this_buf of sd_intr
          sdCalls, corrupt

sdQueueVars == <<dev, irq, buf, live, bufQueue, sdPc, intrPc, front,
                 sdCalls, corrupt>>

SdQueueInit ==
    /\ dev = {} /\ irq = FALSE
    /\ buf = [t \in SdThreads |-> [flags |-> {}, sem |-> 0]]
    /\ live = {} /\ bufQueue = <<>>
    /\ sdPc = [t \in SdThreads |-> "out"]
    /\ intrPc = "idle" /\ front = {}
    /\ sdCalls = 0 /\ corrupt = FALSE

\* sd_start: the device begins to work on t's request; it panics on an interrupt
\* flag left over, which a second transfer would leave.
StartOk == dev = {} /\ ~irq
sd_start(t) == StartOk /\ dev' = {t}

-----------------------------------------------------------------------------
\* sd_read and sd_write fill a buf of the caller's frame and call sdrw, which
\* sets up its semaphore.
SdCall(t) ==
    /\ sdPc[t] = "out" /\ sdCalls < SdMaxCalls /\ ~corrupt
    /\ \E flags \in {{}, {"DIRTY", "VALID"}} :
           buf' = [buf EXCEPT ![t] = [flags |-> flags, sem |-> 0]]
    /\ live' = live \cup {t}
    /\ sdPc' = [sdPc EXCEPT ![t] = "enter"]
    /\ sdCalls' = sdCalls + 1
    /\ UNCHANGED <<dev, irq, bufQueue, intrPc, front, corrupt>>

\* queue_push links the new buf between the last one and the first one, and
\* _merge_list writes a link of both.
PushTouchesDead(t) ==
    /\ bufQueue # <<>>
    /\ \/ ~({bufQueue[1], bufQueue[Len(bufQueue)]} \subseteq live)
       \/ t \in Range(bufQueue)

\* The critical section of sdrw: queue_lock is held from the test of the queue
\* to the end of sd_start.
SdEnqueue(t) ==
    /\ sdPc[t] = "enter" /\ ~corrupt
    /\ IF PushTouchesDead(t)
       THEN corrupt' = TRUE /\ UNCHANGED <<bufQueue, dev, sdPc>>
       ELSE /\ bufQueue' = Append(bufQueue, t)
            /\ IF bufQueue = <<>> THEN sd_start(t) ELSE UNCHANGED dev
            /\ sdPc' = [sdPc EXCEPT ![t] = "check"]
            /\ UNCHANGED corrupt
    /\ UNCHANGED <<irq, buf, live, intrPc, front, sdCalls>>

CheckWith(t, valid) ==
    /\ sdPc[t] = "check" /\ ~corrupt
    /\ IF valid
       THEN sdPc' = [sdPc EXCEPT ![t] = "out"] /\ live' = live \ {t}
       ELSE sdPc' = [sdPc EXCEPT ![t] = "wait"] /\ UNCHANGED live
    /\ UNCHANGED <<dev, irq, buf, bufQueue, intrPc, front, sdCalls, corrupt>>

\* Mutant: B_VALID is tested as one bit, which sd_write has already set.
SdCheck_Bit(t) == CheckWith(t, "VALID" \in buf[t].flags)

\* while (b->flags != B_VALID): flags are read without a lock; sdrw returns.
SdCheck(t) == CheckWith(t, buf[t].flags = {"VALID"})

\* unalertable_wait_sem returns.
SdWake(t) ==
    /\ sdPc[t] = "wait" /\ buf[t].sem > 0 /\ ~corrupt
    /\ buf' = [buf EXCEPT ![t].sem = @ - 1]
    /\ sdPc' = [sdPc EXCEPT ![t] = "check"]
    /\ UNCHANGED <<dev, irq, live, bufQueue, intrPc, front, sdCalls, corrupt>>

-----------------------------------------------------------------------------
\* External: the card has the data of a read, or has taken those of a write.
SdDevice ==
    /\ dev # {} /\ ~irq /\ ~corrupt
    /\ irq' = TRUE
    /\ UNCHANGED <<dev, buf, live, bufQueue, sdPc, intrPc, front, sdCalls, corrupt>>

\* sd_intr up to the end of the transfer, which fills the buf at the front of the
\* queue or empties it; queue_front panics when there is none.
SdIntr ==
    /\ irq /\ intrPc = "idle" /\ bufQueue # <<>> /\ ~corrupt
    /\ front' = {Head(bufQueue)}
    /\ irq' = FALSE /\ dev' = {}
    /\ intrPc' = "flags"
    /\ UNCHANGED <<buf, live, bufQueue, sdPc, sdCalls, corrupt>>

SdIntrFlags ==
    /\ intrPc = "flags" /\ ~corrupt
    /\ buf' = [t \in SdThreads |-> IF t \in front THEN [buf[t] EXCEPT !.flags = {"VALID"}]
                                   ELSE buf[t]]
    /\ intrPc' = "post"
    /\ UNCHANGED <<dev, irq, live, bufQueue, sdPc, front, sdCalls, corrupt>>

\* post_sem(&this_buf->sd_sem); the caller may have returned and be in its next
\* sdrw, whose semaphore is then the one that is posted.
SdIntrPost ==
    /\ intrPc = "post" /\ ~corrupt
    /\ IF front \subseteq live
       THEN /\ buf' = [t \in SdThreads |-> IF t \in front THEN [buf[t] EXCEPT !.sem = @ + 1]
                                           ELSE buf[t]]
            /\ intrPc' = "pop" /\ UNCHANGED corrupt
       ELSE corrupt' = TRUE /\ UNCHANGED <<buf, intrPc>>
    /\ UNCHANGED <<dev, irq, live, bufQueue, sdPc, front, sdCalls>>

\* queue_pop, which follows the link of the first buf when there are more.
SdIntrPop ==
    /\ intrPc = "pop" /\ ~corrupt
    /\ IF Len(bufQueue) > 1 /\ Head(bufQueue) \notin live
       THEN corrupt' = TRUE /\ UNCHANGED <<bufQueue, intrPc, front>>
       ELSE /\ bufQueue' = Tail(bufQueue)
            /\ intrPc' = IF Len(bufQueue) > 1 THEN "start" ELSE "idle"
            /\ front' = {} /\ UNCHANGED corrupt
    /\ UNCHANGED <<dev, irq, buf, live, sdPc, sdCalls>>

\* Mutant: the pop leaves the next request unstarted.
SdIntrStart_Never ==
    /\ intrPc = "start" /\ ~corrupt /\ intrPc' = "idle"
    /\ UNCHANGED <<dev, irq, buf, live, bufQueue, sdPc, front, sdCalls, corrupt>>

\* Only sd_lock is held here; queue_front is read again.
SdIntrStart ==
    /\ intrPc = "start" /\ ~corrupt
    /\ sd_start(Head(bufQueue))
    /\ intrPc' = "idle"
    /\ UNCHANGED <<irq, buf, live, bufQueue, sdPc, front, sdCalls, corrupt>>

SdqThread(t) == SdEnqueue(t) \/ SdCheck(t) \/ SdWake(t)
SdqHandler == SdIntr \/ SdIntrFlags \/ SdIntrPost \/ SdIntrPop \/ SdIntrStart

SdQueueNext == (\E t \in SdThreads : SdCall(t) \/ SdqThread(t)) \/ SdDevice \/ SdqHandler

SdQueueSpec == SdQueueInit /\ [][SdQueueNext]_sdQueueVars

-----------------------------------------------------------------------------
BufFlags == {{}, {"VALID"}, {"DIRTY", "VALID"}}

SdQueueTypeOK ==
    /\ dev \subseteq SdThreads /\ front \subseteq SdThreads /\ live \subseteq SdThreads
    /\ buf \in [SdThreads -> [flags : BufFlags, sem : 0 .. 2]]
    /\ bufQueue \in Seq(SdThreads)
    /\ irq \in BOOLEAN /\ corrupt \in BOOLEAN
    /\ sdPc \in [SdThreads -> {"out", "enter", "check", "wait"}]
    /\ intrPc \in {"idle", "flags", "post", "pop", "start"}

\* The card works on one request at a time and it is the one at the front of the
\* queue, so the handler fills the buf the data belongs to; whoever starts a
\* request (sdrw or the handler) finds the device idle, where sd_start would
\* panic.
SdqServesFront ==
    ~corrupt =>
        /\ dev # {} => bufQueue # <<>> /\ dev = {Head(bufQueue)}
        /\ intrPc = "start" => StartOk /\ bufQueue # <<>>
        /\ \A t \in SdThreads : sdPc[t] = "enter" /\ bufQueue = <<>> => StartOk

\* sd_intr posts the waiter before it takes the buf off the queue.  A queued buf
\* whose sdrw has returned is the first one, and only between the write of its
\* flags and the pop; every other queued buf is in a frame that exists.
SdqDeadFrame ==
    \A i \in 1 .. Len(bufQueue) :
        ~corrupt /\ bufQueue[i] \notin live
        => i = 1 /\ intrPc \in {"post", "pop"} /\ front = {bufQueue[1]}

\* What makes the two inductive.  Who is live; no buf is queued twice; the device
\* works exactly when the handler is idle and the queue is not empty; the handler
\* has the front in hand until the pop.
SdqPhases ==
    /\ live = {t \in SdThreads : sdPc[t] # "out"}
    /\ \A i, j \in 1 .. Len(bufQueue) : bufQueue[i] = bufQueue[j] => i = j
    /\ dev = IF intrPc = "idle" /\ bufQueue # <<>> THEN {bufQueue[1]} ELSE {}
    /\ irq => dev # {}
    /\ intrPc # "idle" => bufQueue # <<>>
    /\ front = IF intrPc \in {"flags", "post", "pop"} THEN {bufQueue[1]} ELSE {}

\* A request is not done until the handler has written its flags.
Undone(i) == ~(i = 1 /\ intrPc \in {"post", "pop"})
SdqUndone ==
    /\ \A t \in SdThreads : sdPc[t] = "enter" => buf[t].flags # {"VALID"}
    /\ \A i \in 1 .. Len(bufQueue) : Undone(i) =>
          /\ sdPc[bufQueue[i]] \in {"check", "wait"}
          /\ buf[bufQueue[i]].flags # {"VALID"}

\* A frame's semaphore is posted at most once for the request before and once for
\* its own.
SdqPosts ==
    \A t \in SdThreads :
        /\ sdPc[t] = "enter" => buf[t].sem <= IF intrPc = "post" /\ t \in front THEN 0 ELSE 1
        /\ t \in Range(bufQueue) /\ ~(intrPc = "pop" /\ t \in front) => buf[t].sem <= 1

SdqInv == SdQueueTypeOK /\ (~corrupt => SdqPhases /\ SdqUndone /\ SdqPosts)

\* A request that is queued is served and its caller returns.
SdqServed ==
    \A t \in SdThreads : sdPc[t] = "enter" ~> sdPc[t] = "out" \/ corrupt

\* sdrw and sd_intr agree on the queue: the card works for its front, it is started
\* by one of them, and only the front may be a buf whose frame is gone.
SdqSafe == SdQueueTypeOK /\ SdqServesFront /\ SdqDeadFrame
=============================================================================
