-------------------------------- MODULE Ipc --------------------------------
(***************************************************************************)
(* common/ipc.c: message queues.  msg_ids.lock is held from the entry of   *)
(* every call to its end or to the moment the caller sleeps, so a call is  *)
(* one step, and a second one when it is woken.                            *)
(*                                                                         *)
(* Four paths of the code leave the states this model describes; it stops  *)
(* there and ipcFault names the path:                                      *)
(*   "hung"  pipeline_send meets a waiting receiver whose buffer is too    *)
(*           small: it detaches the node it stands on, whose next is then  *)
(*           itself, and walks on from it for ever, holding the lock;      *)
(*   "wild"  a receiver woken by freeque or kill reads an r_msg nobody has *)
(*           set, or a sender that kill has woken is still in the list.    *)
(***************************************************************************)
EXTENDS Integers, Sequences, SequencesExt, FiniteSets, FiniteSetsExt

CONSTANTS IpcProcs, IpcKeys, MsgTypes, MsgSizes, RcvSizes,
          RcvTypes,        \* the mtype of a receive: 0, a type, or minus a type
          IdsSize,         \* msg_ids.size
          SeqWrap,         \* 2^16, the range of msg_ids.seq
          MAX_MSGNUM,
          IpcMaxQueues, IpcMaxMsgs   \* bounds of the model: newque, messages

VARIABLES entries,    \* msg_ids.entries: slot in use -> msg_queue
          ipcSeq,     \* msg_ids.seq
          ipcPc,      \* proc -> "out", "snd" or "rcv" (asleep), "sndwoken", "rcvwoken"
          ipcKilled,  \* killed while asleep: returns to user mode only to exit
          ipcReq,     \* proc -> what it asked for when it went to sleep
          rMsg,       \* proc -> receiver.r_msg: {message}, or {} when nobody has set it
          sent,       \* how many messages msgsnd has accepted; the k-th has n = k
          received, dropped,   \* those handed to receivers, and freed with a queue
          handed,     \* msgids newque has returned, in order
          ipcFault

ipcVars == <<entries, ipcSeq, ipcPc, ipcKilled, ipcReq, rMsg, sent, received,
             dropped, handed, ipcFault>>

SEQ_MULTIPLIER == IdsSize      \* 16 and 16 in the code
IpcSlots == 0 .. IdsSize - 1
Messages == [n : 1 .. IpcMaxMsgs, mtype : MsgTypes, size : MsgSizes]
Unset == {}
NoReq == [msgid |-> 0, mtype |-> 0, size |-> 0]

IpcInit ==
    /\ entries = <<>>  /\ ipcSeq = 0
    /\ ipcPc = [p \in IpcProcs |-> "out"]
    /\ ipcKilled = {}
    /\ ipcReq = [p \in IpcProcs |-> NoReq]
    /\ rMsg = [p \in IpcProcs |-> Unset]
    /\ sent = 0 /\ received = {} /\ dropped = {}
    /\ handed = <<>> /\ ipcFault = "none"

Usable == DOMAIN entries
ipc_buildin(id, seq) == seq * SEQ_MULTIPLIER + id

\* The slot a msgid names, as a set: empty when get_msgq returns NULL.
get_msgq(msgid) ==
    {id \in Usable : id = msgid % SEQ_MULTIPLIER /\ entries[id].seq = msgid \div SEQ_MULTIPLIER}

testmsg(rqtype, type) ==
    \/ rqtype = 0
    \/ rqtype < 0 /\ rqtype + type <= 0
    \/ rqtype > 0 /\ rqtype = type

\* All msgids callers can hold.
MsgIds == ToSet(handed)
IpcIdle(p) == ipcPc[p] = "out" /\ p \notin ipcKilled /\ ipcFault = "none"

-----------------------------------------------------------------------------
\* newque: ipc_addid takes the first free slot; ENOSEQ when there is none.
NewQueue(key) ==
    LET free == IpcSlots \ Usable
        id   == Min(free)
    IN  /\ free # {} /\ Len(handed) < IpcMaxQueues
        /\ entries' = [i \in Usable \cup {id} |->
               IF i = id THEN [key |-> key, seq |-> ipcSeq, msgs |-> <<>>,
                               snd |-> <<>>, rcv |-> <<>>]
               ELSE entries[i]]
        /\ handed' = Append(handed, ipc_buildin(id, ipcSeq))
        /\ ipcSeq' = (ipcSeq + 1) % SeqWrap

\* sys_msgget for a key nobody has, with IPC_CREATE, or for a private queue (0);
\* a call that finds the queue returns a msgid handed out before.
MsgGet(p, key) ==
    /\ IpcIdle(p)
    /\ key = 0 \/ \A i \in Usable : entries[i].key # key
    /\ NewQueue(key)
    /\ UNCHANGED <<ipcPc, ipcKilled, ipcReq, rMsg, sent, received, dropped, ipcFault>>

\* The receivers pipeline_send would stop at, by position.
Takers(q, m) == {i \in 1 .. Len(q.rcv) : testmsg(ipcReq[q.rcv[i]].mtype, m.mtype)}

\* pipeline_send, and the insertion when it finds nobody; pc0 is ipcPc with the
\* sender out of its call.
Deliver(id, m, takers, pc0) ==
    LET i == Min(takers)
        r == entries[id].rcv[i]
    IN  \/ /\ takers = {}
           /\ entries' = [entries EXCEPT ![id].msgs = Append(@, m)]
           /\ ipcPc' = pc0
           /\ UNCHANGED <<rMsg, ipcFault>>
        \/ /\ takers # {} /\ m.size > ipcReq[r].size
           /\ ipcFault' = "hung"
           /\ UNCHANGED <<entries, ipcPc, rMsg>>
        \/ /\ takers # {} /\ m.size <= ipcReq[r].size
           /\ entries' = [entries EXCEPT ![id].rcv = RemoveAt(@, i)]
           /\ rMsg' = [rMsg EXCEPT ![r] = {m}]
           /\ ipcPc' = [pc0 EXCEPT ![r] = "rcvwoken"]
           /\ UNCHANGED ipcFault

QueueFull(q) == Len(q.msgs) + 1 > MAX_MSGNUM

\* sys_msgsnd from retry on.  A queue that is gone is EIDRM; with IPC_NOWAIT a
\* full queue is EAGAIN, which changes nothing.
SendFrom(p, rq) ==
    LET m     == [n |-> sent + 1, mtype |-> rq.mtype, size |-> rq.size]
        pc0   == [ipcPc EXCEPT ![p] = "out"]
        id    == CHOOSE i \in get_msgq(rq.msgid) : TRUE
        full  == QueueFull(entries[id])
        known == get_msgq(rq.msgid) # {}
        linked == known /\ (p \in ToSet(entries[id].snd) \/ (full /\ p \in ipcKilled))
    IN  \/ /\ ~known
           /\ ipcPc' = pc0
           /\ ipcReq' = [ipcReq EXCEPT ![p] = NoReq]
           /\ UNCHANGED <<entries, rMsg, sent, ipcFault>>
        \/ /\ linked
           /\ ipcFault' = "wild"
           /\ UNCHANGED <<entries, ipcPc, ipcReq, rMsg, sent>>
        \/ /\ known /\ full /\ ~linked
           /\ entries' = [entries EXCEPT ![id].snd = Append(@, p)]
           /\ ipcPc' = [ipcPc EXCEPT ![p] = "snd"]
           /\ ipcReq' = [ipcReq EXCEPT ![p] = rq]
           /\ UNCHANGED <<rMsg, sent, ipcFault>>
        \/ /\ known /\ ~full /\ ~linked
           /\ sent < IpcMaxMsgs
           /\ Deliver(id, m, Takers(entries[id], m), pc0)
           /\ sent' = sent + 1
           /\ ipcReq' = [ipcReq EXCEPT ![p] = NoReq]

MsgSnd(p, rq) ==
    /\ \/ IpcIdle(p)
       \/ ipcPc[p] = "sndwoken" /\ rq = ipcReq[p] /\ ipcFault = "none"
    /\ SendFrom(p, rq)
    /\ UNCHANGED <<ipcSeq, ipcKilled, received, dropped, handed>>

-----------------------------------------------------------------------------
\* The search of sys_msgrcv: a negative mtype is raised by one at every match.
Search(msgs, mtype) ==
    FoldLeft(LAMBDA a, i :
                IF a.stop \/ ~testmsg(a.mtype, msgs[i].mtype) THEN a
                ELSE [found |-> i, mtype |-> IF a.mtype < -1 THEN a.mtype + 1 ELSE a.mtype,
                      stop |-> ~(a.mtype < -1)],
             [found |-> 0, mtype |-> mtype, stop |-> FALSE],
             [i \in 1 .. Len(msgs) |-> i])

\* sys_msgrcv; wakes: ss_wakeup takes everybody from q_sender.
ReceiveWith(p, rq, wakes) ==
    \E id \in get_msgq(rq.msgid) :
        LET q == entries[id]
            i == Search(q.msgs, rq.mtype).found
            woken == IF wakes THEN ToSet(q.snd) ELSE {}
        IN  \/ /\ i # 0 /\ q.msgs[i].size <= rq.size          \* else E2BIG
               /\ entries' = [entries EXCEPT ![id].msgs = RemoveAt(@, i),
                                             ![id].snd = SelectSeq(@, LAMBDA s : s \notin woken)]
               /\ ipcPc' = [s \in IpcProcs |-> IF s \in woken THEN "sndwoken" ELSE ipcPc[s]]
               /\ received' = received \cup {q.msgs[i].n}
               /\ UNCHANGED <<ipcReq, rMsg>>
            \/ /\ i = 0                                       \* IPC_NOWAIT: ENOMSG
               /\ entries' = [entries EXCEPT ![id].rcv = Append(@, p)]
               /\ ipcPc' = [ipcPc EXCEPT ![p] = "rcv"]
               /\ ipcReq' = [ipcReq EXCEPT ![p] = rq]
               /\ rMsg' = [rMsg EXCEPT ![p] = Unset]
               /\ UNCHANGED received

CallReceive(p, rq, wakes) ==
    /\ IpcIdle(p)
    /\ ReceiveWith(p, rq, wakes)
    /\ UNCHANGED <<ipcSeq, ipcKilled, sent, dropped, handed, ipcFault>>

\* Mutant: a receive makes room and wakes nobody.
MsgRcv_NoWake(p, rq) == CallReceive(p, rq, FALSE)

MsgRcv(p, rq) == CallReceive(p, rq, TRUE)

\* A receiver returns from _sched: r_msg is a message, or unset.
MsgRcvWoken(p) ==
    /\ ipcPc[p] = "rcvwoken" /\ ipcFault = "none"
    /\ IF rMsg[p] = Unset
       THEN ipcFault' = "wild" /\ UNCHANGED <<ipcPc, ipcReq, rMsg, received>>
       ELSE /\ received' = received \cup {m.n : m \in rMsg[p]}
            /\ rMsg' = [rMsg EXCEPT ![p] = Unset]
            /\ ipcPc' = [ipcPc EXCEPT ![p] = "out"]
            /\ ipcReq' = [ipcReq EXCEPT ![p] = NoReq]
            /\ UNCHANGED ipcFault
    /\ UNCHANGED <<entries, ipcSeq, ipcKilled, sent, dropped, handed>>

-----------------------------------------------------------------------------
\* freeque: ss_wakeup is called on q_receiver, so expunge_all finds it empty and
\* nobody sets r_msg; q_sender is not looked at, and its processes sleep on.  The
\* messages are freed from the one numbered first on.
FreeWith(p, msgid, first) ==
    /\ IpcIdle(p)
    /\ \E id \in get_msgq(msgid) :
          /\ entries' = [i \in Usable \ {id} |-> entries[i]]
          /\ ipcPc' = [r \in IpcProcs |->
                 IF r \in ToSet(entries[id].rcv) THEN "rcvwoken" ELSE ipcPc[r]]
          /\ dropped' = dropped \cup {entries[id].msgs[i].n : i \in first .. Len(entries[id].msgs)}
    /\ UNCHANGED <<ipcSeq, ipcKilled, ipcReq, rMsg, sent, received, handed, ipcFault>>

\* Mutant: the first message is left out of the loop that frees them.
MsgCtl_SkipFirst(p, msgid) == FreeWith(p, msgid, 2)

MsgCtl(p, msgid) == FreeWith(p, msgid, 1)

\* kill: a process asleep here is SLEEPING, so it is alerted and leaves _sched
\* with its node still in the list.
IpcKill(p) ==
    /\ ipcPc[p] \in {"snd", "rcv"} /\ ipcFault = "none"
    /\ ipcKilled' = ipcKilled \cup {p}
    /\ ipcPc' = [ipcPc EXCEPT ![p] = IF @ = "snd" THEN "sndwoken" ELSE "rcvwoken"]
    /\ UNCHANGED <<entries, ipcSeq, ipcReq, rMsg, sent, received, dropped, handed, ipcFault>>

SendReqs == [msgid : MsgIds, mtype : MsgTypes, size : MsgSizes]
RcvReqs  == [msgid : MsgIds, mtype : RcvTypes, size : RcvSizes]

IpcNext ==
    \E p \in IpcProcs :
        \/ \E key \in IpcKeys : MsgGet(p, key)
        \/ \E rq \in SendReqs : MsgSnd(p, rq)
        \/ \E rq \in RcvReqs : MsgRcv(p, rq)
        \/ MsgRcvWoken(p)
        \/ \E msgid \in MsgIds : MsgCtl(p, msgid)
        \/ IpcKill(p)

-----------------------------------------------------------------------------
\* Types of the state; no process is linked twice, and no slot's queue holds more
\* than max_msg messages.
IpcTypeOK ==
    /\ ipcPc \in [IpcProcs -> {"out", "snd", "rcv", "sndwoken", "rcvwoken"}]
    /\ ipcFault \in {"none", "hung", "wild"} /\ ipcSeq \in 0 .. SeqWrap - 1
    /\ \A id \in Usable :
          /\ id \in IpcSlots
          /\ entries[id].msgs \in Seq(Messages) /\ Len(entries[id].msgs) <= MAX_MSGNUM
          /\ IsInjective(entries[id].snd) /\ IsInjective(entries[id].rcv)

\* No process waits beside what it waits for: a queue with a waiting receiver
\* holds no message that receiver would take, and a queue with a waiting sender is
\* full.  Every msgsnd looks at the receivers before it queues, every msgrcv looks
\* at the queue before it sleeps and wakes all senders when it makes room.
IpcNoMissedWakeup ==
    \A id \in Usable :
        LET q == entries[id]
        IN  /\ \A i \in 1 .. Len(q.rcv), j \in 1 .. Len(q.msgs) :
                  ~testmsg(ipcReq[q.rcv[i]].mtype, q.msgs[j].mtype)
            /\ q.snd # <<>> => Len(q.msgs) = MAX_MSGNUM

\* A message msgsnd accepted is in exactly one place: in a queue, in the r_msg of
\* one receiver, received, or freed together with its queue; so none is lost,
\* received twice or handed out after it is freed.
IpcConserved ==
    ipcFault # "hung" =>
        LET inQueue == {<<id, i>> : id \in Usable, i \in 1 .. MAX_MSGNUM}
            queued  == {e \in inQueue : e[2] <= Len(entries[e[1]].msgs)}
            carried == {p \in IpcProcs : rMsg[p] # Unset}
            all     == {entries[e[1]].msgs[e[2]].n : e \in queued}
                       \cup {m.n : m \in UNION {rMsg[p] : p \in carried}}
                       \cup received \cup dropped
        IN  /\ all = 1 .. sent
            /\ Cardinality(queued) + Cardinality(carried) + Cardinality(received)
                 + Cardinality(dropped) = sent

\* A msgid names one queue only: until msg_ids.seq has wrapped, newque never
\* returns a msgid it returned before, so the id of a removed queue reaches no
\* later one.
IpcIdsFresh ==
    Len(handed) <= SeqWrap => IsInjective(handed)

\* Message queues (ipc.c): every accepted message is in exactly one place, a queue
\* keeps its limit, and a msgid never reaches a later queue.
IpcSafe == IpcTypeOK /\ IpcConserved /\ IpcIdsFresh
=============================================================================
