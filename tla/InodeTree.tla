----------------------------- MODULE InodeTree -----------------------------
(***************************************************************************)
(* The life of inodes: the in-memory inodes of fs/inode.c (inode_get,      *)
(* inode_put, inode_alloc, namex) under the calls of kernel/sysfile.c that *)
(* create, open, unlink and close files of one directory.                  *)
(*                                                                         *)
(* Steps are cut where the spin lock `lock`, the directory's sleep lock or *)
(* an inode's sleep lock is released.  An in-memory inode whose rc has     *)
(* dropped to 0 stays in the list for ever and is never found again; the   *)
(* model forgets it.  namex gives up the directory between the lookup and  *)
(* inode_get: by then the file may be unlinked, and still open, or its     *)
(* number may be another file's.  The caller takes a reference to what it  *)
(* finds.  When no name leads to the number and nobody has it in memory,   *)
(* inode_get makes an inode of one that is free, about to be cleared or    *)
(* just allocated (staleGet), and the model stops there.                   *)
(***************************************************************************)
EXTENDS Integers, FiniteSets

CONSTANTS ItProcs, ItNames, ItInos, ItObjs, ItNone,
          ItMaxCalls       \* bound of the model on system calls

\* Names and numbers exist (0 is no inode), and the heap has an inode for everybody.
ASSUME ItAssumption ==
    /\ ItNames # {} /\ ItInos \subseteq Nat \ {0} /\ ItMaxCalls \in Nat
    /\ ItNone \notin ItProcs /\ ItNone \notin ItObjs
    /\ IsFiniteSet(ItProcs) /\ IsFiniteSet(ItObjs) /\ Cardinality(ItObjs) >= Cardinality(ItProcs)

VARIABLES onDisk,     \* inode number -> [used, links], its InodeEntry
          dirEnt,     \* name -> inode number, 0 when there is no entry
          dirLock,    \* holder of the directory's sleep lock, or ItNone
          obj,        \* in-memory inode -> [ino, rc, valid, links, listed], ino 0: no inode
          objLock,    \* in-memory inode -> holder of its sleep lock, or ItNone
          itPc, itName, itIno, itObj,   \* per process: place, and the call's locals
          staleGet, doubleFree, itCalls

itVars == <<onDisk, dirEnt, dirLock, obj, objLock, itPc, itName, itIno, itObj,
            staleGet, doubleFree, itCalls>>

NoObj == [ino |-> 0, rc |-> 0, valid |-> FALSE, links |-> 0, listed |-> FALSE]

InodeTreeInit ==
    /\ onDisk = [i \in ItInos |-> [used |-> FALSE, links |-> 0]]
    /\ dirEnt = [n \in ItNames |-> 0]
    /\ dirLock = ItNone
    /\ obj = [o \in ItObjs |-> NoObj] /\ objLock = [o \in ItObjs |-> ItNone]
    /\ itPc = [p \in ItProcs |-> "out"]
    /\ itName = [p \in ItProcs |-> CHOOSE n \in ItNames : TRUE]
    /\ itIno = [p \in ItProcs |-> 0] /\ itObj = [p \in ItProcs |-> ItNone]
    /\ staleGet = FALSE /\ doubleFree = FALSE /\ itCalls = 0

ItAt(p, place) == itPc[p] = place /\ ~staleGet /\ ~doubleFree
ItGoto(p, place) == itPc' = [itPc EXCEPT ![p] = place]

\* openat without O_CREAT, openat with it, openat with it of ".", unlinkat.
ItCall(p, call, name) ==
    /\ ItAt(p, "out") /\ itCalls < ItMaxCalls /\ itCalls' = itCalls + 1
    /\ itName' = [itName EXCEPT ![p] = name]
    /\ ItGoto(p, call)
    /\ UNCHANGED <<onDisk, dirEnt, dirLock, obj, objLock, itIno, itObj, staleGet, doubleFree>>

\* The directory's lock is taken and the name looked up.
Lookup(p, call) ==
    /\ ItAt(p, call)
    /\ dirLock = ItNone
    /\ itIno' = [itIno EXCEPT ![p] = dirEnt[itName[p]]]
    /\ UNCHANGED <<obj, objLock, itName, itObj, staleGet, doubleFree, itCalls>>

\* namei: the lock is released again before inode_get.
ItOpen(p) ==
    /\ Lookup(p, "open")
    /\ ItGoto(p, IF itIno'[p] = 0 THEN "out" ELSE "get-open")
    /\ UNCHANGED <<onDisk, dirEnt, dirLock>>

\* create: an existing inode, or inode_alloc, which takes the first free number
\* (and panics when there is none).
ItCreate(p) ==
    LET free  == {i \in ItInos : ~onDisk[i].used}
        known == dirEnt[itName[p]] # 0
    IN  /\ ItAt(p, "create")
        /\ dirLock = ItNone /\ dirLock' = p
        /\ \E ino \in IF known THEN {dirEnt[itName[p]]} ELSE {i \in free : \A j \in free : i <= j} :
              /\ itIno' = [itIno EXCEPT ![p] = ino]
              /\ onDisk' = IF known THEN onDisk
                           ELSE [onDisk EXCEPT ![ino] = [used |-> TRUE, links |-> 0]]
        /\ ItGoto(p, IF known THEN "get-found" ELSE "get-new")
        /\ UNCHANGED <<dirEnt, obj, objLock, itName, itObj, staleGet, doubleFree, itCalls>>

\* create of ".": inode_get finds the directory itself and waits for the lock its
\* caller holds.
ItCreateDot(p) ==
    /\ ItAt(p, "dot")
    /\ dirLock = ItNone /\ dirLock' = p
    /\ ItGoto(p, "self-wait")
    /\ UNCHANGED <<onDisk, dirEnt, obj, objLock, itName, itIno, itObj, staleGet, doubleFree,
                   itCalls>>

\* unlinkat; the name is not there: bad.
ItUnlink(p) ==
    /\ Lookup(p, "unlink")
    /\ ItGoto(p, IF itIno'[p] = 0 THEN "out" ELSE "get-unlink")
    /\ dirLock' = IF itIno'[p] = 0 THEN ItNone ELSE p
    /\ UNCHANGED <<onDisk, dirEnt>>

-----------------------------------------------------------------------------
GetPc == [open |-> "get-open", found |-> "get-found", new |-> "get-new", unlink |-> "get-unlink"]
GetKinds == DOMAIN GetPc
WaitPc == [open |-> "wait-open", found |-> "wait-found", new |-> "wait-new", unlink |-> "wait-unlink"]
ReadPc == [open |-> "read-open", found |-> "read-found", new |-> "read-new", unlink |-> "read-unlink"]
NextPc == [open |-> "got", found |-> "found", new |-> "new", unlink |-> "unlink-both"]

\* The inode that inode_get finds in the list.
ItCached(ino) == {o \in ItObjs : obj[o].listed /\ obj[o].ino = ino /\ obj[o].rc > 0}

\* inode_get under `lock`: one more reference, or a new inode, locked.
GetInode(p, k, cached) ==
    /\ ItAt(p, GetPc[k])
    /\ staleGet' = (k = "open" /\ cached = {} /\ \A n \in ItNames : dirEnt[n] # itIno[p])
    /\ \/ \E o \in cached :
            /\ obj' = [obj EXCEPT ![o].rc = @ + 1]
            /\ itObj' = [itObj EXCEPT ![p] = o]
            /\ ItGoto(p, WaitPc[k])
            /\ UNCHANGED objLock
       \/ /\ cached = {}
          /\ \E o \in {CHOOSE q \in ItObjs : obj[q] = NoObj} :
               /\ obj' = [obj EXCEPT ![o] = [ino |-> itIno[p], rc |-> 1, valid |-> FALSE,
                                             links |-> 0, listed |-> TRUE]]
               /\ objLock' = [objLock EXCEPT ![o] = p]
               /\ itObj' = [itObj EXCEPT ![p] = o]
          /\ ItGoto(p, ReadPc[k])
    /\ UNCHANGED <<onDisk, dirEnt, dirLock, itName, itIno, doubleFree, itCalls>>

\* Mutant: an inode that nobody else has open is read from disk again.
ItGet_OnlyShared(p, k) == GetInode(p, k, {o \in ItCached(itIno[p]) : obj[o].rc > 1})

ItGet(p, k) == GetInode(p, k, ItCached(itIno[p]))

\* "make sure the inode got from list is valid": lock and unlock.
ItGetWait(p, k) ==
    /\ ItAt(p, WaitPc[k]) /\ objLock[itObj[p]] = ItNone
    /\ ItGoto(p, NextPc[k])
    /\ UNCHANGED <<onDisk, dirEnt, dirLock, obj, objLock, itName, itIno, itObj, staleGet,
                   doubleFree, itCalls>>

\* inode_sync of a new inode, and the unlock.
ItGetRead(p, k) ==
    /\ ItAt(p, ReadPc[k])
    /\ obj' = [obj EXCEPT ![itObj[p]].valid = TRUE,
                          ![itObj[p]].links = onDisk[itIno[p]].links]
    /\ objLock' = [objLock EXCEPT ![itObj[p]] = ItNone]
    /\ ItGoto(p, NextPc[k])
    /\ UNCHANGED <<onDisk, dirEnt, dirLock, itName, itIno, itObj, staleGet, doubleFree, itCalls>>

-----------------------------------------------------------------------------
\* create goes on with the inode locked: a new one gets num_links, inode_sync and its
\* entry; the directory's lock is released and openat unlocks the inode in the end.
ItCreated(p) ==
    LET o == itObj[p]
    IN  /\ ItAt(p, "found") \/ ItAt(p, "new")
        /\ objLock[o] = ItNone /\ objLock' = [objLock EXCEPT ![o] = p]
        /\ dirLock' = ItNone
        /\ IF itPc[p] = "found" THEN UNCHANGED <<onDisk, obj, dirEnt>>
           ELSE /\ obj' = [obj EXCEPT ![o].links = 1]
                /\ onDisk' = [onDisk EXCEPT ![itIno[p]].links = 1]
                /\ dirEnt' = [dirEnt EXCEPT ![itName[p]] = itIno[p]]
        /\ ItGoto(p, "locked")
        /\ UNCHANGED <<itName, itIno, itObj, staleGet, doubleFree, itCalls>>

\* openat locks what namei has found.
ItLockFound(p) ==
    /\ ItAt(p, "got")
    /\ objLock[itObj[p]] = ItNone /\ objLock' = [objLock EXCEPT ![itObj[p]] = p]
    /\ ItGoto(p, "locked")
    /\ UNCHANGED <<onDisk, dirEnt, dirLock, obj, itName, itIno, itObj, staleGet, doubleFree,
                   itCalls>>

\* openat ends with the file open; without a file or a descriptor it puts the inode
\* at once, which is a close here.
ItUnlock(p) ==
    /\ ItAt(p, "locked")
    /\ objLock' = [objLock EXCEPT ![itObj[p]] = ItNone]
    /\ ItGoto(p, "opened")
    /\ UNCHANGED <<onDisk, dirEnt, dirLock, obj, itName, itIno, itObj, staleGet, doubleFree,
                   itCalls>>

\* unlinkat with both locks: the entry is cleared and the directory released.
UnlinkWith(p, holder) ==
    /\ ItAt(p, "unlink-both")
    /\ objLock[itObj[p]] = ItNone /\ objLock' = [objLock EXCEPT ![itObj[p]] = p]
    /\ dirEnt' = [dirEnt EXCEPT ![itName[p]] = 0]
    /\ dirLock' = holder
    /\ ItGoto(p, "unlinked")
    /\ UNCHANGED <<onDisk, obj, itName, itIno, itObj, staleGet, doubleFree, itCalls>>

\* Mutant: the directory stays locked.
ItUnlinkEntry_KeepsDir(p) == UnlinkWith(p, p)

ItUnlinkEntry(p) == UnlinkWith(p, ItNone)

\* num_links--, inode_sync and unlock.
ItUnlinkCount(p) ==
    /\ ItAt(p, "unlinked")
    /\ obj' = [obj EXCEPT ![itObj[p]].links = @ - 1]
    /\ onDisk' = [onDisk EXCEPT ![itIno[p]].links = obj[itObj[p]].links - 1]
    /\ objLock' = [objLock EXCEPT ![itObj[p]] = ItNone]
    /\ ItGoto(p, "put")
    /\ UNCHANGED <<dirEnt, dirLock, itName, itIno, itObj, staleGet, doubleFree, itCalls>>

\* sys_close, exit: the last descriptor is closed.
ItClose(p) ==
    /\ ItAt(p, "opened")
    /\ ItGoto(p, "put")
    /\ UNCHANGED <<onDisk, dirEnt, dirLock, obj, objLock, itName, itIno, itObj, staleGet,
                   doubleFree, itCalls>>

-----------------------------------------------------------------------------
\* inode_put under `lock`: the last reference to an inode without links removes it.
LastRef(o) == obj[o].rc = 1 /\ obj[o].links = 0 /\ obj[o].valid

PutWith(p, last) ==
    LET o == itObj[p]
    IN  /\ ItAt(p, "put")
        /\ \/ /\ last
              /\ objLock[o] = ItNone /\ objLock' = [objLock EXCEPT ![o] = p]
              /\ obj' = [obj EXCEPT ![o].listed = FALSE]
              /\ ItGoto(p, "clear") /\ UNCHANGED <<itObj, itIno>>
           \/ /\ ~last
              /\ obj' = [obj EXCEPT ![o] = IF @.rc = 1 THEN NoObj ELSE [@ EXCEPT !.rc = obj[o].rc - 1]]
              /\ itObj' = [itObj EXCEPT ![p] = ItNone] /\ itIno' = [itIno EXCEPT ![p] = 0]
              /\ ItGoto(p, "out") /\ UNCHANGED objLock
        /\ UNCHANGED <<onDisk, dirEnt, dirLock, itName, staleGet, doubleFree, itCalls>>

\* Mutant: the inode goes with its last link, whoever has it open.
ItPut_AnyRef(p) == PutWith(p, obj[itObj[p]].links = 0 /\ obj[itObj[p]].valid)

ItPut(p) == PutWith(p, LastRef(itObj[p]))

\* inode_clear and INODE_INVALID, outside `lock`; cache_free panics when the blocks
\* are free already.
ItClear(p) ==
    /\ ItAt(p, "clear")
    /\ doubleFree' = ~onDisk[itIno[p]].used
    /\ onDisk' = [onDisk EXCEPT ![itIno[p]] = [used |-> FALSE, links |-> 0]]
    /\ obj' = [obj EXCEPT ![itObj[p]] = NoObj]
    /\ objLock' = [objLock EXCEPT ![itObj[p]] = ItNone]
    /\ itObj' = [itObj EXCEPT ![p] = ItNone] /\ itIno' = [itIno EXCEPT ![p] = 0]
    /\ ItGoto(p, "out")
    /\ UNCHANGED <<dirEnt, dirLock, itName, staleGet, itCalls>>

\* What a process does by itself once its call has begun.
ItStep(p) ==
    \/ ItOpen(p) \/ ItCreate(p) \/ ItCreateDot(p) \/ ItUnlink(p)
    \/ \E k \in GetKinds : ItGet(p, k) \/ ItGetWait(p, k) \/ ItGetRead(p, k)
    \/ ItCreated(p) \/ ItLockFound(p) \/ ItUnlock(p) \/ ItUnlinkEntry(p) \/ ItUnlinkCount(p)
    \/ ItPut(p) \/ ItClear(p)

InodeTreeNext ==
    \E p \in ItProcs :
        \/ ItStep(p) \/ ItClose(p)
        \/ \E name \in ItNames, call \in {"open", "create", "dot", "unlink"} : ItCall(p, call, name)

InodeTreeSpec == InodeTreeInit /\ [][InodeTreeNext]_itVars

-----------------------------------------------------------------------------
Refs(o) == {p \in ItProcs : itObj[p] = o}

\* Where a call has an inode number, an inode, its lock, the directory's lock.
Getting == {GetPc[k] : k \in GetKinds}
Reading == {ReadPc[k] : k \in GetKinds}
AtNew     == {"get-new", "wait-new", "read-new", "new"}
AtFound   == {"get-found", "wait-found", "read-found", "found"}
AtUnlink  == {"get-unlink", "wait-unlink", "read-unlink", "unlink-both"}
HasLock   == Reading \cup {"locked", "unlinked", "clear"}
HasObj    == HasLock \cup {WaitPc[k] : k \in GetKinds}
               \cup {"got", "found", "new", "unlink-both", "opened", "put"}
HasDir    == AtNew \cup AtFound \cup AtUnlink \cup {"self-wait"}
ItPlaces  == HasObj \cup Getting \cup {"out", "open", "create", "dot", "unlink", "self-wait"}

DiskInodes == [used : BOOLEAN, links : 0 .. 1]
MemInodes  == [ino : ItInos \cup {0}, rc : Nat, valid : BOOLEAN, links : 0 .. 1, listed : BOOLEAN]

\* Types; rc counts the processes that have the inode, and the holder of a lock is
\* one of them.
ItTypeOK ==
    /\ onDisk \in [ItInos -> DiskInodes]
    /\ dirEnt \in [ItNames -> ItInos \cup {0}]
    /\ dirLock \in ItProcs \cup {ItNone}
    /\ obj \in [ItObjs -> MemInodes] /\ objLock \in [ItObjs -> ItProcs \cup {ItNone}]
    /\ itPc \in [ItProcs -> ItPlaces] /\ itName \in [ItProcs -> ItNames]
    /\ itIno \in [ItProcs -> ItInos \cup {0}] /\ itObj \in [ItProcs -> ItObjs \cup {ItNone}]
    /\ staleGet \in BOOLEAN /\ doubleFree \in BOOLEAN /\ itCalls \in 0 .. ItMaxCalls

ItCounts ==
    \A o \in ItObjs : /\ obj[o].rc = Cardinality(Refs(o))
                      /\ objLock[o] \in Refs(o) \cup {ItNone}

\* One inode number, one in-memory inode: two would each have a lock and a copy of
\* the entry.
ItOneInode ==
    ~staleGet => \A o, q \in ItObjs : (obj[o].ino = obj[q].ino /\ obj[o].ino # 0) => o = q

\* An inode is in use on disk exactly as long as a name leads to it or a process
\* still has it: unlink never frees an open file, and the last close of an unlinked
\* file never forgets to.
ItAlive ==
    ~staleGet => \A i \in ItInos :
        onDisk[i].used <=> \/ \E n \in ItNames : dirEnt[n] = i
                           \/ \E p \in ItProcs : itIno[p] = i /\ itPc[p] # "get-open"

\* inode_clear, which inode_put calls for the last reference to an inode without
\* links, finds it in use, up to the first inode_get of a dead number.
ItNoDoubleFree == ~staleGet => doubleFree = FALSE

\* inode_put sleeps on the inode's lock while it holds the spin lock: the lock is
\* always free there, because its holder would be a second reference.
ItPutFree ==
    \A p \in ItProcs : (ItAt(p, "put") /\ LastRef(itObj[p])) => objLock[itObj[p]] = ItNone

\* Every call returns, whatever the others do: the locks of the directory and of the
\* inodes are taken in an order that cannot block for ever, unless some process has
\* called create on "." (it waits for itself) or namex met a stale number.
ItReturns ==
    \A p \in ItProcs :
        itPc[p] \notin {"out", "opened"} ~>
            (itPc[p] \in {"out", "opened"} \/ staleGet \/ \E q \in ItProcs : itPc[q] = "self-wait")

\* The list of in-memory inodes (inode_get, inode_put): rc counts the users, there is
\* one inode per number, and the put of the last reference finds the lock free and
\* the inode not freed before.
ItSafe == ItTypeOK /\ ItCounts /\ ItOneInode /\ ItPutFree /\ ItNoDoubleFree

-----------------------------------------------------------------------------
\* What the place of a process says of its locals and of the locks.
LocalsOf(p) ==
    /\ itObj[p] # ItNone <=> itPc[p] \in HasObj
    /\ itIno[p] # 0 <=> itPc[p] \in HasObj \cup Getting
    /\ itPc[p] \in HasObj => obj[itObj[p]].ino = itIno[p]
    /\ dirLock = p <=> itPc[p] \in HasDir
    /\ itPc[p] \in HasLock => objLock[itObj[p]] = p
    /\ \A o \in ItObjs : objLock[o] = p => itObj[p] = o /\ itPc[p] \in HasLock

ItLocals == \A p \in ItProcs : LocalsOf(p)

\* An in-memory inode nobody has is gone; one that is not valid is being read; a
\* valid one agrees with the disk; one that left the list is being cleared.
ItCoherent(o) ==
    /\ Refs(o) = {} => obj[o] = NoObj
    /\ Refs(o) # {} =>
         /\ ~obj[o].valid => \E p \in Refs(o) : itPc[p] \in Reading
         /\ obj[o].valid => obj[o].links = onDisk[obj[o].ino].links
         /\ ~obj[o].listed <=> \E p \in Refs(o) : itPc[p] = "clear"

ItObjects == \A o \in ItObjs : ItCoherent(o)

\* The entries of the directory and the link counts: each inode has one name, and
\* unlinkat clears the entry before it counts the link down.
ItLinks ==
    /\ \A n, m \in ItNames : dirEnt[n] = dirEnt[m] /\ dirEnt[n] # 0 => n = m
    /\ \A n \in ItNames : dirEnt[n] # 0 => onDisk[dirEnt[n]].links = 1
    /\ \A i \in ItInos : onDisk[i].links = 1 =>
          \/ \E n \in ItNames : dirEnt[n] = i
          \/ \E p \in ItProcs : itPc[p] = "unlinked" /\ itIno[p] = i
    /\ \A p \in ItProcs : itPc[p] = "unlinked" =>
          onDisk[itIno[p]].links = 1 /\ \A n \in ItNames : dirEnt[n] # itIno[p]

\* Nobody else has the inode with the number of p.
Alone(p) == \A q \in ItProcs \ {p} : itIno[q] = itIno[p] => itPc[q] = "get-open"

\* Under the directory's lock the entry stays what was looked up; an inode that is
\* being made, or cleared, has no link, and nobody else has it until it is in
\* memory, or once it is out of the list.
ItCalling ==
    \A p \in ItProcs :
        /\ itPc[p] \in AtFound \cup AtUnlink => dirEnt[itName[p]] = itIno[p]
        /\ itPc[p] \in AtNew => dirEnt[itName[p]] = 0
        /\ itPc[p] \in AtNew \cup {"clear"} => onDisk[itIno[p]].links = 0
        /\ itPc[p] \in {"get-new", "clear"} => Alone(p)

\* The inductive invariant of the inodes.
ItInv ==
    /\ ItTypeOK /\ ItCounts
    /\ ~staleGet => /\ doubleFree = FALSE
                    /\ ItLocals /\ ItObjects /\ ItLinks /\ ItCalling /\ ItOneInode /\ ItAlive
=============================================================================
