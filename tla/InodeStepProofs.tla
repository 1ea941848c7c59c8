-------------------------- MODULE InodeStepProofs ---------------------------
(* Proofs about the life of inodes (fs/inode.c and the calls of             *)
(* kernel/sysfile.c), first part: every step but inode_get's search,        *)
(* inode_put and inode_clear keeps the inductive invariant ItInv.           *)
EXTENDS InodeTree, TLAPS

\* The places of inode_get, one by one.
LEMMA KindPlaces ==
    /\ GetKinds = {"open", "found", "new", "unlink"}
    /\ GetPc["open"] = "get-open" /\ WaitPc["open"] = "wait-open"
    /\ ReadPc["open"] = "read-open" /\ NextPc["open"] = "got"
    /\ GetPc["found"] = "get-found" /\ WaitPc["found"] = "wait-found"
    /\ ReadPc["found"] = "read-found" /\ NextPc["found"] = "found"
    /\ GetPc["new"] = "get-new" /\ WaitPc["new"] = "wait-new"
    /\ ReadPc["new"] = "read-new" /\ NextPc["new"] = "new"
    /\ GetPc["unlink"] = "get-unlink" /\ WaitPc["unlink"] = "wait-unlink"
    /\ ReadPc["unlink"] = "read-unlink" /\ NextPc["unlink"] = "unlink-both"
  BY Zenon DEF GetKinds, GetPc, WaitPc, ReadPc, NextPc

\* The sets of places, written out.
LEMMA PlaceSets ==
    /\ Getting = {"get-open", "get-found", "get-new", "get-unlink"}
    /\ Reading = {"read-open", "read-found", "read-new", "read-unlink"}
    /\ HasLock = {"read-open", "read-found", "read-new", "read-unlink", "locked", "unlinked", "clear"}
    /\ HasObj = HasLock \cup {"wait-open", "wait-found", "wait-new", "wait-unlink", "got", "found",
                              "new", "unlink-both", "opened", "put"}
  BY KindPlaces DEF Getting, Reading, HasLock, HasObj

\* Two places where a process has the same things: an inode, its lock, the
\* directory's lock.
SameKind(a, b) ==
    /\ \A S \in {HasObj, Getting, HasDir, HasLock, Reading, AtNew} : a \in S <=> b \in S
    /\ b \in AtFound \cup AtUnlink => a \in AtFound \cup AtUnlink
    /\ a \notin {"get-open", "get-new", "unlinked", "clear"} /\ b \notin {"get-open", "get-new", "unlinked", "clear"}
    /\ b \in ItPlaces

\* A step that only moves p between two such places keeps the invariant.
LEMMA PlaceMoves ==
    ASSUME ItInv, ~staleGet, NEW p \in ItProcs, NEW b, SameKind(itPc[p], b),
           itPc' = [itPc EXCEPT ![p] = b], itCalls' \in 0 .. ItMaxCalls,
           itName' \in [ItProcs -> ItNames],
           \A q \in ItProcs : itName'[q] = itName[q] \/ (q = p /\ b \notin AtNew \cup AtFound \cup AtUnlink),
           UNCHANGED <<onDisk, dirEnt, dirLock, obj, objLock, itIno, itObj, staleGet, doubleFree>>
    PROVE  ItInv'
  <1> DEFINE a == itPc[p]
  <1>1. /\ a \in HasObj <=> b \in HasObj
        /\ a \in Getting <=> b \in Getting
        /\ a \in HasDir <=> b \in HasDir
        /\ a \in HasLock <=> b \in HasLock
        /\ a \in Reading <=> b \in Reading
        /\ a \in AtNew <=> b \in AtNew
        /\ b \in AtFound \cup AtUnlink => a \in AtFound \cup AtUnlink
        /\ a \notin {"get-open", "get-new", "unlinked", "clear"} /\ b \notin {"get-open", "get-new", "unlinked", "clear"}
        /\ b \in ItPlaces
    BY Zenon DEF SameKind
  <1>2. \A q \in ItProcs : itPc'[q] = IF q = p THEN b ELSE itPc[q]
    BY Zenon DEF ItInv, ItTypeOK
  <1>3. ItTypeOK'
    BY <1>1, Zenon DEF ItInv, ItTypeOK
  <1>4. \A o \in ItObjs : Refs(o)' = Refs(o)
    BY Zenon DEF Refs
  <1>5. ItCounts'
    BY <1>4, Zenon DEF ItInv, ItCounts
  <1>6. ItLocals'
    BY <1>1, <1>2 DEF ItInv, ItLocals, LocalsOf
  <1>7. ItObjects'
    BY <1>1, <1>2, <1>4 DEF ItInv, ItObjects, ItCoherent, Refs
  <1>8. ItLinks'
    BY <1>1, <1>2 DEF ItInv, ItLinks
  <1>9. ItCalling'
    BY <1>1, <1>2 DEF ItInv, ItCalling, Alone
  <1>10. ItOneInode'
    BY Zenon DEF ItInv, ItOneInode
  <1>11. ItAlive'
    BY <1>1, <1>2 DEF ItInv, ItAlive
  <1> QED BY <1>3, <1>5, <1>6, <1>7, <1>8, <1>9, <1>10, <1>11, Zenon DEF ItInv

\* A system call begins.
LEMMA ItCallInv ==
    ASSUME ItInv, NEW p \in ItProcs, NEW call \in {"open", "create", "dot", "unlink"},
           NEW name \in ItNames, ItCall(p, call, name)
    PROVE  ItInv'
  <1>1. itPc[p] = "out" /\ ~staleGet
    BY Zenon DEF ItCall, ItAt
  <1>2. SameKind("out", call)
    BY PlaceSets, Zenon DEF SameKind, HasDir, AtNew, AtFound, AtUnlink, ItPlaces
  <1>3. itName' \in [ItProcs -> ItNames] /\ itCalls' \in 0 .. ItMaxCalls
    BY ItAssumption DEF ItCall, ItInv, ItTypeOK
  <1>4. \A q \in ItProcs : itName'[q] = itName[q] \/ (q = p /\ call \notin AtNew \cup AtFound \cup AtUnlink)
    BY Zenon DEF ItCall, ItInv, ItTypeOK, AtNew, AtFound, AtUnlink
  <1> QED BY ZenonT(60), <1>1, <1>2, <1>3, <1>4, PlaceMoves DEF ItCall, ItGoto

\* The file is closed: on to inode_put.
LEMMA ItCloseInv ==
    ASSUME ItInv, NEW p \in ItProcs, ItClose(p) PROVE ItInv'
  <1>1. itPc[p] = "opened" /\ ~staleGet
    BY Zenon DEF ItClose, ItAt
  <1>2. SameKind("opened", "put")
    BY PlaceSets, Zenon DEF SameKind, HasDir, AtNew, AtFound, AtUnlink, ItPlaces
  <1>3. itName' \in [ItProcs -> ItNames] /\ itCalls' \in 0 .. ItMaxCalls /\ itName' = itName
    BY Zenon DEF ItClose, ItInv, ItTypeOK
  <1> QED BY <1>1, <1>2, <1>3, PlaceMoves, Zenon DEF ItClose, ItGoto

\* The inode that inode_get has found is valid.
LEMMA ItGetWaitInv ==
    ASSUME ItInv, NEW p \in ItProcs, NEW k \in GetKinds, ItGetWait(p, k) PROVE ItInv'
  <1>1. itPc[p] = WaitPc[k] /\ ~staleGet
    BY Zenon DEF ItGetWait, ItAt
  <1>2. SameKind(WaitPc[k], NextPc[k])
    BY KindPlaces, PlaceSets DEF SameKind, HasDir, AtNew, AtFound, AtUnlink, ItPlaces
  <1>3. itName' \in [ItProcs -> ItNames] /\ itCalls' \in 0 .. ItMaxCalls /\ itName' = itName
    BY Zenon DEF ItGetWait, ItInv, ItTypeOK
  <1> QED BY <1>1, <1>2, <1>3, PlaceMoves, Zenon DEF ItGetWait, ItGoto

\* Places of the calls before they have an inode number.
LEMMA StartPlaces ==
    \A a \in {"out", "open", "create", "dot", "unlink"} :
        a \notin HasObj \cup Getting \cup HasDir \cup HasLock \cup Reading \cup AtNew \cup AtFound \cup AtUnlink
  BY PlaceSets, Zenon DEF HasDir, AtNew, AtFound, AtUnlink

\* namei: the number it has looked up may be stale at once, so nothing is said of it.
LEMMA ItOpenInv ==
    ASSUME ItInv, NEW p \in ItProcs, ItOpen(p) PROVE ItInv'
  <1>1. /\ itPc[p] = "open" /\ ~staleGet
        /\ itIno' = [itIno EXCEPT ![p] = dirEnt[itName[p]]]
        /\ itPc' = [itPc EXCEPT ![p] = IF dirEnt[itName[p]] = 0 THEN "out" ELSE "get-open"]
        /\ UNCHANGED <<onDisk, dirEnt, dirLock, obj, objLock, itName, itObj, staleGet, doubleFree, itCalls>>
    BY Zenon DEF ItOpen, Lookup, ItGoto, ItAt, ItInv, ItTypeOK
  <1>2. CASE dirEnt[itName[p]] = 0
    <2>1. itIno[p] = 0
      BY ZenonT(60), <1>1, StartPlaces DEF ItInv, ItLocals, LocalsOf
    <2>2. itIno' = itIno
      BY <1>1, <1>2, <2>1, Zenon DEF ItInv, ItTypeOK
    <2>3. SameKind("open", "out")
      BY StartPlaces, Zenon DEF SameKind, ItPlaces
    <2>4. itName' \in [ItProcs -> ItNames] /\ itCalls' \in 0 .. ItMaxCalls /\ itName' = itName
      BY <1>1, Zenon DEF ItInv, ItTypeOK
    <2> QED BY <1>1, <1>2, <2>2, <2>3, <2>4, PlaceMoves, Zenon
  <1>3. CASE dirEnt[itName[p]] # 0
    <2> USE DEF ItInv
    <2>1. /\ "get-open" \in Getting /\ "get-open" \in ItPlaces
          /\ "get-open" \notin HasObj \cup HasDir \cup HasLock \cup Reading \cup AtNew \cup AtFound \cup AtUnlink
      BY PlaceSets, Zenon DEF HasDir, AtNew, AtFound, AtUnlink, ItPlaces
    <2>2. dirEnt[itName[p]] \in ItInos
      BY <1>3, Zenon DEF ItTypeOK
    <2>3. \A q \in ItProcs : /\ itPc'[q] = (IF q = p THEN "get-open" ELSE itPc[q])
                             /\ q # p => itIno'[q] = itIno[q]
      BY <1>1, <1>3, Zenon DEF ItTypeOK
    <2>4. ItTypeOK'
      BY <1>1, <1>3, <2>1, <2>2, Zenon DEF ItTypeOK
    <2>5. \A o \in ItObjs : Refs(o)' = Refs(o)
      BY <1>1, Zenon DEF Refs
    <2>6. ItCounts'
      BY <1>1, <2>5, Zenon DEF ItCounts
    <2>7. ItLocals'
      BY SMTT(30), <1>1, <2>1, <2>2, <2>3, <2>4, StartPlaces DEF ItLocals, LocalsOf, ItTypeOK
    <2>8. ItObjects'
      BY <1>1, <2>1, <2>3, <2>5, StartPlaces DEF ItObjects, ItCoherent, Refs
    <2>9. ItLinks'
      BY <1>1, <2>3 DEF ItLinks
    <2>10. ItCalling'
      BY <1>1, <2>1, <2>3 DEF ItCalling, Alone
    <2>11. ItOneInode' /\ ItAlive'
      BY ItAssumption, <1>1, <2>3, StartPlaces DEF ItOneInode, ItAlive, ItLocals, LocalsOf
    <2> QED BY <1>1, <2>4, <2>6, <2>7, <2>8, <2>9, <2>10, <2>11, Zenon
  <1> QED BY <1>2, <1>3, Zenon

\* A name is found with the directory locked: the inode is alive.
LEMMA FoundInv ==
    ASSUME ItInv, ~staleGet, NEW p \in ItProcs, NEW b \in {"get-found", "get-unlink"},
           itPc[p] \in {"create", "unlink"}, dirLock = ItNone, dirEnt[itName[p]] # 0,
           itIno' = [itIno EXCEPT ![p] = dirEnt[itName[p]]], dirLock' = p,
           itPc' = [itPc EXCEPT ![p] = b],
           UNCHANGED <<onDisk, dirEnt, obj, objLock, itName, itObj, staleGet, doubleFree, itCalls>>
    PROVE  ItInv'
  <1> USE DEF ItInv
  <1>1. /\ b \in Getting /\ b \in ItPlaces /\ b \in HasDir /\ b \in AtFound \cup AtUnlink
        /\ b \notin HasObj \cup HasLock \cup Reading \cup AtNew
        /\ b \notin {"get-open", "get-new", "unlinked", "clear"}
    BY PlaceSets, Zenon DEF HasDir, AtNew, AtFound, AtUnlink, ItPlaces
  <1>2. dirEnt[itName[p]] \in ItInos
    BY Zenon DEF ItTypeOK
  <1>3. \A q \in ItProcs : /\ itPc'[q] = (IF q = p THEN b ELSE itPc[q])
                           /\ itIno'[q] = (IF q = p THEN dirEnt[itName[p]] ELSE itIno[q])
    BY Zenon DEF ItTypeOK
  <1>4. ItTypeOK'
    BY <1>1, <1>2, Zenon DEF ItTypeOK
  <1>5. \A o \in ItObjs : Refs(o)' = Refs(o)
    BY Zenon DEF Refs
  <1>6. ItCounts'
    BY <1>5, Zenon DEF ItCounts
  <1>7. ItLocals'
    BY ItAssumption, <1>1, <1>2, <1>3, StartPlaces DEF ItLocals, LocalsOf
  <1>8. ItObjects'
    BY <1>1, <1>3, <1>5, StartPlaces DEF ItObjects, ItCoherent, Refs
  <1>9. ItLinks'
    BY <1>1, <1>3 DEF ItLinks
  <1>10. ItCalling'
    <2>1. onDisk[dirEnt[itName[p]]].links = 1
      BY Zenon DEF ItLinks, ItTypeOK
    <2>2. "get-new" \in AtNew
      BY Zenon DEF AtNew
    <2> QED BY <1>1, <1>3, <2>1, <2>2 DEF ItCalling, Alone
  <1>11. ItOneInode' /\ ItAlive'
    <2>1. itName[p] \in ItNames /\ itIno[p] = 0
      BY StartPlaces DEF ItTypeOK, ItLocals, LocalsOf
    <2>2. \A q \in ItProcs : q # p => itPc'[q] = itPc[q] /\ itIno'[q] = itIno[q]
      BY <1>3, Zenon
    <2>3. ItAlive'
      BY ItAssumption, <1>2, <1>3, <2>1, <2>2 DEF ItAlive
    <2> QED BY <2>3, Zenon DEF ItOneInode
  <1> QED BY <1>4, <1>6, <1>7, <1>8, <1>9, <1>10, <1>11, Zenon

\* unlinkat looks the name up.
LEMMA ItUnlinkInv ==
    ASSUME ItInv, NEW p \in ItProcs, ItUnlink(p) PROVE ItInv'
  <1>1. /\ itPc[p] = "unlink" /\ ~staleGet /\ dirLock = ItNone
        /\ itIno' = [itIno EXCEPT ![p] = dirEnt[itName[p]]]
        /\ itPc' = [itPc EXCEPT ![p] = IF dirEnt[itName[p]] = 0 THEN "out" ELSE "get-unlink"]
        /\ dirLock' = (IF dirEnt[itName[p]] = 0 THEN ItNone ELSE p)
        /\ UNCHANGED <<onDisk, dirEnt, obj, objLock, itName, itObj, staleGet, doubleFree, itCalls>>
    BY Zenon DEF ItUnlink, Lookup, ItGoto, ItAt, ItInv, ItTypeOK
  <1>2. CASE dirEnt[itName[p]] = 0
    <2>1. itIno[p] = 0
      BY <1>1, StartPlaces DEF ItInv, ItLocals, LocalsOf
    <2>2. itIno' = itIno
      BY <1>1, <1>2, <2>1, Zenon DEF ItInv, ItTypeOK
    <2>3. SameKind("unlink", "out")
      BY StartPlaces, Zenon DEF SameKind, ItPlaces
    <2>4. itName' \in [ItProcs -> ItNames] /\ itCalls' \in 0 .. ItMaxCalls /\ itName' = itName
      BY <1>1, Zenon DEF ItInv, ItTypeOK
    <2> QED BY <1>1, <1>2, <2>2, <2>3, <2>4, PlaceMoves, Zenon
  <1>3. CASE dirEnt[itName[p]] # 0
    BY <1>1, <1>3, FoundInv, Zenon
  <1> QED BY <1>2, <1>3, Zenon

\* create of ".".
LEMMA ItCreateDotInv ==
    ASSUME ItInv, NEW p \in ItProcs, ItCreateDot(p) PROVE ItInv'
  <1> USE DEF ItInv
  <1>0. /\ itPc[p] = "dot" /\ ~staleGet /\ dirLock = ItNone /\ dirLock' = p
        /\ itPc' = [itPc EXCEPT ![p] = "self-wait"]
        /\ UNCHANGED <<onDisk, dirEnt, obj, objLock, itName, itIno, itObj, staleGet, doubleFree, itCalls>>
    BY Zenon DEF ItCreateDot, ItGoto, ItAt
  <1>1. /\ "self-wait" \in HasDir /\ "self-wait" \in ItPlaces
        /\ "self-wait" \notin HasObj \cup Getting \cup HasLock \cup Reading \cup AtNew \cup AtFound \cup AtUnlink
    BY PlaceSets, Zenon DEF HasDir, AtNew, AtFound, AtUnlink, ItPlaces
  <1>3. \A q \in ItProcs : itPc'[q] = IF q = p THEN "self-wait" ELSE itPc[q]
    BY <1>0, Zenon DEF ItTypeOK
  <1>4. ItTypeOK'
    BY <1>0, <1>1, Zenon DEF ItTypeOK
  <1>5. \A o \in ItObjs : Refs(o)' = Refs(o)
    BY <1>0, Zenon DEF Refs
  <1>6. ItCounts'
    BY <1>0, <1>5, Zenon DEF ItCounts
  <1>7. ItLocals'
    BY ItAssumption, <1>0, <1>1, <1>3, StartPlaces DEF ItLocals, LocalsOf
  <1>8. ItObjects'
    BY <1>0, <1>1, <1>3, <1>5, StartPlaces DEF ItObjects, ItCoherent, Refs
  <1>9. ItLinks'
    BY <1>0, <1>3 DEF ItLinks
  <1>10. ItCalling'
    BY <1>0, <1>1, <1>3 DEF ItCalling, Alone
  <1>11. ItOneInode' /\ ItAlive'
    BY <1>0, <1>1, <1>3, StartPlaces DEF ItOneInode, ItAlive, ItLocals, LocalsOf
  <1> QED BY <1>0, <1>4, <1>6, <1>7, <1>8, <1>9, <1>10, <1>11, Zenon

\* create: a name that exists, or a new number: nobody can have its inode.
LEMMA ItCreateInv ==
    ASSUME ItInv, NEW p \in ItProcs, ItCreate(p) PROVE ItInv'
  <1>1. /\ itPc[p] = "create" /\ ~staleGet /\ dirLock = ItNone /\ dirLock' = p
        /\ UNCHANGED <<dirEnt, obj, objLock, itName, itObj, staleGet, doubleFree, itCalls>>
    BY Zenon DEF ItCreate, ItAt
  <1>2. CASE dirEnt[itName[p]] # 0
    <2>1. /\ itIno' = [itIno EXCEPT ![p] = dirEnt[itName[p]]] /\ onDisk' = onDisk
          /\ itPc' = [itPc EXCEPT ![p] = "get-found"]
      BY <1>2, Zenon DEF ItCreate, ItGoto
    <2> QED BY <1>1, <1>2, <2>1, FoundInv, Zenon
  <1>3. CASE dirEnt[itName[p]] = 0
    <2> USE DEF ItInv
    <2>1. PICK i \in ItInos : /\ ~onDisk[i].used /\ itIno' = [itIno EXCEPT ![p] = i]
                              /\ onDisk' = [onDisk EXCEPT ![i] = [used |-> TRUE, links |-> 0]]
      BY <1>3, Zenon DEF ItCreate
    <2>2. itPc' = [itPc EXCEPT ![p] = "get-new"]
      BY <1>3, Zenon DEF ItCreate, ItGoto
    <2>3. /\ "get-new" \in Getting /\ "get-new" \in ItPlaces /\ "get-new" \in HasDir /\ "get-new" \in AtNew
          /\ "get-new" \notin HasObj \cup HasLock \cup Reading \cup AtFound \cup AtUnlink
      BY PlaceSets, Zenon DEF HasDir, AtNew, AtFound, AtUnlink, ItPlaces
    <2>4. \A q \in ItProcs : /\ itPc'[q] = (IF q = p THEN "get-new" ELSE itPc[q])
                             /\ itIno'[q] = (IF q = p THEN i ELSE itIno[q])
      BY <2>1, <2>2, Zenon DEF ItTypeOK
    <2>5. /\ \A n \in ItNames : dirEnt[n] # i
          /\ \A q \in ItProcs : itIno[q] = i => itPc[q] = "get-open"
      BY <1>1, <2>1, Zenon DEF ItAlive
    <2>6. /\ \A j \in ItInos : j # i => onDisk'[j] = onDisk[j]
          /\ onDisk'[i].used /\ onDisk'[i].links = 0 /\ i # 0
      BY ItAssumption, <2>1, Zenon DEF ItTypeOK
    <2>7. ItTypeOK'
      <3>1. onDisk' \in [ItInos -> DiskInodes]
        BY <2>1 DEF ItTypeOK, DiskInodes
      <3> QED BY <1>1, <2>1, <2>2, <2>3, <3>1, Zenon DEF ItTypeOK
    <2>8. \A o \in ItObjs : Refs(o)' = Refs(o)
      BY <1>1, Zenon DEF Refs
    <2>9. ItCounts'
      BY <1>1, <2>8, Zenon DEF ItCounts
    <2>10. ItLocals'
      BY ItAssumption, <1>1, <2>3, <2>4, <2>6, StartPlaces DEF ItLocals, LocalsOf
    <2>11. ItObjects'
      <3>1. \A o \in ItObjs : Refs(o) # {} => obj[o].ino \in ItInos \ {i}
        <4> SUFFICES ASSUME NEW o \in ItObjs, NEW q \in ItProcs, itObj[q] = o PROVE obj[o].ino \in ItInos \ {i}
          BY Zenon DEF Refs
        <4>1. itPc[q] \in HasObj /\ obj[o].ino = itIno[q] /\ itIno[q] # 0
          BY ItAssumption, <1>1, Zenon DEF ItLocals, LocalsOf
        <4>2. itPc[q] # "get-open"
          BY <4>1, PlaceSets, Zenon
        <4> QED BY <2>5, <4>1, <4>2, Zenon DEF ItTypeOK
      <3>2. \A o \in ItObjs : \A q \in Refs(o) : itPc'[q] = itPc[q]
        BY ItAssumption, <1>1, <2>4, StartPlaces DEF ItLocals, LocalsOf, Refs
      <3> SUFFICES ASSUME NEW o \in ItObjs
                   PROVE  /\ Refs(o)' = {} => obj'[o] = NoObj
                          /\ Refs(o)' # {} =>
                               /\ ~obj'[o].valid => \E q \in Refs(o)' : itPc'[q] \in Reading
                               /\ obj'[o].valid => obj'[o].links = onDisk'[obj'[o].ino].links
                               /\ ~obj'[o].listed <=> \E q \in Refs(o)' : itPc'[q] = "clear"
        BY Zenon DEF ItObjects, ItCoherent
      <3>3. Refs(o)' = Refs(o) /\ obj'[o] = obj[o]
        BY <1>1, <2>8, Zenon
      <3>4. Refs(o) # {} => onDisk'[obj[o].ino] = onDisk[obj[o].ino]
        BY <2>6, <3>1, Zenon
      <3>5. /\ Refs(o) = {} => obj[o] = NoObj
            /\ Refs(o) # {} =>
                 /\ ~obj[o].valid => \E q \in Refs(o) : itPc[q] \in Reading
                 /\ obj[o].valid => obj[o].links = onDisk[obj[o].ino].links
                 /\ ~obj[o].listed <=> \E q \in Refs(o) : itPc[q] = "clear"
        BY <1>1, Zenon DEF ItObjects, ItCoherent
      <3> HIDE DEF ItInv
      <3> QED BY <3>2, <3>3, <3>4, <3>5, Zenon
    <2>12. ItLinks'
      <3>1. \A q \in ItProcs : itPc'[q] = "unlinked" => itPc[q] = "unlinked" /\ itIno'[q] = itIno[q] /\ itIno[q] \in ItInos \ {i}
        BY <1>1, <2>4, <2>5, PlaceSets DEF ItLocals, LocalsOf, ItTypeOK
      <3>2. \A q \in ItProcs : itPc[q] = "unlinked" => itPc'[q] = "unlinked" /\ itIno'[q] = itIno[q]
        BY <1>1, <2>4, Zenon
      <3>3. \A n \in ItNames : dirEnt[n] # 0 => dirEnt[n] \in ItInos \ {i}
        BY <2>5, Zenon DEF ItTypeOK
      <3>4. ItLinks /\ dirEnt' = dirEnt
        BY <1>1, Zenon
      <3>5. \A j \in ItInos : onDisk'[j].links = 1 => j # i /\ onDisk[j].links = 1
        BY <2>6
      <3>9. \A j \in ItInos \ {i} : onDisk'[j].links = onDisk[j].links
        BY <2>6, Zenon
      <3> HIDE DEF ItInv
      <3>6. \A j \in ItInos : onDisk'[j].links = 1 =>
               \/ \E n \in ItNames : dirEnt'[n] = j
               \/ \E q \in ItProcs : itPc'[q] = "unlinked" /\ itIno'[q] = j
        BY <3>2, <3>4, <3>5 DEF ItLinks
      <3>7. \A q \in ItProcs : itPc'[q] = "unlinked" =>
               onDisk'[itIno'[q]].links = 1 /\ \A n \in ItNames : dirEnt'[n] # itIno'[q]
        <4> TAKE q \in ItProcs
        <4> HAVE itPc'[q] = "unlinked"
        <4>1. itPc[q] = "unlinked" /\ itIno'[q] = itIno[q] /\ itIno[q] \in ItInos \ {i}
          BY <3>1, Zenon
        <4>2. onDisk[itIno[q]].links = 1 /\ \A n \in ItNames : dirEnt[n] # itIno[q]
          BY <3>4, <4>1, Zenon DEF ItLinks
        <4> QED BY <3>4, <3>9, <4>1, <4>2, Zenon
      <3>8. \A n \in ItNames : dirEnt'[n] # 0 => onDisk'[dirEnt'[n]].links = 1
        <4> TAKE n \in ItNames
        <4> HAVE dirEnt'[n] # 0
        <4>1. dirEnt[n] \in ItInos \ {i} /\ onDisk[dirEnt[n]].links = 1
          BY <3>3, <3>4, Zenon DEF ItLinks
        <4> QED BY <3>4, <3>9, <4>1, Zenon
      <3> QED BY <3>4, <3>6, <3>7, <3>8, Zenon DEF ItLinks
    <2>13. ItCalling'
      <3>1. \A q \in ItProcs : q # p => itPc'[q] = itPc[q] /\ itIno'[q] = itIno[q]
        BY <2>4, Zenon
      <3>2. \A q \in ItProcs : q # p => itPc[q] \notin AtNew \cup AtFound \cup AtUnlink
        BY ItAssumption, <1>1, Zenon DEF ItLocals, LocalsOf, HasDir
      <3>3. Alone(p)' /\ onDisk'[itIno'[p]].links = 0
        BY <2>4, <2>5, <2>6, Zenon DEF Alone
      <3>4. ASSUME NEW q \in ItProcs, itPc[q] = "clear" PROVE Alone(q)' /\ onDisk'[itIno'[q]].links = 0
        <4>1. q # p /\ itIno[q] # i /\ itIno[q] \in ItInos
          BY <1>1, <2>5, <3>4, PlaceSets DEF ItLocals, LocalsOf, ItTypeOK
        <4>2. onDisk[itIno[q]].links = 0 /\ Alone(q)
          BY <1>1, <3>4, Zenon DEF ItCalling
        <4> HIDE DEF ItInv
        <4> QED BY ZenonT(60), <2>4, <2>6, <4>1, <4>2 DEF Alone
      <3> QED BY ZenonT(60), <1>1, <1>3, <2>3, <2>4, <3>1, <3>2, <3>3, <3>4 DEF ItCalling
    <2>14. ItOneInode'
      BY <1>1, Zenon DEF ItOneInode
    <2>15. ItAlive'
      <3>1. itIno[p] = 0
        BY <1>1, StartPlaces DEF ItLocals, LocalsOf
      <3> QED BY ItAssumption, <1>1, <2>1, <2>4, <2>5, <2>6, <3>1 DEF ItAlive
    <2> QED BY <1>1, <2>7, <2>9, <2>10, <2>11, <2>12, <2>13, <2>14, <2>15, Zenon
  <1> QED BY <1>2, <1>3, Zenon

\* Taking or giving up an inode's lock, from a place without it to one with it and
\* back.
LEMMA LockMoves ==
    ASSUME ItInv, ~staleGet, NEW p \in ItProcs, NEW b, NEW h \in {p, ItNone},
           itPc[p] \in {"got", "locked"}, b \in {"locked", "opened"},
           b = "locked" <=> h = p, objLock[itObj[p]] \in {p, ItNone},
           itPc' = [itPc EXCEPT ![p] = b], objLock' = [objLock EXCEPT ![itObj[p]] = h],
           UNCHANGED <<onDisk, dirEnt, dirLock, obj, itName, itIno, itObj, staleGet, doubleFree, itCalls>>
    PROVE  ItInv'
  <1> USE DEF ItInv
  <1>1. /\ b \in HasObj /\ b \in ItPlaces /\ b \notin Getting \cup HasDir \cup Reading \cup AtNew \cup AtFound \cup AtUnlink
        /\ b \notin {"get-open", "unlinked", "clear"} /\ (b \in HasLock <=> h = p)
        /\ itPc[p] \in HasObj /\ itPc[p] \notin Getting \cup HasDir \cup Reading \cup AtNew \cup AtFound \cup AtUnlink
        /\ itPc[p] \notin {"get-open", "unlinked", "clear"}
    BY PlaceSets, Zenon DEF HasDir, AtNew, AtFound, AtUnlink, ItPlaces
  <1>2. itObj[p] \in ItObjs
    BY <1>1 DEF ItLocals, LocalsOf, ItTypeOK
  <1>3. \A q \in ItProcs : itPc'[q] = IF q = p THEN b ELSE itPc[q]
    BY Zenon DEF ItTypeOK
  <1>4. \A o \in ItObjs : objLock'[o] = IF o = itObj[p] THEN h ELSE objLock[o]
    BY Zenon DEF ItTypeOK
  <1>5. ItTypeOK'
    BY <1>1, <1>2, Zenon DEF ItTypeOK
  <1>6. \A o \in ItObjs : Refs(o)' = Refs(o)
    BY Zenon DEF Refs
  <1>7. ItCounts'
    BY SMTT(30), <1>2, <1>4, <1>6 DEF ItCounts, Refs
  <1>8. ItLocals'
    <2>1. \A q \in ItProcs : q # p => itPc'[q] = itPc[q]
      BY <1>3, Zenon
    <2>2. \A q \in ItProcs : q # p /\ itPc[q] \in HasLock => objLock[itObj[q]] = q /\ itObj[q] # itObj[p] /\ itObj[q] \in ItObjs
      BY SMTT(30), ItAssumption, PlaceSets DEF ItLocals, LocalsOf, ItTypeOK
    <2> QED BY ItAssumption, <1>1, <1>2, <1>3, <1>4, <2>1, <2>2 DEF ItLocals, LocalsOf
  <1>9. ItObjects'
    BY SMTT(30), <1>1, <1>3, <1>6 DEF ItObjects, ItCoherent, Refs
  <1>10. ItLinks'
    BY SMTT(30), <1>1, <1>3 DEF ItLinks
  <1>11. ItCalling'
    BY <1>1, <1>3 DEF ItCalling, Alone
  <1>12. ItOneInode' /\ ItAlive'
    BY <1>1, <1>3 DEF ItOneInode, ItAlive
  <1> QED BY <1>5, <1>7, <1>8, <1>9, <1>10, <1>11, <1>12, Zenon

\* openat locks the inode it has opened.
LEMMA ItLockFoundInv ==
    ASSUME ItInv, NEW p \in ItProcs, ItLockFound(p) PROVE ItInv'
  BY LockMoves, ItAssumption, Zenon DEF ItLockFound, ItAt, ItGoto

\* openat unlocks it in the end.
LEMMA ItUnlockInv ==
    ASSUME ItInv, NEW p \in ItProcs, ItUnlock(p) PROVE ItInv'
  <1>1. itPc[p] = "locked" /\ ~staleGet /\ ItNone # p
    BY ItAssumption, Zenon DEF ItUnlock, ItAt
  <1>2. objLock[itObj[p]] = p
    BY <1>1, PlaceSets, Zenon DEF ItInv, ItLocals, LocalsOf
  <1> QED BY <1>1, <1>2, LockMoves, Zenon DEF ItUnlock, ItGoto

\* A record of an in-memory inode with some of its fields set.
LEMMA MemSet ==
    ASSUME NEW m \in MemInodes
    PROVE  /\ \A l \in 0 .. 1 : [m EXCEPT !.valid = TRUE, !.links = l] \in MemInodes
           /\ \A l \in 0 .. 1 : [m EXCEPT !.links = l] \in MemInodes
           /\ \A r \in Nat : [m EXCEPT !.rc = r] \in MemInodes
           /\ [m EXCEPT !.listed = FALSE] \in MemInodes
           /\ \A i \in ItInos : [ino |-> i, rc |-> 1, valid |-> FALSE, links |-> 0, listed |-> TRUE] \in MemInodes
           /\ NoObj \in MemInodes
  <1>1. \A l \in 0 .. 1 : [m EXCEPT !.valid = TRUE, !.links = l] \in MemInodes
    BY Zenon DEF MemInodes
  <1>2. \A l \in 0 .. 1 : [m EXCEPT !.links = l] \in MemInodes
    BY Zenon DEF MemInodes
  <1>3. \A r \in Nat : [m EXCEPT !.rc = r] \in MemInodes
    BY Zenon DEF MemInodes
  <1>4. [m EXCEPT !.listed = FALSE] \in MemInodes
    BY Zenon DEF MemInodes
  <1>5. \A i \in ItInos : [ino |-> i, rc |-> 1, valid |-> FALSE, links |-> 0, listed |-> TRUE] \in MemInodes
    BY DEF MemInodes
  <1>6. NoObj \in MemInodes
    BY DEF MemInodes, NoObj
  <1> QED BY <1>1, <1>2, <1>3, <1>4, <1>5, <1>6, Zenon

\* The locals of a process that a step does not touch stay right.
LEMMA LocalsFrame ==
    ASSUME NEW q, LocalsOf(q), itPc'[q] = itPc[q], itObj'[q] = itObj[q], itIno'[q] = itIno[q],
           dirLock' = q <=> dirLock = q, itPc[q] \in HasObj => obj'[itObj[q]].ino = obj[itObj[q]].ino,
           itPc[q] \in HasLock => objLock'[itObj[q]] = objLock[itObj[q]],
           \A o \in ItObjs : objLock'[o] = q => objLock[o] = q
    PROVE  LocalsOf(q)'
  BY Zenon DEF LocalsOf

\* An in-memory inode that a step does not touch stays coherent.
LEMMA ObjectsFrame ==
    ASSUME NEW o, ItCoherent(o), Refs(o)' = Refs(o), obj'[o] = obj[o],
           Refs(o) # {} => onDisk'[obj[o].ino].links = onDisk[obj[o].ino].links,
           \A q \in Refs(o) : itPc'[q] = itPc[q]
    PROVE  ItCoherent(o)'
  BY Zenon DEF ItCoherent

\* The inode of a process that has one: in use, its own number, and unless it is
\* being read, equal to the disk.
LEMMA ObjOf ==
    ASSUME ItInv, ~staleGet, NEW p \in ItProcs, itPc[p] \in HasObj
    PROVE  /\ itObj[p] \in ItObjs /\ itIno[p] \in ItInos /\ p \in Refs(itObj[p])
           /\ obj[itObj[p]].ino = itIno[p]
           /\ \A q \in ItProcs : itPc[q] \in HasObj /\ itIno[q] = itIno[p] => itObj[q] = itObj[p]
           /\ \A q \in ItProcs : itIno[q] = itIno[p] => itPc[q] \in HasObj \cup Getting
           /\ objLock[itObj[p]] \in {p, ItNone} /\ itPc[p] \notin Reading =>
                 obj[itObj[p]].valid /\ obj[itObj[p]].links = onDisk[itIno[p]].links
  <1>1. itObj[p] \in ItObjs /\ itIno[p] \in ItInos /\ obj[itObj[p]].ino = itIno[p] /\ itIno[p] # 0
    BY ZenonT(60) DEF ItInv, ItLocals, LocalsOf, ItTypeOK
  <1>2. \A q \in ItProcs : itPc[q] \in HasObj /\ itIno[q] = itIno[p] => itObj[q] = itObj[p]
    BY <1>1 DEF ItInv, ItLocals, LocalsOf, ItTypeOK, ItOneInode
  <1>3. p \in Refs(itObj[p])
    BY Zenon DEF Refs
  <1>4. ASSUME objLock[itObj[p]] \in {p, ItNone}, itPc[p] \notin Reading
        PROVE  obj[itObj[p]].valid /\ obj[itObj[p]].links = onDisk[itIno[p]].links
    <2>1. \A q \in Refs(itObj[p]) : itPc[q] \notin Reading
      BY ItAssumption, <1>4, PlaceSets DEF ItInv, ItLocals, LocalsOf, Refs
    <2> QED BY <1>1, <1>3, <2>1, Zenon DEF ItInv, ItObjects, ItCoherent
  <1>5. \A q \in ItProcs : itIno[q] = itIno[p] => itPc[q] \in HasObj \cup Getting
    BY <1>1, Zenon DEF ItInv, ItLocals, LocalsOf
  <1> QED BY <1>1, <1>2, <1>3, <1>4, <1>5, Zenon

\* inode_get has read the entry from disk.
LEMMA ItGetReadInv ==
    ASSUME ItInv, NEW p \in ItProcs, NEW k \in GetKinds, ItGetRead(p, k) PROVE ItInv'
  <1> DEFINE a == ReadPc[k]
             b == NextPc[k]
  <1>0. itPc[p] = a /\ ~staleGet /\ a \in HasObj
    BY KindPlaces, PlaceSets, Zenon DEF ItGetRead, ItAt
  <1>o. PICK o \in ItObjs : o = itObj[p]
    BY <1>0, ObjOf, Zenon
  <1>1. /\ itPc[p] = a /\ ~staleGet /\ doubleFree = FALSE /\ itPc' = [itPc EXCEPT ![p] = b]
        /\ obj' = [obj EXCEPT ![o].valid = TRUE, ![o].links = onDisk[itIno[p]].links]
        /\ objLock' = [objLock EXCEPT ![o] = ItNone]
        /\ UNCHANGED <<onDisk, dirEnt, dirLock, itName, itIno, itObj, staleGet, doubleFree, itCalls>>
    BY <1>o, Zenon DEF ItGetRead, ItAt, ItGoto, ItInv
  <1>2. /\ a \in HasObj /\ a \in HasLock /\ a \in Reading /\ b \in HasObj /\ b \notin HasLock /\ b \notin Reading
        /\ a \notin Getting /\ b \notin Getting /\ b \in ItPlaces
        /\ a \in HasDir <=> b \in HasDir
        /\ a \in AtNew <=> b \in AtNew
        /\ a \in AtFound \cup AtUnlink <=> b \in AtFound \cup AtUnlink
        /\ a \notin {"get-open", "get-new", "unlinked", "clear"} /\ b \notin {"get-open", "get-new", "unlinked", "clear"}
    BY KindPlaces, PlaceSets, Zenon DEF HasDir, AtNew, AtFound, AtUnlink, ItPlaces
  <1> HIDE DEF a, b
  <1>3. /\ ItTypeOK /\ ItCounts /\ ItLocals /\ ItObjects /\ ItLinks /\ ItCalling /\ ItOneInode /\ ItAlive
        /\ o \in ItObjs /\ itIno[p] \in ItInos /\ p \in Refs(o) /\ obj[o].ino = itIno[p] /\ objLock[o] = p
    BY <1>o, <1>1, <1>2, ObjOf, Zenon DEF ItInv, ItLocals, LocalsOf
  <1>4. \A q \in ItProcs : itPc'[q] = IF q = p THEN b ELSE itPc[q]
    BY <1>1, <1>3, Zenon DEF ItTypeOK
  <1>5. /\ \A q \in ItObjs : q # o => obj'[q] = obj[q] /\ objLock'[q] = objLock[q]
        /\ objLock'[o] = ItNone /\ obj'[o].valid /\ obj'[o].links = onDisk[itIno[p]].links
        /\ obj'[o].ino = obj[o].ino /\ obj'[o].rc = obj[o].rc /\ obj'[o].listed = obj[o].listed
    BY <1>1, <1>3 DEF ItTypeOK, MemInodes
  <1>6. ItTypeOK'
    <2>1. obj[o] \in MemInodes /\ onDisk[itIno[p]].links \in 0 .. 1
      BY <1>3, Zenon DEF ItTypeOK, DiskInodes
    <2>2. obj' = [obj EXCEPT ![o] = [obj[o] EXCEPT !.valid = TRUE, !.links = onDisk[itIno[p]].links]]
      BY <1>1, <1>3, Zenon DEF ItTypeOK
    <2>3. obj' \in [ItObjs -> MemInodes]
      BY <1>3, <2>1, <2>2, MemSet, Zenon DEF ItTypeOK
    <2> QED BY <1>1, <1>2, <1>3, <2>3, Zenon DEF ItTypeOK
  <1>7. \A q \in ItObjs : Refs(q)' = Refs(q)
    BY <1>1, Zenon DEF Refs
  <1>8. ItCounts'
    BY <1>3, <1>5, <1>7 DEF ItCounts
  <1>9. ItLocals'
    <2>1. LocalsOf(p)'
      BY ItAssumption, <1>o, <1>1, <1>2, <1>3, <1>4, <1>5 DEF ItLocals, LocalsOf
    <2>2. ASSUME NEW q \in ItProcs, q # p PROVE LocalsOf(q)'
      <3>1. LocalsOf(q) /\ itPc'[q] = itPc[q] /\ (itPc[q] \in HasObj => itObj[q] \in ItObjs)
        BY <1>3, <1>4, <2>2 DEF ItLocals, LocalsOf, ItTypeOK
      <3>2. itPc[q] \in HasLock => itObj[q] # o /\ itPc[q] \in HasObj
        BY <1>3, <2>2, <3>1, PlaceSets, Zenon DEF LocalsOf
      <3>3. \A r \in ItObjs : objLock'[r] = q => objLock[r] = q
        BY ItAssumption, <1>5, Zenon
      <3>4. itPc[q] \in HasObj => obj'[itObj[q]].ino = obj[itObj[q]].ino
        BY <1>5, <3>1, Zenon
      <3> QED BY <1>1, <1>5, <3>1, <3>2, <3>3, <3>4, LocalsFrame, Zenon
    <2> QED BY <2>1, <2>2, Zenon DEF ItLocals
  <1>10. ItObjects'
    <2>1. ASSUME NEW q \in ItObjs, q # o PROVE ItCoherent(q)'
      <3>1. ItCoherent(q) /\ Refs(q)' = Refs(q) /\ obj'[q] = obj[q] /\ onDisk' = onDisk
        BY <1>1, <1>3, <1>5, <1>7, <2>1, Zenon DEF ItObjects
      <3>2. \A r \in Refs(q) : itPc'[r] = itPc[r]
        BY <1>o, <1>4, <2>1, Zenon DEF Refs
      <3> QED BY <3>1, <3>2, ObjectsFrame, Zenon
    <2>2. ItCoherent(o)'
      <3>1. ~obj[o].listed <=> \E r \in Refs(o) : itPc[r] = "clear"
        BY <1>3, Zenon DEF ItObjects, ItCoherent
      <3>c. \A r \in Refs(o) : itPc[r] = "clear" <=> itPc'[r] = "clear"
        BY <1>1, <1>2, <1>4, Zenon DEF Refs
      <3>2. ~obj'[o].listed <=> \E r \in Refs(o)' : itPc'[r] = "clear"
        BY <1>3, <1>5, <1>7, <3>1, <3>c, Zenon
      <3> QED BY <1>1, <1>3, <1>5, <1>7, <3>2, Zenon DEF ItCoherent
    <2> QED BY <2>1, <2>2, Zenon DEF ItObjects
  <1>11. ItLinks'
    BY <1>1, <1>2, <1>3, <1>4 DEF ItLinks
  <1>12. ItCalling'
    BY <1>1, <1>2, <1>3, <1>4 DEF ItCalling, Alone
  <1>13. ItOneInode'
    <2>1. \A q \in ItObjs : obj'[q].ino = obj[q].ino
      BY <1>5, Zenon
    <2> QED BY ZenonT(60), <1>1, <1>3, <2>1 DEF ItOneInode
  <1>14. ItAlive'
    BY <1>1, <1>2, <1>3, <1>4 DEF ItAlive
  <1> QED BY <1>1, <1>6, <1>8, <1>9, <1>10, <1>11, <1>12, <1>13, <1>14, Zenon DEF ItInv

\* Places of a process that has taken its inode's lock after it had it unlocked.
LEMMA LockedPlaces ==
    /\ {"locked", "unlinked"} \subseteq HasObj \cap HasLock \cap ItPlaces
    /\ {"found", "new", "unlink-both"} \subseteq HasObj \cap HasDir
    /\ \A a \in {"locked", "unlinked", "put"} : a \notin Getting \cup HasDir \cup Reading \cup AtNew \cup AtFound \cup AtUnlink
    /\ \A a \in {"found", "new", "unlink-both", "put"} : a \notin Getting \cup HasLock \cup Reading
    /\ "put" \in HasObj \cap ItPlaces
    /\ "new" \in AtNew /\ "found" \in AtFound /\ "unlink-both" \in AtUnlink
  BY PlaceSets, Zenon DEF HasDir, AtNew, AtFound, AtUnlink, ItPlaces

\* p, which has no inode's lock, takes the lock of its inode and gives up the
\* directory's: the locals are right afterwards.
LEMMA LockLocals ==
    ASSUME ItInv, ~staleGet, NEW p \in ItProcs, NEW o \in ItObjs, o = itObj[p],
           itPc[p] \in {"found", "new", "unlink-both"},
           NEW b \in {"locked", "unlinked"}, objLock[o] = ItNone,
           itPc' = [itPc EXCEPT ![p] = b], objLock' = [objLock EXCEPT ![o] = p], dirLock' = ItNone,
           \A q \in ItObjs : obj'[q].ino = obj[q].ino,
           UNCHANGED <<itIno, itObj>>
    PROVE  /\ ItLocals' /\ (ItCounts /\ (\A q \in ItObjs : obj'[q].rc = obj[q].rc) => ItCounts')
           /\ \A q \in ItProcs : itPc'[q] = IF q = p THEN b ELSE itPc[q]
           /\ \A q \in ItProcs \ {p} : itPc[q] \notin HasDir
  <1>1. ItTypeOK /\ ItLocals
    BY Zenon DEF ItInv
  <1>2. \A q \in ItProcs : itPc'[q] = IF q = p THEN b ELSE itPc[q]
    BY <1>1, Zenon DEF ItTypeOK
  <1>3. \A q \in ItObjs : objLock'[q] = IF q = o THEN p ELSE objLock[q]
    BY <1>1, Zenon DEF ItTypeOK
  <1>4. dirLock = p /\ itIno[p] # 0 /\ itObj[p] # ItNone /\ obj[itObj[p]].ino = itIno[p]
    BY <1>1, LockedPlaces, Zenon DEF ItLocals, LocalsOf
  <1>5. LocalsOf(p)'
    <2>1. b \in HasObj /\ b \in HasLock /\ b \notin HasDir
      BY LockedPlaces, Zenon
    <2>2. \A q \in ItObjs : objLock'[q] = p => q = o
      BY <1>1, <1>3, LockedPlaces DEF ItLocals, LocalsOf
    <2> QED BY ZenonT(60), ItAssumption, <1>2, <1>3, <1>4, <2>1, <2>2 DEF LocalsOf
  <1>6. \A q \in ItProcs \ {p} : itPc[q] \notin HasDir
    BY <1>1, <1>4, Zenon DEF ItLocals, LocalsOf
  <1>7. ASSUME NEW q \in ItProcs, q # p PROVE LocalsOf(q)'
    <2>1. LocalsOf(q) /\ itPc'[q] = itPc[q] /\ (itPc[q] \in HasObj => itObj[q] \in ItObjs)
      BY <1>1, <1>2, <1>7 DEF ItLocals, LocalsOf, ItTypeOK
    <2>2. itPc[q] \in HasLock => itObj[q] # o /\ itPc[q] \in HasObj
      BY ItAssumption, <1>1, <1>7, <2>1, PlaceSets, Zenon DEF LocalsOf
    <2>3. dirLock' = q <=> dirLock = q
      BY ItAssumption, <1>4, <1>7, Zenon
    <2>4. \A r \in ItObjs : objLock'[r] = q => objLock[r] = q
      BY <1>3, <1>7, Zenon
    <2> QED BY ZenonT(60), <1>3, <2>1, <2>2, <2>3, <2>4, LocalsFrame
  <1>8. ASSUME ItCounts, \A q \in ItObjs : obj'[q].rc = obj[q].rc PROVE ItCounts'
    <2>1. \A q \in ItObjs : Refs(q)' = Refs(q)
      BY Zenon DEF Refs
    <2>2. p \in Refs(o)
      BY Zenon DEF Refs
    <2> QED BY <1>3, <1>8, <2>1, <2>2, ZenonT(60) DEF ItCounts
  <1> QED BY <1>2, <1>5, <1>6, <1>7, <1>8, Zenon DEF ItLocals

\* create ends with an inode that was there.
LEMMA CreatedFoundInv ==
    ASSUME ItInv, NEW p \in ItProcs, ItCreated(p), itPc[p] = "found" PROVE ItInv'
  <1>0. ~staleGet /\ doubleFree = FALSE
    BY Zenon DEF ItCreated, ItAt, ItInv
  <1>o. PICK o \in ItObjs : o = itObj[p]
    BY <1>0, ObjOf, LockedPlaces, Zenon
  <1>1. /\ objLock[o] = ItNone /\ objLock' = [objLock EXCEPT ![o] = p] /\ dirLock' = ItNone
        /\ itPc' = [itPc EXCEPT ![p] = "locked"]
        /\ UNCHANGED <<onDisk, obj, dirEnt, itName, itIno, itObj, staleGet, doubleFree, itCalls>>
    BY <1>o, Zenon DEF ItCreated, ItGoto
  <1>2. /\ ItTypeOK /\ ItCounts /\ ItLocals /\ ItObjects /\ ItLinks /\ ItCalling /\ ItOneInode /\ ItAlive
    BY <1>0, Zenon DEF ItInv
  <1>3. /\ ItLocals' /\ ItCounts'
        /\ \A q \in ItProcs : itPc'[q] = IF q = p THEN "locked" ELSE itPc[q]
        /\ \A q \in ItProcs \ {p} : itPc[q] \notin HasDir
    BY <1>0, <1>o, <1>1, <1>2, LockLocals, Zenon
  <1>4. ItTypeOK'
    BY <1>1, <1>2, LockedPlaces, Zenon DEF ItTypeOK
  <1>5. \A q \in ItObjs : Refs(q)' = Refs(q)
    BY <1>1, Zenon DEF Refs
  <1>6. ItObjects'
    BY <1>1, <1>2, <1>3, <1>5, LockedPlaces DEF ItObjects, ItCoherent, Refs
  <1>7. ItLinks'
    BY <1>1, <1>2, <1>3 DEF ItLinks
  <1>8. ItCalling'
    BY SMTT(30), <1>1, <1>2, <1>3, LockedPlaces DEF ItCalling, Alone
  <1>9. ItOneInode' /\ ItAlive'
    BY <1>1, <1>2, <1>3 DEF ItOneInode, ItAlive
  <1> QED BY <1>1, <1>0, <1>3, <1>4, <1>6, <1>7, <1>8, <1>9, Zenon DEF ItInv

\* unlinkat clears the entry and releases the directory.
LEMMA ItUnlinkEntryInv ==
    ASSUME ItInv, NEW p \in ItProcs, ItUnlinkEntry(p) PROVE ItInv'
  <1>0. itPc[p] = "unlink-both" /\ ~staleGet /\ doubleFree = FALSE
    BY Zenon DEF ItUnlinkEntry, UnlinkWith, ItAt, ItInv
  <1>o. PICK o \in ItObjs : o = itObj[p]
    BY ZenonT(60), <1>0, ObjOf, LockedPlaces
  <1>1. /\ objLock[o] = ItNone /\ objLock' = [objLock EXCEPT ![o] = p] /\ dirLock' = ItNone
        /\ itPc' = [itPc EXCEPT ![p] = "unlinked"]
        /\ dirEnt' = [dirEnt EXCEPT ![itName[p]] = 0]
        /\ UNCHANGED <<onDisk, obj, itName, itIno, itObj, staleGet, doubleFree, itCalls>>
    BY <1>o, Zenon DEF ItUnlinkEntry, UnlinkWith, ItGoto
  <1>2. /\ ItTypeOK /\ ItCounts /\ ItLocals /\ ItObjects /\ ItLinks /\ ItCalling /\ ItOneInode /\ ItAlive
        /\ dirEnt[itName[p]] = itIno[p] /\ itIno[p] # 0 /\ itName[p] \in ItNames
    BY <1>0, LockedPlaces DEF ItInv, ItCalling, ItLocals, LocalsOf, ItTypeOK
  <1>3. /\ ItLocals' /\ ItCounts'
        /\ \A q \in ItProcs : itPc'[q] = IF q = p THEN "unlinked" ELSE itPc[q]
        /\ \A q \in ItProcs \ {p} : itPc[q] \notin HasDir
    BY <1>0, <1>o, <1>1, <1>2, LockLocals, Zenon
  <1>4. ItTypeOK'
    BY <1>1, <1>2, LockedPlaces, Zenon DEF ItTypeOK
  <1>d. \A n \in ItNames : dirEnt'[n] = IF n = itName[p] THEN 0 ELSE dirEnt[n]
    BY <1>1, <1>2, Zenon DEF ItTypeOK
  <1>5. \A q \in ItObjs : Refs(q)' = Refs(q)
    BY ZenonT(60), <1>1 DEF Refs
  <1>6. ItObjects'
    BY SMTT(30), <1>0, <1>1, <1>2, <1>3, <1>5, LockedPlaces DEF ItObjects, ItCoherent, Refs
  <1>7. ItLinks'
    <2>1. onDisk[itIno[p]].links = 1 /\ \A n \in ItNames : dirEnt'[n] # itIno[p]
      BY <1>2, <1>d DEF ItLinks
    <2>2. \A i \in ItInos : onDisk'[i].links = 1 =>
             \/ \E n \in ItNames : dirEnt'[n] = i
             \/ \E q \in ItProcs : itPc'[q] = "unlinked" /\ itIno'[q] = i
      <3> SUFFICES ASSUME NEW i \in ItInos, onDisk[i].links = 1, i # itIno[p]
                   PROVE  \/ \E n \in ItNames : dirEnt'[n] = i
                          \/ \E q \in ItProcs : itPc'[q] = "unlinked" /\ itIno'[q] = i
        BY <1>1, <1>3, Zenon
      <3>1. CASE \E n \in ItNames : dirEnt[n] = i
        BY <1>2, <1>d, <3>1, Zenon
      <3>2. CASE \E q \in ItProcs : itPc[q] = "unlinked" /\ itIno[q] = i
        BY <1>0, <1>1, <1>3, <3>2, Zenon
      <3> QED BY <1>2, <3>1, <3>2, Zenon DEF ItLinks
    <2>3. \A q \in ItProcs : itPc'[q] = "unlinked" =>
             onDisk'[itIno'[q]].links = 1 /\ \A n \in ItNames : dirEnt'[n] # itIno'[q]
      <3> SUFFICES ASSUME NEW q \in ItProcs, itPc[q] = "unlinked", q # p
                   PROVE onDisk[itIno[q]].links = 1 /\ \A n \in ItNames : dirEnt'[n] # itIno[q]
        BY <1>1, <1>3, <2>1
      <3>1. onDisk[itIno[q]].links = 1 /\ \A n \in ItNames : dirEnt[n] # itIno[q]
        BY ZenonT(60), <1>2 DEF ItLinks
      <3>2. itIno[q] # 0
        BY SMTT(30), <1>2, LockedPlaces DEF ItLocals, LocalsOf
      <3> QED BY <1>d, <3>1, <3>2, Zenon
    <2> QED BY SMTT(30), <1>1, <1>2, <1>d, <2>2, <2>3 DEF ItLinks
  <1>8. ItCalling'
    BY <1>0, <1>1, <1>2, <1>3, LockedPlaces DEF ItCalling, Alone, HasDir
  <1>9. ItOneInode' /\ ItAlive'
    <2>1. ItOneInode'
      BY <1>1, <1>2, Zenon DEF ItOneInode
    <2>2. ItAlive'
      BY ItAssumption, <1>0, <1>1, <1>2, <1>3, <1>d DEF ItAlive
    <2> QED BY <2>1, <2>2, Zenon
  <1> QED BY <1>1, <1>0, <1>3, <1>4, <1>6, <1>7, <1>8, <1>9, Zenon DEF ItInv

\* create ends with a new inode: its first link and its entry.
LEMMA CreatedNewInv ==
    ASSUME ItInv, NEW p \in ItProcs, ItCreated(p), itPc[p] = "new" PROVE ItInv'
  <1>0. ~staleGet /\ doubleFree = FALSE
    BY Zenon DEF ItCreated, ItAt, ItInv
  <1>o. PICK o \in ItObjs, i \in ItInos : o = itObj[p] /\ i = itIno[p]
    BY <1>0, ObjOf, LockedPlaces, Zenon
  <1>1. /\ objLock[o] = ItNone /\ objLock' = [objLock EXCEPT ![o] = p] /\ dirLock' = ItNone
        /\ itPc' = [itPc EXCEPT ![p] = "locked"]
        /\ obj' = [obj EXCEPT ![o].links = 1] /\ onDisk' = [onDisk EXCEPT ![i].links = 1]
        /\ dirEnt' = [dirEnt EXCEPT ![itName[p]] = i]
        /\ UNCHANGED <<itName, itIno, itObj, staleGet, doubleFree, itCalls>>
    BY <1>o, Zenon DEF ItCreated, ItGoto
  <1>2. /\ ItTypeOK /\ ItCounts /\ ItLocals /\ ItObjects /\ ItLinks /\ ItCalling /\ ItOneInode /\ ItAlive
        /\ obj[o].valid /\ obj[o].ino = i /\ i # 0 /\ itName[p] \in ItNames
    <2>1. itPc[p] \in HasObj /\ itPc[p] \notin Reading /\ objLock[itObj[p]] = ItNone
      BY <1>o, <1>1, LockedPlaces, Zenon
    <2>2. obj[itObj[p]].valid /\ obj[itObj[p]].ino = itIno[p]
      BY <1>0, <2>1, ObjOf, Zenon
    <2> QED BY ItAssumption, <1>0, <1>o, <2>2, Zenon DEF ItInv, ItTypeOK
  <1>3. /\ dirEnt[itName[p]] = 0 /\ onDisk[i].links = 0
        /\ \A q \in ItProcs : itIno[q] = i => itPc[q] \notin {"unlinked", "clear"}
    <2>1. dirEnt[itName[p]] = 0 /\ onDisk[i].links = 0
      BY ZenonT(60), <1>o, <1>2, LockedPlaces DEF ItCalling
    <2>2. \A q \in ItProcs : itPc[q] = "unlinked" => onDisk[itIno[q]].links = 1
      BY <1>2, Zenon DEF ItLinks
    <2>3. \A q \in ItProcs : itPc[q] = "clear" /\ q # p => itIno[p] # itIno[q]
      BY <1>2, Zenon DEF ItCalling, Alone
    <2> QED BY <1>o, <2>1, <2>2, <2>3
  <1>4. /\ \A q \in ItObjs : q # o => obj'[q] = obj[q]
        /\ obj'[o].links = 1 /\ obj'[o].ino = i /\ obj'[o].rc = obj[o].rc
        /\ obj'[o].valid = obj[o].valid /\ obj'[o].listed = obj[o].listed
    <2>1. obj[o] \in MemInodes /\ obj'[o] = [obj[o] EXCEPT !.links = 1] /\ \A q \in ItObjs : q # o => obj'[q] = obj[q]
      BY <1>1, <1>2, Zenon DEF ItTypeOK
    <2> QED BY ZenonT(60), <1>2, <2>1 DEF MemInodes
  <1>5. /\ \A j \in ItInos : j # i => onDisk'[j] = onDisk[j]
        /\ onDisk'[i].links = 1 /\ onDisk'[i].used = onDisk[i].used
    BY ZenonT(60), <1>1, <1>2 DEF ItTypeOK, DiskInodes
  <1>6. /\ ItLocals' /\ ItCounts'
        /\ \A q \in ItProcs : itPc'[q] = IF q = p THEN "locked" ELSE itPc[q]
        /\ \A q \in ItProcs \ {p} : itPc[q] \notin HasDir
    <2>1. \A q \in ItObjs : obj'[q].ino = obj[q].ino /\ obj'[q].rc = obj[q].rc
      BY <1>2, <1>4, Zenon
    <2> QED BY <1>0, <1>o, <1>1, <1>2, <2>1, LockLocals, Zenon
  <1>7. \A n \in ItNames : dirEnt'[n] = IF n = itName[p] THEN i ELSE dirEnt[n]
    BY <1>1, <1>2, Zenon DEF ItTypeOK
  <1>8. ItTypeOK'
    <2>1. obj' = [obj EXCEPT ![o] = [obj[o] EXCEPT !.links = 1]] /\ obj[o] \in MemInodes /\ 1 \in 0 .. 1
      BY <1>1, <1>2 DEF ItTypeOK
    <2>2. obj' \in [ItObjs -> MemInodes]
      BY <1>2, <2>1, MemSet, Zenon DEF ItTypeOK
    <2>3. onDisk' \in [ItInos -> DiskInodes]
      BY <1>1, <1>2 DEF ItTypeOK, DiskInodes
    <2> QED BY <1>1, <1>2, <2>2, <2>3, LockedPlaces, Zenon DEF ItTypeOK
  <1>9. \A q \in ItObjs : Refs(q)' = Refs(q)
    BY <1>1, Zenon DEF Refs
  <1>10. ItObjects'
    <2>1. ASSUME NEW q \in ItObjs, q # o PROVE ItCoherent(q)'
      <3>1. ItCoherent(q) /\ Refs(q)' = Refs(q) /\ obj'[q] = obj[q]
        BY <1>2, <1>4, <1>9, <2>1, Zenon DEF ItObjects
      <3>2. \A r \in Refs(q) : itPc'[r] = itPc[r]
        BY <1>o, <1>6, <2>1, Zenon DEF Refs
      <3>3. Refs(q) # {} => obj[q].ino \in ItInos \ {i}
        <4> SUFFICES ASSUME NEW r \in ItProcs, itObj[r] = q PROVE obj[q].ino \in ItInos \ {i}
          BY Zenon DEF Refs
        <4>1. itPc[r] \in HasObj
          BY ItAssumption, <1>2, Zenon DEF ItLocals, LocalsOf
        <4> QED BY <1>0, <1>2, <2>1, <4>1, ObjOf, Zenon DEF ItOneInode
      <3> QED BY <1>5, <3>1, <3>2, <3>3, ObjectsFrame, Zenon
    <2>2. ItCoherent(o)'
      <3>1. p \in Refs(o) /\ (~obj[o].listed <=> \E r \in Refs(o) : itPc[r] = "clear")
        BY <1>o, <1>2, Zenon DEF ItObjects, ItCoherent, Refs
      <3>c. \A r \in Refs(o) : itPc[r] = "clear" <=> itPc'[r] = "clear"
        BY <1>0, <1>6, Zenon DEF Refs
      <3>2. ~obj'[o].listed <=> \E r \in Refs(o)' : itPc'[r] = "clear"
        BY <1>2, <1>4, <1>9, <3>1, <3>c, Zenon
      <3> QED BY <1>2, <1>4, <1>5, <1>9, <3>1, <3>2, Zenon DEF ItCoherent
    <2> QED BY <2>1, <2>2, Zenon DEF ItObjects
  <1>11. ItLinks'
    <2>1. \A n \in ItNames : dirEnt[n] # i
      BY <1>2, <1>3 DEF ItLinks
    <2>2. \A n \in ItNames : dirEnt[n] # 0 => dirEnt[n] \in ItInos \ {i} /\ onDisk'[dirEnt[n]].links = 1
      <3> TAKE n \in ItNames
      <3> HAVE dirEnt[n] # 0
      <3>1. dirEnt[n] \in ItInos \ {i} /\ onDisk[dirEnt[n]].links = 1
        BY <1>2, <2>1, ZenonT(60) DEF ItTypeOK, ItLinks
      <3> QED BY <1>5, <3>1, Zenon
    <2>3. \A n \in ItNames : dirEnt'[n] # 0 => onDisk'[dirEnt'[n]].links = 1
      BY <1>5, <1>7, <2>2, Zenon
    <2>4. \A n, m \in ItNames : dirEnt'[n] = dirEnt'[m] /\ dirEnt'[n] # 0 => n = m
      BY <1>2, <1>7, <2>1 DEF ItLinks
    <2>5. \A q \in ItProcs : itPc[q] = "unlinked" => q # p /\ itIno[q] # i /\ itIno[q] \in ItInos
      BY <1>0, <1>3, LockedPlaces, ObjOf, Zenon
    <2>6. \A q \in ItProcs : itPc'[q] = "unlinked" =>
             onDisk'[itIno'[q]].links = 1 /\ \A n \in ItNames : dirEnt'[n] # itIno'[q]
      <3> SUFFICES ASSUME NEW q \in ItProcs, itPc[q] = "unlinked"
                   PROVE onDisk'[itIno[q]].links = 1 /\ \A n \in ItNames : dirEnt'[n] # itIno[q]
        BY <1>1, <1>6
      <3>1. onDisk[itIno[q]].links = 1 /\ \A n \in ItNames : dirEnt[n] # itIno[q]
        BY <1>2, Zenon DEF ItLinks
      <3> QED BY <1>5, <1>7, <2>5, <3>1, Zenon
    <2>7. \A j \in ItInos : onDisk'[j].links = 1 =>
             \/ \E n \in ItNames : dirEnt'[n] = j
             \/ \E q \in ItProcs : itPc'[q] = "unlinked" /\ itIno'[q] = j
      <3> SUFFICES ASSUME NEW j \in ItInos, onDisk'[j].links = 1, j # i
                   PROVE  \/ \E n \in ItNames : dirEnt'[n] = j
                          \/ \E q \in ItProcs : itPc'[q] = "unlinked" /\ itIno'[q] = j
        BY <1>2, <1>7, Zenon
      <3>1. onDisk[j].links = 1
        BY <1>5, Zenon
      <3>2. CASE \E n \in ItNames : dirEnt[n] = j
        BY ZenonT(60), ItAssumption, <1>3, <1>7, <3>2
      <3>3. CASE \E q \in ItProcs : itPc[q] = "unlinked" /\ itIno[q] = j
        BY <1>1, <1>6, <2>5, <3>3, Zenon
      <3> QED BY <1>2, <3>1, <3>2, <3>3, Zenon DEF ItLinks
    <2> QED BY <2>3, <2>4, <2>6, <2>7, Zenon DEF ItLinks
  <1>12. ItCalling'
    <2>1. \A q \in ItProcs : q # p => itPc[q] \notin AtNew \cup AtFound \cup AtUnlink /\ itPc[q] # "get-new"
      BY <1>6, Zenon DEF HasDir, AtNew
    <2>2. "clear" \in HasObj /\ "clear" # "get-open"
      BY PlaceSets, Zenon
    <2>3. ASSUME NEW q \in ItProcs, itPc[q] = "clear" PROVE Alone(q)' /\ onDisk'[itIno[q]].links = 0
      <3>1. q # p /\ itIno[q] # i /\ itIno[q] \in ItInos /\ onDisk[itIno[q]].links = 0 /\ Alone(q)
        BY <1>0, <1>2, <1>3, <2>2, <2>3, ObjOf, Zenon DEF ItCalling
      <3> QED BY <1>o, <1>1, <1>5, <1>6, <3>1, Zenon DEF Alone
    <2> QED BY <1>1, <1>6, <2>1, <2>3, LockedPlaces DEF ItCalling
  <1>13. ItOneInode'
    <2>1. \A q \in ItObjs : obj'[q].ino = obj[q].ino
      BY <1>2, <1>4, Zenon
    <2> QED BY ZenonT(60), <1>1, <1>2, <2>1 DEF ItOneInode
  <1>14. ItAlive'
    <2>1. \A j \in ItInos : onDisk'[j].used = onDisk[j].used
      BY <1>5, Zenon
    <2>2. onDisk[i].used
      BY <1>0, <1>o, <1>2, Zenon DEF ItAlive
    <2>3. \A q \in ItProcs : itPc'[q] # "get-open" <=> itPc[q] # "get-open"
      BY <1>6, Zenon
    <2> QED BY ItAssumption, <1>0, <1>1, <1>2, <1>3, <1>7, <2>1, <2>2, <2>3 DEF ItAlive
  <1> QED BY <1>0, <1>1, <1>6, <1>8, <1>10, <1>11, <1>12, <1>13, <1>14, Zenon DEF ItInv

\* unlinkat counts the link down: no name leads to the inode, and its lock kept it
\* from being unlinked twice.
LEMMA ItUnlinkCountInv ==
    ASSUME ItInv, NEW p \in ItProcs, ItUnlinkCount(p) PROVE ItInv'
  <1>0. itPc[p] = "unlinked" /\ ~staleGet /\ doubleFree = FALSE
    BY Zenon DEF ItUnlinkCount, ItAt, ItInv
  <1>o. PICK o \in ItObjs, i \in ItInos : o = itObj[p] /\ i = itIno[p]
    BY <1>0, ObjOf, LockedPlaces, Zenon
  <1>1. /\ itPc' = [itPc EXCEPT ![p] = "put"]
        /\ obj' = [obj EXCEPT ![o].links = @ - 1]
        /\ onDisk' = [onDisk EXCEPT ![i].links = obj[o].links - 1]
        /\ objLock' = [objLock EXCEPT ![o] = ItNone]
        /\ UNCHANGED <<dirEnt, dirLock, itName, itIno, itObj, staleGet, doubleFree, itCalls>>
    BY <1>o, Zenon DEF ItUnlinkCount, ItGoto
  <1>2. /\ ItTypeOK /\ ItCounts /\ ItLocals /\ ItObjects /\ ItLinks /\ ItCalling /\ ItOneInode /\ ItAlive
        /\ objLock[o] = p
    BY <1>0, <1>o, LockedPlaces DEF ItInv, ItLocals, LocalsOf
  <1>3. onDisk[i].links = 1 /\ \A n \in ItNames : dirEnt[n] # i
    BY <1>0, <1>o, <1>2, Zenon DEF ItLinks
  <1>4. obj[o].valid /\ obj[o].links = 1 /\ obj[o].ino = i /\ p \in Refs(o)
    <2>1. itPc[p] \in HasObj /\ itPc[p] \notin Reading
      BY <1>0, LockedPlaces, Zenon
    <2> QED BY <1>0, <1>o, <1>2, <1>3, <2>1, ObjOf, Zenon
  <1>5. /\ \A q \in ItObjs : q # o => obj'[q] = obj[q]
        /\ obj'[o].links = 0 /\ obj'[o].ino = i /\ obj'[o].rc = obj[o].rc
        /\ obj'[o].valid = obj[o].valid /\ obj'[o].listed = obj[o].listed
        /\ obj' \in [ItObjs -> MemInodes]
    <2>1. obj[o] \in MemInodes /\ obj'[o] = [obj[o] EXCEPT !.links = 0]
      BY <1>1, <1>2, <1>4 DEF ItTypeOK
    <2>2. \A q \in ItObjs : q # o => obj'[q] = obj[q]
      BY <1>1, <1>2, Zenon DEF ItTypeOK
    <2>3. obj'[o] \in MemInodes
      <3>1. 0 \in 0 .. 1
        OBVIOUS
      <3>2. [obj[o] EXCEPT !.links = 0] \in MemInodes
        BY <2>1, <3>1, MemSet, Zenon
      <3> QED BY <2>1, <3>2, Zenon
    <2>4. obj' \in [ItObjs -> MemInodes]
      BY <1>1, <1>2, <2>2, <2>3, Zenon DEF ItTypeOK
    <2> QED BY ZenonT(60), <1>4, <2>1, <2>2, <2>4 DEF MemInodes
  <1>6. /\ \A j \in ItInos : j # i => onDisk'[j] = onDisk[j]
        /\ onDisk'[i].links = 0 /\ onDisk'[i].used = onDisk[i].used
        /\ onDisk' \in [ItInos -> DiskInodes]
    <2>1. onDisk' = [onDisk EXCEPT ![i].links = 0]
      BY <1>1, <1>4
    <2> QED BY <1>2, <2>1 DEF ItTypeOK, DiskInodes
  <1>7. \A q \in ItProcs : itPc'[q] = IF q = p THEN "put" ELSE itPc[q]
    BY <1>1, <1>2, Zenon DEF ItTypeOK
  <1>l. \A q \in ItObjs : objLock'[q] = IF q = o THEN ItNone ELSE objLock[q]
    BY <1>1, <1>2, Zenon DEF ItTypeOK
  <1>8. ItTypeOK'
    BY <1>1, <1>2, <1>5, <1>6, LockedPlaces, Zenon DEF ItTypeOK
  <1>9. \A q \in ItObjs : Refs(q)' = Refs(q)
    BY <1>1, Zenon DEF Refs
  <1>10. ItCounts'
    BY <1>2, <1>5, <1>9, <1>l, Zenon DEF ItCounts
  <1>11. ItLocals'
    <2>1. LocalsOf(p)'
      BY ItAssumption, <1>o, <1>0, <1>1, <1>2, <1>5, <1>7, <1>l, LockedPlaces DEF ItLocals, LocalsOf
    <2>2. ASSUME NEW q \in ItProcs, q # p PROVE LocalsOf(q)'
      <3>1. LocalsOf(q) /\ itPc'[q] = itPc[q] /\ (itPc[q] \in HasObj => itObj[q] \in ItObjs)
        BY <1>2, <1>7, <2>2 DEF ItLocals, LocalsOf, ItTypeOK
      <3>2. itPc[q] \in HasLock => itObj[q] # o /\ itPc[q] \in HasObj
        BY <1>2, <2>2, <3>1, PlaceSets, Zenon DEF LocalsOf
      <3>3. \A r \in ItObjs : objLock'[r] = q => objLock[r] = q
        BY ItAssumption, <1>l, Zenon
      <3>4. itPc[q] \in HasObj => obj'[itObj[q]].ino = obj[itObj[q]].ino
        BY <1>4, <1>5, <3>1, Zenon
      <3> QED BY <1>1, <1>l, <3>1, <3>2, <3>3, <3>4, LocalsFrame, Zenon
    <2> QED BY <2>1, <2>2, Zenon DEF ItLocals
  <1>12. ItObjects'
    <2>1. ASSUME NEW q \in ItObjs, q # o PROVE ItCoherent(q)'
      <3>1. ItCoherent(q) /\ Refs(q)' = Refs(q) /\ obj'[q] = obj[q]
        BY <1>2, <1>5, <1>9, <2>1, Zenon DEF ItObjects
      <3>2. \A r \in Refs(q) : itPc'[r] = itPc[r]
        BY <1>o, <1>7, <2>1, Zenon DEF Refs
      <3>3. Refs(q) # {} => obj[q].ino \in ItInos \ {i}
        <4> SUFFICES ASSUME NEW r \in ItProcs, itObj[r] = q PROVE obj[q].ino \in ItInos \ {i}
          BY Zenon DEF Refs
        <4>1. itPc[r] \in HasObj
          BY ItAssumption, <1>2, Zenon DEF ItLocals, LocalsOf
        <4>2. obj[q].ino \in ItInos /\ 0 \notin ItInos
          BY ItAssumption, <1>0, <4>1, ObjOf, Zenon
        <4> QED BY <1>0, <1>2, <1>4, <2>1, <4>2, Zenon DEF ItOneInode
      <3> QED BY <1>6, <3>1, <3>2, <3>3, ObjectsFrame, Zenon
    <2>2. ItCoherent(o)'
      <3>1. ~obj[o].listed <=> \E r \in Refs(o) : itPc[r] = "clear"
        BY <1>2, <1>4, Zenon DEF ItObjects, ItCoherent
      <3>c. \A r \in Refs(o) : itPc[r] = "clear" <=> itPc'[r] = "clear"
        BY <1>0, <1>7, Zenon DEF Refs
      <3>2. ~obj'[o].listed <=> \E r \in Refs(o)' : itPc'[r] = "clear"
        BY <1>2, <1>5, <1>9, <3>1, <3>c, Zenon
      <3> QED BY <1>4, <1>5, <1>6, <1>9, <3>2, Zenon DEF ItCoherent
    <2> QED BY <2>1, <2>2, Zenon DEF ItObjects
  <1>13. ItLinks'
    <2>1. \A q \in ItProcs : itPc[q] = "unlinked" /\ q # p => itIno[q] # i /\ itIno[q] \in ItInos
      <3> SUFFICES ASSUME NEW q \in ItProcs, itPc[q] = "unlinked", itIno[q] = i PROVE q = p
        BY <1>0, ObjOf, LockedPlaces, Zenon
      <3>1. itObj[q] = o /\ objLock[itObj[q]] = q
        BY <1>o, <1>0, <1>2, ObjOf, LockedPlaces DEF ItLocals, LocalsOf
      <3> QED BY <1>2, <3>1, Zenon
    <2>2. \A n \in ItNames : dirEnt[n] # 0 => dirEnt[n] \in ItInos \ {i} /\ onDisk[dirEnt[n]].links = 1
      BY <1>2, <1>3 DEF ItTypeOK, ItLinks
    <2>3. \A q \in ItProcs : itPc'[q] = "unlinked" =>
             onDisk'[itIno'[q]].links = 1 /\ \A n \in ItNames : dirEnt'[n] # itIno'[q]
      <3> SUFFICES ASSUME NEW q \in ItProcs, itPc[q] = "unlinked", q # p
                   PROVE onDisk'[itIno[q]].links = 1 /\ \A n \in ItNames : dirEnt[n] # itIno[q]
        BY <1>1, <1>7
      <3>1. onDisk[itIno[q]].links = 1 /\ \A n \in ItNames : dirEnt[n] # itIno[q]
        BY <1>2, Zenon DEF ItLinks
      <3> QED BY <1>6, <2>1, <3>1, Zenon
    <2>4. \A j \in ItInos : onDisk'[j].links = 1 =>
             \/ \E n \in ItNames : dirEnt'[n] = j
             \/ \E q \in ItProcs : itPc'[q] = "unlinked" /\ itIno'[q] = j
      <3> SUFFICES ASSUME NEW j \in ItInos, onDisk'[j].links = 1, j # i
                   PROVE  \/ \E n \in ItNames : dirEnt[n] = j
                          \/ \E q \in ItProcs : itPc'[q] = "unlinked" /\ itIno[q] = j
        BY <1>1, <1>6
      <3>1. onDisk[j].links = 1
        BY <1>6, Zenon
      <3>3. CASE \E q \in ItProcs : itPc[q] = "unlinked" /\ itIno[q] = j
        BY <1>o, <1>7, <3>3, Zenon
      <3> QED BY <1>2, <3>1, <3>3, Zenon DEF ItLinks
    <2>5. \A n \in ItNames : dirEnt'[n] # 0 => onDisk'[dirEnt'[n]].links = 1
      <3> TAKE n \in ItNames
      <3> HAVE dirEnt'[n] # 0
      <3>1. dirEnt[n] \in ItInos \ {i} /\ onDisk[dirEnt[n]].links = 1
        BY <1>1, <2>2, Zenon
      <3> QED BY <1>1, <1>6, <3>1, Zenon
    <2> QED BY <1>1, <1>2, <2>3, <2>4, <2>5, Zenon DEF ItLinks
  <1>14. ItCalling'
    <2>1. \A q \in ItProcs : itIno[q] \in ItInos /\ onDisk[itIno[q]].links = 0 => onDisk'[itIno[q]].links = 0
      BY <1>6, Zenon
    <2>2. \A q \in ItProcs : itPc[q] \in AtNew \cup {"clear"} => itIno[q] \in ItInos
      <3>1. AtNew \cup {"clear"} \subseteq HasObj \cup Getting
        BY PlaceSets, Zenon DEF AtNew
      <3> QED BY <1>2, <3>1 DEF ItLocals, LocalsOf, ItTypeOK
    <2>3. \A q \in ItProcs : Alone(q) => Alone(q)'
      BY <1>0, <1>1, <1>7, Zenon DEF Alone
    <2> QED BY <1>1, <1>2, <1>7, <2>1, <2>2, <2>3, LockedPlaces DEF ItCalling
  <1>15. ItOneInode'
    <2>1. \A q \in ItObjs : obj'[q].ino = obj[q].ino
      BY <1>4, <1>5, Zenon
    <2> QED BY <1>1, <1>2, <2>1, Zenon DEF ItOneInode
  <1>16. ItAlive'
    <2>1. \A j \in ItInos : onDisk'[j].used = onDisk[j].used
      BY <1>6, Zenon
    <2>2. \A q \in ItProcs : itPc'[q] # "get-open" <=> itPc[q] # "get-open"
      BY <1>0, <1>7, Zenon
    <2> QED BY ZenonT(60), <1>0, <1>1, <1>2, <2>1, <2>2 DEF ItAlive
  <1> QED BY <1>0, <1>1, <1>8, <1>10, <1>11, <1>12, <1>13, <1>14, <1>15, <1>16, Zenon DEF ItInv
=============================================================================
