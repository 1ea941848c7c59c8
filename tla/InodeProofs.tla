---------------------------- MODULE InodeProofs -----------------------------
(* Proofs about the life of inodes (fs/inode.c), second part: the state     *)
(* after boot, the steps that change who has an inode, and the theorems: rc *)
(* counts the users, there is one in-memory inode per number, and an inode  *)
(* is in use on disk exactly as long as a name or a process needs it.       *)
EXTENDS InodeStepProofs, FiniteSetTheorems

\* An empty directory, nothing in memory.
LEMMA InodesInit == InodeTreeInit => ItInv
  <1> SUFFICES ASSUME InodeTreeInit PROVE ItInv
    BY Zenon
  <1> USE DEF InodeTreeInit
  <1>1. ItTypeOK
    <2>1. onDisk \in [ItInos -> DiskInodes]
      BY DEF DiskInodes
    <2>2. obj \in [ItObjs -> MemInodes]
      BY DEF MemInodes, NoObj
    <2>3. itPc \in [ItProcs -> ItPlaces] /\ itName \in [ItProcs -> ItNames]
      BY ItAssumption, Zenon DEF ItPlaces
    <2>4. /\ objLock \in [ItObjs -> ItProcs \cup {ItNone}] /\ itIno \in [ItProcs -> ItInos \cup {0}]
          /\ itObj \in [ItProcs -> ItObjs \cup {ItNone}] /\ dirEnt \in [ItNames -> ItInos \cup {0}]
      BY Zenon
    <2>5. staleGet \in BOOLEAN /\ doubleFree \in BOOLEAN /\ dirLock \in ItProcs \cup {ItNone}
      BY Zenon
    <2>6. itCalls \in 0 .. ItMaxCalls
      <3> HIDE DEF InodeTreeInit
      <3>1. itCalls = 0
        BY Zenon DEF InodeTreeInit
      <3> QED BY ItAssumption, <3>1
    <2> HIDE DEF InodeTreeInit
    <2> QED BY <2>1, <2>2, <2>3, <2>4, <2>5, <2>6, Zenon DEF ItTypeOK
  <1>2. \A o \in ItObjs : Refs(o) = {}
    BY ItAssumption, Zenon DEF Refs
  <1>3. ItCounts
    BY <1>2, FS_EmptySet, Zenon DEF ItCounts, NoObj
  <1>4. ItLocals
    BY ItAssumption, PlaceSets, Zenon DEF ItLocals, LocalsOf, HasDir, AtNew, AtFound, AtUnlink
  <1>5. ItObjects
    BY <1>2, Zenon DEF ItObjects, ItCoherent
  <1>6. ItLinks
    BY DEF ItLinks
  <1>7. ItCalling
    BY Zenon DEF ItCalling, AtNew, AtFound, AtUnlink
  <1>8. ItOneInode /\ ItAlive
    BY ItAssumption, Zenon DEF ItOneInode, ItAlive, NoObj
  <1> QED BY <1>1, <1>3, <1>4, <1>5, <1>6, <1>7, <1>8, Zenon DEF ItInv

\* One process fewer has the inode.
LEMMA RefsLess ==
    ASSUME ItTypeOK, ItCounts, NEW p \in ItProcs, NEW o \in ItObjs, o = itObj[p],
           itObj' = [itObj EXCEPT ![p] = ItNone]
    PROVE  /\ Refs(o)' = Refs(o) \ {p} /\ \A q \in ItObjs : q # o => Refs(q)' = Refs(q)
           /\ p \in Refs(o) /\ obj[o].rc \in Nat /\ Cardinality(Refs(o)') = obj[o].rc - 1
           /\ obj[o].rc = 1 <=> Refs(o) = {p}
  <1>1. /\ Refs(o)' = Refs(o) \ {p} /\ \A q \in ItObjs : q # o => Refs(q)' = Refs(q)
        /\ p \in Refs(o)
    BY ItAssumption, Zenon DEF Refs, ItTypeOK
  <1>2. IsFiniteSet(Refs(o))
    BY ItAssumption, FS_Subset, Zenon DEF Refs
  <1>3. Cardinality(Refs(o) \ {p}) = Cardinality(Refs(o)) - 1 /\ obj[o].rc = Cardinality(Refs(o))
    BY <1>1, <1>2, FS_RemoveElement, Zenon DEF ItCounts
  <1>4. IsFiniteSet(Refs(o) \ {p})
    BY <1>2, FS_RemoveElement, Zenon
  <1>5. obj[o].rc \in Nat
    BY <1>2, <1>3, FS_CardinalityType, Zenon
  <1>6. obj[o].rc = 1 <=> Refs(o) \ {p} = {}
    BY SMTT(30), ItAssumption, <1>3, <1>4, <1>5, FS_EmptySet, FS_CardinalityType
  <1> QED BY <1>1, <1>3, <1>5, <1>6, Zenon

\* A call that gives its inode up leaves the others' locals, the links and what is
\* being made or cleared as they are.
LEMMA LeaveLocals ==
    ASSUME ItInv, ~staleGet, NEW p \in ItProcs, itPc[p] \in {"put", "clear"},
           itPc' = [itPc EXCEPT ![p] = "out"], itObj' = [itObj EXCEPT ![p] = ItNone],
           itIno' = [itIno EXCEPT ![p] = 0],
           \A q \in ItObjs : objLock'[q] = IF objLock[q] = p THEN ItNone ELSE objLock[q],
           \A q \in ItObjs : q # itObj[p] \/ Refs(q) # {p} => obj'[q].ino = obj[q].ino,
           \A j \in ItInos : onDisk'[j].links = onDisk[j].links,
           UNCHANGED <<dirEnt, dirLock, itName, staleGet>>
    PROVE  ItLocals' /\ ItLinks' /\ ItCalling'
  <1>1. ItTypeOK /\ ItLocals /\ ItLinks /\ ItCalling
    BY Zenon DEF ItInv
  <1>2. \A q \in ItProcs : /\ q # p => itPc'[q] = itPc[q] /\ itObj'[q] = itObj[q] /\ itIno'[q] = itIno[q]
                           /\ q = p => itPc'[q] = "out" /\ itObj'[q] = ItNone /\ itIno'[q] = 0
    BY <1>1, Zenon DEF ItTypeOK
  <1>3. /\ itPc[p] \in HasObj /\ itPc[p] \notin HasDir \cup AtNew
        /\ {"unlinked", "clear"} \subseteq HasObj /\ AtNew \subseteq HasObj \cup Getting
    BY PlaceSets, Zenon DEF HasDir, AtNew, AtFound, AtUnlink
  <1>4. ItLocals'
    <2>1. LocalsOf(p)'
      BY SMTT(30), ItAssumption, <1>1, <1>2, <1>3, StartPlaces DEF ItLocals, LocalsOf
    <2>2. ASSUME NEW q \in ItProcs, q # p PROVE LocalsOf(q)'
      <3>1. /\ LocalsOf(q)
            /\ itPc[q] \in HasLock => itPc[q] \in HasObj
            /\ itPc[q] \in HasObj => itObj[q] \in ItObjs /\ q \in Refs(itObj[q])
        BY ZenonT(60), <1>1, PlaceSets DEF ItLocals, LocalsOf, ItTypeOK, Refs
      <3>2. itPc[q] \in HasObj => obj'[itObj[q]].ino = obj[itObj[q]].ino
        BY <2>2, <3>1, Zenon
      <3>3. itPc[q] \in HasLock => objLock'[itObj[q]] = objLock[itObj[q]]
        BY <2>2, <3>1, Zenon DEF LocalsOf
      <3>4. \A r \in ItObjs : objLock'[r] = q => objLock[r] = q
        BY ItAssumption, <2>2, Zenon
      <3> QED BY <1>2, <2>2, <3>1, <3>2, <3>3, <3>4, LocalsFrame, Zenon
    <2> QED BY <2>1, <2>2, Zenon DEF ItLocals
  <1>5. \A q \in ItProcs : itPc[q] \in HasObj \cup Getting => itIno[q] \in ItInos
    BY <1>1 DEF ItLocals, LocalsOf, ItTypeOK
  <1>6. ItLinks'
    <2>1. \A q \in ItProcs : itPc[q] = "unlinked" <=> itPc'[q] = "unlinked"
      BY <1>2, Zenon
    <2>2. \A q \in ItProcs : itPc[q] = "unlinked" => itIno'[q] = itIno[q] /\ itIno[q] \in ItInos
      BY <1>2, <1>3, <1>5, Zenon
    <2>3. \A n \in ItNames : dirEnt[n] # 0 => dirEnt[n] \in ItInos
      BY <1>1, Zenon DEF ItTypeOK
    <2>4. \A q \in ItProcs : itPc'[q] = "unlinked" =>
             onDisk'[itIno'[q]].links = 1 /\ \A n \in ItNames : dirEnt'[n] # itIno'[q]
      <3> TAKE q \in ItProcs
      <3> HAVE itPc'[q] = "unlinked"
      <3>1. onDisk[itIno[q]].links = 1 /\ \A n \in ItNames : dirEnt[n] # itIno[q]
        BY <1>1, <2>1, Zenon DEF ItLinks
      <3> QED BY <2>1, <2>2, <3>1
    <2>5. \A j \in ItInos : onDisk'[j].links = 1 =>
             \/ \E n \in ItNames : dirEnt'[n] = j
             \/ \E q \in ItProcs : itPc'[q] = "unlinked" /\ itIno'[q] = j
      BY <1>1, <2>1, <2>2 DEF ItLinks
    <2>6. \A n \in ItNames : dirEnt'[n] # 0 => onDisk'[dirEnt'[n]].links = 1
      BY ZenonT(60), <1>1, <2>3 DEF ItLinks
    <2> QED BY <1>1, <2>4, <2>5, <2>6 DEF ItLinks
  <1>7. ItCalling'
    <2>1. ASSUME NEW q \in ItProcs, itPc'[q] \in AtNew \cup {"clear"}
          PROVE  /\ onDisk'[itIno'[q]].links = 0
                 /\ itPc'[q] \in {"get-new", "clear"} => Alone(q)'
      <3>1. q # p /\ itPc'[q] = itPc[q] /\ itIno'[q] = itIno[q]
        BY <1>2, <2>1, StartPlaces, Zenon
      <3>2. onDisk[itIno[q]].links = 0 /\ itIno[q] \in ItInos
        BY ZenonT(60), <1>1, <1>3, <1>5, <2>1, <3>1 DEF ItCalling
      <3>3. ASSUME Alone(q) PROVE Alone(q)'
        BY ItAssumption, <1>2, <3>1, <3>2, <3>3 DEF Alone
      <3>4. itPc[q] \in {"get-new", "clear"} => Alone(q)
        BY <1>1, Zenon DEF ItCalling
      <3> QED BY <3>1, <3>2, <3>3, <3>4, Zenon
    <2>a. "get-new" \in AtNew
      BY Zenon DEF AtNew
    <2>2. \A q \in ItProcs : itPc'[q] \in AtNew \cup AtFound \cup AtUnlink => itPc'[q] = itPc[q] /\ itIno'[q] = itIno[q]
      BY ZenonT(60), <1>2, StartPlaces
    <2> QED BY <1>1, <2>1, <2>2, <2>a, Zenon DEF ItCalling
  <1> QED BY <1>4, <1>6, <1>7, Zenon

\* The inode is cleared on disk: it was in use, so no block is freed twice, and
\* nobody else has it.
LEMMA ItClearInv ==
    ASSUME ItInv, NEW p \in ItProcs, ItClear(p) PROVE ItInv'
  <1>0. itPc[p] = "clear" /\ ~staleGet /\ itPc[p] \in HasObj \cap HasLock
    BY PlaceSets, Zenon DEF ItClear, ItAt
  <1>o. PICK o \in ItObjs, i \in ItInos : o = itObj[p] /\ i = itIno[p]
    BY <1>0, ObjOf, Zenon
  <1>1. /\ itPc' = [itPc EXCEPT ![p] = "out"] /\ itObj' = [itObj EXCEPT ![p] = ItNone]
        /\ itIno' = [itIno EXCEPT ![p] = 0]
        /\ obj' = [obj EXCEPT ![o] = NoObj] /\ objLock' = [objLock EXCEPT ![o] = ItNone]
        /\ onDisk' = [onDisk EXCEPT ![i] = [used |-> FALSE, links |-> 0]]
        /\ doubleFree' = ~onDisk[i].used
        /\ UNCHANGED <<dirEnt, dirLock, itName, staleGet, itCalls>>
    BY <1>o, Zenon DEF ItClear, ItGoto
  <1>2. /\ ItTypeOK /\ ItCounts /\ ItLocals /\ ItObjects /\ ItLinks /\ ItCalling /\ ItOneInode /\ ItAlive
        /\ objLock[o] = p /\ onDisk[i].links = 0 /\ Alone(p) /\ i # 0
    BY <1>0, <1>o, Zenon DEF ItInv, ItLocals, LocalsOf, ItCalling
  <1>3. onDisk[i].used
    BY <1>0, <1>o, <1>2, Zenon DEF ItAlive
  <1>4. Refs(o) = {p}
    <2> SUFFICES ASSUME NEW q \in ItProcs, itObj[q] = o, q # p PROVE FALSE
      BY <1>o, Zenon DEF Refs
    <2>1. itPc[q] \in HasObj /\ itIno[q] = i
      BY <1>o, <1>0, <1>2, ObjOf DEF ItLocals, LocalsOf
    <2> QED BY <1>o, <1>2, <2>1, PlaceSets, Zenon DEF Alone
  <1>5. /\ Refs(o)' = {} /\ \A q \in ItObjs : q # o => Refs(q)' = Refs(q)
    <2>1. /\ Refs(o)' = Refs(o) \ {p} /\ \A q \in ItObjs : q # o => Refs(q)' = Refs(q)
      BY <1>o, <1>1, <1>2, RefsLess, Zenon
    <2> QED BY <1>4, <2>1, Zenon
  <1>6. /\ obj'[o] = NoObj /\ \A q \in ItObjs : q # o => obj'[q] = obj[q]
        /\ \A q \in ItObjs : objLock'[q] = IF q = o THEN ItNone ELSE objLock[q]
    BY <1>1, <1>2, Zenon DEF ItTypeOK
  <1>7. /\ onDisk'[i].used = FALSE /\ \A j \in ItInos : j # i => onDisk'[j].used = onDisk[j].used
        /\ \A j \in ItInos : onDisk'[j].links = onDisk[j].links
    BY <1>1, <1>2, Zenon DEF ItTypeOK
  <1>8. /\ itPc'[p] = "out" /\ itIno'[p] = 0
        /\ \A q \in ItProcs : q # p => itPc'[q] = itPc[q] /\ itIno'[q] = itIno[q]
    BY <1>1, <1>2, Zenon DEF ItTypeOK
  <1>9. ItTypeOK' /\ doubleFree' = FALSE
    <2>1. obj' \in [ItObjs -> MemInodes]
      BY <1>1, <1>2, MemSet, Zenon DEF ItTypeOK
    <2>2. onDisk' \in [ItInos -> DiskInodes]
      BY <1>1, <1>2, Zenon DEF ItTypeOK, DiskInodes
    <2>3. "out" \in ItPlaces
      BY Zenon DEF ItPlaces
    <2> QED BY <1>1, <1>2, <1>3, <2>1, <2>2, <2>3, Zenon DEF ItTypeOK
  <1>10. ItCounts'
    <2>1. obj'[o].rc = Cardinality(Refs(o)') /\ objLock'[o] \in Refs(o)' \cup {ItNone}
      BY <1>5, <1>6, FS_EmptySet DEF NoObj
    <2> QED BY <1>2, <1>5, <1>6, <2>1, Zenon DEF ItCounts
  <1>11. ItLocals' /\ ItLinks' /\ ItCalling'
    <2>1. \A q \in ItObjs : objLock'[q] = IF objLock[q] = p THEN ItNone ELSE objLock[q]
      BY <1>o, <1>2, <1>6, ZenonT(60) DEF ItLocals, LocalsOf
    <2>2. \A q \in ItObjs : q # itObj[p] \/ Refs(q) # {p} => obj'[q].ino = obj[q].ino
      BY <1>o, <1>4, <1>6, Zenon
    <2> QED BY <1>0, <1>1, <1>7, <2>1, <2>2, LeaveLocals, Zenon
  <1>12. ItObjects'
    <2>1. ASSUME NEW q \in ItObjs, q # o PROVE ItCoherent(q)'
      <3>1. ItCoherent(q) /\ Refs(q)' = Refs(q) /\ obj'[q] = obj[q]
        BY <1>2, <1>5, <1>6, <2>1, Zenon DEF ItObjects
      <3>2. \A r \in Refs(q) : itPc'[r] = itPc[r]
        BY <1>o, <1>8, <2>1, Zenon DEF Refs
      <3>3. Refs(q) # {} => obj[q].ino \in ItInos
        BY ItAssumption, <1>0, <1>2, ObjOf DEF Refs, ItLocals, LocalsOf
      <3> QED BY <1>7, <3>1, <3>2, <3>3, ObjectsFrame, Zenon
    <2>2. ItCoherent(o)'
      BY <1>5, <1>6, Zenon DEF ItCoherent
    <2> QED BY <2>1, <2>2, Zenon DEF ItObjects
  <1>13. ItOneInode'
    BY <1>1, <1>2, <1>6 DEF ItOneInode, NoObj
  <1>14. ItAlive'
    <2>1. /\ \A n \in ItNames : dirEnt[n] # i
          /\ \A q \in ItProcs : itIno'[q] = i => itPc'[q] = "get-open"
      BY <1>o, <1>2, <1>8 DEF ItLinks, Alone
    <2>2. \A j \in ItInos : j # i => (onDisk[j].used <=> onDisk'[j].used)
      BY <1>7, Zenon
    <2>3. \A j \in ItInos, q \in ItProcs : j # i =>
             ((itIno'[q] = j /\ itPc'[q] # "get-open") <=> (itIno[q] = j /\ itPc[q] # "get-open"))
      BY ItAssumption, <1>o, <1>8, Zenon
    <2> QED BY SMTT(30), <1>0, <1>1, <1>2, <1>7, <2>1, <2>2, <2>3 DEF ItAlive
  <1> QED BY <1>9, <1>10, <1>11, <1>12, <1>13, <1>14, Zenon DEF ItInv

\* inode_put of a reference that is not the last one of an unlinked inode: the inode
\* stays in use, because a name leads to it or somebody else has it.
LEMMA PutLeaveInv ==
    ASSUME ItInv, ~staleGet, NEW p \in ItProcs, NEW o \in ItObjs, NEW i \in ItInos,
           o = itObj[p], i = itIno[p], itPc[p] = "put", ~LastRef(o),
           obj' = [obj EXCEPT ![o] = IF @.rc = 1 THEN NoObj ELSE [@ EXCEPT !.rc = obj[o].rc - 1]],
           itObj' = [itObj EXCEPT ![p] = ItNone], itIno' = [itIno EXCEPT ![p] = 0],
           itPc' = [itPc EXCEPT ![p] = "out"],
           UNCHANGED <<onDisk, dirEnt, dirLock, objLock, itName, staleGet, doubleFree, itCalls>>
    PROVE  ItInv'
  <1>1. /\ ItTypeOK /\ ItCounts /\ ItLocals /\ ItObjects /\ ItLinks /\ ItCalling /\ ItOneInode /\ ItAlive
        /\ itPc[p] \in HasObj /\ itPc[p] \notin HasLock \cup Reading
    BY PlaceSets, Zenon DEF ItInv
  <1>2. /\ Refs(o)' = Refs(o) \ {p} /\ \A q \in ItObjs : q # o => Refs(q)' = Refs(q)
        /\ p \in Refs(o) /\ obj[o].rc \in Nat /\ Cardinality(Refs(o)') = obj[o].rc - 1
        /\ obj[o].rc = 1 <=> Refs(o) = {p}
    BY <1>1, RefsLess, Zenon
  <1>3. /\ obj'[o] = (IF obj[o].rc = 1 THEN NoObj ELSE [obj[o] EXCEPT !.rc = obj[o].rc - 1])
        /\ \A q \in ItObjs : q # o => obj'[q] = obj[q]
    <2>1. obj \in [ItObjs -> MemInodes]
      BY <1>1, Zenon DEF ItTypeOK
    <2>2. CASE obj[o].rc = 1
      BY <2>1, <2>2, Zenon
    <2>3. CASE obj[o].rc # 1
      BY <2>1, <2>3, Zenon
    <2> QED BY <2>2, <2>3, Zenon
  <1>4. /\ Refs(o) = {p} => obj'[o] = NoObj
        /\ Refs(o) # {p} => /\ obj'[o].ino = obj[o].ino /\ obj'[o].links = obj[o].links
                            /\ obj'[o].valid = obj[o].valid /\ obj'[o].listed = obj[o].listed
        /\ obj'[o].rc = obj[o].rc - 1 /\ obj'[o] \in MemInodes
    <2>1. obj[o] \in MemInodes
      BY <1>1, Zenon DEF ItTypeOK
    <2>2. CASE obj[o].rc = 1
      <3>1. obj'[o] = NoObj
        BY <1>3, <2>2, Zenon
      <3>2. NoObj \in MemInodes
        BY <2>1, MemSet, Zenon
      <3>3. NoObj.rc = 0
        BY Zenon DEF NoObj
      <3> QED BY <1>2, <2>2, <3>1, <3>2, <3>3
    <2>3. CASE obj[o].rc # 1
      <3>1. obj[o].rc # 0
        <4>1. IsFiniteSet(Refs(o)')
          BY ItAssumption, FS_Subset, Zenon DEF Refs
        <4> QED BY <1>2, <4>1, FS_CardinalityType
      <3>2. obj[o].rc - 1 \in Nat
        BY <1>2, <3>1
      <3>3. obj'[o] = [obj[o] EXCEPT !.rc = obj[o].rc - 1]
        BY <1>3, <2>3, Zenon
      <3>4. [obj[o] EXCEPT !.rc = obj[o].rc - 1] \in MemInodes
        BY <2>1, <3>2, MemSet, Zenon
      <3>5. /\ obj'[o].ino = obj[o].ino /\ obj'[o].links = obj[o].links
            /\ obj'[o].valid = obj[o].valid /\ obj'[o].listed = obj[o].listed
            /\ obj'[o].rc = obj[o].rc - 1
        BY <2>1, <3>3 DEF MemInodes
      <3> QED BY <1>2, <2>3, <3>3, <3>4, <3>5, Zenon
    <2> QED BY <2>2, <2>3, Zenon
  <1>5. /\ itPc'[p] = "out" /\ itIno'[p] = 0
        /\ \A q \in ItProcs : q # p => itPc'[q] = itPc[q] /\ itIno'[q] = itIno[q]
    BY <1>1, Zenon DEF ItTypeOK
  <1>6. ItTypeOK'
    <2>1. obj' \in [ItObjs -> MemInodes]
      BY <1>1, <1>4, Zenon DEF ItTypeOK
    <2>2. "out" \in ItPlaces
      BY Zenon DEF ItPlaces
    <2> QED BY <1>1, <2>1, <2>2, Zenon DEF ItTypeOK
  <1>l. \A q \in ItObjs : objLock[q] # p
    BY <1>1, Zenon DEF ItLocals, LocalsOf
  <1>7. ItCounts'
    BY ZenonT(60), <1>1, <1>2, <1>3, <1>4, <1>l DEF ItCounts
  <1>8. ItLocals' /\ ItLinks' /\ ItCalling'
    <2>1. \A q \in ItObjs : objLock'[q] = IF objLock[q] = p THEN ItNone ELSE objLock[q]
      BY <1>l, Zenon
    <2>2. \A q \in ItObjs : q # itObj[p] \/ Refs(q) # {p} => obj'[q].ino = obj[q].ino
      BY <1>3, <1>4, Zenon
    <2> QED BY <1>1, <2>1, <2>2, LeaveLocals, Zenon
  <1>9. ItObjects'
    <2>1. ASSUME NEW q \in ItObjs, q # o PROVE ItCoherent(q)'
      <3>1. ItCoherent(q) /\ Refs(q)' = Refs(q) /\ obj'[q] = obj[q]
        BY <1>1, <1>2, <1>3, <2>1, Zenon DEF ItObjects
      <3>2. \A r \in Refs(q) : itPc'[r] = itPc[r]
        BY <1>5, <2>1, Zenon DEF Refs
      <3> QED BY <3>1, <3>2, ObjectsFrame, Zenon
    <2>2. ItCoherent(o)'
      <3>1. CASE Refs(o) = {p}
        BY <1>2, <1>4, <3>1, Zenon DEF ItCoherent
      <3>2. CASE Refs(o) # {p}
        <4>1. ItCoherent(o) /\ Refs(o)' # {}
          BY <1>1, <1>2, <3>2, Zenon DEF ItObjects
        <4>2. \A r \in Refs(o) : itPc[r] \in Reading \/ itPc[r] = "clear" =>
                 r \in Refs(o)' /\ itPc'[r] = itPc[r]
          BY <1>1, <1>2, <1>5, Zenon DEF Refs
        <4>3. \A r \in Refs(o)' : r \in Refs(o) /\ itPc'[r] = itPc[r]
          BY <1>2, <1>5, Zenon DEF Refs
        <4> QED BY <1>2, <1>4, <3>2, <4>1, <4>2, <4>3, Zenon DEF ItCoherent
      <3> QED BY <3>1, <3>2, Zenon
    <2> QED BY <2>1, <2>2, Zenon DEF ItObjects
  <1>10. ItOneInode'
    BY <1>1, <1>3, <1>4 DEF ItOneInode, NoObj
  <1>11. \/ \E n \in ItNames : dirEnt[n] = i
         \/ \E q \in ItProcs : q # p /\ itIno[q] = i /\ itPc[q] # "get-open"
    <2>1. CASE Refs(o) = {p}
      <3>1. objLock[o] \in {p, ItNone}
        BY <1>1, <2>1, Zenon DEF ItCounts
      <3>2. obj[o].valid /\ obj[o].links = onDisk[i].links
        BY <1>1, <3>1, ObjOf, Zenon
      <3>3. onDisk[i].links = 1
        BY SMTT(30), <1>1, <1>2, <2>1, <3>2 DEF LastRef, ItTypeOK, DiskInodes
      <3>4. \A q \in ItProcs : itPc[q] = "unlinked" /\ itIno[q] = i => q # p /\ itPc[q] # "get-open"
        BY Zenon
      <3> QED BY <1>1, <3>3, <3>4, Zenon DEF ItLinks
    <2>2. CASE Refs(o) # {p}
      <3>1. PICK q \in ItProcs : itObj[q] = o /\ q # p
        BY <1>2, <2>2, Zenon DEF Refs
      <3>2. itPc[q] \in HasObj
        BY <1>1, <3>1 DEF ItLocals, LocalsOf
      <3>3. itIno[q] = i /\ itPc[q] # "get-open"
        BY SMTT(30), <1>1, <3>1, <3>2, ObjOf, PlaceSets
      <3> QED BY <3>1, <3>3, Zenon
    <2> QED BY <2>1, <2>2, Zenon
  <1>12. ItAlive'
    <2>1. \A j \in ItInos, q \in ItProcs : (itIno'[q] = j /\ itPc'[q] # "get-open")
              <=> (itIno[q] = j /\ itPc[q] # "get-open" /\ q # p)
      BY ItAssumption, <1>5, Zenon
    <2>2. \A j \in ItInos : itIno[p] = j => j = i
      BY Zenon
    <2> QED BY <1>1, <1>11, <2>1, <2>2 DEF ItAlive
  <1> QED BY <1>6, <1>7, <1>8, <1>9, <1>10, <1>12, Zenon DEF ItInv

\* inode_put of the last reference to an inode without links: no name leads to it and
\* nobody else has it, or is about to find it.
LEMMA PutLastInv ==
    ASSUME ItInv, ~staleGet, NEW p \in ItProcs, NEW o \in ItObjs, NEW i \in ItInos,
           o = itObj[p], i = itIno[p], itPc[p] = "put", LastRef(o), objLock[o] = ItNone,
           obj' = [obj EXCEPT ![o].listed = FALSE], objLock' = [objLock EXCEPT ![o] = p],
           itPc' = [itPc EXCEPT ![p] = "clear"],
           UNCHANGED <<onDisk, dirEnt, dirLock, itName, itIno, itObj, staleGet, doubleFree, itCalls>>
    PROVE  ItInv'
  <1>1. /\ ItTypeOK /\ ItCounts /\ ItLocals /\ ItObjects /\ ItLinks /\ ItCalling /\ ItOneInode /\ ItAlive
        /\ itPc[p] \in HasObj /\ itPc[p] \notin HasLock \cup Reading \cup HasDir \cup AtNew \cup Getting
        /\ "clear" \in HasObj \cap HasLock \cap ItPlaces
        /\ "clear" \notin HasDir \cup Getting \cup Reading \cup AtNew \cup AtFound \cup AtUnlink
    BY PlaceSets, Zenon DEF ItInv, ItPlaces, HasDir, AtNew, AtFound, AtUnlink
  <1>2. Refs(o) = {p}
    <2>0. IsFiniteSet(Refs(o)) /\ p \in Refs(o)
      BY ItAssumption, FS_Subset, Zenon DEF Refs
    <2>1. IsFiniteSet(Refs(o)) /\ p \in Refs(o) /\ Cardinality(Refs(o)) = 1
      BY <1>1, <2>0, Zenon DEF ItCounts, LastRef
    <2>a. Cardinality(Refs(o) \ {p}) = Cardinality(Refs(o)) - 1 /\ IsFiniteSet(Refs(o) \ {p})
      BY <2>0, FS_RemoveElement, Zenon
    <2>2. Cardinality(Refs(o) \ {p}) = 0 /\ IsFiniteSet(Refs(o) \ {p})
      BY <2>1, <2>a
    <2>3. Refs(o) \ {p} = {}
      BY <2>2, FS_EmptySet, Zenon
    <2> QED BY <2>1, <2>3, Zenon
  <1>3. onDisk[i].links = 0 /\ i # 0
    BY ItAssumption, <1>1, ObjOf, Zenon DEF LastRef
  <1>4. \A n \in ItNames : dirEnt[n] # i
    BY <1>1, <1>3 DEF ItLinks
  <1>5. Alone(p)
    <2> SUFFICES ASSUME NEW q \in ItProcs, q # p, itIno[q] = i, itPc[q] # "get-open" PROVE FALSE
      BY Zenon DEF Alone
    <2>1. itPc[q] \in HasObj \cup Getting
      BY <1>1, ObjOf, Zenon
    <2>2. itPc[q] \notin HasObj
      BY <1>1, <1>2, ObjOf DEF Refs
    <2>3. itPc[q] \in {"get-found", "get-unlink"} => dirEnt[itName[q]] = i /\ itName[q] \in ItNames
      BY <1>1, Zenon DEF ItCalling, AtFound, AtUnlink, ItTypeOK
    <2>4. itPc[q] # "get-new"
      BY <1>1, Zenon DEF ItCalling, AtNew, Alone
    <2> QED BY <1>4, <2>1, <2>2, <2>3, <2>4, PlaceSets, Zenon
  <1>6. /\ obj'[o] \in MemInodes
        /\ obj'[o].ino = obj[o].ino /\ obj'[o].rc = obj[o].rc /\ obj'[o].links = obj[o].links
        /\ obj'[o].valid = obj[o].valid /\ ~obj'[o].listed
        /\ \A q \in ItObjs : q # o => obj'[q] = obj[q]
    <2>1. obj[o] \in MemInodes /\ obj'[o] = [obj[o] EXCEPT !.listed = FALSE]
      BY <1>1, Zenon DEF ItTypeOK
    <2>2. [obj[o] EXCEPT !.listed = FALSE] \in MemInodes
      BY <2>1, MemSet, Zenon
    <2>3. \A q \in ItObjs : q # o => obj'[q] = obj[q]
      BY <1>1, Zenon DEF ItTypeOK
    <2> QED BY <2>1, <2>2, <2>3 DEF MemInodes
  <1>7. /\ \A q \in ItProcs : itPc'[q] = IF q = p THEN "clear" ELSE itPc[q]
        /\ \A q \in ItObjs : objLock'[q] = IF q = o THEN p ELSE objLock[q]
        /\ \A q \in ItObjs : Refs(q)' = Refs(q)
    BY <1>1, Zenon DEF ItTypeOK, Refs
  <1>8. ItTypeOK'
    <2>1. obj' \in [ItObjs -> MemInodes]
      BY <1>1, <1>6, Zenon DEF ItTypeOK
    <2> QED BY <1>1, <2>1, Zenon DEF ItTypeOK
  <1>9. ItCounts'
    BY <1>1, <1>2, <1>6, <1>7 DEF ItCounts
  <1>10. ItLocals'
    <2>1. LocalsOf(p)'
      BY <1>1, <1>6, <1>7 DEF ItLocals, LocalsOf
    <2>2. ASSUME NEW q \in ItProcs, q # p PROVE LocalsOf(q)'
      <3>1. LocalsOf(q) /\ itPc'[q] = itPc[q] /\ (itPc[q] \in HasObj => itObj[q] \in ItObjs)
        BY <1>1, <1>7, <2>2 DEF ItLocals, LocalsOf, ItTypeOK
      <3>2. itPc[q] \in HasLock => itObj[q] # o /\ itPc[q] \in HasObj
        BY ItAssumption, <2>2, <3>1, PlaceSets, Zenon DEF LocalsOf
      <3>3. \A r \in ItObjs : objLock'[r] = q => objLock[r] = q
        BY <1>7, <2>2, Zenon
      <3>4. itPc[q] \in HasObj => obj'[itObj[q]].ino = obj[itObj[q]].ino
        BY <1>6, <3>1, Zenon
      <3>5. itPc[q] \in HasLock => objLock'[itObj[q]] = objLock[itObj[q]]
        BY <1>7, <3>1, <3>2, Zenon
      <3> QED BY <3>1, <3>3, <3>4, <3>5, LocalsFrame, Zenon
    <2> QED BY <2>1, <2>2, Zenon DEF ItLocals
  <1>11. ItObjects'
    <2>1. ASSUME NEW q \in ItObjs, q # o PROVE ItCoherent(q)'
      <3>1. ItCoherent(q) /\ Refs(q)' = Refs(q) /\ obj'[q] = obj[q]
        BY <1>1, <1>6, <1>7, <2>1, Zenon DEF ItObjects
      <3>2. \A r \in Refs(q) : itPc'[r] = itPc[r]
        BY <1>7, <2>1, Zenon DEF Refs
      <3> QED BY <3>1, <3>2, ObjectsFrame, Zenon
    <2>2. ItCoherent(o)'
      <3>1. ItCoherent(o) /\ obj[o].valid
        BY <1>1, Zenon DEF ItObjects, LastRef
      <3>2. p \in Refs(o)' /\ itPc'[p] = "clear" /\ ~obj'[o].listed
        BY <1>1, <1>2, <1>6, <1>7, Zenon
      <3>3. obj'[o].links = onDisk'[obj'[o].ino].links /\ obj'[o].valid
        BY <1>1, <1>2, <1>6, <3>1, Zenon DEF ItCoherent
      <3> QED BY <3>2, <3>3, Zenon DEF ItCoherent
    <2> QED BY <2>1, <2>2, Zenon DEF ItObjects
  <1>12. ItLinks'
    BY <1>1, <1>7 DEF ItLinks
  <1>13. ItCalling'
    <2>1. Alone(p)'
      BY <1>5, <1>7, Zenon DEF Alone
    <2>2. \A q \in ItProcs : Alone(q) /\ q # p => Alone(q)'
      BY <1>7, Zenon DEF Alone
    <2> QED BY <1>1, <1>3, <1>7, <2>1, <2>2 DEF ItCalling
  <1>14. ItOneInode'
    <2>1. \A q \in ItObjs : obj'[q].ino = obj[q].ino
      BY <1>6, Zenon
    <2> QED BY <1>1, <2>1, Zenon DEF ItOneInode
  <1>15. ItAlive'
    BY <1>1, <1>7 DEF ItAlive
  <1> QED BY <1>8, <1>9, <1>10, <1>11, <1>12, <1>13, <1>14, <1>15, Zenon DEF ItInv

\* inode_put, either way.
LEMMA ItPutInv ==
    ASSUME ItInv, NEW p \in ItProcs, ItPut(p) PROVE ItInv'
  <1>1. itPc[p] = "put" /\ ~staleGet /\ itPc[p] \in HasObj
    BY LockedPlaces, Zenon DEF ItPut, PutWith, ItAt
  <1>2. PICK o \in ItObjs, i \in ItInos : o = itObj[p] /\ i = itIno[p]
    BY <1>1, ObjOf, Zenon
  <1>3. CASE LastRef(o)
    BY <1>1, <1>2, <1>3, PutLastInv, Zenon DEF ItPut, PutWith, ItGoto
  <1>4. CASE ~LastRef(o)
    BY <1>1, <1>2, <1>4, PutLeaveInv, Zenon DEF ItPut, PutWith, ItGoto
  <1> QED BY <1>3, <1>4, Zenon

\* The places before and after inode_get has found or made the inode.
LEMMA GetPlaces ==
    ASSUME NEW k \in GetKinds, NEW b \in {WaitPc[k], ReadPc[k]}
    PROVE  /\ GetPc[k] \in Getting /\ GetPc[k] \notin HasObj \cup HasLock \cup Reading
           /\ b \in HasObj /\ b \in ItPlaces /\ b \notin Getting
           /\ GetPc[k] \in HasDir <=> b \in HasDir
           /\ GetPc[k] \in AtNew <=> b \in AtNew
           /\ GetPc[k] \in AtFound \cup AtUnlink <=> b \in AtFound \cup AtUnlink
           /\ GetPc[k] \notin {"unlinked", "clear"} /\ b \notin {"unlinked", "clear", "get-open", "get-new"}
           /\ GetPc[k] = "get-open" <=> k = "open"
           /\ WaitPc[k] \notin HasLock \cup Reading
           /\ ReadPc[k] \in HasLock /\ ReadPc[k] \in Reading
  BY KindPlaces, PlaceSets DEF HasDir, AtNew, AtFound, AtUnlink, ItPlaces

\* Whoever is about to get an inode has none, and there is one that nobody has.
LEMMA FreeObj ==
    ASSUME ItInv, ~staleGet, NEW p \in ItProcs, itPc[p] \in Getting
    PROVE  /\ itObj[p] = ItNone /\ itIno[p] \in ItInos /\ \A o \in ItObjs : p \notin Refs(o) /\ objLock[o] # p
           /\ \E o \in ItObjs : obj[o] = NoObj
           /\ \A o \in ItObjs : obj[o] = NoObj => Refs(o) = {} /\ objLock[o] = ItNone
  <1>0. ItTypeOK /\ ItCounts /\ ItLocals /\ ItObjects
    BY Zenon DEF ItInv
  <1>1. itPc[p] \notin HasObj /\ itPc[p] \notin HasLock
    BY PlaceSets, Zenon
  <1>2. itObj[p] = ItNone /\ itIno[p] \in ItInos /\ \A o \in ItObjs : p \notin Refs(o) /\ objLock[o] # p
    BY ItAssumption, <1>0, <1>1 DEF ItLocals, LocalsOf, ItTypeOK, Refs
  <1>3. \A o \in ItObjs : obj[o] = NoObj => Refs(o) = {} /\ objLock[o] = ItNone
    <2> TAKE o \in ItObjs
    <2> HAVE obj[o] = NoObj
    <2>1. IsFiniteSet(Refs(o))
      BY ItAssumption, FS_Subset, Zenon DEF Refs
    <2>2. Cardinality(Refs(o)) = 0
      BY <1>0 DEF ItCounts, NoObj
    <2>3. Refs(o) = {}
      BY <2>1, <2>2, FS_EmptySet, Zenon
    <2> QED BY <1>0, <2>3, Zenon DEF ItCounts
  <1>4. \E o \in ItObjs : obj[o] = NoObj
    <2> SUFFICES ASSUME \A o \in ItObjs : obj[o] # NoObj PROVE FALSE
      BY Zenon
    <2> DEFINE S == ItProcs \ {p}
               T == {itObj[q] : q \in S}
    <2>1. ItObjs \subseteq T
      <3> SUFFICES ASSUME NEW o \in ItObjs PROVE o \in T
        BY Zenon
      <3>1. Refs(o) # {}
        BY <1>0, Zenon DEF ItObjects, ItCoherent
      <3> QED BY <1>2, <3>1, Zenon DEF Refs
    <2>2. IsFiniteSet(S) /\ Cardinality(S) = Cardinality(ItProcs) - 1
      BY ItAssumption, FS_RemoveElement, Zenon
    <2>3. IsFiniteSet(T) /\ Cardinality(T) <= Cardinality(S)
      <3>1. [q \in S |-> itObj[q]] \in Surjection(S, T)
        BY Zenon DEF Surjection
      <3> QED BY <2>2, <3>1, FS_Surjection, Zenon
    <2>4. Cardinality(ItObjs) <= Cardinality(T)
      BY <2>1, <2>3, FS_Subset, Zenon
    <2> HIDE DEF S, T
    <2>5. Cardinality(ItObjs) \in Nat /\ Cardinality(ItProcs) \in Nat /\ Cardinality(S) \in Nat /\ Cardinality(T) \in Nat
      BY ItAssumption, <2>2, <2>3, FS_CardinalityType, Zenon
    <2> QED BY ItAssumption, <2>2, <2>3, <2>4, <2>5
  <1> QED BY <1>2, <1>3, <1>4, Zenon

\* What inode_get does to everything but the list: an inode that a name leads to, or
\* that somebody has and is not clearing, is in use.
LEMMA GetRest ==
    ASSUME ItInv, ~staleGet, NEW p \in ItProcs, NEW k \in GetKinds, NEW b \in {WaitPc[k], ReadPc[k]},
           itPc[p] = GetPc[k],
           k = "open" => \/ \E n \in ItNames : dirEnt[n] = itIno[p]
                         \/ \E q \in ItProcs : itIno[q] = itIno[p] /\ itPc[q] \in HasObj \ {"clear"},
           itPc' = [itPc EXCEPT ![p] = b],
           UNCHANGED <<onDisk, dirEnt, itName, itIno>>
    PROVE  /\ ItLinks' /\ ItCalling' /\ ItAlive'
           /\ \A q \in ItProcs \ {p} : itPc[q] = "clear" => itIno[q] # itIno[p]
  <1>1. ItTypeOK /\ ItLocals /\ ItLinks /\ ItCalling /\ ItAlive
    BY Zenon DEF ItInv
  <1>2. \A q \in ItProcs : itPc'[q] = IF q = p THEN b ELSE itPc[q]
    BY <1>1, Zenon DEF ItTypeOK
  <1>p. /\ GetPc[k] \in Getting /\ b # "get-open" /\ GetPc[k] \notin {"unlinked", "clear"}
        /\ b \notin {"get-new", "unlinked", "clear"}
        /\ GetPc[k] \in AtNew <=> b \in AtNew
        /\ GetPc[k] \in AtFound \cup AtUnlink <=> b \in AtFound \cup AtUnlink
        /\ GetPc[k] = "get-open" <=> k = "open"
    BY ZenonT(60), GetPlaces
  <1>3. PICK i \in ItInos : i = itIno[p] /\ i # 0
    BY ItAssumption, <1>p, FreeObj, Zenon
  <1>4. k = "open" => \/ onDisk[i].links = 1 /\ \E n \in ItNames : dirEnt[n] = i
                      \/ \E q \in ItProcs : itIno[q] = i /\ itPc[q] \in HasObj \ {"clear"}
    <2>1. \A n \in ItNames : dirEnt[n] = i => onDisk[i].links = 1
      BY <1>1, <1>3, Zenon DEF ItLinks
    <2> QED BY <1>3, <2>1, Zenon
  <1>5. \A q \in ItProcs \ {p} : itPc[q] \in {"get-new", "clear"} => itIno[q] # i
    <2> SUFFICES ASSUME NEW q \in ItProcs \ {p}, itPc[q] \in {"get-new", "clear"}, itIno[q] = i PROVE FALSE
      BY Zenon
    <2>1. onDisk[i].links = 0 /\ Alone(q)
      BY <1>1, Zenon DEF ItCalling, AtNew
    <2>2. \A r \in ItProcs : itIno[r] = i => itPc[r] \notin HasObj \ {"clear"}
      BY <2>1, PlaceSets, Zenon DEF Alone
    <2>3. k = "open"
      BY <1>3, <1>p, <2>1, Zenon DEF Alone
    <2> QED BY <1>4, <2>1, <2>2, <2>3
  <1>6. ItLinks'
    BY <1>1, <1>2, <1>p DEF ItLinks
  <1>7. ItCalling'
    <2>1. \A q \in ItProcs \ {p} : Alone(q) /\ itIno[q] # i => Alone(q)'
      BY <1>2, <1>3, Zenon DEF Alone
    <2>2. Alone(p) => Alone(p)'
      BY <1>2, Zenon DEF Alone
    <2> QED BY ZenonT(60), <1>1, <1>2, <1>5, <1>p, <2>1, <2>2 DEF ItCalling
  <1>8. ItAlive'
    <2>1. \A j \in ItInos, q \in ItProcs : itIno[q] = j /\ itPc[q] # "get-open" => itPc'[q] # "get-open"
      BY <1>2, <1>p, Zenon
    <2>2. \A j \in ItInos, q \in ItProcs : itIno[q] = j /\ itPc'[q] # "get-open" =>
             \/ \E r \in ItProcs : itIno[r] = j /\ itPc[r] # "get-open"
             \/ \E n \in ItNames : dirEnt[n] = j
      <3>1. "get-open" \notin HasObj
        BY PlaceSets, Zenon
      <3> QED BY <1>2, <1>3, <1>4, <1>p, <3>1, Zenon
    <2> QED BY ZenonT(60), <1>1, <2>1, <2>2 DEF ItAlive
  <1> QED BY <1>3, <1>5, <1>6, <1>7, <1>8, Zenon

\* One more reference to an inode in the list.
LEMMA CountRef ==
    ASSUME ItTypeOK, NEW o \in ItObjs, obj' = [obj EXCEPT ![o].rc = @ + 1]
    PROVE  /\ obj'[o] \in MemInodes /\ obj'[o].rc = obj[o].rc + 1
           /\ obj'[o].ino = obj[o].ino /\ obj'[o].links = obj[o].links
           /\ obj'[o].valid = obj[o].valid /\ obj'[o].listed = obj[o].listed
           /\ \A q \in ItObjs : q # o => obj'[q] = obj[q]
  <1>1. obj[o] \in MemInodes /\ obj'[o] = [obj[o] EXCEPT !.rc = obj[o].rc + 1]
    BY Zenon DEF ItTypeOK
  <1>2. obj[o].rc + 1 \in Nat
    BY <1>1 DEF MemInodes
  <1>3. [obj[o] EXCEPT !.rc = obj[o].rc + 1] \in MemInodes
    BY <1>1, <1>2, MemSet, Zenon
  <1>4. \A q \in ItObjs : q # o => obj'[q] = obj[q]
    BY Zenon DEF ItTypeOK
  <1> QED BY <1>1, <1>3, <1>4, Zenon DEF MemInodes

\* inode_get finds the inode in the list.
LEMMA GetCachedInv ==
    ASSUME ItInv, ~staleGet, NEW p \in ItProcs, NEW k \in GetKinds, NEW o \in ItObjs,
           itPc[p] = GetPc[k], obj[o].ino = itIno[p], obj[o].rc > 0, obj[o].listed,
           staleGet' = FALSE,
           obj' = [obj EXCEPT ![o].rc = @ + 1], itObj' = [itObj EXCEPT ![p] = o],
           itPc' = [itPc EXCEPT ![p] = WaitPc[k]],
           UNCHANGED <<objLock, onDisk, dirEnt, dirLock, itName, itIno, doubleFree, itCalls>>
    PROVE  ItInv'
  <1> DEFINE b == WaitPc[k]
  <1>1. ItTypeOK /\ ItCounts /\ ItLocals /\ ItObjects /\ ItOneInode /\ doubleFree = FALSE
    BY Zenon DEF ItInv
  <1>p. /\ GetPc[k] \in Getting /\ GetPc[k] \notin HasObj \cup HasLock \cup Reading
        /\ b \in HasObj /\ b \in ItPlaces /\ b \notin Getting \cup HasLock \cup Reading
        /\ GetPc[k] \in HasDir <=> b \in HasDir
        /\ GetPc[k] # "clear" /\ b # "clear"
    BY GetPlaces, Zenon
  <1>2. itObj[p] = ItNone /\ itIno[p] \in ItInos /\ p \notin Refs(o) /\ \A q \in ItObjs : objLock[q] # p
    BY <1>p, FreeObj, Zenon
  <1>3. /\ Refs(o)' = Refs(o) \cup {p} /\ \A q \in ItObjs : q # o => Refs(q)' = Refs(q)
    BY ItAssumption, <1>1, <1>2 DEF Refs, ItTypeOK
  <1>4. IsFiniteSet(Refs(o)) /\ Cardinality(Refs(o)') = Cardinality(Refs(o)) + 1
    <2>1. IsFiniteSet(Refs(o))
      BY ItAssumption, FS_Subset, Zenon DEF Refs
    <2> QED BY <1>2, <1>3, <2>1, FS_AddElement, Zenon
  <1>5. /\ obj'[o] \in MemInodes /\ obj'[o].rc = obj[o].rc + 1
        /\ obj'[o].ino = obj[o].ino /\ obj'[o].links = obj[o].links
        /\ obj'[o].valid = obj[o].valid /\ obj'[o].listed = obj[o].listed
        /\ \A q \in ItObjs : q # o => obj'[q] = obj[q]
    BY <1>1, CountRef, Zenon
  <1>6. \A q \in ItProcs : /\ itPc'[q] = (IF q = p THEN b ELSE itPc[q])
                           /\ itObj'[q] = (IF q = p THEN o ELSE itObj[q])
    BY <1>1, Zenon DEF ItTypeOK
  <1>7. ItTypeOK'
    <2>1. obj' \in [ItObjs -> MemInodes]
      BY <1>1, <1>5, Zenon DEF ItTypeOK
    <2>2. staleGet' \in BOOLEAN
      BY Zenon
    <2> HIDE DEF b
    <2> QED BY <1>1, <1>p, <2>1, <2>2, Zenon DEF ItTypeOK, b
  <1>8. ItCounts'
    BY <1>1, <1>3, <1>4, <1>5, Zenon DEF ItCounts
  <1>9. ASSUME ~staleGet' PROVE ItLocals' /\ ItObjects' /\ ItLinks' /\ ItCalling' /\ ItOneInode' /\ ItAlive'
    <2>0. ItCoherent(o) /\ Refs(o) # {}
      <3>1. obj[o].rc = Cardinality(Refs(o)) /\ Cardinality({}) = 0
        BY <1>1, FS_EmptySet, Zenon DEF ItCounts
      <3>2. Refs(o) # {}
        BY <3>1
      <3> QED BY <1>1, <3>2, Zenon DEF ItObjects
    <2>u. PICK u \in ItProcs : itIno[u] = itIno[p] /\ itPc[u] \in HasObj \ {"clear"}
      <3>1. PICK u \in Refs(o) : TRUE
        BY <2>0, Zenon
      <3>2. u \in ItProcs /\ itObj[u] = o /\ itPc[u] # "clear"
        BY <2>0, Zenon DEF ItCoherent, Refs
      <3>3. itPc[u] \in HasObj /\ obj[itObj[u]].ino = itIno[u]
        BY ItAssumption, <1>1, <3>2, Zenon DEF ItLocals, LocalsOf
      <3> QED BY <3>2, <3>3, Zenon
    <2>1. ItLinks' /\ ItCalling' /\ ItAlive'
      BY <2>u, GetRest, Zenon
    <2>2. ItLocals'
      <3> HIDE DEF b
      <3>1. LocalsOf(p)'
        BY SMTT(30), ItAssumption, <1>1, <1>2, <1>p, <1>5, <1>6 DEF ItLocals, LocalsOf
      <3>2. ASSUME NEW q \in ItProcs, q # p PROVE LocalsOf(q)'
        <4>1. LocalsOf(q) /\ itPc'[q] = itPc[q] /\ itObj'[q] = itObj[q] /\ (itPc[q] \in HasObj => itObj[q] \in ItObjs)
          BY <1>1, <1>6, <3>2 DEF ItLocals, LocalsOf, ItTypeOK
        <4>2. itPc[q] \in HasObj => obj'[itObj[q]].ino = obj[itObj[q]].ino
          BY <1>5, <4>1, Zenon
        <4> QED BY <4>1, <4>2, LocalsFrame, Zenon
      <3> QED BY <3>1, <3>2, Zenon DEF ItLocals
    <2>3. ItObjects'
      <3>1. ASSUME NEW q \in ItObjs, q # o PROVE ItCoherent(q)'
        <4>1. ItCoherent(q) /\ Refs(q)' = Refs(q) /\ obj'[q] = obj[q]
          BY <1>1, <1>3, <1>5, <3>1, Zenon DEF ItObjects
        <4>2. \A r \in Refs(q) : itPc'[r] = itPc[r]
          BY ZenonT(60), <1>6, <1>2, <1>p, FreeObj DEF Refs
        <4> QED BY <4>1, <4>2, ObjectsFrame, Zenon
      <3>2. ItCoherent(o)'
        <4>1. \A r \in Refs(o) : itPc'[r] = itPc[r] /\ r \in Refs(o)'
          BY <1>2, <1>3, <1>6, Zenon DEF Refs
        <4>2. \A r \in Refs(o)' : r \in Refs(o) \/ itPc'[r] # "clear"
          BY <1>3, <1>6, <1>p, Zenon
        <4> QED BY <1>3, <1>5, <2>0, <4>1, <4>2, Zenon DEF ItCoherent
      <3> QED BY <3>1, <3>2, Zenon DEF ItObjects
    <2>4. ItOneInode'
      <3>1. \A q \in ItObjs : obj'[q].ino = obj[q].ino
        BY <1>5, Zenon
      <3> QED BY ZenonT(60), <1>1, <3>1 DEF ItOneInode
    <2> QED BY <2>1, <2>2, <2>3, <2>4, Zenon
  <1> QED BY <1>1, <1>7, <1>8, <1>9, Zenon DEF ItInv

\* inode_get makes an inode: none with this number was in memory.
LEMMA GetNewInv ==
    ASSUME ItInv, ~staleGet, NEW p \in ItProcs, NEW k \in GetKinds, NEW o \in ItObjs,
           itPc[p] = GetPc[k], ItCached(itIno[p]) = {}, obj[o] = NoObj,
           staleGet' = (k = "open" /\ \A n \in ItNames : dirEnt[n] # itIno[p]),
           obj' = [obj EXCEPT ![o] = [ino |-> itIno[p], rc |-> 1, valid |-> FALSE,
                                      links |-> 0, listed |-> TRUE]],
           objLock' = [objLock EXCEPT ![o] = p], itObj' = [itObj EXCEPT ![p] = o],
           itPc' = [itPc EXCEPT ![p] = ReadPc[k]],
           UNCHANGED <<onDisk, dirEnt, dirLock, itName, itIno, doubleFree, itCalls>>
    PROVE  ItInv'
  <1> DEFINE b == ReadPc[k]
  <1>1. ItTypeOK /\ ItCounts /\ ItLocals /\ ItObjects /\ ItCalling /\ ItOneInode /\ doubleFree = FALSE
    BY Zenon DEF ItInv
  <1>p. /\ GetPc[k] \in Getting /\ GetPc[k] \notin HasObj \cup HasLock \cup Reading
        /\ b \in HasObj /\ b \in ItPlaces /\ b \notin Getting /\ b \in HasLock /\ b \in Reading
        /\ GetPc[k] \in HasDir <=> b \in HasDir
        /\ GetPc[k] # "clear" /\ b # "clear"
    BY GetPlaces, Zenon
  <1>2. /\ itObj[p] = ItNone /\ itIno[p] \in ItInos /\ Refs(o) = {} /\ objLock[o] = ItNone
        /\ \A q \in ItObjs : objLock[q] # p
    BY <1>p, FreeObj, Zenon
  <1>3. /\ Refs(o)' = {p} /\ \A q \in ItObjs : q # o => Refs(q)' = Refs(q)
    BY SMTT(30), ItAssumption, <1>1, <1>2 DEF Refs, ItTypeOK
  <1>5. /\ obj'[o] \in MemInodes /\ obj'[o].rc = 1 /\ obj'[o].ino = itIno[p]
        /\ obj'[o].valid = FALSE /\ obj'[o].listed = TRUE
        /\ \A q \in ItObjs : q # o => obj'[q] = obj[q]
    <2>1. /\ obj'[o] = [ino |-> itIno[p], rc |-> 1, valid |-> FALSE, links |-> 0, listed |-> TRUE]
          /\ \A q \in ItObjs : q # o => obj'[q] = obj[q]
      BY <1>1, Zenon DEF ItTypeOK
    <2>2. obj[o] \in MemInodes
      BY <1>1, Zenon DEF ItTypeOK
    <2>3. obj'[o] \in MemInodes
      BY <1>2, <2>1, <2>2, MemSet, Zenon
    <2> QED BY <2>1, <2>3
  <1>6. \A q \in ItProcs : /\ itPc'[q] = (IF q = p THEN b ELSE itPc[q])
                           /\ itObj'[q] = (IF q = p THEN o ELSE itObj[q])
    BY <1>1, Zenon DEF ItTypeOK
  <1>l. \A q \in ItObjs : objLock'[q] = IF q = o THEN p ELSE objLock[q]
    BY <1>1, Zenon DEF ItTypeOK
  <1>7. ItTypeOK'
    <2>1. obj' \in [ItObjs -> MemInodes]
      BY <1>1, <1>5, Zenon DEF ItTypeOK
    <2>2. staleGet' \in BOOLEAN
      BY Zenon
    <2> QED BY <1>1, <1>p, <2>1, <2>2, Zenon DEF ItTypeOK
  <1>8. ItCounts'
    <2>0. Cardinality({p}) = 1
      BY FS_Singleton, Zenon
    <2>1. obj'[o].rc = Cardinality(Refs(o)') /\ objLock'[o] \in Refs(o)' \cup {ItNone}
      BY <1>3, <1>5, <1>l, <2>0, Zenon
    <2>2. ASSUME NEW q \in ItObjs, q # o
          PROVE  obj'[q].rc = Cardinality(Refs(q)') /\ objLock'[q] \in Refs(q)' \cup {ItNone}
      BY <1>1, <1>3, <1>5, <1>l, <2>2, Zenon DEF ItCounts
    <2> QED BY <2>1, <2>2, Zenon DEF ItCounts
  <1>9. ASSUME ~staleGet' PROVE ItLocals' /\ ItObjects' /\ ItLinks' /\ ItCalling' /\ ItOneInode' /\ ItAlive'
    <2>1. /\ ItLinks' /\ ItCalling' /\ ItAlive'
          /\ \A q \in ItProcs \ {p} : itPc[q] = "clear" => itIno[q] # itIno[p]
      BY <1>9, GetRest, Zenon
    <2>2. ItLocals'
      <3> HIDE DEF b
      <3>1. LocalsOf(p)'
        BY SMTT(30), ItAssumption, <1>1, <1>2, <1>p, <1>5, <1>6, <1>l DEF ItLocals, LocalsOf
      <3>2. ASSUME NEW q \in ItProcs, q # p PROVE LocalsOf(q)'
        <4>1. /\ LocalsOf(q) /\ itPc'[q] = itPc[q] /\ itObj'[q] = itObj[q]
              /\ itPc[q] \in HasLock => itPc[q] \in HasObj
              /\ itPc[q] \in HasObj => itObj[q] \in ItObjs /\ itObj[q] # o
          <5>1. LocalsOf(q) /\ (itPc[q] \in HasLock => itPc[q] \in HasObj)
            BY <1>1, PlaceSets, Zenon DEF ItLocals
          <5>2. itObj[q] # o /\ (itObj[q] # ItNone => itObj[q] \in ItObjs)
            BY <1>1, <1>2, Zenon DEF Refs, ItTypeOK
          <5> QED BY <1>6, <3>2, <5>1, <5>2, Zenon DEF LocalsOf
        <4>2. itPc[q] \in HasObj => obj'[itObj[q]].ino = obj[itObj[q]].ino
          BY <1>5, <4>1, Zenon
        <4>3. itPc[q] \in HasLock => objLock'[itObj[q]] = objLock[itObj[q]]
          BY <1>l, <4>1, Zenon
        <4>4. \A r \in ItObjs : objLock'[r] = q => objLock[r] = q
          BY <1>l, <3>2, Zenon
        <4> QED BY <4>1, <4>2, <4>3, <4>4, LocalsFrame, Zenon
      <3> QED BY ZenonT(60), <3>1, <3>2 DEF ItLocals
    <2>3. ItObjects'
      <3>1. ASSUME NEW q \in ItObjs, q # o PROVE ItCoherent(q)'
        <4>1. ItCoherent(q) /\ Refs(q)' = Refs(q) /\ obj'[q] = obj[q]
          BY <1>1, <1>3, <1>5, <3>1, Zenon DEF ItObjects
        <4>2. \A r \in Refs(q) : itPc'[r] = itPc[r]
          BY <1>6, <1>2, <1>p, FreeObj, Zenon DEF Refs
        <4> QED BY <4>1, <4>2, ObjectsFrame, Zenon
      <3>2. ItCoherent(o)'
        <4>1. itPc'[p] \in Reading /\ itPc'[p] # "clear"
          BY <1>6, <1>p, Zenon
        <4> QED BY <1>3, <1>5, <4>1, Zenon DEF ItCoherent
      <3> QED BY <3>1, <3>2, Zenon DEF ItObjects
    <2>4. \A q \in ItObjs : q # o => obj[q].ino # itIno[p]
      <3> SUFFICES ASSUME NEW q \in ItObjs, q # o, obj[q].ino = itIno[p] PROVE FALSE
        BY ZenonT(60)
      <3>1. Refs(q) # {}
        BY SMTT(30), ItAssumption, <1>1, <1>2 DEF ItObjects, ItCoherent, NoObj
      <3>2. obj[q].rc > 0
        <4>1. IsFiniteSet(Refs(q))
          BY ItAssumption, FS_Subset, Zenon DEF Refs
        <4>2. Cardinality(Refs(q)) \in Nat /\ Cardinality(Refs(q)) # 0
          BY <3>1, <4>1, FS_EmptySet, FS_CardinalityType, Zenon
        <4> QED BY <1>1, <4>2 DEF ItCounts
      <3>3. ~obj[q].listed
        BY <3>2, Zenon DEF ItCached
      <3>4. PICK r \in Refs(q) : itPc[r] = "clear"
        BY ZenonT(60), <1>1, <3>1, <3>3 DEF ItObjects, ItCoherent
      <3>5. r \in ItProcs \ {p} /\ itIno[r] = obj[q].ino
        BY SMTT(30), <1>1, <1>p, <3>4, PlaceSets DEF Refs, ItLocals, LocalsOf
      <3> QED BY <2>1, <3>4, <3>5, Zenon
    <2>5. ItOneInode'
      BY <1>1, <1>5, <2>4 DEF ItOneInode
    <2> QED BY <2>1, <2>2, <2>3, <2>5, Zenon
  <1> QED BY <1>1, <1>7, <1>8, <1>9, Zenon DEF ItInv

\* inode_get, either way.
LEMMA ItGetInv ==
    ASSUME ItInv, NEW p \in ItProcs, NEW k \in GetKinds, ItGet(p, k) PROVE ItInv'
  <1>1. itPc[p] = GetPc[k] /\ ~staleGet /\ GetPc[k] \in Getting
    BY GetPlaces, Zenon DEF ItGet, GetInode, ItAt
  <1>2. CASE ItCached(itIno[p]) # {}
    <2>1. PICK o \in ItCached(itIno[p]) : /\ obj' = [obj EXCEPT ![o].rc = @ + 1]
                                          /\ itObj' = [itObj EXCEPT ![p] = o]
                                          /\ itPc' = [itPc EXCEPT ![p] = WaitPc[k]]
                                          /\ UNCHANGED objLock
      BY <1>2, Zenon DEF ItGet, GetInode, ItGoto
    <2>2. o \in ItObjs /\ obj[o].ino = itIno[p] /\ obj[o].rc > 0 /\ obj[o].listed
      BY <2>1, Zenon DEF ItCached
    <2>3. /\ staleGet' = FALSE
          /\ UNCHANGED <<onDisk, dirEnt, dirLock, itName, itIno, doubleFree, itCalls>>
      BY <1>2, Zenon DEF ItGet, GetInode
    <2> QED BY <1>1, <2>1, <2>2, <2>3, GetCachedInv, Zenon
  <1>3. CASE ItCached(itIno[p]) = {}
    <2>1. PICK o : o = CHOOSE q \in ItObjs : obj[q] = NoObj
      BY Zenon
    <2>2. o \in ItObjs /\ obj[o] = NoObj
      BY <1>1, <2>1, FreeObj, Zenon
    <2>3. /\ obj' = [obj EXCEPT ![o] = [ino |-> itIno[p], rc |-> 1, valid |-> FALSE,
                                        links |-> 0, listed |-> TRUE]]
          /\ objLock' = [objLock EXCEPT ![o] = p] /\ itObj' = [itObj EXCEPT ![p] = o]
          /\ itPc' = [itPc EXCEPT ![p] = ReadPc[k]]
      BY <1>3, <2>1, Zenon DEF ItGet, GetInode, ItGoto
    <2>4. /\ staleGet' = (k = "open" /\ \A n \in ItNames : dirEnt[n] # itIno[p])
          /\ UNCHANGED <<onDisk, dirEnt, dirLock, itName, itIno, doubleFree, itCalls>>
      BY <1>3, Zenon DEF ItGet, GetInode
    <2> QED BY <1>1, <1>3, <2>2, <2>3, <2>4, GetNewInv, Zenon
  <1> QED BY <1>2, <1>3, Zenon

\* create goes on, with an inode it has found or made.
LEMMA ItCreatedInv ==
    ASSUME ItInv, NEW p \in ItProcs, ItCreated(p) PROVE ItInv'
  <1>1. CASE itPc[p] = "found"
    BY <1>1, CreatedFoundInv, Zenon
  <1>2. CASE itPc[p] = "new"
    BY <1>2, CreatedNewInv, Zenon
  <1> QED BY <1>1, <1>2, Zenon DEF ItCreated, ItAt

\* Every step of inode_get, inode_put, create, unlinkat and close, and every call,
\* keeps the inductive invariant, whatever the numbers of processes, names and inodes.
THEOREM InodesInvariant == InodeTreeSpec => []ItInv
  <1>1. ItInv /\ InodeTreeNext => ItInv'
    <2> SUFFICES ASSUME ItInv, NEW p \in ItProcs,
                        \/ ItStep(p) \/ ItClose(p)
                        \/ \E name \in ItNames, call \in {"open", "create", "dot", "unlink"} : ItCall(p, call, name)
                 PROVE  ItInv'
      BY Zenon DEF InodeTreeNext
    <2>1. CASE ItStep(p)
      BY ZenonT(60), <2>1, ItOpenInv, ItCreateInv, ItCreateDotInv, ItUnlinkInv, ItGetInv, ItGetWaitInv,
         ItGetReadInv, ItCreatedInv, ItLockFoundInv, ItUnlockInv, ItUnlinkEntryInv,
         ItUnlinkCountInv, ItPutInv, ItClearInv DEF ItStep
    <2>2. CASE ItClose(p)
      BY <2>2, ItCloseInv, Zenon
    <2>3. CASE \E name \in ItNames, call \in {"open", "create", "dot", "unlink"} : ItCall(p, call, name)
      BY <2>3, ItCallInv, Zenon
    <2> QED BY <2>1, <2>2, <2>3, Zenon
  <1>2. ItInv /\ UNCHANGED itVars => ItInv'
    <2> SUFFICES ASSUME ItInv, UNCHANGED itVars PROVE ItInv'
      BY Zenon
    <2> USE DEF itVars
    <2>1. \A o \in ItObjs : Refs(o)' = Refs(o)
      BY Zenon DEF Refs
    <2>2. ItTypeOK' /\ ItCounts' /\ (~staleGet => doubleFree' = FALSE)
      BY ZenonT(60), <2>1 DEF ItInv, ItTypeOK, ItCounts
    <2>3. ~staleGet => ItLocals' /\ ItLinks' /\ ItCalling' /\ ItOneInode' /\ ItAlive'
      BY SMTT(30) DEF ItInv, ItLocals, LocalsOf, ItLinks, ItCalling, Alone, ItOneInode, ItAlive
    <2>4. ~staleGet => ItObjects'
      BY <2>1 DEF ItInv, ItObjects, ItCoherent
    <2> QED BY <2>2, <2>3, <2>4, Zenon DEF ItInv
  <1> QED BY <1>1, <1>2, InodesInit, PTL DEF InodeTreeSpec

\* The list of in-memory inodes is right: rc counts the users, there is one inode per
\* number, and inode_put, which sleeps on the inode's lock while it holds the spin
\* lock of the list, always finds the lock free, and the inode in use; as long as
\* namex has got no dead number.
THEOREM InodesAreSafe == InodeTreeSpec => []ItSafe
  <1>1. ItInv => ItSafe
    <2> SUFFICES ASSUME ItInv PROVE ItSafe
      BY Zenon
    <2>1. ItTypeOK /\ ItCounts /\ ItOneInode /\ ItNoDoubleFree
      BY Zenon DEF ItInv, ItOneInode, ItNoDoubleFree
    <2>2. ItPutFree
      <3> SUFFICES ASSUME NEW p \in ItProcs, itPc[p] = "put", ~staleGet, LastRef(itObj[p])
                   PROVE  objLock[itObj[p]] = ItNone
        BY Zenon DEF ItPutFree, ItAt
      <3>1. /\ itPc[p] \in HasObj /\ itPc[p] \notin HasLock
        BY LockedPlaces, Zenon
      <3>2. PICK o \in ItObjs : o = itObj[p]
        BY <3>1, ObjOf, Zenon
      <3>3. Cardinality(Refs(o)) = 1 /\ p \in Refs(o) /\ IsFiniteSet(Refs(o))
        <4>1. p \in Refs(o) /\ IsFiniteSet(Refs(o))
          BY <3>2, FS_Subset, ItAssumption, Zenon DEF Refs
        <4> QED BY <2>1, <3>2, <4>1, Zenon DEF ItCounts, LastRef
      <3>4. Refs(o) = {p}
        BY SMTT(30), <3>3, FS_Singleton
      <3>5. objLock[o] # p
        BY ZenonT(60), <3>1 DEF ItInv, ItLocals, LocalsOf
      <3> QED BY <2>1, <3>2, <3>4, <3>5, Zenon DEF ItCounts
    <2> QED BY <2>1, <2>2, Zenon DEF ItSafe
  <1> QED BY <1>1, InodesInvariant, PTL

\* An inode is in use on disk exactly as long as a name leads to it or a process has
\* it: unlinkat never frees an open file, and the last inode_put of an unlinked one
\* always does.
THEOREM InodesAlive == InodeTreeSpec => []ItAlive
  <1>1. ItInv => ItAlive
    BY Zenon DEF ItInv, ItAlive
  <1> QED BY <1>1, InodesInvariant, PTL

\* inode_clear never meets an inode that is free already, up to the first inode_get of
\* a dead number by namex: an open that finds its file unlinked, still open or
\* replaced by another with the same number does not bring it about.
THEOREM NoDoubleFree == InodeTreeSpec => []ItNoDoubleFree
  <1>1. ItInv => ItNoDoubleFree
    BY Zenon DEF ItInv, ItNoDoubleFree
  <1> QED BY <1>1, InodesInvariant, PTL
=============================================================================
