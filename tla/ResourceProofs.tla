---------------------------- MODULE ResourceProofs ---------------------------
(* Proofs about what the kernel hands out and takes back: the lock-free     *)
(* queue of free pages (PageQueue) and kalloc's blocks (Kalloc), for any    *)
(* number of pages and CPUs and any page and block size.                    *)
EXTENDS PageQueue, Kalloc, FiniteSetTheorems, TLAPS

\* No more nodes than there are fit in a row.
LEMMA RowFits ==
    ASSUME NEW k \in Nat, NEW s \in [1..k -> PqNodes], \A i, j \in 1..k : s[i] = s[j] => i = j
    PROVE  s \in Rows
  <1>1. s \in Injection(1..k, PqNodes)
    BY Zenon DEF Injection, IsInjective
  <1>2. Cardinality(1..k) <= Cardinality(PqNodes)
    BY <1>1, FS_Injection, PqAssumption, Zenon
  <1>3. Cardinality(1..k) = k
    BY FS_Interval
  <1>4. Cardinality(PqNodes) \in Nat
    BY FS_CardinalityType, PqAssumption, Zenon
  <1>5. k \in 0..Cardinality(PqNodes)
    BY <1>2, <1>3, <1>4
  <1> QED BY <1>5, Zenon DEF Rows

\* A row is a function on 1..k.
LEMMA RowIs == ASSUME NEW s \in Rows PROVE \E k \in Nat : s \in [1..k -> PqNodes]
  <1>1. PICK k \in 0..Cardinality(PqNodes) : s \in [1..k -> PqNodes]
    BY Zenon DEF Rows
  <1>2. k \in Nat
    BY FS_CardinalityType, PqAssumption
  <1> QED BY <1>1, <1>2, Zenon

\* A node outside the row s becomes its first.
Longer(s, k, n) == [i \in 1..(k + 1) |-> IF i = 1 THEN n ELSE s[i - 1]]

LEMMA RowGrows ==
    ASSUME NEW k \in Nat, NEW s \in [1..k -> PqNodes], \A i, j \in 1..k : s[i] = s[j] => i = j,
           NEW n \in PqNodes, ~InRow(s, n)
    PROVE  /\ Longer(s, k, n) \in Rows /\ DOMAIN Longer(s, k, n) = 1..(k + 1)
           /\ \A i, j \in 1..(k + 1) : Longer(s, k, n)[i] = Longer(s, k, n)[j] => i = j
           /\ \A x : InRow(Longer(s, k, n), x) <=> x = n \/ InRow(s, x)
  <1> DEFINE t == Longer(s, k, n)
  <1>1. \A i \in 1..(k + 1) : t[i] = IF i = 1 THEN n ELSE s[i - 1]
    BY Zenon DEF Longer
  <1>2. DOMAIN t = 1..(k + 1)
    BY Zenon DEF Longer
  <1>3. \A i \in 1..k : s[i] # n
    BY Zenon DEF InRow
  <1>4. t \in [1..(k + 1) -> PqNodes]
    BY DEF Longer
  <1> HIDE DEF t
  <1>5. \A i, j \in 1..(k + 1) : t[i] = t[j] => i = j
    BY <1>1, <1>3
  <1>6. t \in Rows
    <2>1. k + 1 \in Nat
      OBVIOUS
    <2> QED BY <1>4, <1>5, <2>1, RowFits, Zenon
  <1>7. ASSUME NEW x PROVE InRow(t, x) <=> x = n \/ InRow(s, x)
    <2>1. 1 \in 1..(k + 1) /\ t[1] = n
      BY <1>1
    <2>2. \A i \in 1..k : i + 1 \in 1..(k + 1) /\ t[i + 1] = s[i]
      BY <1>1
    <2>3. \A i \in 1..(k + 1) : i = 1 \/ (i - 1 \in 1..k /\ t[i] = s[i - 1])
      BY <1>1
    <2>4. DOMAIN s = 1..k
      OBVIOUS
    <2>5. InRow(t, x) => x = n \/ InRow(s, x)
      BY <1>2, <2>1, <2>3, <2>4, Zenon DEF InRow
    <2>6. InRow(s, x) => InRow(t, x)
      BY <1>2, <2>2, <2>4, Zenon DEF InRow
    <2>7. x = n => InRow(t, x)
      BY <1>2, <2>1, Zenon DEF InRow
    <2> QED BY <2>5, <2>6, <2>7, Zenon
  <1> QED BY <1>2, <1>5, <1>6, <1>7, Zenon DEF t

\* The first of the row s goes away.
Shorter(s, k) == [i \in 1..(k - 1) |-> s[i + 1]]

LEMMA RowShrinks ==
    ASSUME NEW k \in Nat \ {0}, NEW s \in [1..k -> PqNodes], \A i, j \in 1..k : s[i] = s[j] => i = j
    PROVE  /\ Shorter(s, k) \in Rows /\ DOMAIN Shorter(s, k) = 1..(k - 1)
           /\ \A i, j \in 1..(k - 1) : Shorter(s, k)[i] = Shorter(s, k)[j] => i = j
           /\ \A x : InRow(Shorter(s, k), x) <=> x # s[1] /\ InRow(s, x)
  <1> DEFINE t == Shorter(s, k)
  <1>1. \A i \in 1..(k - 1) : t[i] = s[i + 1]
    BY Zenon DEF Shorter
  <1>2. DOMAIN t = 1..(k - 1)
    BY Zenon DEF Shorter
  <1>4. t \in [1..(k - 1) -> PqNodes]
    BY DEF Shorter
  <1> HIDE DEF t
  <1>5. \A i, j \in 1..(k - 1) : t[i] = t[j] => i = j
    BY <1>1
  <1>6. t \in Rows
    <2>1. k - 1 \in Nat
      OBVIOUS
    <2> QED BY <1>4, <1>5, <2>1, RowFits, Zenon
  <1>7. ASSUME NEW x PROVE InRow(t, x) <=> x # s[1] /\ InRow(s, x)
    <2>2. \A i \in 1..(k - 1) : i + 1 \in 1..k /\ t[i] = s[i + 1] /\ s[i + 1] # s[1]
      BY <1>1
    <2>3. \A i \in 1..k : i = 1 \/ (i - 1 \in 1..(k - 1) /\ t[i - 1] = s[i])
      BY <1>1
    <2>4. DOMAIN s = 1..k
      OBVIOUS
    <2>5. ASSUME InRow(t, x) PROVE x # s[1] /\ InRow(s, x)
      <3>1. PICK i \in 1..(k - 1) : t[i] = x
        BY <1>2, <2>5, Zenon DEF InRow
      <3>2. i + 1 \in DOMAIN s /\ s[i + 1] = x /\ x # s[1]
        BY <2>2, <2>4, <3>1, Zenon
      <3> QED BY <3>2, Zenon DEF InRow
    <2>6. InRow(s, x) /\ x # s[1] => InRow(t, x)
      BY <1>2, <2>3, <2>4, Zenon DEF InRow
    <2> QED BY <2>5, <2>6, Zenon
  <1> QED BY <1>2, <1>5, <1>6, <1>7, Zenon DEF t

\* What a step does to one CPU's variables.
LEMMA PqMoves ==
    ASSUME PqTypeOK, NEW c \in PqCpus, NEW r \in PqLocals, pq' = [pq EXCEPT ![c] = r]
    PROVE  pq' \in [PqCpus -> PqLocals] /\ pq'[c] = r /\ \A d \in PqCpus : d # c => pq'[d] = pq[d]
  BY Zenon DEF PqTypeOK

LEMMA PqGoes ==
    ASSUME PqTypeOK, NEW c \in PqCpus, NEW l \in {"read_head", "push", "link"}, PqGoto(c, l)
    PROVE  /\ pq' \in [PqCpus -> PqLocals] /\ \A d \in PqCpus : d # c => pq'[d] = pq[d]
           /\ pq'[c].pc = l /\ pq'[c].node = pq[c].node /\ pq'[c].nxt = pq[c].nxt
  <1>1. pq \in [PqCpus -> PqLocals] /\ pq[c] \in PqLocals
    BY Zenon DEF PqTypeOK
  <1>2. pq' = [pq EXCEPT ![c].pc = l]
    BY Zenon DEF PqGoto
  <1>3. pq'[c] = [pq[c] EXCEPT !.pc = l] /\ \A d \in PqCpus : d # c => pq'[d] = pq[d]
    BY <1>1, <1>2, Zenon
  <1>4. pq'[c].pc = l /\ pq'[c].node = pq[c].node /\ pq'[c].nxt = pq[c].nxt
    BY <1>1, <1>3 DEF PqLocals
  <1>6. pq'[c] \in PqLocals
    BY <1>1, <1>3 DEF PqLocals
  <1> QED BY <1>1, <1>2, <1>3, <1>4, <1>6, Zenon
\* Who has a node and where the row leads depend on head, next, owned and the nodes
\* in hand only.
LEMMA PqQuiet ==
    ASSUME UNCHANGED <<head, next, owned>>, \A d \in PqCpus : InHand(d)' = InHand(d), NEW s,
           Chained(s), PqShared(s)
    PROVE  Chained(s)' /\ PqShared(s)'
  <1>1. Chained(s)'
    BY Zenon DEF Chained
  <1>2. \A n : Holders(n)' = Holders(n)
    BY Zenon DEF Holders
  <1>3. PqShared(s)'
    BY <1>2, Zenon DEF PqShared
  <1> QED BY <1>1, <1>3

LEMMA PqAllocInv == ASSUME PqInv, ~recycled, NEW c \in PqCpus, PqAlloc(c) PROVE PqInv'
  <1> DEFINE locks == pqUse = "free_mem"
  <1>1. /\ pq[c].pc = "idle" /\ (locks => memLock = PqNull)
        /\ memLock' = (IF locks THEN c ELSE memLock) /\ PqGoto(c, "read_head")
        /\ UNCHANGED <<pqUse, head, next, owned, recycled, stale>>
    BY Zenon DEF PqAlloc, PqAllocWith
  <1>2. PqTypeOK /\ PqLocked /\ pqUse \in {"pages", "free_mem"} /\ stale \subseteq PqCpus
    BY Zenon DEF PqInv
  <1>3. /\ pq' \in [PqCpus -> PqLocals] /\ \A d \in PqCpus : d # c => pq'[d] = pq[d]
        /\ pq'[c].pc = "read_head" /\ pq'[c].node = pq[c].node /\ pq'[c].nxt = pq[c].nxt
    BY <1>1, <1>2, PqGoes, Zenon
  <1>4. PqTypeOK'
    <2>1. memLock' \in PqCpus \cup {PqNull}
      BY <1>1, <1>2, Zenon DEF PqTypeOK
    <2>2. memLock' # PqNull => pqUse' = "free_mem" /\ pq'[memLock'].pc # "idle"
      BY <1>1, <1>2, <1>3, Zenon DEF PqTypeOK
    <2> QED BY <1>1, <1>2, <1>3, <2>1, <2>2, Zenon DEF PqTypeOK
  <1>5. PqLocked'
    <2> SUFFICES ASSUME NEW d \in PqCpus
                 PROVE  /\ pqUse = "free_mem" => (memLock' = d <=> pq'[d].pc \in {"read_head", "read_next", "swap"})
                        /\ pq'[d].pc \in {"read_next", "swap", "link", "push"} => pq'[d].node \in PqNodes
      BY <1>1, Zenon DEF PqLocked
    <2>1. CASE d = c
      BY <1>1, <1>3, <2>1, Zenon
    <2>2. CASE d # c
      <3>1. d # PqNull
        BY PqAssumption, Zenon
      <3> QED BY <1>1, <1>2, <1>3, <2>2, <3>1, Zenon DEF PqLocked
    <2> QED BY <2>1, <2>2, Zenon
  <1>6. PICK s \in Rows : PqRow(s)
    BY Zenon DEF PqInv
  <1>7. PqRow(s)'
    <2>1. \A d \in PqCpus : InHand(d)' = InHand(d)
      BY <1>1, <1>3, Zenon DEF InHand
    <2>2. Chained(s)' /\ PqShared(s)'
      BY <1>1, <1>6, <2>1, PqQuiet, Zenon DEF PqRow
    <2>3. PqFresh(s)'
      BY <1>1, <1>3, <1>6, Zenon DEF PqFresh, PqRow
    <2> QED BY <2>2, <2>3, Zenon DEF PqRow
  <1> QED BY <1>1, <1>2, <1>4, <1>5, <1>6, <1>7, Zenon DEF PqInv

LEMMA PqReadHeadInv == ASSUME PqInv, ~recycled, NEW c \in PqCpus, PqReadHead(c) PROVE PqInv'
  <1> DEFINE r == [pc |-> "read_next", node |-> head, nxt |-> PqNull]
  <1>1. /\ pq[c].pc = "read_head" /\ head # PqNull /\ pq' = [pq EXCEPT ![c] = r]
        /\ stale' = stale \ {c} /\ UNCHANGED <<pqUse, head, next, owned, memLock, recycled, pqOps>>
    BY Zenon DEF PqReadHead
  <1>2. PqTypeOK /\ PqLocked /\ pqUse \in {"pages", "free_mem"} /\ stale \subseteq PqCpus
    BY Zenon DEF PqInv
  <1>3. PICK s \in Rows : PqRow(s)
    BY Zenon DEF PqInv
  <1>4. head \in PqNodes /\ InRow(s, head)
    <2>1. 1 \in DOMAIN s /\ head = s[1]
      BY <1>1, <1>3, Zenon DEF PqRow, Chained
    <2>2. PICK k \in Nat : s \in [1..k -> PqNodes]
      BY RowIs, Zenon
    <2> QED BY <2>1, <2>2, Zenon DEF InRow
  <1>5. r \in PqLocals /\ r.pc = "read_next" /\ r.node = head
    BY <1>4 DEF PqLocals
  <1>6. pq' \in [PqCpus -> PqLocals] /\ pq'[c] = r /\ \A d \in PqCpus : d # c => pq'[d] = pq[d]
    <2> HIDE DEF r
    <2> QED BY <1>1, <1>2, <1>5, PqMoves, Zenon
  <1> HIDE DEF r
  <1>7. PqTypeOK'
    <2>1. memLock # PqNull => pqUse = "free_mem" /\ pq'[memLock].pc # "idle"
      BY <1>2, <1>5, <1>6, Zenon DEF PqTypeOK
    <2> QED BY <1>1, <1>2, <1>6, <2>1, Zenon DEF PqTypeOK
  <1>8. PqLocked'
    <2> SUFFICES ASSUME NEW d \in PqCpus
                 PROVE  /\ pqUse = "free_mem" => (memLock = d <=> pq'[d].pc \in {"read_head", "read_next", "swap"})
                        /\ pq'[d].pc \in {"read_next", "swap", "link", "push"} => pq'[d].node \in PqNodes
      BY <1>1, Zenon DEF PqLocked
    <2>1. CASE d = c
      BY <1>1, <1>2, <1>4, <1>5, <1>6, <2>1, Zenon DEF PqLocked
    <2>2. CASE d # c
      BY <1>1, <1>2, <1>6, <2>2, Zenon DEF PqLocked
    <2> QED BY <2>1, <2>2, Zenon
  <1>9. PqRow(s)'
    <2>1. \A d \in PqCpus : InHand(d)' = InHand(d)
      BY <1>1, <1>5, <1>6, Zenon DEF InHand
    <2>2. Chained(s)' /\ PqShared(s)'
      BY <1>1, <1>3, <2>1, PqQuiet, Zenon DEF PqRow
    <2>3. PqFresh(s)'
      <3> SUFFICES ASSUME NEW d \in PqCpus \ stale', pq'[d].pc \in {"read_next", "swap"}
                   PROVE  InRow(s, pq'[d].node) /\ (pq'[d].pc = "swap" => pq'[d].nxt = next[pq'[d].node])
        BY <1>1, Zenon DEF PqFresh
      <3>1. CASE d = c
        BY <1>4, <1>5, <1>6, <3>1, Zenon
      <3>2. CASE d # c
        BY <1>1, <1>3, <1>6, <3>2, Zenon DEF PqFresh, PqRow
      <3> QED BY <3>1, <3>2, Zenon
    <2> QED BY <2>2, <2>3, Zenon DEF PqRow
  <1> QED BY <1>1, <1>2, <1>3, <1>7, <1>8, <1>9, Zenon DEF PqInv

LEMMA PqReadNextInv == ASSUME PqInv, ~recycled, NEW c \in PqCpus, PqReadNext(c) PROVE PqInv'
  <1>1. /\ pq[c].pc = "read_next" /\ pq' = [pq EXCEPT ![c].pc = "swap", ![c].nxt = next[pq[c].node]]
        /\ UNCHANGED <<pqUse, head, next, owned, memLock, recycled, stale, pqOps>>
    BY Zenon DEF PqReadNext
  <1>2. PqTypeOK /\ PqLocked /\ pqUse \in {"pages", "free_mem"} /\ stale \subseteq PqCpus
    BY Zenon DEF PqInv
  <1>3. PICK s \in Rows : PqRow(s)
    BY Zenon DEF PqInv
  <1>4. pq[c].node \in PqNodes /\ next[pq[c].node] \in PqNodes \cup {PqNull, PqWild}
    BY <1>1, <1>2, Zenon DEF PqLocked, PqTypeOK
  <1>5. /\ pq' \in [PqCpus -> PqLocals] /\ \A d \in PqCpus : d # c => pq'[d] = pq[d]
        /\ pq'[c].pc = "swap" /\ pq'[c].node = pq[c].node /\ pq'[c].nxt = next[pq[c].node]
    <2>1. pq \in [PqCpus -> PqLocals]
      BY <1>2, Zenon DEF PqTypeOK
    <2> QED BY Zenon, <1>1, <1>4, <2>1 DEF PqLocals
  <1>7. PqTypeOK'
    <2>1. memLock # PqNull => pqUse = "free_mem" /\ pq'[memLock].pc # "idle"
      BY <1>2, <1>5, Zenon DEF PqTypeOK
    <2> QED BY <1>1, <1>2, <1>5, <2>1, Zenon DEF PqTypeOK
  <1>8. PqLocked'
    <2> SUFFICES ASSUME NEW d \in PqCpus
                 PROVE  /\ pqUse = "free_mem" => (memLock = d <=> pq'[d].pc \in {"read_head", "read_next", "swap"})
                        /\ pq'[d].pc \in {"read_next", "swap", "link", "push"} => pq'[d].node \in PqNodes
      BY <1>1, Zenon DEF PqLocked
    <2>1. CASE d = c
      BY <1>1, <1>2, <1>4, <1>5, <2>1, Zenon DEF PqLocked
    <2>2. CASE d # c
      BY <1>1, <1>2, <1>5, <2>2, Zenon DEF PqLocked
    <2> QED BY <2>1, <2>2, Zenon
  <1>9. PqRow(s)'
    <2>1. \A d \in PqCpus : InHand(d)' = InHand(d)
      BY <1>1, <1>5, Zenon DEF InHand
    <2>2. Chained(s)' /\ PqShared(s)'
      BY <1>1, <1>3, <2>1, PqQuiet, Zenon DEF PqRow
    <2>3. PqFresh(s)'
      <3> SUFFICES ASSUME NEW d \in PqCpus \ stale, pq'[d].pc \in {"read_next", "swap"}
                   PROVE  InRow(s, pq'[d].node) /\ (pq'[d].pc = "swap" => pq'[d].nxt = next[pq'[d].node])
        BY <1>1, Zenon DEF PqFresh
      <3>1. CASE d = c
        BY <1>1, <1>3, <1>5, <3>1, Zenon DEF PqFresh, PqRow
      <3>2. CASE d # c
        BY <1>1, <1>3, <1>5, <3>2, Zenon DEF PqFresh, PqRow
      <3> QED BY <3>1, <3>2, Zenon
    <2> QED BY <2>2, <2>3, Zenon DEF PqRow
  <1> QED BY <1>1, <1>2, <1>3, <1>7, <1>8, <1>9, Zenon DEF PqInv
\* A fetch that lost the race reads the head again.
LEMMA PqRetryInv ==
    ASSUME PqInv, ~recycled, NEW c \in PqCpus, PqFetch(c), head # pq[c].node PROVE PqInv'
  <1>1. /\ pq[c].pc = "swap" /\ PqGoto(c, "read_head")
        /\ UNCHANGED <<pqUse, head, next, owned, memLock, recycled, stale, pqOps>>
    BY Zenon DEF PqFetch
  <1>2. PqTypeOK /\ PqLocked /\ pqUse \in {"pages", "free_mem"} /\ stale \subseteq PqCpus
    BY Zenon DEF PqInv
  <1>3. PICK s \in Rows : PqRow(s)
    BY Zenon DEF PqInv
  <1>5. /\ pq' \in [PqCpus -> PqLocals] /\ \A d \in PqCpus : d # c => pq'[d] = pq[d]
        /\ pq'[c].pc = "read_head" /\ pq'[c].node = pq[c].node /\ pq'[c].nxt = pq[c].nxt
    BY <1>1, <1>2, PqGoes, Zenon
  <1>7. PqTypeOK'
    <2>1. memLock # PqNull => pqUse = "free_mem" /\ pq'[memLock].pc # "idle"
      BY <1>2, <1>5, Zenon DEF PqTypeOK
    <2> QED BY <1>1, <1>2, <1>5, <2>1, Zenon DEF PqTypeOK
  <1>8. PqLocked'
    <2> SUFFICES ASSUME NEW d \in PqCpus
                 PROVE  /\ pqUse = "free_mem" => (memLock = d <=> pq'[d].pc \in {"read_head", "read_next", "swap"})
                        /\ pq'[d].pc \in {"read_next", "swap", "link", "push"} => pq'[d].node \in PqNodes
      BY <1>1, Zenon DEF PqLocked
    <2>1. CASE d = c
      BY <1>1, <1>2, <1>5, <2>1, Zenon DEF PqLocked
    <2>2. CASE d # c
      BY <1>1, <1>2, <1>5, <2>2, Zenon DEF PqLocked
    <2> QED BY <2>1, <2>2, Zenon
  <1>9. PqRow(s)'
    <2>1. \A d \in PqCpus : InHand(d)' = InHand(d)
      BY <1>1, <1>5, Zenon DEF InHand
    <2>2. Chained(s)' /\ PqShared(s)'
      BY <1>1, <1>3, <2>1, PqQuiet, Zenon DEF PqRow
    <2>3. PqFresh(s)'
      BY ZenonT(60), <1>1, <1>3, <1>5 DEF PqFresh, PqRow
    <2> QED BY <2>2, <2>3, Zenon DEF PqRow
  <1> QED BY <1>1, <1>2, <1>3, <1>7, <1>8, <1>9, Zenon DEF PqInv

\* A fetch that swaps the head takes the first node of the row, unless its head is
\* stale; under mem_list_lock it never is.
LEMMA PqFetchInv ==
    ASSUME PqInv, ~recycled, NEW c \in PqCpus, PqFetch(c), head = pq[c].node PROVE PqInv'
  <1> DEFINE n == pq[c].node
  <1>1. /\ pq[c].pc = "swap" /\ head' = pq[c].nxt /\ owned' = [owned EXCEPT ![c] = @ \cup {n}]
        /\ next' = [next EXCEPT ![n] = PqWild] /\ recycled' = (recycled \/ c \in stale)
        /\ stale' = stale \cup {d \in PqCpus : pq[d].pc \in {"read_next", "swap"} /\ d # c}
        /\ memLock' = (IF memLock = c THEN PqNull ELSE memLock)
        /\ pq' = [pq EXCEPT ![c] = Resting] /\ UNCHANGED pqUse
    BY Zenon DEF PqFetch
  <1>2. PqTypeOK /\ PqLocked /\ pqUse \in {"pages", "free_mem"} /\ stale \subseteq PqCpus
        /\ (pqUse = "free_mem" => stale = {}) /\ (pqUse = "pages" => memLock = PqNull)
    BY Zenon DEF PqInv
  <1>3. n \in PqNodes /\ pq[c].nxt \in PqNodes \cup {PqNull, PqWild} /\ c # PqNull
    BY <1>1, <1>2, PqAssumption DEF PqLocked, PqTypeOK, PqLocals
  <1>4. Resting \in PqLocals /\ Resting.pc = "idle"
    BY DEF Resting, PqLocals
  <1>5. pq' \in [PqCpus -> PqLocals] /\ pq'[c] = Resting /\ \A d \in PqCpus : d # c => pq'[d] = pq[d]
    BY <1>1, <1>2, <1>4, PqMoves, Zenon
  <1>6. /\ owned' \in [PqCpus -> SUBSET PqNodes] /\ owned'[c] = owned[c] \cup {n}
        /\ \A d \in PqCpus : d # c => owned'[d] = owned[d]
    BY <1>1, <1>2, <1>3, Zenon DEF PqTypeOK
  <1>7. /\ next' \in [PqNodes -> PqNodes \cup {PqNull, PqWild}]
        /\ \A m \in PqNodes : m # n => next'[m] = next[m]
    BY <1>1, <1>2, <1>3, Zenon DEF PqTypeOK
  <1>8. PqTypeOK'
    <2>1. memLock' # PqNull => pqUse = "free_mem" /\ pq'[memLock'].pc # "idle"
      BY <1>1, <1>2, <1>5, Zenon DEF PqTypeOK
    <2>2. memLock' \in PqCpus \cup {PqNull}
      BY <1>1, <1>2, Zenon DEF PqTypeOK
    <2> QED BY <1>1, <1>3, <1>5, <1>6, <1>7, <2>1, <2>2, Zenon DEF PqTypeOK
  <1>9. pqUse = "free_mem" => memLock = c /\ \A d \in PqCpus : d # c => pq[d].pc \notin {"read_head", "read_next", "swap"}
    BY <1>1, <1>2, Zenon DEF PqLocked
  <1>10. PqLocked'
    <2> SUFFICES ASSUME NEW d \in PqCpus
                 PROVE  /\ pqUse = "free_mem" => (memLock' = d <=> pq'[d].pc \in {"read_head", "read_next", "swap"})
                        /\ pq'[d].pc \in {"read_next", "swap", "link", "push"} => pq'[d].node \in PqNodes
      BY <1>1, Zenon DEF PqLocked
    <2>0. d # PqNull
      BY PqAssumption, Zenon
    <2>1. CASE d = c
      BY <1>1, <1>4, <1>5, <1>9, <2>0, <2>1, Zenon
    <2>2. CASE d # c
      BY <1>1, <1>2, <1>5, <1>9, <2>0, <2>2, Zenon DEF PqLocked
    <2> QED BY <2>1, <2>2, Zenon
  <1>11. stale' \subseteq PqCpus /\ recycled' \in BOOLEAN
    BY <1>1, <1>2, Zenon
  <1>12. pqUse = "free_mem" => stale' = {} /\ ~recycled'
    BY <1>1, <1>2, <1>9, Zenon
  <1>13. pqUse = "pages" => memLock' = PqNull
    BY <1>1, <1>2, Zenon
  <1>14. ASSUME ~recycled' PROVE \E t \in Rows : PqRow(t)'
    <2>1. c \notin stale
      BY <1>1, <1>14, Zenon
    <2>2. PICK s \in Rows : PqRow(s)
      BY Zenon DEF PqInv
    <2>3. PICK k \in Nat : s \in [1..k -> PqNodes]
      BY RowIs, Zenon
    <2>4. DOMAIN s = 1..k /\ Chained(s) /\ PqShared(s)
      BY <2>2, <2>3, Zenon DEF PqRow
    <2>5. \A i, j \in 1..k : s[i] = s[j] => i = j
      BY <2>4, Zenon DEF Chained
    <2>6. pq[c].nxt = next[n]
      BY <1>1, <2>1, <2>2, Zenon DEF PqRow, PqFresh
    <2>7. 1 \in 1..k /\ s[1] = n
      BY <1>3, <2>4, PqAssumption, Zenon DEF Chained
    <2>8. k \in Nat \ {0}
      BY <2>7
    <2> DEFINE t == Shorter(s, k)
    <2>9. /\ t \in Rows /\ DOMAIN t = 1..(k - 1)
          /\ \A i, j \in 1..(k - 1) : t[i] = t[j] => i = j
          /\ \A x : InRow(t, x) <=> x # n /\ InRow(s, x)
      BY <2>3, <2>5, <2>7, <2>8, RowShrinks, Zenon
    <2>10. \A i \in 1..(k - 1) : t[i] = s[i + 1]
      BY Zenon DEF Shorter
    <2> HIDE DEF t
    <2>11. head' = IF 1 \in DOMAIN t THEN t[1] ELSE PqNull
      <3>1. next[n] = IF 1 + 1 \in 1..k THEN s[1 + 1] ELSE PqNull
        BY ZenonT(60), <2>4, <2>7 DEF Chained
      <3>2. (1 + 1 \in 1..k) <=> (1 \in 1..(k - 1))
        OBVIOUS
      <3> QED BY <1>1, <2>6, <2>9, <2>10, <3>1, <3>2, Zenon
    <2>12. ASSUME NEW i \in 1..(k - 1) PROVE next'[t[i]] = IF i + 1 \in DOMAIN t THEN t[i + 1] ELSE PqNull
      <3>1. i + 1 \in 1..k /\ i + 1 # 1 /\ ((i + 1 \in 1..(k - 1)) <=> (i + 1 + 1 \in 1..k))
        OBVIOUS
      <3>2. t[i] = s[i + 1] /\ (i + 1 \in 1..(k - 1) => t[i + 1] = s[i + 1 + 1])
        BY <2>10, Zenon
      <3>3. s[i + 1] # n /\ s[i + 1] \in PqNodes
        BY <2>3, <2>5, <2>7, <3>1, Zenon
      <3>4. next[s[i + 1]] = IF i + 1 + 1 \in 1..k THEN s[i + 1 + 1] ELSE PqNull
        BY <2>4, <3>1, Zenon DEF Chained
      <3> QED BY <1>7, <2>9, <3>1, <3>2, <3>3, <3>4, Zenon
    <2>13. Chained(t)'
      BY <2>9, <2>11, <2>12, Zenon DEF Chained
    <2>14. PqFresh(t)'
      BY <1>1, <1>4, <1>5, Zenon DEF PqFresh
    <2>15. PqShared(t)'
      <3>1. \A d \in PqCpus : InHand(d)' = InHand(d) /\ InHand(c) = {}
        BY <1>1, <1>4, <1>5, Zenon DEF InHand
      <3>2. \A x \in PqNodes : Holders(x)' = IF x = n THEN Holders(n) \cup {c} ELSE Holders(x)
        BY <1>6, <3>1, Zenon DEF Holders
      <3>3. InRow(s, n)
        BY <2>4, <2>7, Zenon DEF InRow
      <3>4. Holders(n) = {}
        BY <1>3, <2>4, <3>3, Zenon DEF PqShared
      <3> SUFFICES ASSUME NEW x \in PqNodes
                   PROVE  /\ InRow(t, x) => Holders(x)' = {}
                          /\ ~InRow(t, x) => \E d \in PqCpus : Holders(x)' = {d}
                          /\ \A d \in PqCpus : x \notin owned'[d] \cap InHand(d)'
        BY Zenon DEF PqShared
      <3>5. \A d \in PqCpus : x \notin owned'[d] \cap InHand(d)'
        BY <1>6, <2>4, <3>1, Zenon DEF PqShared
      <3>6. CASE x = n
        <4>1. Holders(x)' = {c}
          BY <3>2, <3>4, <3>6, Zenon
        <4> QED BY <2>9, <3>5, <3>6, <4>1, Zenon
      <3>7. CASE x # n
        BY <2>4, <2>9, <3>2, <3>5, <3>7, Zenon DEF PqShared
      <3> QED BY <3>6, <3>7, Zenon
    <2> QED BY <2>9, <2>13, <2>14, <2>15, Zenon DEF PqRow
  <1> QED BY <1>1, <1>2, <1>8, <1>10, <1>11, <1>12, <1>13, <1>14, Zenon DEF PqInv
\* add_to_queue begins: the node goes from owned to in hand.
LEMMA PqFreeInv == ASSUME PqInv, ~recycled, NEW c \in PqCpus, PqFree(c) PROVE PqInv'
  <1>1. PICK n \in owned[c] :
           /\ pq[c].pc = "idle" /\ pq' = [pq EXCEPT ![c] = [pc |-> "link", node |-> n, nxt |-> PqNull]]
           /\ owned' = [owned EXCEPT ![c] = @ \ {n}]
           /\ UNCHANGED <<pqUse, head, next, memLock, recycled, stale>>
    BY Zenon DEF PqFree
  <1> DEFINE r == [pc |-> "link", node |-> n, nxt |-> PqNull]
  <1>2. PqTypeOK /\ PqLocked /\ pqUse \in {"pages", "free_mem"} /\ stale \subseteq PqCpus
    BY Zenon DEF PqInv
  <1>3. n \in PqNodes
    BY <1>2, Zenon DEF PqTypeOK
  <1>4. r \in PqLocals /\ r.pc = "link" /\ r.node = n
    BY <1>3 DEF PqLocals
  <1>5. pq' \in [PqCpus -> PqLocals] /\ pq'[c] = r /\ \A d \in PqCpus : d # c => pq'[d] = pq[d]
    <2> HIDE DEF r
    <2>1. pq' = [pq EXCEPT ![c] = r]
      BY <1>1 DEF r
    <2> QED BY <1>2, <1>4, <2>1, PqMoves, Zenon
  <1> HIDE DEF r
  <1>6. /\ owned' \in [PqCpus -> SUBSET PqNodes] /\ owned'[c] = owned[c] \ {n}
        /\ \A d \in PqCpus : d # c => owned'[d] = owned[d]
    BY <1>1, <1>2, <1>3, Zenon DEF PqTypeOK
  <1>7. PqTypeOK'
    <2>1. memLock # PqNull => pqUse = "free_mem" /\ pq'[memLock].pc # "idle"
      BY <1>2, <1>4, <1>5, Zenon DEF PqTypeOK
    <2> QED BY <1>1, <1>2, <1>5, <1>6, <2>1, Zenon DEF PqTypeOK
  <1>8. PqLocked'
    <2> SUFFICES ASSUME NEW d \in PqCpus
                 PROVE  /\ pqUse = "free_mem" => (memLock = d <=> pq'[d].pc \in {"read_head", "read_next", "swap"})
                        /\ pq'[d].pc \in {"read_next", "swap", "link", "push"} => pq'[d].node \in PqNodes
      BY <1>1, Zenon DEF PqLocked
    <2>1. CASE d = c
      BY <1>1, <1>2, <1>3, <1>4, <1>5, <2>1, Zenon DEF PqLocked
    <2>2. CASE d # c
      BY <1>1, <1>2, <1>5, <2>2, Zenon DEF PqLocked
    <2> QED BY <2>1, <2>2, Zenon
  <1>9. PICK s \in Rows : PqRow(s)
    BY Zenon DEF PqInv
  <1>10. PqRow(s)'
    <2>1. InHand(c) = {} /\ InHand(c)' = {n} /\ \A d \in PqCpus : d # c => InHand(d)' = InHand(d)
      BY <1>1, <1>4, <1>5, Zenon DEF InHand
    <2>2. \A x \in PqNodes : Holders(x)' = Holders(x)
      <3> SUFFICES ASSUME NEW x \in PqNodes, NEW d \in PqCpus
                   PROVE  x \in owned'[d] \cup InHand(d)' <=> x \in owned[d] \cup InHand(d)
        BY Zenon DEF Holders
      <3>1. CASE d = c
        BY <1>6, <2>1, <3>1, Zenon
      <3>2. CASE d # c
        BY <1>6, <2>1, <3>2, Zenon
      <3> QED BY <3>1, <3>2, Zenon
    <2>3. Chained(s)'
      BY <1>1, <1>9, Zenon DEF Chained, PqRow
    <2>4. PqFresh(s)'
      BY <1>1, <1>4, <1>5, <1>9, Zenon DEF PqFresh, PqRow
    <2>5. \A x \in PqNodes, d \in PqCpus : x \notin owned'[d] \cap InHand(d)'
      BY <1>6, <1>9, <2>1, Zenon DEF PqShared, PqRow
    <2>6. PqShared(s)'
      BY <1>9, <2>2, <2>5, Zenon DEF PqShared, PqRow
    <2> QED BY <2>3, <2>4, <2>6, Zenon DEF PqRow
  <1> QED BY <1>1, <1>2, <1>7, <1>8, <1>9, <1>10, Zenon DEF PqInv

\* node->next = head: the node is in no row.
LEMMA PqLinkInv == ASSUME PqInv, ~recycled, NEW c \in PqCpus, PqLink(c) PROVE PqInv'
  <1> DEFINE n == pq[c].node
  <1>1. /\ pq[c].pc = "link" /\ next' = [next EXCEPT ![n] = head] /\ PqGoto(c, "push")
        /\ UNCHANGED <<pqUse, head, owned, memLock, recycled, stale, pqOps>>
    BY Zenon DEF PqLink
  <1>2. PqTypeOK /\ PqLocked /\ pqUse \in {"pages", "free_mem"} /\ stale \subseteq PqCpus
    BY Zenon DEF PqInv
  <1>3. n \in PqNodes
    BY <1>1, <1>2, Zenon DEF PqLocked
  <1>5. /\ pq' \in [PqCpus -> PqLocals] /\ \A d \in PqCpus : d # c => pq'[d] = pq[d]
        /\ pq'[c].pc = "push" /\ pq'[c].node = pq[c].node /\ pq'[c].nxt = pq[c].nxt
    BY <1>1, <1>2, PqGoes, Zenon
  <1>6. /\ next' \in [PqNodes -> PqNodes \cup {PqNull, PqWild}]
        /\ \A m \in PqNodes : m # n => next'[m] = next[m]
    BY <1>1, <1>2, <1>3, Zenon DEF PqTypeOK
  <1>7. PqTypeOK'
    <2>1. memLock # PqNull => pqUse = "free_mem" /\ pq'[memLock].pc # "idle"
      BY <1>2, <1>5, Zenon DEF PqTypeOK
    <2> QED BY <1>1, <1>2, <1>5, <1>6, <2>1, Zenon DEF PqTypeOK
  <1>8. PqLocked'
    <2> SUFFICES ASSUME NEW d \in PqCpus
                 PROVE  /\ pqUse = "free_mem" => (memLock = d <=> pq'[d].pc \in {"read_head", "read_next", "swap"})
                        /\ pq'[d].pc \in {"read_next", "swap", "link", "push"} => pq'[d].node \in PqNodes
      BY <1>1, Zenon DEF PqLocked
    <2>1. CASE d = c
      BY <1>1, <1>2, <1>3, <1>5, <2>1, Zenon DEF PqLocked
    <2>2. CASE d # c
      BY <1>1, <1>2, <1>5, <2>2, Zenon DEF PqLocked
    <2> QED BY <2>1, <2>2, Zenon
  <1>9. PICK s \in Rows : PqRow(s)
    BY Zenon DEF PqInv
  <1>10. ~InRow(s, n)
    <2>1. c \in Holders(n)
      BY <1>1, Zenon DEF Holders, InHand
    <2> QED BY <1>3, <1>9, <2>1, Zenon DEF PqRow, PqShared
  <1>11. \A i \in DOMAIN s : s[i] \in PqNodes /\ s[i] # n
    <2>1. PICK k \in Nat : s \in [1..k -> PqNodes]
      BY RowIs, Zenon
    <2> QED BY <1>10, <2>1, Zenon DEF InRow
  <1>12. PqRow(s)'
    <2>1. \A d \in PqCpus : InHand(d)' = InHand(d)
      BY <1>1, <1>5, Zenon DEF InHand
    <2>2. \A x \in PqNodes : Holders(x)' = Holders(x)
      BY <1>1, <2>1, Zenon DEF Holders
    <2>3. PqShared(s)'
      BY <1>1, <1>9, <2>1, <2>2, Zenon DEF PqShared, PqRow
    <2>4. Chained(s)'
      <3>1. \A i \in DOMAIN s : next'[s[i]] = next[s[i]]
        BY <1>6, <1>11, Zenon
      <3> QED BY <1>1, <1>9, <3>1, Zenon DEF Chained, PqRow
    <2>5. PqFresh(s)'
      <3> SUFFICES ASSUME NEW d \in PqCpus \ stale, pq'[d].pc \in {"read_next", "swap"}
                   PROVE  InRow(s, pq'[d].node) /\ (pq'[d].pc = "swap" => pq'[d].nxt = next'[pq'[d].node])
        BY <1>1, Zenon DEF PqFresh
      <3>1. d # c /\ pq'[d] = pq[d]
        BY <1>5, Zenon
      <3>2. InRow(s, pq[d].node) /\ (pq[d].pc = "swap" => pq[d].nxt = next[pq[d].node])
        BY <1>9, <3>1, Zenon DEF PqFresh, PqRow
      <3>3. pq[d].node \in PqNodes /\ pq[d].node # n
        BY <1>11, <3>2, Zenon DEF InRow
      <3>4. next'[pq[d].node] = next[pq[d].node]
        BY <1>6, <3>3, Zenon
      <3> QED BY <3>1, <3>2, <3>4, Zenon
    <2> QED BY <2>3, <2>4, <2>5, Zenon DEF PqRow
  <1> QED BY <1>1, <1>2, <1>7, <1>8, <1>9, <1>12, Zenon DEF PqInv

\* The swap of an add that lost the race: it links again.
LEMMA PqRepushInv ==
    ASSUME PqInv, ~recycled, NEW c \in PqCpus, PqPush(c), head # next[pq[c].node] PROVE PqInv'
  <1>1. /\ pq[c].pc = "push" /\ PqGoto(c, "link")
        /\ UNCHANGED <<pqUse, head, next, owned, memLock, recycled, stale, pqOps>>
    BY Zenon DEF PqPush
  <1>2. PqTypeOK /\ PqLocked /\ pqUse \in {"pages", "free_mem"} /\ stale \subseteq PqCpus
    BY Zenon DEF PqInv
  <1>3. PICK s \in Rows : PqRow(s)
    BY Zenon DEF PqInv
  <1>5. /\ pq' \in [PqCpus -> PqLocals] /\ \A d \in PqCpus : d # c => pq'[d] = pq[d]
        /\ pq'[c].pc = "link" /\ pq'[c].node = pq[c].node /\ pq'[c].nxt = pq[c].nxt
    BY <1>1, <1>2, PqGoes, Zenon
  <1>7. PqTypeOK'
    <2>1. memLock # PqNull => pqUse = "free_mem" /\ pq'[memLock].pc # "idle"
      BY <1>2, <1>5, Zenon DEF PqTypeOK
    <2> QED BY <1>1, <1>2, <1>5, <2>1, Zenon DEF PqTypeOK
  <1>8. PqLocked'
    <2> SUFFICES ASSUME NEW d \in PqCpus
                 PROVE  /\ pqUse = "free_mem" => (memLock = d <=> pq'[d].pc \in {"read_head", "read_next", "swap"})
                        /\ pq'[d].pc \in {"read_next", "swap", "link", "push"} => pq'[d].node \in PqNodes
      BY <1>1, Zenon DEF PqLocked
    <2>1. CASE d = c
      BY <1>1, <1>2, <1>5, <2>1, Zenon DEF PqLocked
    <2>2. CASE d # c
      BY <1>1, <1>2, <1>5, <2>2, Zenon DEF PqLocked
    <2> QED BY <2>1, <2>2, Zenon
  <1>9. PqRow(s)'
    <2>1. \A d \in PqCpus : InHand(d)' = InHand(d)
      BY <1>1, <1>5, Zenon DEF InHand
    <2>2. Chained(s)' /\ PqShared(s)'
      BY <1>1, <1>3, <2>1, PqQuiet, Zenon DEF PqRow
    <2>3. PqFresh(s)'
      BY <1>1, <1>3, <1>5, Zenon DEF PqFresh, PqRow
    <2> QED BY <2>2, <2>3, Zenon DEF PqRow
  <1> QED BY <1>1, <1>2, <1>3, <1>7, <1>8, <1>9, Zenon DEF PqInv

\* The swap of an add: the node is the first of the row.
LEMMA PqPushInv ==
    ASSUME PqInv, ~recycled, NEW c \in PqCpus, PqPush(c), head = next[pq[c].node] PROVE PqInv'
  <1> DEFINE n == pq[c].node
  <1>1. /\ pq[c].pc = "push" /\ head' = n /\ pq' = [pq EXCEPT ![c] = Resting]
        /\ UNCHANGED <<pqUse, next, owned, memLock, recycled, stale, pqOps>>
    BY Zenon DEF PqPush
  <1>2. PqTypeOK /\ PqLocked /\ pqUse \in {"pages", "free_mem"} /\ stale \subseteq PqCpus
    BY Zenon DEF PqInv
  <1>3. n \in PqNodes
    BY <1>1, <1>2, Zenon DEF PqLocked
  <1>4. Resting \in PqLocals /\ Resting.pc = "idle"
    BY DEF Resting, PqLocals
  <1>5. pq' \in [PqCpus -> PqLocals] /\ pq'[c] = Resting /\ \A d \in PqCpus : d # c => pq'[d] = pq[d]
    BY <1>1, <1>2, <1>4, PqMoves, Zenon
  <1>6. pqUse = "free_mem" => memLock # c
    BY <1>1, <1>2, Zenon DEF PqLocked
  <1>7. PqTypeOK'
    <2>1. memLock # PqNull => pqUse = "free_mem" /\ pq'[memLock].pc # "idle"
      BY <1>2, <1>5, <1>6, Zenon DEF PqTypeOK
    <2> QED BY <1>1, <1>2, <1>3, <1>5, <2>1, Zenon DEF PqTypeOK
  <1>8. PqLocked'
    <2> SUFFICES ASSUME NEW d \in PqCpus
                 PROVE  /\ pqUse = "free_mem" => (memLock = d <=> pq'[d].pc \in {"read_head", "read_next", "swap"})
                        /\ pq'[d].pc \in {"read_next", "swap", "link", "push"} => pq'[d].node \in PqNodes
      BY <1>1, Zenon DEF PqLocked
    <2>1. CASE d = c
      BY <1>4, <1>5, <1>6, <2>1, Zenon
    <2>2. CASE d # c
      BY <1>1, <1>2, <1>5, <2>2, Zenon DEF PqLocked
    <2> QED BY <2>1, <2>2, Zenon
  <1>9. PICK s \in Rows : PqRow(s)
    BY Zenon DEF PqInv
  <1>10. PICK k \in Nat : s \in [1..k -> PqNodes]
    BY RowIs, Zenon
  <1>11. DOMAIN s = 1..k /\ Chained(s) /\ PqShared(s)
    BY <1>9, <1>10, Zenon DEF PqRow
  <1>12. \A i, j \in 1..k : s[i] = s[j] => i = j
    BY <1>11, Zenon DEF Chained
  <1>13. c \in Holders(n) /\ InHand(c) = {n}
    BY <1>1, Zenon DEF Holders, InHand
  <1>14. ~InRow(s, n)
    BY <1>3, <1>11, <1>13, Zenon DEF PqShared
  <1>15. Holders(n) = {c} /\ n \notin owned[c]
    BY <1>3, <1>11, <1>13, <1>14, Zenon DEF PqShared
  <1>16. PICK t \in Rows :
           /\ DOMAIN t = 1..(k + 1)
           /\ \A i, j \in 1..(k + 1) : t[i] = t[j] => i = j
           /\ \A x : InRow(t, x) <=> x = n \/ InRow(s, x)
           /\ \A i \in 1..(k + 1) : t[i] = IF i = 1 THEN n ELSE s[i - 1]
    <2>1. \A i \in 1..(k + 1) : Longer(s, k, n)[i] = IF i = 1 THEN n ELSE s[i - 1]
      BY Zenon DEF Longer
    <2> DEFINE L == Longer(s, k, n)
    <2>2. /\ L \in Rows /\ DOMAIN L = 1..(k + 1) /\ \A i, j \in 1..(k + 1) : L[i] = L[j] => i = j
          /\ \A x : InRow(L, x) <=> x = n \/ InRow(s, x)
      BY <1>3, <1>10, <1>12, <1>14, RowGrows
    <2>3. \A i \in 1..(k + 1) : L[i] = IF i = 1 THEN n ELSE s[i - 1]
      BY <2>1
    <2> HIDE DEF L
    <2> QED BY <2>2, <2>3, Zenon
  <1>18. 1 \in 1..(k + 1)
    OBVIOUS
  <1>19. head' = IF 1 \in DOMAIN t THEN t[1] ELSE PqNull
    BY <1>1, <1>16, <1>16, <1>18, Zenon
  <1>20. ASSUME NEW i \in 1..(k + 1) PROVE next[t[i]] = IF i + 1 \in DOMAIN t THEN t[i + 1] ELSE PqNull
    <2>1. CASE i = 1
      <3>1. (1 + 1 \in 1..(k + 1)) <=> (1 \in 1..k)
        OBVIOUS
      <3>2. 1 + 1 # 1 /\ (1 + 1) - 1 = 1
        OBVIOUS
      <3>3. t[1] = n /\ (1 + 1 \in 1..(k + 1) => t[1 + 1] = s[1])
        BY <1>16, <1>18, <3>2, Zenon
      <3>4. next[n] = IF 1 \in 1..k THEN s[1] ELSE PqNull
        BY <1>11, Zenon DEF Chained
      <3> QED BY <1>16, <2>1, <3>1, <3>3, <3>4, Zenon
    <2>2. CASE i # 1
      <3>1. /\ i - 1 \in 1..k /\ (i - 1) + 1 = i /\ i + 1 # 1 /\ (i + 1) - 1 = i
            /\ ((i + 1 \in 1..(k + 1)) <=> (i \in 1..k))
        BY <2>2
      <3>2. t[i] = s[i - 1] /\ (i + 1 \in 1..(k + 1) => t[i + 1] = s[i])
        BY <1>16, <2>2, <3>1, Zenon
      <3>3. next[s[i - 1]] = IF i \in 1..k THEN s[i] ELSE PqNull
        BY ZenonT(60), <1>11, <3>1 DEF Chained
      <3> QED BY <1>16, <3>1, <3>2, <3>3, Zenon
    <2> QED BY <2>1, <2>2, Zenon
  <1>21. Chained(t)'
    BY <1>1, <1>16, <1>19, <1>20, Zenon DEF Chained
  <1>22. PqFresh(t)'
    BY <1>1, <1>4, <1>5, <1>9, <1>16, Zenon DEF PqFresh, PqRow
  <1>23. PqShared(t)'
    <2>1. InHand(c)' = {} /\ \A d \in PqCpus : d # c => InHand(d)' = InHand(d)
      BY <1>4, <1>5, Zenon DEF InHand
    <2> SUFFICES ASSUME NEW x \in PqNodes
                 PROVE  /\ InRow(t, x) => Holders(x)' = {}
                        /\ ~InRow(t, x) => \E d \in PqCpus : Holders(x)' = {d}
                        /\ \A d \in PqCpus : x \notin owned[d] \cap InHand(d)'
      BY <1>1, Zenon DEF PqShared
    <2>2. \A d \in PqCpus : x \notin owned[d] \cap InHand(d)'
      BY <1>11, <2>1, Zenon DEF PqShared
    <2>3. CASE x = n
      <3>1. \A d \in PqCpus : x \in owned[d] \cup InHand(d) => d = c
        BY <1>15, <2>3, Zenon DEF Holders
      <3>2. Holders(x)' = {}
        BY <1>1, <1>15, <2>1, <2>3, <3>1, Zenon DEF Holders
      <3> QED BY <1>16, <2>2, <2>3, <3>2, Zenon
    <2>4. CASE x # n
      <3>1. \A d \in PqCpus : x \in owned'[d] \cup InHand(d)' <=> x \in owned[d] \cup InHand(d)
        <4>1. x \in owned'[c] \cup InHand(c)' <=> x \in owned[c] \cup InHand(c)
          BY <1>1, <1>13, <2>1, <2>4, Zenon
        <4>2. \A d \in PqCpus : d # c => owned'[d] \cup InHand(d)' = owned[d] \cup InHand(d)
          BY <1>1, <2>1, Zenon
        <4> QED BY <4>1, <4>2, Zenon
      <3>2. Holders(x)' = Holders(x)
        BY <3>1, Zenon DEF Holders
      <3> QED BY <1>11, <1>16, <2>2, <2>4, <3>2, Zenon DEF PqShared
    <2> QED BY <2>3, <2>4, Zenon
  <1> QED BY <1>1, <1>2, <1>7, <1>8, <1>16, <1>21, <1>22, <1>23, Zenon DEF PqInv, PqRow

LEMMA PqInitInv == PageQueueInit => PqInv
  <1> SUFFICES ASSUME PageQueueInit PROVE PqInv
    OBVIOUS
  <1> DEFINE N == Cardinality(PqNodes)
             One(f) == \A i, j \in DOMAIN f : f[i] = f[j] => i = j
             order == CHOOSE f \in [1..N -> PqNodes] : One(f)
  <1>1. N \in Nat \ {0}
    BY FS_CardinalityType, FS_EmptySet, PqAssumption, Zenon
  <1>2. order \in [1..N -> PqNodes] /\ One(order)
    <2>1. \E f \in [1..N -> PqNodes] : One(f)
      <3>1. PICK f \in Bijection(1..N, PqNodes) : TRUE
        BY FS_CardinalityType, PqAssumption, Zenon DEF ExistsBijection
      <3> QED BY <3>1, Zenon DEF Bijection, Injection, IsInjective
    <2> QED BY <2>1, Zenon
  <1>3. /\ pqUse \in {"pages", "free_mem"} /\ head = order[1]
        /\ next = [n \in PqNodes |-> LET i == CHOOSE i \in DOMAIN order : order[i] = n
                                     IN  IF i = N THEN PqNull ELSE order[i + 1]]
        /\ pq = [c \in PqCpus |-> Resting] /\ owned = [c \in PqCpus |-> {}]
        /\ memLock = PqNull /\ recycled = FALSE /\ stale = {}
    BY Zenon DEF PageQueueInit
  <1> HIDE DEF order
  <1>4. DOMAIN order = 1..N /\ \A i, j \in 1..N : order[i] = order[j] => i = j
    BY <1>2, Zenon
  <1>5. order \in Rows
    BY <1>1, <1>2, <1>4, RowFits, Zenon
  <1>6. \A n \in PqNodes : \E i \in 1..N : order[i] = n
    <2>1. order \in Injection(1..N, PqNodes)
      BY <1>2, <1>4, Zenon DEF Injection, IsInjective
    <2>2. Cardinality(1..N) = N
      BY <1>1, FS_Interval
    <2>3. order \in Surjection(1..N, PqNodes)
      BY <2>1, <2>2, FS_Injection, PqAssumption, Zenon
    <2> QED BY <2>3, Zenon DEF Surjection
  <1>7. \A i \in 1..N : next[order[i]] = IF i = N THEN PqNull ELSE order[i + 1]
    <2> SUFFICES ASSUME NEW i \in 1..N PROVE next[order[i]] = IF i = N THEN PqNull ELSE order[i + 1]
      OBVIOUS
    <2>1. order[i] \in PqNodes
      BY <1>2, Zenon
    <2>2. (CHOOSE j \in DOMAIN order : order[j] = order[i]) = i
      BY <1>4, Zenon
    <2> DEFINE ch == CHOOSE j \in DOMAIN order : order[j] = order[i]
    <2>3. next[order[i]] = IF ch = N THEN PqNull ELSE order[ch + 1]
      BY <1>3, <2>1, Zenon
    <2> HIDE DEF ch
    <2>4. ch = i
      BY <2>2 DEF ch
    <2> QED BY <2>3, <2>4, Zenon
  <1>8. \A i \in 1..N : (i = N <=> i + 1 \notin 1..N)
    BY <1>1
  <1>9. next \in [PqNodes -> PqNodes \cup {PqNull, PqWild}]
    <2>1. \A n \in PqNodes : next[n] \in PqNodes \cup {PqNull, PqWild}
      <3> SUFFICES ASSUME NEW n \in PqNodes PROVE next[n] \in PqNodes \cup {PqNull, PqWild}
        OBVIOUS
      <3>1. PICK i \in 1..N : order[i] = n
        BY <1>6, Zenon
      <3>2. next[n] = IF i = N THEN PqNull ELSE order[i + 1]
        BY <1>7, <3>1, Zenon
      <3>3. i # N => order[i + 1] \in PqNodes
        BY <1>2, <1>8, Zenon
      <3> QED BY <3>2, <3>3, Zenon
    <2> QED BY <1>3, <2>1, Zenon
  <1>10. 1 \in 1..N
    BY <1>1
  <1>11. Resting \in PqLocals /\ Resting.pc = "idle"
    BY DEF Resting, PqLocals
  <1>12. PqTypeOK
    BY <1>2, <1>3, <1>9, <1>10, <1>11, Zenon DEF PqTypeOK
  <1>13. PqLocked
    BY <1>3, <1>11, PqAssumption, Zenon DEF PqLocked
  <1>14. Chained(order)
    <2>1. \A i \in 1..N : next[order[i]] = IF i + 1 \in 1..N THEN order[i + 1] ELSE PqNull
      BY <1>7, <1>8, Zenon
    <2>2. head = order[1]
      BY <1>3, Zenon
    <2> QED BY <1>4, <1>10, <2>1, <2>2 DEF Chained
  <1>15. PqFresh(order)
    BY <1>3, <1>11, Zenon DEF PqFresh
  <1>16. PqShared(order)
    <2>1. \A c \in PqCpus : owned[c] = {} /\ InHand(c) = {}
      BY <1>3, <1>11, Zenon DEF InHand
    <2>2. \A n : Holders(n) = {}
      BY <2>1, Zenon DEF Holders
    <2>3. \A n \in PqNodes : InRow(order, n)
      BY <1>4, <1>6, Zenon DEF InRow
    <2> QED BY <2>1, <2>2, <2>3, Zenon DEF PqShared
  <1> QED BY <1>3, <1>5, <1>12, <1>13, <1>14, <1>15, <1>16, Zenon DEF PqInv, PqRow

\* The inductive invariant of the lock-free queue of list.c as mem.c uses it.
THEOREM PageQueueInvariant == PageQueueSpec => []PqInv
  <1>1. PqInv /\ [PageQueueNext]_pqVars => PqInv'
    <2> SUFFICES ASSUME PqInv, [PageQueueNext]_pqVars PROVE PqInv'
      OBVIOUS
    <2>1. CASE UNCHANGED pqVars
      <3>1. ASSUME NEW s, PqRow(s) PROVE PqRow(s)'
        <4>1. UNCHANGED <<head, next, owned, pq, stale>>
          BY <2>1, Zenon DEF pqVars
        <4>2. \A d \in PqCpus : InHand(d)' = InHand(d)
          BY <4>1, Zenon DEF InHand
        <4>3. Chained(s)' /\ PqShared(s)'
          BY <3>1, <4>1, <4>2, PqQuiet, Zenon DEF PqRow
        <4>4. PqFresh(s)'
          BY <3>1, <4>1, Zenon DEF PqRow, PqFresh
        <4> QED BY <4>3, <4>4, Zenon DEF PqRow
      <3>2. PqTypeOK' /\ PqLocked'
        BY <2>1, Zenon DEF pqVars, PqInv, PqTypeOK, PqLocked
      <3> QED BY <2>1, <3>1, <3>2, Zenon DEF pqVars, PqInv
    <2>2. CASE PageQueueNext
      <3>1. ~recycled
        BY <2>2, Zenon DEF PageQueueNext
      <3>2. ASSUME NEW c \in PqCpus, PqFetch(c) PROVE PqInv'
        BY <3>1, <3>2, PqRetryInv, PqFetchInv, Zenon
      <3>3. ASSUME NEW c \in PqCpus, PqPush(c) PROVE PqInv'
        BY <3>1, <3>3, PqRepushInv, PqPushInv, Zenon
      <3>4. ASSUME NEW c \in PqCpus, PqAlloc(c) \/ PqReadHead(c) \/ PqReadNext(c) PROVE PqInv'
        BY <3>1, <3>4, PqAllocInv, PqReadHeadInv, PqReadNextInv, Zenon
      <3>5. ASSUME NEW c \in PqCpus, PqFree(c) \/ PqLink(c) PROVE PqInv'
        BY <3>1, <3>5, PqFreeInv, PqLinkInv, Zenon
      <3> QED BY <2>2, <3>2, <3>3, <3>4, <3>5, Zenon DEF PageQueueNext
    <2> QED BY <2>1, <2>2, Zenon
  <1> QED BY <1>1, PqInitInv, PTL DEF PageQueueSpec

\* The lock-free queue neither loses a page nor gives it to two CPUs, in every
\* interleaving of any number of CPUs, as long as no head is recycled; the blocks of
\* kalloc, fetched under mem_list_lock, are always safe.
THEOREM PageQueueIsSafe == PageQueueSpec => []PqSafe
  <1>1. PqInv => PqSafe
    <2> SUFFICES ASSUME PqInv PROVE PqSafe
      OBVIOUS
    <2>1. PqTypeOK /\ (pqUse = "free_mem" => ~recycled) /\ (~recycled => \E s \in Rows : PqRow(s))
      BY Zenon DEF PqInv
    <2>2. ASSUME NEW s \in Rows, PqRow(s), NEW n \in PqNodes
          PROVE  IF InRow(s, n) THEN Holders(n) = {} ELSE Cardinality(Holders(n)) = 1
      BY <2>2, FS_Singleton, Zenon DEF PqRow, PqShared
    <2>3. PqPartition
      BY <2>1, <2>2, Zenon DEF PqPartition, PqRow
    <2> QED BY <2>1, <2>3, Zenon DEF PqSafe, PqNoRecycling
  <1> QED BY <1>1, PageQueueInvariant, PTL


-----------------------------------------------------------------------------
(* Sizes of blocks, and the tiling of pages by pieces.                      *)

\* Multiplication by a positive number keeps the order.
LEMMA TimesOrder ==
    ASSUME NEW m \in Nat \ {0}, NEW i \in Int, NEW j \in Int
    PROVE  i < j <=> i * m < j * m
  <1>1. ASSUME NEW a \in Int, NEW b \in Int, a < b PROVE a * m < b * m
    <2> DEFINE d == b - a
    <2>1. d \in Nat \ {0} /\ b = a + d
      BY <1>1
    <2> HIDE DEF d
    <2>2. b * m = a * m + d * m
      BY <2>1
    <2>3. d * m > 0
      BY <2>1
    <2>4. a * m \in Int /\ b * m \in Int /\ d * m \in Int
      BY <2>1
    <2> QED BY <2>2, <2>3, <2>4
  <1>2. i * m \in Int /\ j * m \in Int
    OBVIOUS
  <1>3. CASE i < j
    BY <1>1, <1>3
  <1>4. CASE j < i
    <2>1. j * m < i * m
      BY <1>1, <1>4
    <2> QED BY <1>2, <1>4, <2>1
  <1>5. CASE i = j
    BY <1>2, <1>5
  <1> QED BY <1>3, <1>4, <1>5

\* Division undoes multiplication.
LEMMA DivExact ==
    ASSUME NEW m \in Nat \ {0}, NEW i \in Int
    PROVE  (i * m) \div m = i
  <1> DEFINE a == i * m
             q == a \div m
             r == a % m
  <1>1. a \in Int
    OBVIOUS
  <1>2. q \in Int /\ r \in 0..(m - 1) /\ a = m * q + r
    BY <1>1
  <1> HIDE DEF q, r
  <1>3. i * m = q * m + r
    BY <1>2
  <1>4. q * m \in Int /\ i * m \in Int /\ (q + 1) * m = q * m + m
    BY <1>2
  <1>5. ~(i * m < q * m) /\ i * m < (q + 1) * m
    BY <1>2, <1>3, <1>4
  <1>6. ~(i < q)
    BY <1>2, <1>5, TimesOrder
  <1>7. i < q + 1
    BY <1>2, <1>5, TimesOrder
  <1>8. q = i
    BY <1>2, <1>6, <1>7
  <1> QED BY <1>8 DEF q

\* What kalloc's arithmetic on sizes comes to.
LEMMA Sizes ==
    /\ MAX_ORDER \in Nat /\ PAGE_SIZE = MAX_ORDER * MIN_BLOCK_SIZE
    /\ SizeOf(MAX_ORDER - 1) = PAGE_SIZE
    /\ \A i \in Nat : SizeOf(i) \in Nat \ {0}
    /\ \A i \in Nat, j \in Nat : i < j <=> SizeOf(i) < SizeOf(j)
    /\ \A i \in Nat, j \in Nat : i < j =>
          /\ SizeOf(i) + SizeOf(j - i - 1) = SizeOf(j)
          /\ ((SizeOf(j) - SizeOf(i)) \div MIN_BLOCK_SIZE) - 1 = j - i - 1
  <1> DEFINE M == MIN_BLOCK_SIZE
  <1>1. M \in Nat \ {0} /\ PAGE_SIZE \in Nat /\ PAGE_SIZE % M = 0
    BY KaAssumption
  <1> HIDE DEF M
  <1>2. MAX_ORDER \in Int /\ PAGE_SIZE = M * MAX_ORDER
    <2>1. PAGE_SIZE \div M \in Int /\ PAGE_SIZE = M * (PAGE_SIZE \div M) + (PAGE_SIZE % M)
      BY <1>1
    <2>2. MAX_ORDER = PAGE_SIZE \div M
      BY DEF MAX_ORDER, M
    <2> QED BY <1>1, <2>1, <2>2
  <1>3. PAGE_SIZE = MAX_ORDER * M
    BY <1>1, <1>2
  <1>4. MAX_ORDER \in Nat
    <2>1. ~(MAX_ORDER * M < 0 * M)
      BY <1>1, <1>3
    <2>2. ~(MAX_ORDER < 0)
      BY <1>1, <1>2, <2>1, TimesOrder
    <2> QED BY <1>2, <2>2
  <1>5. \A i : SizeOf(i) = (i + 1) * M
    BY DEF SizeOf, M
  <1>6. SizeOf(MAX_ORDER - 1) = PAGE_SIZE
    <2>1. MAX_ORDER - 1 + 1 = MAX_ORDER
      BY <1>4
    <2> QED BY <1>3, <1>5, <2>1
  <1>7. \A i \in Nat : SizeOf(i) \in Nat \ {0}
    <2> SUFFICES ASSUME NEW i \in Nat PROVE (i + 1) * M \in Nat \ {0}
      BY <1>5
    <2>1. 0 * M < (i + 1) * M
      BY <1>1, TimesOrder
    <2>2. (i + 1) * M \in Int /\ 0 * M = 0
      BY <1>1
    <2> QED BY <2>1, <2>2
  <1>8. \A i \in Nat, j \in Nat : i < j <=> SizeOf(i) < SizeOf(j)
    <2> SUFFICES ASSUME NEW i \in Nat, NEW j \in Nat PROVE i < j <=> (i + 1) * M < (j + 1) * M
      BY <1>5
    <2>1. i + 1 < j + 1 <=> (i + 1) * M < (j + 1) * M
      BY <1>1, TimesOrder
    <2> QED BY <2>1
  <1>9. ASSUME NEW i \in Nat, NEW j \in Nat, i < j
        PROVE  /\ SizeOf(i) + SizeOf(j - i - 1) = SizeOf(j)
               /\ ((SizeOf(j) - SizeOf(i)) \div M) - 1 = j - i - 1
    <2>1. SizeOf(i) = (i + 1) * M /\ SizeOf(j) = (j + 1) * M /\ SizeOf(j - i - 1) = (j - i) * M
      <3>1. j - i - 1 + 1 = j - i
        OBVIOUS
      <3> QED BY <1>5, <3>1
    <2>2. (i + 1) * M + (j - i) * M = (j + 1) * M
      BY <1>1
    <2>3. (j + 1) * M - (i + 1) * M = (j - i) * M
      BY <1>1
    <2>4. ((j - i) * M) \div M = j - i
      BY <1>1, DivExact
    <2> QED BY <2>1, <2>2, <2>3, <2>4
  <1> QED BY <1>3, <1>4, <1>6, <1>7, <1>8, <1>9 DEF M

\* The list of a request has blocks that are large enough.
LEMMA IndexFits ==
    ASSUME NEW n \in 1..MaxAsk
    PROVE  /\ get_idx(n + MIN_BLOCK_SIZE) \in Lists
           /\ SizeOf(get_idx(n + MIN_BLOCK_SIZE)) >= n + MIN_BLOCK_SIZE
  <1> DEFINE M == MIN_BLOCK_SIZE
             s == n + M
             q == s \div M
  <1>1. M \in Nat \ {0} /\ PAGE_SIZE \in Nat
    BY KaAssumption
  <1> HIDE DEF M
  <1>2. s \in Nat /\ s > M /\ s <= PAGE_SIZE
    BY <1>1 DEF MaxAsk, M
  <1> HIDE DEF s
  <1>3. q \in Int /\ M * q <= s /\ s < M * q + M
    <2>1. s \div M \in Int /\ s % M \in 0..(M - 1) /\ s = M * (s \div M) + (s % M)
      BY <1>1, <1>2
    <2> QED BY <1>1, <1>2, <2>1
  <1>4. get_idx(s) = IF s = q * M THEN q - 1 ELSE q
    BY DEF get_idx, M
  <1> HIDE DEF q
  <1>5. q * M \in Int /\ q * M = M * q /\ (q + 1) * M = q * M + M /\ 1 * M = M
    BY <1>1, <1>3
  <1>6. PAGE_SIZE = MAX_ORDER * M /\ MAX_ORDER \in Nat
    BY Sizes DEF M
  <1>7. \A i : SizeOf(i) = (i + 1) * M
    BY DEF SizeOf, M
  <1>8. 1 * M < (q + 1) * M /\ MAX_ORDER * M \in Int
    BY <1>1, <1>2, <1>3, <1>5, <1>6
  <1>9. q > 0
    <2>1. 1 < q + 1
      BY <1>1, <1>3, <1>8, TimesOrder
    <2> QED BY <1>3, <2>1
  <1>10. CASE s = q * M
    <2>1. ~(MAX_ORDER * M < q * M)
      BY <1>2, <1>5, <1>6, <1>8, <1>10
    <2>2. ~(MAX_ORDER < q)
      BY <1>1, <1>3, <1>6, <2>1, TimesOrder
    <2>3. get_idx(s) = q - 1 /\ SizeOf(q - 1) = q * M
      <3>1. q - 1 + 1 = q
        BY <1>3
      <3> QED BY <1>4, <1>7, <1>10, <3>1
    <2>4. get_idx(s) \in Lists
      BY <1>3, <1>6, <1>9, <2>2, <2>3 DEF Lists
    <2> QED BY <1>2, <1>10, <2>3, <2>4 DEF s, M
  <1>11. CASE s # q * M
    <2> DEFINE t == q * M
               z == MAX_ORDER * M
    <2>a. t \in Int /\ t <= s /\ t # s /\ s \in Nat /\ s <= z /\ z \in Int
      <3>1. t \in Int /\ t <= s
        BY <1>3, <1>5
      <3>2. s <= z
        BY <1>2, <1>6
      <3> QED BY <1>2, <1>8, <1>11, <3>1, <3>2
    <2> HIDE DEF t, z
    <2>b. t < z
      BY <2>a
    <2>1. q * M < MAX_ORDER * M
      BY <2>b DEF t, z
    <2>2. q < MAX_ORDER
      BY <1>1, <1>3, <1>6, <2>1, TimesOrder
    <2>3. get_idx(s) = q /\ SizeOf(q) = (q + 1) * M
      BY <1>4, <1>7, <1>11
    <2>4. SizeOf(get_idx(s)) >= s
      <3>1. (q + 1) * M \in Int /\ (q + 1) * M >= s
        BY <1>1, <1>2, <1>3, <1>5
      <3> QED BY <2>3, <3>1
    <2>5. get_idx(s) \in Lists
      BY <1>3, <1>6, <1>9, <2>2, <2>3 DEF Lists
    <2> QED BY <2>4, <2>5 DEF s, M
  <1> QED BY <1>10, <1>11

\* A piece cut in two: the two parts take its place.
LEMMA TiledSplit ==
    ASSUME NEW P \in SUBSET PieceSet, NEW left \in SUBSET KaPages, Tiled(P, left), NEW e \in P,
           NEW f \in PieceSet, NEW g \in PieceSet, f.page = e.page, f.off = e.off,
           g.page = e.page, g.off = e.off + SizeOf(f.idx),
           SizeOf(f.idx) + SizeOf(g.idx) = SizeOf(e.idx)
    PROVE  Tiled((P \ {e}) \cup {f, g}, left)
  <1> DEFINE Q == (P \ {e}) \cup {f, g}
  <1>1. \A d \in PieceSet : /\ d.page \in KaPages /\ d.off \in Nat /\ d.off \in Bytes
                            /\ d.idx \in Nat /\ SizeOf(d.idx) \in Nat \ {0}
    BY Sizes DEF PieceSet, Bytes, Lists
  <1>2. e \in PieceSet /\ PAGE_SIZE \in Nat /\ Bytes \subseteq Nat
    BY KaAssumption DEF Bytes
  <1>3. e.page \notin left /\ e.off + SizeOf(e.idx) <= PAGE_SIZE
    BY Zenon DEF Tiled
  <1>4. \A p, x : x \in Nat /\ (Spans(f, p, x) \/ Spans(g, p, x)) => Spans(e, p, x)
    BY <1>1, <1>2 DEF Spans
  <1>5. \A p, x : Spans(e, p, x) /\ x \in Nat => Spans(f, p, x) \/ Spans(g, p, x)
    BY <1>1, <1>2 DEF Spans
  <1>6. \A p, x : ~(x \in Nat /\ Spans(f, p, x) /\ Spans(g, p, x))
    BY <1>1, <1>2 DEF Spans
  <1>7. \A d \in Q : d.page \notin left /\ d.off + SizeOf(d.idx) <= PAGE_SIZE
    <2>1. f.off + SizeOf(f.idx) <= PAGE_SIZE /\ g.off + SizeOf(g.idx) <= PAGE_SIZE
      BY <1>1, <1>2, <1>3
    <2>2. \A d \in P : d.page \notin left /\ d.off + SizeOf(d.idx) <= PAGE_SIZE
      BY Zenon DEF Tiled
    <2> QED BY <1>3, <2>1, <2>2
  <1>8. \A p \in KaPages \ left, x \in Bytes : \E d \in Q : Spans(d, p, x)
    <2> SUFFICES ASSUME NEW p \in KaPages \ left, NEW x \in Bytes PROVE \E d \in Q : Spans(d, p, x)
      BY Zenon
    <2>1. PICK d \in P : Spans(d, p, x)
      BY Zenon DEF Tiled
    <2>2. CASE d = e
      <3>1. Spans(f, p, x) \/ Spans(g, p, x)
        BY <1>2, <1>5, <2>1, <2>2, Zenon
      <3> QED BY <3>1, Zenon
    <2>3. CASE d # e
      BY <2>1, <2>3, Zenon
    <2> QED BY <2>2, <2>3
  <1>9. ASSUME NEW d \in Q, NEW c \in Q, NEW p \in KaPages, NEW x \in Bytes,
               Spans(d, p, x), Spans(c, p, x)
        PROVE  d = c
    <2>1. \A a \in P, b \in P : Spans(a, p, x) /\ Spans(b, p, x) => a = b
      BY Zenon DEF Tiled
    <2>2. x \in Nat
      BY <1>2
    <2>3. CASE d \in P \ {e} /\ c \in P \ {e}
      BY <1>9, <2>1, <2>3, Zenon
    <2>4. CASE d \in {f, g} /\ c \in {f, g}
      <3>1. ~(Spans(f, p, x) /\ Spans(g, p, x))
        BY <1>6, <2>2, Zenon
      <3>2. (d = f \/ d = g) /\ (c = f \/ c = g)
        BY <2>4
      <3> QED BY <1>9, <3>1, <3>2
    <2>5. \A a \in P \ {e}, b \in {f, g} : ~(Spans(a, p, x) /\ Spans(b, p, x))
      BY <1>4, <2>1, <2>2, Zenon
    <2> QED BY <1>9, <2>3, <2>4, <2>5, Zenon
  <1> QED BY <1>7, <1>8, <1>9, Zenon DEF Tiled

\* A page taken whole: one more piece.
LEMMA TiledTake ==
    ASSUME NEW P \in SUBSET PieceSet, NEW left \in SUBSET KaPages, Tiled(P, left),
           NEW e \in PieceSet, e.page \in left, e.off = 0, SizeOf(e.idx) = PAGE_SIZE
    PROVE  Tiled(P \cup {e}, left \ {e.page})
  <1> DEFINE Q == P \cup {e}
             l == left \ {e.page}
  <1>1. PAGE_SIZE \in Nat
    BY KaAssumption
  <1>2. \A p, x : x \in Bytes => (Spans(e, p, x) <=> p = e.page)
    BY <1>1 DEF Spans, Bytes
  <1>3. \A d \in P : d.page \notin left /\ d.off + SizeOf(d.idx) <= PAGE_SIZE
    BY Zenon DEF Tiled
  <1>4. \A d \in Q : d.page \notin l /\ d.off + SizeOf(d.idx) <= PAGE_SIZE
    BY <1>1, <1>3
  <1>5. \A p \in KaPages \ l, x \in Bytes : \E d \in Q : Spans(d, p, x)
    <2> SUFFICES ASSUME NEW p \in KaPages \ l, NEW x \in Bytes PROVE \E d \in Q : Spans(d, p, x)
      BY Zenon
    <2>1. CASE p = e.page
      BY <1>2, <2>1, Zenon
    <2>2. CASE p # e.page
      <3>1. p \in KaPages \ left
        BY <2>2, Zenon
      <3>2. \E d \in P : Spans(d, p, x)
        BY <3>1, Zenon DEF Tiled
      <3> QED BY <3>2, Zenon
    <2> QED BY <2>1, <2>2
  <1>6. \A d \in Q, c \in Q, p \in KaPages, x \in Bytes : Spans(d, p, x) /\ Spans(c, p, x) => d = c
    <2> SUFFICES ASSUME NEW d \in Q, NEW c \in Q, NEW p \in KaPages, NEW x \in Bytes,
                        Spans(d, p, x), Spans(c, p, x)
                 PROVE  d = c
      BY Zenon
    <2>1. \A a \in P, b \in P : Spans(a, p, x) /\ Spans(b, p, x) => a = b
      BY Zenon DEF Tiled
    <2>2. \A a \in P : ~(Spans(a, p, x) /\ Spans(e, p, x))
      BY <1>2, <1>3, Zenon DEF Spans
    <2> QED BY <2>1, <2>2, Zenon
  <1> QED BY <1>4, <1>5, <1>6, Zenon DEF Tiled

\* A page given back whole: its piece is gone, and it was the only one there.
LEMMA TiledGive ==
    ASSUME NEW P \in SUBSET PieceSet, NEW left \in SUBSET KaPages, Tiled(P, left),
           NEW e \in P, SizeOf(e.idx) = PAGE_SIZE
    PROVE  Tiled(P \ {e}, left \cup {e.page})
  <1> DEFINE Q == P \ {e}
             l == left \cup {e.page}
  <1>1. PAGE_SIZE \in Nat /\ e \in PieceSet
    BY KaAssumption
  <1>2. \A d \in PieceSet : /\ d.page \in KaPages /\ d.off \in Nat /\ d.off \in Bytes
                            /\ d.idx \in Nat /\ SizeOf(d.idx) \in Nat \ {0}
    BY Sizes DEF PieceSet, Bytes, Lists
  <1>3. \A d \in P : d.page \notin left /\ d.off + SizeOf(d.idx) <= PAGE_SIZE
    BY Zenon DEF Tiled
  <1>4. e.off = 0
    BY <1>1, <1>2, <1>3
  <1>5. \A p, x : x \in Bytes => (Spans(e, p, x) <=> p = e.page)
    BY <1>1, <1>4 DEF Spans, Bytes
  <1>6. \A d \in Q : d.page # e.page
    <2> SUFFICES ASSUME NEW d \in Q, d.page = e.page PROVE FALSE
      BY Zenon
    <2>1. d \in PieceSet /\ d \in P /\ d # e
      BY Zenon
    <2>2. Spans(d, e.page, d.off)
      BY <1>2, <2>1 DEF Spans
    <2>3. Spans(e, e.page, d.off) /\ d.off \in Bytes /\ e.page \in KaPages
      BY <1>1, <1>2, <1>5, <2>1
    <2> QED BY <2>1, <2>2, <2>3, Zenon DEF Tiled
  <1>7. \A d \in Q : d.page \notin l /\ d.off + SizeOf(d.idx) <= PAGE_SIZE
    BY <1>3, <1>6, Zenon
  <1>8. \A p \in KaPages \ l, x \in Bytes : \E d \in Q : Spans(d, p, x)
    <2> SUFFICES ASSUME NEW p \in KaPages \ l, NEW x \in Bytes PROVE \E d \in Q : Spans(d, p, x)
      BY Zenon
    <2>1. PICK d \in P : Spans(d, p, x)
      BY Zenon DEF Tiled
    <2>2. d # e
      BY <1>5, <2>1, Zenon
    <2> QED BY <2>1, <2>2, Zenon
  <1>9. \A d \in Q, c \in Q, p \in KaPages, x \in Bytes : Spans(d, p, x) /\ Spans(c, p, x) => d = c
    BY Zenon DEF Tiled
  <1> QED BY <1>7, <1>8, <1>9, Zenon DEF Tiled

-----------------------------------------------------------------------------
(* kalloc and kfree keep the tiling.                                        *)

\* The piece of list i at an address.
LEMMA PieceAt ==
    ASSUME NEW a \in Addresses, NEW i \in Lists
    PROVE  /\ [page |-> a.page, off |-> a.off, idx |-> i] \in PieceSet
           /\ AddrOf([page |-> a.page, off |-> a.off, idx |-> i]) = a
           /\ \A e \in PieceSet : AddrOf(e) = a /\ e.idx = i =>
                 e = [page |-> a.page, off |-> a.off, idx |-> i]
           /\ a.page \in KaPages /\ a.off \in Bytes
  BY DEF PieceSet, AddrOf, Addresses

\* The block at a, which is one piece of list j that is on no list and has no
\* header, is cut for a request of n bytes.
LEMMA CutInv ==
    ASSUME KaInv, NEW fm \in [Lists -> SUBSET Addresses], NEW a \in Addresses, NEW j \in Lists,
           NEW n \in 1..MaxAsk, get_idx(n + MIN_BLOCK_SIZE) <= j, freePages' \subseteq KaPages,
           Cut(n, SizeOf(get_idx(n + MIN_BLOCK_SIZE)), a, SizeOf(j), fm),
           a \notin DOMAIN kaHeader,
           \A i \in Lists : a \notin fm[i] /\ fm[i] \cap DOMAIN kaHeader = {},
           Tiled(Pieces(fm, kaHeader) \cup {[page |-> a.page, off |-> a.off, idx |-> j]}, freePages')
    PROVE  KaInv'
  <1> DEFINE pos == get_idx(n + MIN_BLOCK_SIZE)
             rest == [page |-> a.page, off |-> a.off + SizeOf(pos)]
             r == j - pos - 1
             P == Pieces(fm, kaHeader)
             e == [page |-> a.page, off |-> a.off, idx |-> j]
             f == [page |-> a.page, off |-> a.off, idx |-> pos]
             new == [page |-> a.page, off |-> a.off, asked |-> n]
  <1>1. pos \in Lists /\ SizeOf(pos) >= n + MIN_BLOCK_SIZE
    BY IndexFits, Zenon
  <1> HIDE DEF pos
  <1>2. /\ pos \in Nat /\ j \in Nat /\ pos <= j /\ MIN_BLOCK_SIZE \in Nat \ {0} /\ PAGE_SIZE \in Nat
        /\ SizeOf(pos) \in Nat \ {0} /\ SizeOf(j) \in Nat \ {0}
        /\ (pos < j <=> SizeOf(j) > SizeOf(pos))
    <2>1. pos \in Nat /\ j \in Nat /\ pos <= j
      BY <1>1 DEF Lists, pos
    <2> QED BY Zenon, <2>1, Sizes, KaAssumption
  <1>3. pos < j => /\ r \in Lists /\ SizeOf(pos) + SizeOf(r) = SizeOf(j)
                   /\ ((SizeOf(j) - SizeOf(pos)) \div MIN_BLOCK_SIZE) - 1 = r
    <2>1. pos < j => r \in Lists
      BY <1>2, Sizes DEF Lists
    <2> QED BY <1>2, <2>1, Sizes
  <1>4. /\ free_mem' = IF pos < j THEN [fm EXCEPT ![r] = @ \cup {rest}] ELSE fm
        /\ kaHeader' = [x \in DOMAIN kaHeader \cup {a} |-> IF x = a THEN pos ELSE kaHeader[x]]
        /\ blocks' = blocks \cup {new}
    <2>1. /\ free_mem' = IF SizeOf(j) > SizeOf(pos)
                         THEN [fm EXCEPT ![((SizeOf(j) - SizeOf(pos)) \div MIN_BLOCK_SIZE) - 1] = @ \cup {rest}]
                         ELSE fm
          /\ kaHeader' = [x \in DOMAIN kaHeader \cup {a} |-> IF x = a THEN pos ELSE kaHeader[x]]
          /\ blocks' = blocks \cup {new}
      BY Zenon DEF Cut, pos
    <2> QED BY <1>2, <1>3, <2>1, Zenon
  <1>5. KaHeaders /\ KaFits
    BY Zenon DEF KaInv
  <1>6. /\ blocks \subseteq [page : KaPages, off : Bytes, asked : 1..MaxAsk]
        /\ DOMAIN kaHeader = {AddrOf(b) : b \in blocks} /\ \A x \in DOMAIN kaHeader : kaHeader[x] \in Lists
        /\ \A b \in blocks, c \in blocks : AddrOf(b) = AddrOf(c) => b = c
    BY <1>5, Zenon DEF KaHeaders
  <1>7. /\ e \in PieceSet /\ AddrOf(e) = a /\ f \in PieceSet /\ AddrOf(f) = a
        /\ a.page \in KaPages /\ a.off \in Bytes /\ a.off \in Nat
        /\ \A d \in PieceSet : AddrOf(d) = a /\ d.idx = pos => d = f
    BY <1>1, PieceAt DEF Bytes
  <1>8. P \subseteq PieceSet /\ e \notin P
    <2>1. AddrOf(e) \notin fm[e.idx]
      BY <1>7
    <2> QED BY <1>7, <2>1, Zenon DEF Pieces
  <1>9. a.off + SizeOf(j) <= PAGE_SIZE /\ \A d \in P, x \in Bytes :
           d # e => ~(Spans(d, a.page, x) /\ Spans(e, a.page, x))
    <2>1. /\ \A d \in P \cup {e} : d.off + SizeOf(d.idx) <= PAGE_SIZE
          /\ \A d \in P \cup {e}, c \in P \cup {e}, p \in KaPages, x \in Bytes :
                Spans(d, p, x) /\ Spans(c, p, x) => d = c
      BY Zenon DEF Tiled
    <2>2. e.off = a.off /\ e.idx = j
      OBVIOUS
    <2> HIDE DEF e, P
    <2> QED BY <1>7, <2>1, <2>2, Zenon
  <1>10. /\ DOMAIN kaHeader' = DOMAIN kaHeader \cup {a} /\ kaHeader'[a] = pos
         /\ \A x \in DOMAIN kaHeader : x # a /\ kaHeader'[x] = kaHeader[x]
    BY <1>4, Zenon
  <1>11. AddrOf(new) = a /\ new \in [page : KaPages, off : Bytes, asked : 1..MaxAsk]
    BY <1>7, PieceAt DEF AddrOf, Addresses
  <1>12. \A b \in blocks : AddrOf(b) \in DOMAIN kaHeader /\ AddrOf(b) # a
    BY <1>6, Zenon
  <1>13. /\ blocks' \subseteq [page : KaPages, off : Bytes, asked : 1..MaxAsk]
         /\ kaHeader' \in [{AddrOf(b) : b \in blocks'} -> Lists]
         /\ \A b \in blocks', c \in blocks' : AddrOf(b) = AddrOf(c) => b = c
    <2>1. blocks' \subseteq [page : KaPages, off : Bytes, asked : 1..MaxAsk]
      BY <1>4, <1>6, <1>11, Zenon
    <2>2. {AddrOf(b) : b \in blocks'} = DOMAIN kaHeader \cup {a}
      <3>1. blocks' = blocks \cup {new} /\ DOMAIN kaHeader = {AddrOf(b) : b \in blocks}
        BY <1>4, <1>6, Zenon
      <3> HIDE DEF new
      <3>2. \A x : x \in {AddrOf(b) : b \in blocks'} <=> (x \in {AddrOf(b) : b \in blocks} \/ x = AddrOf(new))
        BY <3>1, Zenon
      <3> QED BY <1>11, <3>1, <3>2, Zenon
    <2>3. kaHeader' = [x \in DOMAIN kaHeader' |-> kaHeader'[x]]
      BY <1>4, Zenon
    <2>4. \A x \in DOMAIN kaHeader' : kaHeader'[x] \in Lists
      BY <1>1, <1>6, <1>10, Zenon
    <2>5. kaHeader' \in [{AddrOf(b) : b \in blocks'} -> Lists]
      BY <1>10, <2>2, <2>3, <2>4, Zenon
    <2>6. \A b \in blocks', c \in blocks' : AddrOf(b) = AddrOf(c) => b = c
      BY <1>4, <1>6, <1>11, <1>12, Zenon
    <2> QED BY <2>1, <2>5, <2>6
  <1>14. KaFits'
    <2> SUFFICES ASSUME NEW b \in blocks'
                 PROVE  SizeOf(kaHeader'[AddrOf(b)]) >= b.asked + MIN_BLOCK_SIZE
      BY Zenon DEF KaFits
    <2>1. CASE b = new
      <3>1. kaHeader'[AddrOf(b)] = pos /\ b.asked = n
        BY <1>10, <1>11, <2>1, Zenon
      <3> QED BY <1>1, <3>1
    <2>2. CASE b \in blocks
      <3>1. kaHeader'[AddrOf(b)] = kaHeader[AddrOf(b)]
        BY <1>10, <1>12, <2>2, Zenon
      <3> QED BY <1>5, <2>2, <3>1, Zenon DEF KaFits
    <2> QED BY <1>4, <2>1, <2>2
  <1>15. CASE pos = j
    <2>1. free_mem' = fm
      BY <1>2, <1>4, <1>15
    <2>2. Pieces(free_mem', kaHeader') = P \cup {e}
      <3>1. f = e
        BY <1>15, Zenon
      <3>2. ASSUME NEW d \in PieceSet PROVE d \in Pieces(free_mem', kaHeader') <=> d \in P \cup {e}
        <4>1. CASE AddrOf(d) = a
          <5>1. d \notin P /\ AddrOf(d) \notin free_mem'[d.idx]
            <6>1. d.idx \in Lists
              BY DEF PieceSet
            <6> QED BY <2>1, <4>1, <6>1, Zenon DEF Pieces
          <5>2. d \in Pieces(free_mem', kaHeader') <=> d.idx = pos
            BY <1>10, <4>1, <5>1, Zenon DEF Pieces
          <5> QED BY <1>7, <3>1, <4>1, <5>1, <5>2
        <4>2. CASE AddrOf(d) # a
          BY <1>7, <1>10, <2>1, <4>2, Zenon DEF Pieces
        <4> QED BY SMTT(30), <4>1, <4>2
      <3> QED BY <1>7, <1>8, <3>2, Zenon DEF Pieces
    <2>3. Tiled(Pieces(free_mem', kaHeader'), freePages')
      BY <2>2
    <2>4. free_mem' \in [Lists -> SUBSET Addresses] /\ \A i \in Lists : free_mem'[i] \cap DOMAIN kaHeader' = {}
      BY <1>10, <2>1, Zenon
    <2>5. KaHeaders'
      BY <1>13, <2>4, Zenon DEF KaHeaders
    <2>6. Tiled(Pieces(free_mem, kaHeader), freePages)'
      BY <2>3, Zenon DEF Tiled, Pieces, PieceSet, AddrOf, Spans
    <2> QED BY <1>14, <2>5, <2>6, Zenon DEF KaInv
  <1>16. CASE pos < j
    <2> DEFINE g == [page |-> a.page, off |-> a.off + SizeOf(pos), idx |-> r]
    <2>1. r \in Lists /\ SizeOf(pos) + SizeOf(r) = SizeOf(j) /\ SizeOf(r) \in Nat \ {0}
      <3>1. r \in Lists /\ SizeOf(pos) + SizeOf(r) = SizeOf(j)
        BY <1>3, <1>16, Zenon
      <3>2. r \in Nat
        BY SMTT(30), <3>1 DEF Lists
      <3> QED BY <3>1, <3>2, Sizes
    <2>2. rest \in Addresses /\ rest.page = a.page /\ rest.off = a.off + SizeOf(pos) /\ rest # a
      <3>1. a.off + SizeOf(pos) \in Bytes /\ a.off + SizeOf(pos) # a.off
        BY SMTT(30), <1>2, <1>7, <1>9, <2>1 DEF Bytes
      <3>2. rest.page = a.page /\ rest.off = a.off + SizeOf(pos)
        OBVIOUS
      <3>3. rest # a
        BY <3>1, <3>2, Zenon
      <3> QED BY SMTT(30), <1>7, <3>1, <3>2, <3>3 DEF Addresses
    <2> HIDE DEF r
    <2>3. /\ g \in PieceSet /\ AddrOf(g) = rest
          /\ \A d \in PieceSet : AddrOf(d) = rest /\ d.idx = r => d = g
      BY SMTT(30), <2>1, <2>2, PieceAt
    <2>4. Tiled(P \cup {f, g}, freePages')
      <3>1. P \cup {e} \subseteq PieceSet
        BY <1>7, <1>8, Zenon
      <3>2. ((P \cup {e}) \ {e}) \cup {f, g} = P \cup {f, g}
        BY <1>8
      <3>3. f.page = e.page /\ f.off = e.off /\ g.page = e.page /\ f.idx = pos /\ g.idx = r /\ e.idx = j
            /\ g.off = e.off + SizeOf(f.idx)
        OBVIOUS
      <3>4. Tiled(P \cup {e}, freePages') /\ e \in P \cup {e}
        BY Zenon
      <3> HIDE DEF e, f, g, P
      <3>5. Tiled(((P \cup {e}) \ {e}) \cup {f, g}, freePages')
        BY SMTT(30), <1>7, <2>1, <2>3, <3>1, <3>3, <3>4, TiledSplit
      <3> QED BY Zenon, <3>2, <3>5
    <2>5. rest \notin DOMAIN kaHeader
      <3> SUFFICES ASSUME rest \in DOMAIN kaHeader PROVE FALSE
        BY SMTT(30)
      <3> DEFINE d == [page |-> rest.page, off |-> rest.off, idx |-> kaHeader[rest]]
      <3>1. d \in PieceSet /\ AddrOf(d) = rest /\ d.idx = kaHeader[rest] /\ d.page = rest.page
            /\ d.off = rest.off
        BY <1>6, <2>2, PieceAt
      <3>2. d \in P
        BY <3>1, Zenon DEF Pieces
      <3>3. SizeOf(d.idx) \in Nat \ {0}
        <4>1. d.idx \in Nat
          BY SMTT(30), <3>1 DEF PieceSet, Lists
        <4> QED BY SMTT(30), <4>1, Sizes
      <3>4. Spans(d, a.page, rest.off)
        BY SMTT(30), <1>2, <1>7, <2>2, <3>1, <3>3 DEF Spans
      <3>5. Spans(e, a.page, rest.off)
        BY SMTT(30), <1>2, <1>7, <2>1, <2>2 DEF Spans
      <3>6. rest.off \in Bytes
        BY <2>2 DEF Addresses
      <3> HIDE DEF d, e, P
      <3>7. d = e
        BY <1>9, <3>2, <3>4, <3>5, <3>6, Zenon
      <3> QED BY Zenon, <1>7, <2>2, <3>1, <3>7
    <2>6. /\ free_mem' = [fm EXCEPT ![r] = @ \cup {rest}]
          /\ free_mem' \in [Lists -> SUBSET Addresses]
          /\ free_mem'[r] = fm[r] \cup {rest} /\ \A i \in Lists : i # r => free_mem'[i] = fm[i]
      <3>1. free_mem' = [fm EXCEPT ![r] = @ \cup {rest}]
        BY <1>4, <1>16, Zenon DEF r
      <3> QED BY <2>1, <2>2, <3>1, Zenon
    <2>7. \A i \in Lists : free_mem'[i] \cap DOMAIN kaHeader' = {}
      <3> SUFFICES ASSUME NEW i \in Lists, NEW x \in free_mem'[i], x \in DOMAIN kaHeader' PROVE FALSE
        BY Zenon
      <3>1. x \in fm[i] \/ x = rest
        BY <2>6, Zenon
      <3>2. x \in DOMAIN kaHeader \/ x = a
        BY <1>10, Zenon
      <3> QED BY <2>2, <2>5, <3>1, <3>2, Zenon
    <2>8. Pieces(free_mem', kaHeader') = P \cup {f, g}
      <3>2. ASSUME NEW d \in PieceSet PROVE d \in Pieces(free_mem', kaHeader') <=> d \in P \cup {f, g}
        <4>0. d.idx \in Lists
          BY DEF PieceSet
        <4>1. CASE AddrOf(d) = a
          <5>1. d \notin P /\ AddrOf(d) \notin free_mem'[d.idx] /\ d # g
            BY <2>2, <2>3, <2>6, <4>0, <4>1, Zenon DEF Pieces
          <5>2. d \in Pieces(free_mem', kaHeader') <=> d.idx = pos
            BY Zenon, <1>10, <4>1, <5>1 DEF Pieces
          <5>3. d = f <=> d.idx = pos
            BY <1>7, <4>1
          <5> QED BY <5>1, <5>2, <5>3, Zenon
        <4>2. CASE AddrOf(d) = rest
          <5>1. d \notin Pieces(free_mem', kaHeader') \/ AddrOf(d) \in free_mem'[d.idx]
            BY <1>10, <2>2, <2>5, <4>2, Zenon DEF Pieces
          <5>2. d \in P <=> rest \in fm[d.idx]
            BY ZenonT(60), <2>5, <4>2 DEF Pieces
          <5>3. d = g <=> d.idx = r
            BY <2>3, <4>2
          <5>4. d # f
            BY <1>7, <2>2, <4>2, Zenon
          <5>5. rest \in free_mem'[d.idx] <=> (rest \in fm[d.idx] \/ d.idx = r)
            BY <2>6, <4>0, Zenon
          <5>6. d \in Pieces(free_mem', kaHeader') <=> rest \in free_mem'[d.idx]
            BY <4>2, <5>1, Zenon DEF Pieces
          <5> QED BY <5>2, <5>3, <5>4, <5>5, <5>6, Zenon
        <4>3. CASE AddrOf(d) # a /\ AddrOf(d) # rest
          <5>1. AddrOf(d) \in free_mem'[d.idx] <=> AddrOf(d) \in fm[d.idx]
            BY <2>6, <4>0, <4>3, Zenon
          <5>2. d # f /\ d # g
            BY <1>7, <2>3, <4>3, Zenon
          <5> QED BY <1>10, <4>3, <5>1, <5>2, Zenon DEF Pieces
        <4> QED BY <4>1, <4>2, <4>3
      <3> HIDE DEF f, g
      <3>3. P \cup {f, g} \subseteq PieceSet /\ Pieces(free_mem', kaHeader') \subseteq PieceSet
        BY ZenonT(60), <1>7, <1>8, <2>3 DEF Pieces
      <3> QED BY <3>2, <3>3, Zenon
    <2>9. Tiled(Pieces(free_mem', kaHeader'), freePages')
      BY <2>4, <2>8
    <2>10. KaHeaders'
      BY <1>13, <2>6, <2>7, Zenon DEF KaHeaders
    <2>11. Tiled(Pieces(free_mem, kaHeader), freePages)'
      BY <2>9, Zenon DEF Tiled, Pieces, PieceSet, AddrOf, Spans
    <2> QED BY <1>14, <2>10, <2>11, Zenon DEF KaInv
  <1> QED BY <1>2, <1>15, <1>16

\* kalloc, from a free list or from a fresh page.
LEMMA KallocInv ==
    ASSUME KaInv, NEW n \in 1..MaxAsk, kalloc(n)
    PROVE  KaInv'
  <1> DEFINE pos == get_idx(n + MIN_BLOCK_SIZE)
             P == Pieces(free_mem, kaHeader)
  <1>1. KaHeaders /\ Tiled(P, freePages)
    BY Zenon DEF KaInv
  <1>2. /\ free_mem \in [Lists -> SUBSET Addresses] /\ freePages \subseteq KaPages
        /\ \A i \in Lists : free_mem[i] \cap DOMAIN kaHeader = {}
        /\ kaHeader \in [{AddrOf(b) : b \in blocks} -> Lists]
        /\ blocks \subseteq [page : KaPages, off : Bytes, asked : 1..MaxAsk]
    BY <1>1, Zenon DEF KaHeaders
  <1>3. pos \in Lists
    BY IndexFits
  <1>4. P \subseteq PieceSet
    BY SMTT(30) DEF Pieces
  <1>5. CASE \E p \in freePages :
                /\ freePages' = freePages \ {p}
                /\ Cut(n, SizeOf(pos), [page |-> p, off |-> 0], PAGE_SIZE, free_mem)
    <2>1. PICK p \in freePages :
             /\ freePages' = freePages \ {p}
             /\ Cut(n, SizeOf(pos), [page |-> p, off |-> 0], PAGE_SIZE, free_mem)
      BY <1>5, Zenon
    <2> DEFINE a == [page |-> p, off |-> 0]
               j == MAX_ORDER - 1
               e == [page |-> a.page, off |-> a.off, idx |-> j]
    <2>2. j \in Lists /\ pos <= j /\ SizeOf(j) = PAGE_SIZE /\ PAGE_SIZE > 0
      <3>1. j \in Lists /\ pos <= j /\ j \in Nat
        BY <1>3, Sizes DEF Lists
      <3>2. SizeOf(j) = PAGE_SIZE /\ SizeOf(j) \in Nat \ {0}
        BY <3>1, Sizes
      <3> QED BY <3>1, <3>2
    <2> HIDE DEF j
    <2>3. a \in Addresses /\ a.page = p /\ a.off = 0
      BY SMTT(30), <1>2, <2>2, KaAssumption DEF Addresses, Bytes
    <2>4. e \in PieceSet /\ e.page = p /\ e.off = 0 /\ e.idx = j
      BY <2>2, <2>3, PieceAt
    <2>5. Tiled(P \cup {e}, freePages \ {p})
      <3> HIDE DEF e, P
      <3>1. SizeOf(e.idx) = PAGE_SIZE /\ e.page \in freePages
        BY <2>2, <2>4, Zenon
      <3>2. Tiled(P \cup {e}, freePages \ {e.page})
        BY Zenon, <1>1, <1>2, <1>4, <2>4, <3>1, TiledTake
      <3> QED BY <2>4, <3>2
    <2>6. \A d \in P : AddrOf(d) # a
      <3>1. \A d \in P : d.page \notin freePages
        BY <1>1, Zenon DEF Tiled
      <3>2. \A d : AddrOf(d).page = d.page
        BY DEF AddrOf
      <3> QED BY <2>3, <3>1, <3>2, Zenon
    <2>7. \A i \in Lists : a \notin free_mem[i]
      <3> SUFFICES ASSUME NEW i \in Lists, a \in free_mem[i] PROVE FALSE
        BY Zenon
      <3> DEFINE d == [page |-> a.page, off |-> a.off, idx |-> i]
      <3>1. d \in PieceSet /\ AddrOf(d) = a /\ d.idx = i
        BY <2>3, PieceAt
      <3> HIDE DEF d, a
      <3>2. d \in P
        BY <3>1, Zenon DEF Pieces
      <3> QED BY <2>6, <3>1, <3>2, Zenon
    <2>8. a \notin DOMAIN kaHeader
      <3> SUFFICES ASSUME a \in DOMAIN kaHeader PROVE FALSE
        BY Zenon
      <3> DEFINE d == [page |-> a.page, off |-> a.off, idx |-> kaHeader[a]]
      <3>0. kaHeader[a] \in Lists
        BY <1>2, Zenon
      <3>1. d \in PieceSet /\ AddrOf(d) = a /\ d.idx = kaHeader[a]
        BY <2>3, <3>0, PieceAt
      <3> HIDE DEF d, a
      <3>2. d \in P
        BY <3>1, Zenon DEF Pieces
      <3> QED BY <2>6, <3>1, <3>2, Zenon
    <2>9. Tiled(P \cup {e}, freePages') /\ freePages' \subseteq KaPages
      BY <1>2, <2>1, <2>5
    <2>10. Cut(n, SizeOf(pos), a, SizeOf(j), free_mem)
      BY SMTT(30), <2>1, <2>2
    <2> HIDE DEF a
    <2> QED BY SMTT(30), <1>2, <2>2, <2>3, <2>7, <2>8, <2>9, <2>10, CutInv
  <1>6. CASE \E i \in Lists : /\ i >= pos
                              /\ \E a \in free_mem[i] :
                                   Cut(n, SizeOf(pos), a, SizeOf(i), [free_mem EXCEPT ![i] = @ \ {a}])
                              /\ UNCHANGED freePages
    <2>0. PICK j \in Lists : /\ j >= pos
                             /\ \E a \in free_mem[j] :
                                  Cut(n, SizeOf(pos), a, SizeOf(j), [free_mem EXCEPT ![j] = @ \ {a}])
                             /\ UNCHANGED freePages
      BY <1>6, Zenon
    <2>1. PICK a \in free_mem[j] :
             /\ j >= pos /\ UNCHANGED freePages
             /\ Cut(n, SizeOf(pos), a, SizeOf(j), [free_mem EXCEPT ![j] = @ \ {a}])
      BY <2>0, Zenon
    <2> DEFINE fm == [free_mem EXCEPT ![j] = @ \ {a}]
               e == [page |-> a.page, off |-> a.off, idx |-> j]
    <2>2. a \in Addresses /\ pos <= j
      <3>1. a \in Addresses
        BY <1>2, Zenon
      <3>2. pos <= j
        BY <1>3, <2>1 DEF Lists
      <3> QED BY <3>1, <3>2
    <2>3. /\ fm \in [Lists -> SUBSET Addresses] /\ fm[j] = free_mem[j] \ {a}
          /\ \A i \in Lists : i # j => fm[i] = free_mem[i]
      BY <1>2, Zenon
    <2>4. /\ e \in PieceSet /\ AddrOf(e) = a /\ e.idx = j /\ e.page = a.page /\ e.off = a.off
          /\ \A d \in PieceSet : AddrOf(d) = a /\ d.idx = j => d = e
          /\ a.page \in KaPages /\ a.off \in Bytes
      BY <2>2, PieceAt
    <2>5. a \notin DOMAIN kaHeader
      BY <1>2, Zenon
    <2> HIDE DEF fm, e
    <2>6. e \in P
      BY <2>4, Zenon DEF Pieces
    <2>7. \A i \in Lists : i # j => a \notin free_mem[i]
      <3> SUFFICES ASSUME NEW i \in Lists, i # j, a \in free_mem[i] PROVE FALSE
        BY Zenon
      <3> DEFINE d == [page |-> a.page, off |-> a.off, idx |-> i]
      <3>1. d \in PieceSet /\ AddrOf(d) = a /\ d.idx = i /\ d.page = a.page /\ d.off = a.off
        BY <2>2, PieceAt
      <3> HIDE DEF d
      <3>2. d \in P
        BY <3>1, Zenon DEF Pieces
      <3>3. SizeOf(i) \in Nat \ {0} /\ SizeOf(j) \in Nat \ {0} /\ a.off \in Nat
        <4>1. i \in Nat /\ j \in Nat /\ a.off \in Nat
          BY SMTT(30), <2>4 DEF Lists, Bytes
        <4> QED BY <4>1, Sizes
      <3>4. Spans(d, a.page, a.off) /\ Spans(e, a.page, a.off)
        BY <2>4, <3>1, <3>3 DEF Spans
      <3>5. d = e
        BY ZenonT(60), <1>1, <2>4, <2>6, <3>2, <3>4 DEF Tiled
      <3> QED BY <2>4, <3>1, <3>5
    <2>8. \A i \in Lists : a \notin fm[i] /\ fm[i] \cap DOMAIN kaHeader = {}
      <3>1. \A i \in Lists : a \notin fm[i] /\ fm[i] \subseteq free_mem[i]
        BY <2>3, <2>7
      <3> QED BY SMTT(30), <1>2, <3>1
    <2>9. Pieces(fm, kaHeader) \cup {e} = P
      <3>1. ASSUME NEW d \in PieceSet PROVE d \in Pieces(fm, kaHeader) \cup {e} <=> d \in P
        <4>1. d.idx \in Lists
          BY DEF PieceSet
        <4>2. CASE d = e
          BY <2>6, <4>2, Zenon
        <4>3. CASE d # e
          <5>1. AddrOf(d) \in fm[d.idx] <=> AddrOf(d) \in free_mem[d.idx]
            <6>1. CASE d.idx = j
              <7>1. AddrOf(d) # a
                BY <2>4, <4>3, <6>1, Zenon
              <7> QED BY <2>3, <6>1, <7>1
            <6>2. CASE d.idx # j
              BY <2>3, <4>1, <6>2, Zenon
            <6> QED BY <6>1, <6>2
          <5> QED BY <4>3, <5>1, Zenon DEF Pieces
        <4> QED BY <4>2, <4>3
      <3>2. Pieces(fm, kaHeader) \cup {e} \subseteq PieceSet
        BY <2>4, Zenon DEF Pieces
      <3> HIDE DEF P
      <3> QED BY <1>4, <3>1, <3>2, Zenon
    <2>10. Tiled(Pieces(fm, kaHeader) \cup {[page |-> a.page, off |-> a.off, idx |-> j]}, freePages')
      BY Zenon, <1>1, <2>1, <2>9 DEF e
    <2>11. Cut(n, SizeOf(pos), a, SizeOf(j), fm) /\ freePages' \subseteq KaPages
      BY <1>2, <2>1 DEF fm
    <2> QED BY <2>2, <2>3, <2>5, <2>8, <2>10, <2>11, CutInv
  <1> QED BY <1>5, <1>6, Zenon DEF kalloc, AllocWith

\* kfree, to the pages or to a free list.
LEMMA KfreeInv ==
    ASSUME KaInv, NEW b \in blocks, kfree(b)
    PROVE  KaInv'
  <1> DEFINE a == AddrOf(b)
             idx == kaHeader[a]
             P == Pieces(free_mem, kaHeader)
             e == [page |-> a.page, off |-> a.off, idx |-> idx]
  <1>1. KaHeaders /\ Tiled(P, freePages) /\ KaFits
    BY Zenon DEF KaInv
  <1>2. /\ free_mem \in [Lists -> SUBSET Addresses] /\ freePages \subseteq KaPages
        /\ \A i \in Lists : free_mem[i] \cap DOMAIN kaHeader = {}
        /\ kaHeader \in [{AddrOf(c) : c \in blocks} -> Lists]
        /\ blocks \subseteq [page : KaPages, off : Bytes, asked : 1..MaxAsk]
        /\ \A c \in blocks, d \in blocks : AddrOf(c) = AddrOf(d) => c = d
    BY <1>1, Zenon DEF KaHeaders
  <1>3. /\ blocks' = blocks \ {b}
        /\ kaHeader' = [x \in DOMAIN kaHeader \ {a} |-> kaHeader[x]]
        /\ IF idx = MAX_ORDER - 1
           THEN freePages' = freePages \cup {a.page} /\ UNCHANGED free_mem
           ELSE free_mem' = [free_mem EXCEPT ![idx] = @ \cup {a}] /\ UNCHANGED freePages
    <2>1. a.page = b.page
      BY DEF AddrOf
    <2> QED BY <2>1, Zenon DEF kfree, AddrOf
  <1>4. a \in DOMAIN kaHeader /\ idx \in Lists /\ a \in Addresses
    <2>1. a \in DOMAIN kaHeader /\ idx \in Lists
      BY <1>2, Zenon
    <2>2. a \in Addresses
      BY <1>2 DEF AddrOf, Addresses
    <2> QED BY <2>1, <2>2
  <1> HIDE DEF a, idx
  <1>5. /\ e \in PieceSet /\ AddrOf(e) = a /\ e.idx = idx /\ e.page = a.page
        /\ \A d \in PieceSet : AddrOf(d) = a /\ d.idx = idx => d = e
        /\ a.page \in KaPages
    BY <1>4, PieceAt
  <1> HIDE DEF e
  <1>6. P \subseteq PieceSet /\ e \in P
    BY <1>4, <1>5, Zenon DEF Pieces, idx
  <1>7. /\ DOMAIN kaHeader' = DOMAIN kaHeader \ {a}
        /\ \A x \in DOMAIN kaHeader' : kaHeader'[x] = kaHeader[x]
    BY <1>3, Zenon
  <1>8. /\ blocks' \subseteq [page : KaPages, off : Bytes, asked : 1..MaxAsk]
        /\ kaHeader' \in [{AddrOf(c) : c \in blocks'} -> Lists]
        /\ \A c \in blocks', d \in blocks' : AddrOf(c) = AddrOf(d) => c = d
    <2>1. DOMAIN kaHeader = {AddrOf(c) : c \in blocks} /\ \A x \in DOMAIN kaHeader : kaHeader[x] \in Lists
      BY <1>2, Zenon
    <2>2. \A x : x \in {AddrOf(c) : c \in blocks'} <=> (x \in {AddrOf(c) : c \in blocks} /\ x # a)
      <3>1. \A c \in blocks : c \in blocks' <=> AddrOf(c) # a
        BY <1>2, <1>3, Zenon DEF a
      <3>2. blocks' \subseteq blocks
        BY <1>3, Zenon
      <3> QED BY <3>1, <3>2, Zenon
    <2>3. {AddrOf(c) : c \in blocks'} = DOMAIN kaHeader \ {a}
      BY <2>1, <2>2, Zenon
    <2>4. kaHeader' = [x \in DOMAIN kaHeader' |-> kaHeader'[x]]
      BY <1>3, Zenon
    <2>5. kaHeader' \in [{AddrOf(c) : c \in blocks'} -> Lists]
      <3>1. \A x \in DOMAIN kaHeader' : kaHeader'[x] \in Lists
        BY <1>7, <2>1, Zenon
      <3> QED BY <1>7, <2>3, <2>4, <3>1, Zenon
    <2> QED BY <1>2, <1>3, <2>5, Zenon
  <1>9. KaFits'
    <2> SUFFICES ASSUME NEW c \in blocks'
                 PROVE  SizeOf(kaHeader'[AddrOf(c)]) >= c.asked + MIN_BLOCK_SIZE
      BY Zenon DEF KaFits
    <2>1. c \in blocks /\ AddrOf(c) \in DOMAIN kaHeader'
      <3>1. c \in blocks /\ c # b
        BY <1>3, Zenon
      <3>2. AddrOf(c) # a
        BY <1>2, <3>1, Zenon DEF a
      <3>3. AddrOf(c) \in DOMAIN kaHeader
        <4>1. AddrOf(c) \in {AddrOf(d) : d \in blocks}
          BY <3>1, Zenon
        <4>2. DOMAIN kaHeader = {AddrOf(d) : d \in blocks}
          BY <1>2, Zenon
        <4> QED BY <4>1, <4>2
      <3> QED BY <1>7, <3>1, <3>2, <3>3, Zenon
    <2>2. kaHeader'[AddrOf(c)] = kaHeader[AddrOf(c)]
      BY <1>7, <2>1, Zenon
    <2> QED BY <1>1, <2>1, <2>2, Zenon DEF KaFits
  <1>10. CASE idx = MAX_ORDER - 1
    <2>1. freePages' = freePages \cup {a.page} /\ free_mem' = free_mem
      BY <1>3, <1>10, Zenon
    <2>2. Pieces(free_mem, kaHeader') = P \ {e}
      <3>1. ASSUME NEW d \in PieceSet PROVE d \in Pieces(free_mem, kaHeader') <=> d \in P \ {e}
        <4>1. CASE AddrOf(d) = a
          <5>1. d.idx \in Lists
            BY DEF PieceSet
          <5>2. a \notin free_mem[d.idx]
            BY <1>2, <1>4, <5>1, Zenon
          <5>3. d \in P => d = e
            BY <1>5, <4>1, <5>2, Zenon DEF Pieces, idx
          <5>4. d \notin Pieces(free_mem, kaHeader')
            BY <1>7, <4>1, <5>2, Zenon DEF Pieces
          <5> QED BY <5>3, <5>4, Zenon
        <4>2. CASE AddrOf(d) # a
          BY <1>5, <1>7, <4>2, Zenon DEF Pieces
        <4> QED BY <4>1, <4>2
      <3>2. Pieces(free_mem, kaHeader') \subseteq PieceSet
        BY Zenon DEF Pieces
      <3> HIDE DEF P
      <3> QED BY <1>6, <3>1, <3>2, Zenon
    <2>3. Tiled(P \ {e}, freePages')
      <3>1. SizeOf(e.idx) = PAGE_SIZE
        BY SMTT(30), <1>5, <1>10, Sizes
      <3> HIDE DEF P
      <3>2. Tiled(P \ {e}, freePages \cup {e.page})
        BY SMTT(30), <1>1, <1>2, <1>6, <3>1, TiledGive
      <3> QED BY SMTT(30), <1>5, <2>1, <3>2
    <2>4. Tiled(Pieces(free_mem', kaHeader'), freePages')
      BY SMTT(30), <2>1, <2>2, <2>3
    <2>5. \A i \in Lists : free_mem'[i] \cap DOMAIN kaHeader' = {}
      BY SMTT(30), <1>2, <1>7, <2>1
    <2>6. freePages' \subseteq KaPages /\ free_mem' \in [Lists -> SUBSET Addresses]
      BY <1>2, <1>5, <2>1
    <2>7. KaHeaders'
      BY <1>8, <2>5, <2>6, Zenon DEF KaHeaders
    <2>8. Tiled(Pieces(free_mem, kaHeader), freePages)'
      BY <2>4, Zenon DEF Tiled, Pieces, PieceSet, AddrOf, Spans
    <2> QED BY <1>9, <2>7, <2>8, Zenon DEF KaInv
  <1>11. CASE idx # MAX_ORDER - 1
    <2>1. free_mem' = [free_mem EXCEPT ![idx] = @ \cup {a}] /\ freePages' = freePages
      BY <1>3, <1>11, Zenon
    <2>2. /\ free_mem' \in [Lists -> SUBSET Addresses] /\ free_mem'[idx] = free_mem[idx] \cup {a}
          /\ \A i \in Lists : i # idx => free_mem'[i] = free_mem[i]
      BY <1>2, <1>4, <2>1, Zenon
    <2>3. Pieces(free_mem', kaHeader') = P
      <3>1. ASSUME NEW d \in PieceSet PROVE d \in Pieces(free_mem', kaHeader') <=> d \in P
        <4>0. d.idx \in Lists
          BY DEF PieceSet
        <4>1. CASE AddrOf(d) = a
          <5>2. a \notin free_mem[d.idx]
            BY <1>2, <1>4, <4>0, Zenon
          <5>3. d \in P <=> d.idx = idx
            BY <1>4, <4>1, <5>2, Zenon DEF Pieces, idx
          <5>4. a \in free_mem'[d.idx] <=> d.idx = idx
            BY <2>2, <4>0, <5>2, Zenon
          <5>5. d \in Pieces(free_mem', kaHeader') <=> a \in free_mem'[d.idx]
            BY <1>7, <4>1, Zenon DEF Pieces
          <5> QED BY <5>3, <5>4, <5>5, Zenon
        <4>2. CASE AddrOf(d) # a
          <5>1. AddrOf(d) \in free_mem'[d.idx] <=> AddrOf(d) \in free_mem[d.idx]
            BY <2>2, <4>0, <4>2, Zenon
          <5> QED BY <1>7, <4>2, <5>1, Zenon DEF Pieces
        <4> QED BY <4>1, <4>2
      <3>2. Pieces(free_mem', kaHeader') \subseteq PieceSet
        BY Zenon DEF Pieces
      <3> HIDE DEF P
      <3> QED BY <1>6, <3>1, <3>2, Zenon
    <2>4. Tiled(Pieces(free_mem', kaHeader'), freePages')
      BY <1>1, <2>1, <2>3
    <2>5. \A i \in Lists : free_mem'[i] \cap DOMAIN kaHeader' = {}
      <3> SUFFICES ASSUME NEW i \in Lists, NEW x \in free_mem'[i], x \in DOMAIN kaHeader' PROVE FALSE
        BY Zenon
      <3>1. x # a /\ x \in DOMAIN kaHeader
        BY <1>7, Zenon
      <3>2. x \in free_mem[i]
        BY <2>2, <3>1, Zenon
      <3> QED BY <1>2, <3>1, <3>2, Zenon
    <2>7. KaHeaders'
      BY <1>2, <1>8, <2>1, <2>2, <2>5, Zenon DEF KaHeaders
    <2>8. Tiled(Pieces(free_mem, kaHeader), freePages)'
      BY <2>4, Zenon DEF Tiled, Pieces, PieceSet, AddrOf, Spans
    <2> QED BY <1>9, <2>7, <2>8, Zenon DEF KaInv
  <1> QED BY <1>10, <1>11

\* At boot no page has been taken.
LEMMA KallocInitInv ==
    ASSUME KallocInit
    PROVE  KaInv
  <1>1. /\ free_mem = [i \in Lists |-> {}] /\ blocks = {} /\ freePages = KaPages
        /\ kaHeader = [a \in {} |-> 0]
    BY DEF KallocInit
  <1>2. DOMAIN kaHeader = {} /\ {AddrOf(b) : b \in blocks} = {} /\ \A i \in Lists : free_mem[i] = {}
    BY <1>1
  <1>3. KaHeaders
    <2>1. kaHeader \in [{AddrOf(b) : b \in blocks} -> Lists]
      BY <1>1, <1>2
    <2>2. free_mem \in [Lists -> SUBSET Addresses]
      BY <1>1
    <2> QED BY <1>1, <1>2, <2>1, <2>2, Zenon DEF KaHeaders
  <1>4. Pieces(free_mem, kaHeader) = {}
    <2>1. \A e \in PieceSet : e.idx \in Lists
      BY DEF PieceSet
    <2> QED BY <1>2, <2>1 DEF Pieces
  <1>5. Tiled(Pieces(free_mem, kaHeader), freePages)
    BY Zenon, <1>1, <1>4 DEF Tiled
  <1>6. KaFits
    BY <1>1 DEF KaFits
  <1> QED BY <1>3, <1>5, <1>6 DEF KaInv

\* kalloc and kfree, with any page and block size, keep the pieces of the
\* pages they took a tiling of them: KaInv is inductive.
THEOREM KallocInvariant == KallocSpec => []KaInv
  <1>1. KallocInit => KaInv
    BY KallocInitInv
  <1>2. KaInv /\ [KallocNext]_kaVars => KaInv'
    <2> SUFFICES ASSUME KaInv, [KallocNext]_kaVars PROVE KaInv'
      OBVIOUS
    <2>1. ASSUME NEW n \in 1..MaxAsk, kalloc(n) PROVE KaInv'
      BY <2>1, KallocInv
    <2>2. ASSUME NEW b \in blocks, kfree(b) PROVE KaInv'
      BY <2>2, KfreeInv
    <2>3. CASE UNCHANGED kaVars
      BY <2>3, Zenon DEF kaVars, KaInv, KaHeaders, KaFits, Tiled, Pieces, PieceSet, Spans, AddrOf
    <2> QED BY <2>1, <2>2, <2>3, Zenon DEF KallocNext
  <1> QED BY <1>1, <1>2, PTL DEF KallocSpec

\* One piece, free or handed out, is over a byte of a page taken, and none
\* over a byte of a page given back.
LEMMA TiledOnce ==
    ASSUME KaInv, NEW p \in KaPages, NEW x \in Bytes
    PROVE  Over(p, x) = IF p \in freePages THEN 0 ELSE 1
  <1> DEFINE P == Pieces(free_mem, kaHeader)
             Of(b) == [page |-> b.page, off |-> b.off, idx |-> kaHeader[AddrOf(b)]]
             F == {e \in FreePieces : Spans(e, p, x)}
             H == {b \in blocks : Spans(Of(b), p, x)}
  <1>1. KaHeaders /\ Tiled(P, freePages)
    BY Zenon DEF KaInv
  <1>2. /\ \A i \in Lists : free_mem[i] \cap DOMAIN kaHeader = {}
        /\ DOMAIN kaHeader = {AddrOf(c) : c \in blocks}
        /\ \A y \in DOMAIN kaHeader : kaHeader[y] \in Lists
        /\ blocks \subseteq [page : KaPages, off : Bytes, asked : 1..MaxAsk]
        /\ \A c \in blocks, d \in blocks : AddrOf(c) = AddrOf(d) => c = d
    BY <1>1, Zenon DEF KaHeaders
  <1>3. /\ \A e \in P : e.page \notin freePages
        /\ p \notin freePages => \E e \in P : Spans(e, p, x)
        /\ \A e \in P, f \in P : Spans(e, p, x) /\ Spans(f, p, x) => e = f
    BY <1>1, Zenon DEF Tiled
  <1>4. \A b \in blocks : Of(b) \in P /\ AddrOf(Of(b)) = AddrOf(b) /\ AddrOf(b) \in DOMAIN kaHeader
    <2> SUFFICES ASSUME NEW b \in blocks
                 PROVE  Of(b) \in P /\ AddrOf(Of(b)) = AddrOf(b) /\ AddrOf(b) \in DOMAIN kaHeader
      BY Zenon
    <2>1. AddrOf(b) \in DOMAIN kaHeader /\ kaHeader[AddrOf(b)] \in Lists
      BY <1>2, Zenon
    <2>2. /\ Of(b) \in PieceSet /\ AddrOf(Of(b)) = AddrOf(b)
          /\ Of(b).idx = kaHeader[AddrOf(b)]
      <3>1. AddrOf(Of(b)) = AddrOf(b) /\ Of(b).idx = kaHeader[AddrOf(b)]
        BY DEF AddrOf
      <3>2. b.page \in KaPages /\ b.off \in Bytes
        BY <1>2
      <3> QED BY SMTT(30), <2>1, <3>1, <3>2 DEF PieceSet
    <2> HIDE DEF Of
    <2>3. Of(b) \in P
      BY <2>1, <2>2, Zenon DEF Pieces
    <2> QED BY <2>1, <2>2, <2>3
  <1> HIDE DEF Of
  <1>f. FreePieces = {e \in PieceSet : AddrOf(e) \in free_mem[e.idx]}
    <2>1. ASSUME NEW i \in Lists, NEW a \in free_mem[i]
          PROVE  LET e == [page |-> a.page, off |-> a.off, idx |-> i]
                 IN  e \in PieceSet /\ AddrOf(e) = a /\ e.idx = i
      <3>1. a \in Addresses
        BY <1>1, Zenon DEF KaHeaders
      <3> QED BY <3>1, PieceAt
    <2>2. ASSUME NEW e \in PieceSet, AddrOf(e) \in free_mem[e.idx]
          PROVE  \E i \in Lists : \E a \in free_mem[i] : e = [page |-> a.page, off |-> a.off, idx |-> i]
      <3>1. e.idx \in Lists /\ e = [page |-> AddrOf(e).page, off |-> AddrOf(e).off, idx |-> e.idx]
        BY DEF PieceSet, AddrOf
      <3> QED BY <2>2, <3>1, Zenon
    <2>3. \A e : e \in FreePieces <=>
             \E i \in Lists : \E a \in free_mem[i] : e = [page |-> a.page, off |-> a.off, idx |-> i]
      BY DEF FreePieces
    <2> QED BY <2>1, <2>2, <2>3
  <1>5. \A e \in F : e \in P /\ AddrOf(e) \notin DOMAIN kaHeader /\ Spans(e, p, x)
    <2>1. \A e \in PieceSet : e.idx \in Lists
      BY DEF PieceSet
    <2> QED BY <1>2, <1>f, <2>1, Zenon DEF Pieces
  <1>6. Over(p, x) = Cardinality(F) + Cardinality(H)
    BY Zenon DEF Over, Of
  <1>7. CASE p \in freePages
    <2>1. \A e : Spans(e, p, x) => e.page = p
      BY DEF Spans
    <2>2. F = {}
      BY <1>3, <1>5, <1>7, <2>1, Zenon
    <2>3. H = {}
      BY <1>3, <1>4, <1>7, <2>1, Zenon
    <2> HIDE DEF F, H
    <2> QED BY <1>6, <1>7, <2>2, <2>3, FS_EmptySet
  <1>8. CASE p \notin freePages
    <2>1. PICK e \in P : Spans(e, p, x)
      BY <1>3, <1>8, Zenon
    <2>2. e \in PieceSet
      BY Zenon DEF Pieces
    <2>3. CASE AddrOf(e) \in free_mem[e.idx]
      <3>1. F = {e}
        <4>1. e \in F
          BY <1>f, <2>1, <2>2, <2>3, Zenon
        <4>2. \A f \in F : f = e
          BY <1>3, <1>5, <2>1, Zenon
        <4> QED BY <4>1, <4>2, Zenon
      <3>2. H = {}
        <4> SUFFICES ASSUME NEW b \in H PROVE FALSE
          BY Zenon
        <4>1. b \in blocks /\ Spans(Of(b), p, x)
          BY Zenon
        <4>2. Of(b) = e
          BY <1>3, <1>4, <2>1, <4>1, Zenon
        <4>3. AddrOf(e) \in DOMAIN kaHeader
          BY <1>4, <4>1, <4>2, Zenon
        <4>4. e \in F
          BY <1>f, <2>1, <2>2, <2>3, Zenon
        <4> QED BY <1>5, <4>3, <4>4, Zenon
      <3> HIDE DEF F, H
      <3>3. Cardinality(F) = 1 /\ Cardinality(H) = 0
        BY <3>1, <3>2, FS_EmptySet, FS_Singleton, Zenon
      <3> QED BY <1>6, <1>8, <3>3
    <2>4. CASE AddrOf(e) \notin free_mem[e.idx]
      <3>1. AddrOf(e) \in DOMAIN kaHeader /\ kaHeader[AddrOf(e)] = e.idx
        BY <2>4, Zenon DEF Pieces
      <3>0. AddrOf(e) \in {AddrOf(c) : c \in blocks}
        BY <1>2, <3>1
      <3>2. PICK b \in blocks : AddrOf(e) = AddrOf(b)
        BY <3>0, Zenon
      <3>3. Of(b) = e
        <4>1. e.page = b.page /\ e.off = b.off
          <5>1. \A y : AddrOf(y).page = y.page /\ AddrOf(y).off = y.off
            BY DEF AddrOf
          <5>2. AddrOf(e).page = b.page /\ AddrOf(e).off = b.off
            BY <3>2, <5>1
          <5> QED BY <5>1, <5>2
        <4>2. e.idx = kaHeader[AddrOf(b)]
          BY <3>1, <3>2
        <4> QED BY SMTT(30), <2>2, <4>1, <4>2 DEF Of, PieceSet
      <3>4. H = {b}
        <4>1. b \in H
          BY <2>1, <3>3, Zenon
        <4>2. ASSUME NEW c \in H PROVE c = b
          <5>1. c \in blocks /\ Spans(Of(c), p, x)
            BY Zenon
          <5>2. Of(c) = e
            BY <1>3, <1>4, <2>1, <5>1, Zenon
          <5>3. AddrOf(c) = AddrOf(b)
            BY <1>4, <3>3, <5>1, <5>2, Zenon
          <5> QED BY <1>2, <5>1, <5>3, Zenon
        <4> QED BY <4>1, <4>2, Zenon
      <3>5. F = {}
        <4> SUFFICES ASSUME NEW f \in F PROVE FALSE
          BY Zenon
        <4>1. f = e
          BY <1>3, <1>5, <2>1, Zenon
        <4> QED BY <1>5, <3>1, <4>1, Zenon
      <3> HIDE DEF F, H
      <3>6. Cardinality(F) = 0 /\ Cardinality(H) = 1
        BY <3>4, <3>5, FS_EmptySet, FS_Singleton, Zenon
      <3> QED BY <1>6, <1>8, <3>6
    <2> QED BY <2>3, <2>4
  <1> QED BY <1>7, <1>8

\* Blocks of kalloc never overlap, no byte of a page taken is lost, and a
\* block has room for what was asked and its header, for any page and block
\* size.
THEOREM KallocIsSafe == KallocSpec => []KaSafe
  <1>1. KaInv => KaSafe
    BY TiledOnce, Zenon DEF KaSafe, KaTiling, KaInv
  <1> QED BY <1>1, KallocInvariant, PTL
=============================================================================
