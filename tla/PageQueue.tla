----------------------------- MODULE PageQueue ------------------------------
(***************************************************************************)
(* The lock-free stack of common/list.c (add_to_queue, fetch_from_queue)   *)
(* as kernel/mem.c uses it: for the pages (kalloc_page and kfree_page, on  *)
(* every CPU at once) and for one list of free_mem, whose blocks kalloc    *)
(* fetches under mem_list_lock while kfree adds them without the lock.     *)
(*                                                                         *)
(* A fetch reads the head, then the next pointer in the node, then tries   *)
(* the compare-and-swap; an add writes its node's next pointer and tries   *)
(* the compare-and-swap.  Each of these is a step.  Whoever owns a node    *)
(* may have written over its next pointer.                                 *)
(***************************************************************************)
EXTENDS Naturals, FiniteSets

CONSTANTS PqCpus,     \* CPUs
          PqNodes,    \* pages, or blocks of one size
          PqNull,     \* the null pointer
          PqWild,     \* what the owner of a node wrote over its next pointer
          PqMaxOps    \* operations of all CPUs together (a bound)

ASSUME PqAssumption ==
    /\ IsFiniteSet(PqNodes) /\ PqNodes # {} /\ PqMaxOps \in Nat
    /\ PqNull \notin PqNodes \cup PqCpus /\ PqWild \notin PqNodes \cup {PqNull}

VARIABLES pqUse,      \* "pages" or "free_mem": whether fetches take mem_list_lock
          head,       \* pages, or free_mem[idx]
          next,       \* the next pointer in each node
          pq,         \* per CPU: [pc, node, nxt]
          owned,      \* the nodes each CPU was given and has not given back
          memLock,    \* the CPU that holds mem_list_lock, or PqNull
          recycled,   \* history: a fetch swapped a head that had been away in between
          stale,      \* history: the CPUs whose head was fetched since they read it
          pqOps       \* operations so far

pqVars == <<pqUse, head, next, pq, owned, memLock, recycled, stale, pqOps>>

Resting == [pc |-> "idle", node |-> PqNull, nxt |-> PqNull]

\* define_early_init(pages), or the blocks of pages split earlier: all in a row.
PageQueueInit ==
    LET order == CHOOSE f \in [1..Cardinality(PqNodes) -> PqNodes] :
                     \A i, j \in DOMAIN f : f[i] = f[j] => i = j
    IN  /\ pqUse \in {"pages", "free_mem"}
        /\ head = order[1]
        /\ next = [n \in PqNodes |->
                      LET i == CHOOSE i \in DOMAIN order : order[i] = n
                      IN  IF i = Cardinality(PqNodes) THEN PqNull ELSE order[i + 1]]
        /\ pq = [c \in PqCpus |-> Resting]
        /\ owned = [c \in PqCpus |-> {}]
        /\ memLock = PqNull
        /\ recycled = FALSE /\ stale = {} /\ pqOps = 0

PqGoto(c, l) == pq' = [pq EXCEPT ![c].pc = l]

\* kalloc_page, or kalloc up to its fetch.
PqAllocWith(c, locks) ==
    /\ pq[c].pc = "idle" /\ pqOps < PqMaxOps
    /\ locks => memLock = PqNull
    /\ memLock' = IF locks THEN c ELSE memLock
    /\ pqOps' = pqOps + 1 /\ PqGoto(c, "read_head")
    /\ UNCHANGED <<pqUse, head, next, owned, recycled, stale>>

PqAlloc_Unlocked(c) == PqAllocWith(c, FALSE)
PqAlloc(c) == PqAllocWith(c, pqUse = "free_mem")

\* node = *head; nothing more when the queue is empty (kalloc has tested it
\* under the lock, kalloc_page does not expect it: a bound).
PqReadHead(c) ==
    /\ pq[c].pc = "read_head" /\ head # PqNull
    /\ pq' = [pq EXCEPT ![c] = [pc |-> "read_next", node |-> head, nxt |-> PqNull]]
    /\ stale' = stale \ {c}
    /\ UNCHANGED <<pqUse, head, next, owned, memLock, recycled, pqOps>>

\* The third argument of the compare-and-swap: node->next, whoever has it now.
PqReadNext(c) ==
    /\ pq[c].pc = "read_next"
    /\ pq' = [pq EXCEPT ![c].pc = "swap", ![c].nxt = next[pq[c].node]]
    /\ UNCHANGED <<pqUse, head, next, owned, memLock, recycled, stale, pqOps>>

\* On success the node is the caller's, which is free to write to it.
PqFetch(c) ==
    LET n == pq[c].node IN
    /\ pq[c].pc = "swap"
    /\ IF head = n
       THEN /\ head' = pq[c].nxt
            /\ owned' = [owned EXCEPT ![c] = @ \cup {n}]
            /\ next' = [next EXCEPT ![n] = PqWild]
            /\ recycled' = (recycled \/ c \in stale)
            /\ stale' = stale \cup {d \in PqCpus : pq[d].pc \in {"read_next", "swap"} /\ d # c}
            /\ memLock' = IF memLock = c THEN PqNull ELSE memLock
            /\ pq' = [pq EXCEPT ![c] = Resting]
       ELSE /\ PqGoto(c, "read_head")
            /\ UNCHANGED <<head, owned, next, recycled, stale, memLock>>
    /\ UNCHANGED <<pqUse, pqOps>>

\* kfree_page with the last reference gone, or kfree: node->next = *head ...
PqFree(c) ==
    \E n \in owned[c] :
        /\ pq[c].pc = "idle" /\ pqOps < PqMaxOps
        /\ pq' = [pq EXCEPT ![c] = [pc |-> "link", node |-> n, nxt |-> PqNull]]
        /\ owned' = [owned EXCEPT ![c] = @ \ {n}]
        /\ pqOps' = pqOps + 1
        /\ UNCHANGED <<pqUse, head, next, memLock, recycled, stale>>

PqLink(c) ==
    /\ pq[c].pc = "link"
    /\ next' = [next EXCEPT ![pq[c].node] = head]
    /\ PqGoto(c, "push")
    /\ UNCHANGED <<pqUse, head, owned, memLock, recycled, stale, pqOps>>

\* ... and the compare-and-swap of the head against node->next.
PqPush(c) ==
    LET n == pq[c].node IN
    /\ pq[c].pc = "push"
    /\ IF head = next[n] THEN head' = n /\ pq' = [pq EXCEPT ![c] = Resting]
                         ELSE PqGoto(c, "link") /\ UNCHANGED head
    /\ UNCHANGED <<pqUse, next, owned, memLock, recycled, stale, pqOps>>

\* What the kernel does with a recycled head is not followed.
PageQueueNext ==
    /\ ~recycled
    /\ \E c \in PqCpus : \/ PqAlloc(c) \/ PqReadHead(c) \/ PqReadNext(c) \/ PqFetch(c)
                         \/ PqFree(c) \/ PqLink(c) \/ PqPush(c)

PageQueueSpec == PageQueueInit /\ [][PageQueueNext]_pqVars

-----------------------------------------------------------------------------
(* Properties                                                               *)

\* s is the chain from the head: each node leads to the following one, the last to
\* null, and none comes twice.
Chained(s) ==
    /\ head = IF 1 \in DOMAIN s THEN s[1] ELSE PqNull
    /\ \A i \in DOMAIN s : next[s[i]] = IF i + 1 \in DOMAIN s THEN s[i + 1] ELSE PqNull
    /\ \A i, j \in DOMAIN s : s[i] = s[j] => i = j

Rows == UNION {[1..k -> PqNodes] : k \in 0..Cardinality(PqNodes)}
InRow(s, n) == \E i \in DOMAIN s : s[i] = n

InHand(c) == IF pq[c].pc \in {"link", "push"} THEN {pq[c].node} ELSE {}

Holders(n) == {c \in PqCpus : n \in owned[c] \cup InHand(c)}

(***************************************************************************)
(* Every page is in the queue or with one CPU, never both and never lost:  *)
(* always for the lists of free_mem, whose fetches mem_list_lock keeps     *)
(* apart, and for the pages as long as no fetch of kalloc_page succeeds    *)
(* against a head that was fetched and added again behind its back.        *)
(***************************************************************************)
PqPartition ==
    (pqUse = "free_mem" \/ ~recycled) =>
        \E s \in Rows :
            /\ Chained(s)
            /\ \A n \in PqNodes : IF InRow(s, n) THEN Holders(n) = {}
                                                 ELSE Cardinality(Holders(n)) = 1

(***************************************************************************)
(* mem_list_lock, which only kalloc takes, is all that rules the recycled  *)
(* head out: a fetch under it never swaps a head another CPU has had since.*)
(***************************************************************************)
PqNoRecycling == pqUse = "free_mem" => ~recycled

PqLocals == [pc : {"idle", "read_head", "read_next", "swap", "link", "push"},
             node : PqNodes \cup {PqNull}, nxt : PqNodes \cup {PqNull, PqWild}]

(***************************************************************************)
(* The queue's fields have their types; a next pointer on its way to being *)
(* the head belongs to a node in the queue or in hand.                     *)
(***************************************************************************)
PqTypeOK ==
    /\ head \in PqNodes \cup {PqNull, PqWild}
    /\ next \in [PqNodes -> PqNodes \cup {PqNull, PqWild}]
    /\ pq \in [PqCpus -> PqLocals]
    /\ owned \in [PqCpus -> SUBSET PqNodes]
    /\ memLock \in PqCpus \cup {PqNull}
    /\ memLock # PqNull => pqUse = "free_mem" /\ pq[memLock].pc # "idle"

\* The lock-free queue of list.c neither loses a node nor gives it out twice, as
\* long as no head is recycled; under mem_list_lock (kalloc) none is.
PqSafe == PqTypeOK /\ PqPartition /\ PqNoRecycling

-----------------------------------------------------------------------------
\* What the proof of PqSafe needs.  mem_list_lock is held throughout a fetch of
\* kalloc, so no head of free_mem is ever stale.
PqLocked ==
    \A c \in PqCpus :
        /\ pqUse = "free_mem" =>
              (memLock = c <=> pq[c].pc \in {"read_head", "read_next", "swap"})
        /\ pq[c].pc \in {"read_next", "swap", "link", "push"} => pq[c].node \in PqNodes

\* A fetch whose head is not stale has a node of the row s and, before the swap,
\* its next pointer: only nodes in hand are written to.
PqFresh(s) ==
    \A c \in PqCpus \ stale : pq[c].pc \in {"read_next", "swap"} =>
        InRow(s, pq[c].node) /\ (pq[c].pc = "swap" => pq[c].nxt = next[pq[c].node])

\* Each node is in the row or has one holder, which has it in hand or owns it.
PqShared(s) ==
    \A n \in PqNodes :
        /\ InRow(s, n) => Holders(n) = {}
        /\ ~InRow(s, n) => \E c \in PqCpus : Holders(n) = {c}
        /\ \A c \in PqCpus : n \notin owned[c] \cap InHand(c)

PqRow(s) == Chained(s) /\ PqFresh(s) /\ PqShared(s)

PqInv ==
    /\ PqTypeOK /\ PqLocked /\ pqUse \in {"pages", "free_mem"} /\ recycled \in BOOLEAN
    /\ stale \subseteq PqCpus
    /\ pqUse = "free_mem" => stale = {} /\ ~recycled
    /\ pqUse = "pages" => memLock = PqNull
    /\ ~recycled => \E s \in Rows : PqRow(s)
=============================================================================
