------------------------------- MODULE Kalloc -------------------------------
(***************************************************************************)
(* kalloc and kfree of kernel/mem.c: blocks cut from pages and kept on a   *)
(* free list per size, with the index of the block's list in its first     *)
(* word.  Both are one step: kalloc runs under mem_list_lock, and the only *)
(* thing kfree does to the lists is one lock-free add (module PageQueue).  *)
(* Addresses are [page, offset]; sizes are in bytes of a small page.       *)
(***************************************************************************)
EXTENDS Integers, FiniteSets

CONSTANTS KaPages,         \* pages kalloc_page may return (a bound)
          PAGE_SIZE,       \* 4096 in the code
          MIN_BLOCK_SIZE   \* 8 in the code, also the size of the header

\* A page holds a whole number of the smallest blocks.
ASSUME KaAssumption == /\ MIN_BLOCK_SIZE \in Nat \ {0}
                       /\ PAGE_SIZE \in Nat
                       /\ PAGE_SIZE % MIN_BLOCK_SIZE = 0

VARIABLES free_mem,        \* the free blocks, each [page, off], per list
          blocks,          \* blocks handed out: [page, off, asked]
          kaHeader,        \* the word at each address kalloc wrote one to
          freePages        \* pages kalloc_page can return

kaVars == <<free_mem, blocks, kaHeader, freePages>>

MAX_ORDER == PAGE_SIZE \div MIN_BLOCK_SIZE
Lists == 0..(MAX_ORDER - 1)

\* The largest block a page holds: callers ask for no more.
MaxAsk == PAGE_SIZE - MIN_BLOCK_SIZE

KallocInit ==
    /\ free_mem = [i \in Lists |-> {}]
    /\ blocks = {}
    /\ kaHeader = [a \in {} |-> 0]
    /\ freePages = KaPages

\* The list for sz bytes: an exact multiple belongs to the list below.
get_idx(sz) == LET idx == sz \div MIN_BLOCK_SIZE
               IN  IF sz = idx * MIN_BLOCK_SIZE THEN idx - 1 ELSE idx

SizeOf(idx) == (idx + 1) * MIN_BLOCK_SIZE

\* The block at a, of `whole' bytes, is cut for a request: its index goes into
\* the first word, and what is left beyond `used' to the list of its size.  fm
\* is free_mem without the block.
Cut(asked, used, a, whole, fm) ==
    LET pos  == get_idx(asked + MIN_BLOCK_SIZE)
        rest == [page |-> a.page, off |-> a.off + SizeOf(pos)]
        r    == ((whole - used) \div MIN_BLOCK_SIZE) - 1
    IN  /\ free_mem' = IF whole > SizeOf(pos) THEN [fm EXCEPT ![r] = @ \cup {rest}] ELSE fm
        /\ kaHeader' = [x \in DOMAIN kaHeader \cup {a} |-> IF x = a THEN pos ELSE kaHeader[x]]
        /\ blocks' = blocks \cup {[page |-> a.page, off |-> a.off, asked |-> asked]}

\* A block of the first list from the request's on that has one, or else a
\* fresh page.
AllocWith(asked, used) ==
    LET found == {i \in Lists : i >= get_idx(asked + MIN_BLOCK_SIZE) /\ free_mem[i] # {}}
    IN  \/ /\ found = {}
           /\ \E p \in freePages :
                 /\ freePages' = freePages \ {p}
                 /\ Cut(asked, used, [page |-> p, off |-> 0], PAGE_SIZE, free_mem)
        \/ \E i \in found :
              /\ \A j \in found : i <= j
              /\ \E a \in free_mem[i] :
                    Cut(asked, used, a, SizeOf(i), [free_mem EXCEPT ![i] = @ \ {a}])
              /\ UNCHANGED freePages

kalloc_WholeRest(asked) == AllocWith(asked, 0)
kalloc(asked) == AllocWith(asked, SizeOf(get_idx(asked + MIN_BLOCK_SIZE)))

\* A whole page goes back to the pages, anything else to its list.
kfree(b) ==
    LET a   == [page |-> b.page, off |-> b.off]
        idx == kaHeader[a]
    IN  /\ blocks' = blocks \ {b}
        /\ kaHeader' = [x \in DOMAIN kaHeader \ {a} |-> kaHeader[x]]
        /\ IF idx = MAX_ORDER - 1
           THEN freePages' = freePages \cup {b.page} /\ UNCHANGED free_mem
           ELSE free_mem' = [free_mem EXCEPT ![idx] = @ \cup {a}] /\ UNCHANGED freePages

KallocNext == \/ \E n \in 1..MaxAsk : kalloc(n)
              \/ \E b \in blocks : kfree(b)

KallocSpec == KallocInit /\ [][KallocNext]_kaVars

-----------------------------------------------------------------------------
(* Properties                                                               *)

\* A piece is a block of its list's size, free or handed out.
Bytes == 0..(PAGE_SIZE - 1)

Addresses == [page : KaPages, off : Bytes]

AddrOf(b) == [page |-> b.page, off |-> b.off]

PieceSet == [page : KaPages, off : Bytes, idx : Lists]

\* The piece e is over byte x of page p.
Spans(e, p, x) == e.page = p /\ e.off <= x /\ x < e.off + SizeOf(e.idx)

FreePieces == UNION {{[page |-> a.page, off |-> a.off, idx |-> i] : a \in free_mem[i]} : i \in Lists}

\* How many pieces, free or handed out, are over byte x of page p.
Over(p, x) ==
    Cardinality({e \in FreePieces : Spans(e, p, x)})
    + Cardinality({b \in blocks :
          Spans([page |-> b.page, off |-> b.off, idx |-> kaHeader[AddrOf(b)]], p, x)})

(***************************************************************************)
(* The blocks of a page tile it: every byte of a page that kalloc has      *)
(* taken is in one block, on a free list or handed out, and a page given   *)
(* back is in none.                                                        *)
(***************************************************************************)
KaTiling == \A p \in KaPages, x \in Bytes :
                Over(p, x) = IF p \in freePages THEN 0 ELSE 1

(***************************************************************************)
(* A block handed out has room for its header and for what was asked.        *)
(***************************************************************************)
KaFits == \A b \in blocks :
              SizeOf(kaHeader[AddrOf(b)]) >= b.asked + MIN_BLOCK_SIZE

\* kalloc's blocks never overlap, no byte of a page is lost, and a block holds what
\* was asked for.
KaSafe == KaTiling /\ KaFits

-----------------------------------------------------------------------------
(* The inductive invariant.                                                 *)

\* The pieces of the free lists fm and the headers h.
Pieces(fm, h) == {e \in PieceSet : \/ AddrOf(e) \in fm[e.idx]
                                   \/ AddrOf(e) \in DOMAIN h /\ h[AddrOf(e)] = e.idx}

\* The pieces P lie inside the pages that are not in `left', no two over one
\* byte, and leave no byte of those pages out.
Tiled(P, left) ==
    /\ \A e \in P : e.page \notin left /\ e.off + SizeOf(e.idx) <= PAGE_SIZE
    /\ \A p \in KaPages \ left, x \in Bytes : \E e \in P : Spans(e, p, x)
    /\ \A e \in P, f \in P, p \in KaPages, x \in Bytes :
          Spans(e, p, x) /\ Spans(f, p, x) => e = f

\* Each block handed out has its own address, with a header that says its
\* size; no address with a header is on a free list.
KaHeaders ==
    /\ free_mem \in [Lists -> SUBSET Addresses]
    /\ blocks \subseteq [page : KaPages, off : Bytes, asked : 1..MaxAsk]
    /\ freePages \subseteq KaPages
    /\ kaHeader \in [{AddrOf(b) : b \in blocks} -> Lists]
    /\ \A b \in blocks, c \in blocks : AddrOf(b) = AddrOf(c) => b = c
    /\ \A i \in Lists : free_mem[i] \cap DOMAIN kaHeader = {}

(***************************************************************************)
(* The inductive invariant of kalloc and kfree: the pieces, free or handed  *)
(* out, tile the pages taken, and the headers tell the sizes.               *)
(***************************************************************************)
KaInv == KaHeaders /\ Tiled(Pieces(free_mem, kaHeader), freePages) /\ KaFits
=============================================================================
