------------------------------- MODULE Paging -------------------------------
(***************************************************************************)
(* User memory: kernel/mem.c (pages and their reference counts),           *)
(* kernel/pt.c (page tables), kernel/paging.c (sections, page faults,      *)
(* sbrk), and what fork (proc.c), execve (exec.c), exit and wait do to the *)
(* memory of a process.                                                    *)
(*                                                                         *)
(* Addresses count HALF pages, so that a section may end inside a page as  *)
(* the ones execve makes do.  A frame is a natural number: NoFrame, the    *)
(* page of the kernel image that holds icode, the zero page, and the rest. *)
(* Which free frame the allocator returns makes no difference to anything  *)
(* here, so it is the least one.  The frames of page tables and kernel     *)
(* stacks have no reference counts worth following: they are counted.      *)
(* ST_SWAP is set by swapout alone, which only test/pagingtest.c calls, so *)
(* the branches that test it are left out.                                 *)
(*                                                                         *)
(* The program execve loads has a page of text, a data segment of one page *)
(* of bss and a stack (one page here, ten in the code): pages 0, 1 and 2.  *)
(***************************************************************************)
EXTENDS Integers, Sequences, FiniteSets, SequencesExt

CONSTANTS PgProcs,     \* slots for processes
          PgFirst,     \* the one that kernel_entry turns into the first user process
          PgFrames,    \* frames besides the image's and the zero page (a bound)
          PgTop,       \* pages of the user address space (a bound on sbrk)
          PgMaxCalls   \* system calls of all processes together (a bound)

VARIABLES as,          \* per process: its struct pgdir and what hangs from it
          mem,         \* pages_ref, the free pages, _left_page_cnt, and the bytes
          pgState,     \* "unused", "live" or "zombie"
          pgLapse,     \* history: sbrk made sections overlap, or freed the wrong page
          pgCalls      \* system calls so far

pgVars == <<as, mem, pgState, pgLapse, pgCalls>>

NoFrame == 0
Image == 1
ZeroPage == 2
FrameIds == Image..(PgFrames + 2)
VAs == 0..(PgTop - 1)

\* Pages for tables and kernel stacks: never the ones that run out here.
KernelPages == 5 * Cardinality(PgProcs) + 4

\* What a page holds: zeros, bytes of the program file, bytes the process
\* wrote, or whatever was there before.
PgBytes == {"zero", "file", "written", "junk"}

NoPte == [frame |-> NoFrame, ro |-> FALSE]

\* init_pgdir: the root table alone, no section.  view is a history
\* variable: the bytes the process should find at each page.
FreshAs == [pte |-> [v \in VAs |-> NoPte], sects |-> <<>>, tables |-> 1,
            view |-> [v \in VAs |-> "junk"]]

NoAs == [FreshAs EXCEPT !.tables = 0]

-----------------------------------------------------------------------------
(* mem.c.  The operators take and return the value of mem.                  *)

kalloc_page(m) == [m EXCEPT !.free = @ \ {Min(@)}, !.ref[Min(m.free)] = 0, !.left = @ - 1]

\* A page leaves the count of references before it joins the queue of free
\* pages; a page of the kernel image is left alone.
kfree_page(m, f) ==
    IF f = Image THEN m
    ELSE LET n == m.ref[f] - 1 IN
         IF n <= 0 THEN [m EXCEPT !.ref[f] = n, !.free = @ \cup {f}, !.left = @ + 1,
                                  !.data[f] = "junk"]
                   ELSE [m EXCEPT !.ref[f] = n]

\* kernel_entry: the first process maps the page of icode, read-only, in a
\* text section that ends inside the page.
PagingInit ==
    /\ as = [p \in PgProcs |->
                IF p # PgFirst THEN NoAs
                ELSE [FreshAs EXCEPT !.pte[0] = [frame |-> Image, ro |-> TRUE],
                                     !.sects = <<[begin |-> 0, end |-> 1]>>,
                                     !.tables = 4, !.view[0] = "file"]]
    /\ mem = [ref |-> [f \in FrameIds |-> IF f \in {Image, ZeroPage} THEN 1 ELSE 0],
              free |-> FrameIds \ {Image, ZeroPage},
              left |-> PgFrames + KernelPages - 5,
              data |-> [f \in FrameIds |-> IF f = Image THEN "file"
                                           ELSE IF f = ZeroPage THEN "zero" ELSE "junk"]]
    /\ pgState = [p \in PgProcs |-> IF p = PgFirst THEN "live" ELSE "unused"]
    /\ pgLapse = FALSE
    /\ pgCalls = 0

-----------------------------------------------------------------------------
(* pt.c.  A step on one address space and the memory together is a record  *)
(* [a, m].                                                                  *)

\* The three lower levels of the table come with the first entry.
get_pte(w) == [w EXCEPT !.a.tables = 4, !.m.left = @ - (4 - w.a.tables)]

\* init_pgdir, for a process that execve or fork makes.
init_pgdir == [a |-> FreshAs, m |-> [mem EXCEPT !.left = @ - 1]]

vmmap(w, v, f, ro) ==
    [get_pte(w) EXCEPT !.a.pte[v] = [frame |-> f, ro |-> ro], !.m.ref[f] = @ + 1]

PagesOf(st) == {v \in VAs : 2 * v >= st.begin - (st.begin % 2) /\ 2 * v < st.end}

Covered(a) == UNION {PagesOf(a.sects[i]) : i \in DOMAIN a.sects}

Mapped(a, v) == a.pte[v].frame # NoFrame

\* free_sections frees what each section maps, section by section, and
\* leaves the entries as they are; the tables go afterwards.
free_pgdir(w) ==
    LET Release(m, st) ==
            FoldSet(LAMBDA v, acc : kfree_page(acc, w.a.pte[v].frame), m,
                    {v \in PagesOf(st) : Mapped(w.a, v)})
    IN  IF w.a.tables = 0 THEN w
        ELSE [a |-> NoAs, m |-> [FoldLeft(Release, w.m, w.a.sects) EXCEPT !.left = @ + w.a.tables]]

Overlap(a) == \E i, j \in DOMAIN a.sects :
                  i # j /\ PagesOf(a.sects[i]) \cap PagesOf(a.sects[j]) # {}

\* The code never tests what kalloc_page returns: n frames are left (a bound).
Enough(n) == Cardinality(mem.free) >= n

World(p) == [a |-> as[p], m |-> mem]
Commit(p, w) == as' = [as EXCEPT ![p] = w.a] /\ mem' = w.m

-----------------------------------------------------------------------------
(* The user's own accesses, and the page fault they may run into.           *)

UserWrite(p, v) ==
    /\ pgState[p] = "live" /\ Mapped(as[p], v) /\ ~as[p].pte[v].ro
    /\ as' = [as EXCEPT ![p].view[v] = "written"]
    /\ mem' = [mem EXCEPT !.data[as[p].pte[v].frame] = "written"]
    /\ UNCHANGED <<pgState, pgLapse>>

\* alloc_page_for_user, then either the lazy allocation (the page keeps what
\* it held) or the copy of a read-only page.
NewPage(w, v, bytes) ==
    LET f == Min(w.m.free)
    IN  vmmap([w EXCEPT !.m = [kalloc_page(@) EXCEPT !.data[f] = bytes],
                        !.a.view[v] = bytes],
              v, f, FALSE)

\* pgfault: ASSERTs that a section covers the address.  copied is what the
\* memcpy of a copy on write leaves in the new page.
FaultWith(p, v, copied) ==
    LET pte == as[p].pte[v]
        w   == get_pte(World(p))
        new == NewPage(w, v, copied)
    IN  /\ pgState[p] = "live" /\ v \in Covered(as[p])
        /\ Enough(1)
        /\ \/ pte.frame = NoFrame /\ Commit(p, NewPage(w, v, "junk"))
           \/ pte.ro /\ Commit(p, [new EXCEPT !.m = kfree_page(@, pte.frame),
                                              !.a.view[v] = mem.data[pte.frame]])
        /\ UNCHANGED <<pgState, pgLapse>>

Behind(p, v) == IF Mapped(as[p], v) THEN mem.data[as[p].pte[v].frame] ELSE "junk"

pgfault_NoCopy(p, v) == FaultWith(p, v, "junk")
pgfault(p, v) == FaultWith(p, v, Behind(p, v))

\* sbrk moves the end of the section flagged ST_HEAP and, as no process has
\* one, of the last section of the list; n is in pages.  A smaller section
\* gives back the pages from its new end on.
sbrk(p, n) ==
    LET k    == Len(as[p].sects)
        st   == as[p].sects[k]
        end  == st.end + 2 * n
        a    == [as[p] EXCEPT !.sects[k].end = end]
        gone == {v \in VAs : \E i \in 0..(-n - 1) : v = (end + 2 * i) \div 2}
        hit  == {v \in gone : Mapped(a, v)}
    IN  /\ pgState[p] = "live"
        /\ end >= st.begin /\ end <= 2 * PgTop
        /\ as' = [as EXCEPT ![p] =
                     [a EXCEPT !.pte = [v \in VAs |-> IF v \in hit THEN NoPte ELSE @[v]],
                               !.view = [v \in VAs |-> IF v \in hit THEN "junk" ELSE @[v]]]]
        /\ mem' = FoldSet(LAMBDA v, m : kfree_page(m, a.pte[v].frame), mem, hit)
        /\ pgLapse' = (pgLapse \/ Overlap(a) \/ (n < 0 /\ end % 2 # 0))
        /\ UNCHANGED pgState

-----------------------------------------------------------------------------
(* fork, execve, exit and wait.                                             *)

\* fork maps every page of the parent's sections in the child with PTE_RO
\* added, section by section, and leaves the parent's entries as they are.
\* copy_sections inserts each copy at the head, which turns the list round.
\* create_proc takes a page for the kernel stack and one for the root table.
ForkWith(p, c, counts) ==
    LET Map(w, st) ==
            FoldSet(LAMBDA v, acc : IF counts
                        THEN vmmap(acc, v, as[p].pte[v].frame, TRUE)
                        ELSE [get_pte(acc) EXCEPT !.a.pte[v] =
                                 [frame |-> as[p].pte[v].frame, ro |-> TRUE]],
                    w, {v \in PagesOf(st) : Mapped(as[p], v)})
        w == FoldLeft(Map, init_pgdir, as[p].sects)
    IN  /\ pgState[p] = "live" /\ pgState[c] = "unused"
        /\ Commit(c, [w EXCEPT !.a.sects = Reverse(as[p].sects), !.a.view = as[p].view,
                               !.m.left = @ - 1])
        /\ pgState' = [pgState EXCEPT ![c] = "live"]
        /\ UNCHANGED pgLapse

fork_NotCounted(p, c) == ForkWith(p, c, FALSE)
fork(p, c) == ForkWith(p, c, TRUE)

\* What execve maps, in order, and the sections it inserts on the way.
Text(w) == LET n == NewPage(w, 0, "file")
           IN  [n EXCEPT !.a.pte[0].ro = TRUE,
                         !.a.sects = <<[begin |-> 0, end |-> 1]>> \o @]
Bss(w) == LET n == vmmap(w, 1, ZeroPage, TRUE)
          IN  [n EXCEPT !.a.view[1] = "zero",
                        !.a.sects = <<[begin |-> 2, end |-> 3]>> \o @]
Stack(w) == LET n == NewPage(w, 2, "file")
            IN  [n EXCEPT !.a.sects = <<[begin |-> 4, end |-> 6]>> \o @]

\* The old memory goes only after the new one is complete, so that the two
\* exist together for a while.
execve(p) ==
    LET new == Stack(Bss(Text(init_pgdir)))
        old == free_pgdir([a |-> as[p], m |-> new.m])
    IN  /\ pgState[p] = "live" /\ Enough(2)
        /\ Commit(p, [new EXCEPT !.m = old.m])
        /\ UNCHANGED <<pgState, pgLapse>>

\* A header or a page that cannot be read, or a segment with other flags,
\* after n segments: what was made is given back.
execve_fails(p, n) ==
    LET made == CASE n = 0 -> init_pgdir [] n = 1 -> Text(init_pgdir) [] n = 2 -> Bss(Text(init_pgdir))
    IN  /\ pgState[p] = "live" /\ Enough(1)
        /\ mem' = free_pgdir(made).m
        /\ UNCHANGED <<as, pgState, pgLapse>>

\* The memory of a process outlives its exit: wait frees it.
PgExit(p) == /\ pgState[p] = "live" /\ p # PgFirst
             /\ pgState' = [pgState EXCEPT ![p] = "zombie"]
             /\ UNCHANGED <<as, mem, pgLapse>>

PgReap(p) == /\ pgState[p] = "zombie"
             /\ Commit(p, [free_pgdir(World(p)) EXCEPT !.m.left = @ + 1])
             /\ pgState' = [pgState EXCEPT ![p] = "unused"]
             /\ UNCHANGED pgLapse

\* icode does nothing but execve.
PgLoaded(p) == as[p].pte[0].frame # Image

PgCall(p) == \/ PgLoaded(p) /\ (sbrk(p, 1) \/ sbrk(p, -1))
             \/ PgLoaded(p) /\ \E c \in PgProcs : fork(p, c)
             \/ execve(p)
             \/ \E n \in 0..2 : execve_fails(p, n)
             \/ PgExit(p)

\* What happens after a lapse is not followed.
PagingNext ==
    /\ ~pgLapse
    /\ \E p \in PgProcs :
          \/ (\E v \in VAs : UserWrite(p, v) \/ pgfault(p, v)) /\ PgLoaded(p) /\ UNCHANGED pgCalls
          \/ PgCall(p) /\ pgCalls < PgMaxCalls /\ pgCalls' = pgCalls + 1
          \/ PgReap(p) /\ UNCHANGED pgCalls

-----------------------------------------------------------------------------
(* Properties                                                               *)

(***************************************************************************)
(* The pages, their counts and the address spaces have their types, and    *)
(* every page a process has mapped lies in one of its sections.            *)
(***************************************************************************)
PgTypeOK ==
    /\ as \in [PgProcs -> [pte : [VAs -> [frame : FrameIds \cup {NoFrame}, ro : BOOLEAN]],
                            sects : Seq([begin : Nat, end : Nat]),
                            tables : 0..4, view : [VAs -> PgBytes]]]
    /\ mem \in [ref : [FrameIds -> Int], free : SUBSET FrameIds, left : Nat,
                data : [FrameIds -> PgBytes]]
    /\ pgState \in [PgProcs -> {"unused", "live", "zombie"}]
    /\ pgLapse \in BOOLEAN /\ pgCalls \in 0..PgMaxCalls
    /\ ~pgLapse => \A p \in PgProcs, v \in VAs : Mapped(as[p], v) => v \in Covered(as[p])

Mappings(f) == {<<p, v>> \in PgProcs \X VAs : as[p].pte[v].frame = f}

(***************************************************************************)
(* pages_ref counts the entries that map a page, one more for the zero     *)
(* page, and a page is in the free queue exactly when nothing maps it:     *)
(* through fork, copy on write, sbrk, execve (also one that fails half     *)
(* way), exit and wait no page is freed under a process or lost.           *)
(***************************************************************************)
PgRefs ==
    ~pgLapse => \A f \in FrameIds \ {Image} :
        /\ f \in mem.free <=> (f # ZeroPage /\ Mappings(f) = {})
        /\ f \notin mem.free =>
              mem.ref[f] = Cardinality(Mappings(f)) + (IF f = ZeroPage THEN 1 ELSE 0)

(***************************************************************************)
(* left_page_cnt (which the pstat system call reports) is the number of    *)
(* pages in the free queue: all but the mapped ones, the page tables and   *)
(* the kernel stacks of processes not yet waited for.                      *)
(***************************************************************************)
PgLeftCount ==
    LET Taken(p) == as[p].tables + (IF pgState[p] = "unused" THEN 0 ELSE 1)
    IN  ~pgLapse => mem.left = Cardinality(mem.free) + KernelPages
                               - FoldSet(LAMBDA p, n : n + Taken(p), 0, PgProcs)

(***************************************************************************)
(* A page is writable through one entry at most, and the zero page and the *)
(* kernel's own page through none: what PTE_RO in the child of fork and on *)
(* bss is for.                                                             *)
(***************************************************************************)
PgOneWriter ==
    \A f \in FrameIds :
        LET W == {m \in Mappings(f) : ~as[m[1]].pte[m[2]].ro}
        IN  ~pgLapse => Cardinality(W) <= (IF f \in {Image, ZeroPage} THEN 0 ELSE 1)

(***************************************************************************)
(* What a process may write it sees as it wrote it: no fault, fork or exit *)
(* of another process changes the bytes behind a writable entry, and the   *)
(* copy made on a write has the bytes of the original.                     *)
(***************************************************************************)
PgOwnView ==
    ~pgLapse => \A p \in PgProcs, v \in VAs :
        (pgState[p] = "live" /\ Mapped(as[p], v)
            /\ (~as[p].pte[v].ro \/ as[p].pte[v].frame \in {Image, ZeroPage}))
        => mem.data[as[p].pte[v].frame] = as[p].view[v]

(***************************************************************************)
(* What proc.c says of fork, "Create a new process copying p as the        *)
(* parent": a process sees its own copy of memory, the parent's as it was  *)
(* at the fork, until it writes to it itself.                              *)
(***************************************************************************)
PgForkCopies ==
    ~pgLapse => \A p \in PgProcs, v \in VAs :
        pgState[p] = "live" /\ Mapped(as[p], v)
        => mem.data[as[p].pte[v].frame] = as[p].view[v]

\* The counts of mem.c are right: pages_ref is the number of mappings, a page is
\* free exactly when it has none, and left_page_cnt is the number of free pages.
PgCounts == PgTypeOK /\ PgRefs /\ PgLeftCount

\* What one process writes to the pages it may write, no other process changes or
\* can write too (copy on write in fork and pgfault).
PgIsolated == PgOneWriter /\ PgOwnView
=============================================================================
