------------------------------ MODULE FileTable -----------------------------
(***************************************************************************)
(* The table of open files: fs/file.c (filealloc, filedup, fileclose), the *)
(* descriptors of a process and the system calls on them in                *)
(* kernel/sysfile.c (openat, dup, close, pipe2), pipeAlloc and pipeClose,  *)
(* and the loops over the descriptors in fork and exit (kernel/proc.c).    *)
(*                                                                         *)
(* ftable.lock is a spin lock that does not know its holder, and the last  *)
(* fileclose releases it twice: taking it and what is done under it are    *)
(* separate steps.  A free slot keeps its old writable, pipe and ip        *)
(* fields, as in the code.                                                 *)
(***************************************************************************)
EXTENDS Integers, Sequences, FiniteSets, FiniteSetsExt

CONSTANTS FtProcs,     \* processes
          FtFirst,     \* the one there at the start
          NFILE,       \* slots of ftable
          NOFILE,      \* descriptors of a process
          FtInodes,    \* inodes that openat finds
          FtPipes,     \* pipe objects kalloc may return
          FtNone,      \* a null pointer
          FtMaxCalls   \* system calls together (a bound)

VARIABLES ftable,      \* the slots: [type, ref, writable, pipe, ip]
          ftHeld,      \* ftable.lock is locked
          oftable,     \* per process: descriptor -> slot, or 0
          ft,          \* per process: [pc, f, f1, fds, child, temp]
          pipes,       \* readopen and writeopen of each pipe object
          puts,        \* references to each inode that files hold
          lost,        \* history: slots with a reference nobody has any more
          ftFault,     \* history, see below
          ftCalls      \* system calls so far

ftVars == <<ftable, ftHeld, oftable, ft, pipes, puts, lost, ftFault, ftCalls>>

\* ftFault gathers "stale" once pipe fields of a slot's other use are taken for
\* the present one's, "ip" once a pipe's close has put the inode of an earlier
\* use, "null" when a null pointer is closed or put, and "torn" when the second
\* release of the lock finds another process inside.
Slots == 1..NFILE
Fds == 1..NOFILE

FtIdle == [pc |-> "idle", f |-> 0, f1 |-> 0, fds |-> {}, child |-> FtNone, temp |-> FtNone]

FileTableInit ==
    /\ ftable = [i \in Slots |-> [type |-> "none", ref |-> 0, writable |-> FALSE,
                                  pipe |-> FtNone, ip |-> FtNone]]
    /\ ftHeld = FALSE
    /\ oftable = [p \in FtProcs |-> [d \in Fds |-> 0]]
    /\ ft = [p \in FtProcs |-> IF p = FtFirst THEN FtIdle ELSE [FtIdle EXCEPT !.pc = "unused"]]
    /\ pipes = [x \in FtPipes |-> [r |-> FALSE, w |-> FALSE]]
    /\ puts = [i \in FtInodes |-> 0]
    /\ lost = {} /\ ftFault = {} /\ ftCalls = 0

FtAt(p, l) == ft[p].pc = l
FtGoto(p, l) == ft' = [ft EXCEPT ![p].pc = l]

\* fdalloc: the first free descriptor, or 0 for the code's -1.
FreeFd(o) == IF \E d \in Fds : o[d] = 0 THEN Min({d \in Fds : o[d] = 0}) ELSE 0

FtCall(p) == FtAt(p, "idle") /\ ftCalls < FtMaxCalls /\ ftCalls' = ftCalls + 1

\* _acquire_spinlock(&ftable.lock), the same for every caller: l is the label
\* waited at, in the one inside.
FtAcquire(p, l, in) ==
    /\ FtAt(p, l) /\ ~ftHeld
    /\ ftHeld' = TRUE /\ FtGoto(p, in)
    /\ UNCHANGED <<ftable, oftable, pipes, puts, lost, ftFault, ftCalls>>

\* filealloc, for openat (one slot) and for pipeAlloc (two): the first slot
\* with ref 0, or 0 for NULL, into the local variable named.
filealloc(p, in, field, next) ==
    LET none == {i \in Slots : ftable[i].ref = 0}
        i    == IF none = {} THEN 0 ELSE Min(none)
    IN  /\ FtAt(p, in)
        /\ ft' = [ft EXCEPT ![p] = [@ EXCEPT ![field] = i, !.pc = next]]
        /\ ftable' = IF i = 0 THEN ftable ELSE [ftable EXCEPT ![i].ref = 1]
        /\ ftHeld' = FALSE
        /\ UNCHANGED <<oftable, pipes, puts, lost, ftFault, ftCalls>>

-----------------------------------------------------------------------------
(* openat and pipe2                                                         *)

Open(p) == /\ FtCall(p) /\ FtGoto(p, "open")
           /\ UNCHANGED <<ftable, ftHeld, oftable, pipes, puts, lost, ftFault>>

OpenAlloc(p) == filealloc(p, "open_in", "f", "opened")

\* No slot: -1.  No descriptor: fileclose of a file that is still FD_NONE, an
\* ASSERT that stops the kernel, so the call is made with one free.
OpenDone(p) ==
    LET f == ft[p].f
        d == FreeFd(oftable[p])
    IN  /\ FtAt(p, "opened")
        /\ ft' = [ft EXCEPT ![p] = FtIdle]
        /\ \/ f = 0 /\ UNCHANGED <<ftable, oftable, puts>>
           \/ /\ f # 0 /\ d # 0
              /\ oftable' = [oftable EXCEPT ![p][d] = f]
              /\ \E ip \in FtInodes, wr \in BOOLEAN :
                    /\ ftable' = [ftable EXCEPT ![f] = [@ EXCEPT !.type = "inode", !.ip = ip,
                                                                 !.writable = wr]]
                    /\ puts' = [puts EXCEPT ![ip] = @ + 1]
        /\ UNCHANGED <<ftHeld, pipes, lost, ftFault, ftCalls>>

Pipe2(p) == /\ FtCall(p) /\ FtGoto(p, "pipe")
            /\ UNCHANGED <<ftable, ftHeld, oftable, pipes, puts, lost, ftFault>>

PipeAlloc0(p) == filealloc(p, "pipe_in", "f", "pipe1")
PipeAlloc1(p) == filealloc(p, "pipe1_in", "f1", "piped")

\* The rest of pipeAlloc, and the two fdallocs.  One slot is not enough, and
\* it stays taken.  With one descriptor the read end is closed again and the
\* write end stays taken; with none both do.  Nothing resets the writable
\* flag of the slot that becomes the read end.
PipeDone(p) ==
    LET f0 == ft[p].f
        f1 == ft[p].f1
        d0 == FreeFd(oftable[p])
        o0 == IF d0 = 0 THEN oftable[p] ELSE [oftable[p] EXCEPT ![d0] = f0]
        d1 == FreeFd(o0)
    IN  /\ FtAt(p, "piped")
        /\ IF f0 = 0 \/ f1 = 0
           THEN /\ lost' = lost \cup ({f0, f1} \ {0})
                /\ ft' = [ft EXCEPT ![p] = FtIdle]
                /\ UNCHANGED <<ftable, oftable, pipes, ftFault>>
           ELSE \E x \in {y \in FtPipes : ~pipes[y].r /\ ~pipes[y].w} :
                /\ ftable' = [ftable EXCEPT ![f0] = [@ EXCEPT !.type = "pipe", !.pipe = x],
                                            ![f1] = [@ EXCEPT !.type = "pipe", !.pipe = x,
                                                              !.writable = TRUE]]
                /\ pipes' = [pipes EXCEPT ![x] = [r |-> TRUE, w |-> TRUE]]
                /\ ftFault' = IF ftable[f0].writable THEN ftFault \cup {"stale"} ELSE ftFault
                /\ lost' = lost \cup (IF d0 = 0 THEN {f0, f1} ELSE IF d1 = 0 THEN {f1} ELSE {})
                /\ oftable' = [oftable EXCEPT ![p] =
                                  IF d1 = 0 THEN oftable[p] ELSE [o0 EXCEPT ![d1] = f1]]
                /\ ft' = [ft EXCEPT ![p] = IF d0 # 0 /\ d1 = 0
                                           THEN [FtIdle EXCEPT !.pc = "close", !.f = f0]
                                           ELSE FtIdle]
        /\ UNCHANGED <<ftHeld, puts, ftCalls>>

-----------------------------------------------------------------------------
(* dup and fork: filedup for one descriptor, or for all of the parent's.    *)

Dup(p) ==
    \E e \in {d \in Fds : oftable[p][d] # 0} :
        LET d == FreeFd(oftable[p]) IN
        /\ FtCall(p) /\ d # 0
        /\ oftable' = [oftable EXCEPT ![p][d] = oftable[p][e]]
        /\ ft' = [ft EXCEPT ![p].pc = "dup", ![p].f = oftable[p][e]]
        /\ UNCHANGED <<ftable, ftHeld, pipes, puts, lost, ftFault>>

FtFork(p) ==
    \E c \in {q \in FtProcs : FtAt(q, "unused")} :
        /\ FtCall(p)
        /\ ft' = [ft EXCEPT ![p].pc = "fork", ![p].child = c,
                            ![p].fds = {d \in Fds : oftable[p][d] # 0},
                            ![c].pc = "new"]
        /\ UNCHANGED <<ftable, ftHeld, oftable, pipes, puts, lost, ftFault>>

\* The loop's head: the next descriptor, or the child starts.
ForkLoop(p) ==
    /\ FtAt(p, "fork")
    /\ IF ft[p].fds = {}
       THEN ft' = [ft EXCEPT ![p] = FtIdle, ![ft[p].child] = FtIdle]
       ELSE ft' = [ft EXCEPT ![p].pc = "dup", ![p].f = oftable[p][Min(ft[p].fds)]]
    /\ UNCHANGED <<ftable, ftHeld, oftable, pipes, puts, lost, ftFault, ftCalls>>

DupWith(p, n) ==
    LET c == ft[p].child
        d == Min(ft[p].fds)
    IN  /\ FtAt(p, "dup_in")
        /\ ftable' = [ftable EXCEPT ![ft[p].f].ref = @ + n]
        /\ ftHeld' = FALSE
        /\ IF c = FtNone THEN ft' = [ft EXCEPT ![p] = FtIdle] /\ UNCHANGED oftable
           ELSE /\ ft' = [ft EXCEPT ![p].pc = "fork", ![p].fds = @ \ {d}, ![p].f = 0]
                /\ oftable' = [oftable EXCEPT ![c][d] = ft[p].f]
        /\ UNCHANGED <<pipes, puts, lost, ftFault, ftCalls>>

filedup_NoCount(p) == DupWith(p, 0)
filedup(p) == DupWith(p, 1)

-----------------------------------------------------------------------------
(* close and exit: fileclose for one descriptor, or for each in turn.       *)

\* sys_close tests only the range of the descriptor: for one that is not open
\* fileclose reads through a null pointer.
FtClose(p) ==
    \E d \in Fds :
        /\ FtCall(p)
        /\ oftable' = [oftable EXCEPT ![p][d] = 0]
        /\ ft' = [ft EXCEPT ![p].pc = "close", ![p].f = oftable[p][d]]
        /\ ftFault' = IF oftable[p][d] = 0 THEN ftFault \cup {"null"} ELSE ftFault
        /\ UNCHANGED <<ftable, ftHeld, pipes, puts, lost>>

FtExit(p) ==
    /\ p # FtFirst /\ FtCall(p) /\ FtGoto(p, "exit")
    /\ UNCHANGED <<ftable, ftHeld, oftable, pipes, puts, lost, ftFault>>

ExitLoop(p) ==
    LET open == {d \in Fds : oftable[p][d] # 0} IN
    /\ FtAt(p, "exit")
    /\ ft' = IF open = {} THEN [ft EXCEPT ![p] = [FtIdle EXCEPT !.pc = "unused"]]
             ELSE [ft EXCEPT ![p].pc = "close", ![p].f = oftable[p][Min(open)],
                             ![p].fds = {Min(open)}]
    /\ UNCHANGED <<ftable, ftHeld, oftable, pipes, puts, lost, ftFault, ftCalls>>

\* Back from fileclose: to the caller, or to exit's loop, which clears the
\* descriptor only now.
Closed(p) == IF ft[p].fds = {}
             THEN ft' = [ft EXCEPT ![p] = FtIdle] /\ UNCHANGED oftable
             ELSE /\ ft' = [ft EXCEPT ![p] = [FtIdle EXCEPT !.pc = "exit"]]
                  /\ oftable' = [oftable EXCEPT ![p] = [d \in Fds |->
                                    IF d \in ft[p].fds THEN 0 ELSE @[d]]]

\* Under the lock.  The last reference empties the slot, releases the lock
\* and goes on; any other only releases it.
fileclose(p) ==
    LET f == ft[p].f
        n == ftable[f].ref - 1
    IN  /\ FtAt(p, "close_in")
        /\ ftHeld' = FALSE
        /\ IF n <= 0
           THEN /\ ftable' = [ftable EXCEPT ![f].ref = 0, ![f].type = "none"]
                /\ ft' = [ft EXCEPT ![p].pc = IF ftable[f].type = "pipe" THEN "end" ELSE "put",
                                    ![p].temp = ftable[f]]
                /\ UNCHANGED oftable
           ELSE ftable' = [ftable EXCEPT ![f].ref = n] /\ Closed(p)
        /\ UNCHANGED <<pipes, puts, lost, ftFault, ftCalls>>

\* pipeClose(f->pipe, f->writable): the slot's fields as they are now, the
\* lock released; the pipe object goes with its second end.
EndWith(p, writable) ==
    LET f   == ftable[ft[p].f]
        end == IF writable THEN [pipes[f.pipe] EXCEPT !.w = FALSE]
                            ELSE [pipes[f.pipe] EXCEPT !.r = FALSE]
    IN  /\ FtAt(p, "end")
        /\ pipes' = [pipes EXCEPT ![f.pipe] = end]
        /\ ftFault' = IF f.pipe # ft[p].temp.pipe \/ f.writable # ft[p].temp.writable
                      THEN ftFault \cup {"stale"} ELSE ftFault
        /\ FtGoto(p, "put")
        /\ UNCHANGED <<ftable, ftHeld, oftable, puts, lost, ftCalls>>

FtPipeClose_Reads(p) == EndWith(p, FALSE)
FtPipeClose(p) == EndWith(p, ftable[ft[p].f].writable)

\* inodes.put(&ctx, temp.ip), also for a pipe, whose slot has no inode or still
\* the one of an earlier use, which then loses a reference of another file.
FtPut(p) ==
    LET ip   == ft[p].temp.ip
        pipe == ft[p].temp.type = "pipe"
    IN  /\ FtAt(p, "put")
        /\ puts' = IF ip = FtNone THEN puts ELSE [puts EXCEPT ![ip] = @ - 1]
        /\ ftFault' = IF pipe THEN ftFault \cup {IF ip = FtNone THEN "null" ELSE "ip"}
                      ELSE ftFault
        /\ FtGoto(p, "unlock")
        /\ UNCHANGED <<ftable, ftHeld, oftable, pipes, lost, ftCalls>>

\* The release at the end of fileclose, a second one after the last close.
FtUnlock(p) ==
    /\ FtAt(p, "unlock")
    /\ ftFault' = IF ftHeld THEN ftFault \cup {"torn"} ELSE ftFault
    /\ ftHeld' = FALSE
    /\ Closed(p)
    /\ UNCHANGED <<ftable, pipes, puts, lost, ftCalls>>

\* What happens after the null pointer, and once the lock has been taken
\* from its holder, is not followed.
FileTableNext ==
    /\ ftFault \cap {"null", "torn"} = {}
    /\ \E p \in FtProcs :
          \/ Open(p) \/ FtAcquire(p, "open", "open_in") \/ OpenAlloc(p) \/ OpenDone(p)
          \/ Pipe2(p) \/ FtAcquire(p, "pipe", "pipe_in") \/ PipeAlloc0(p)
          \/ FtAcquire(p, "pipe1", "pipe1_in") \/ PipeAlloc1(p) \/ PipeDone(p)
          \/ Dup(p) \/ FtFork(p) \/ ForkLoop(p) \/ FtAcquire(p, "dup", "dup_in") \/ filedup(p)
          \/ FtClose(p) \/ FtExit(p) \/ ExitLoop(p) \/ FtAcquire(p, "close", "close_in")
          \/ fileclose(p) \/ FtPipeClose(p) \/ FtPut(p) \/ FtUnlock(p)

-----------------------------------------------------------------------------
(* Properties                                                               *)

Inside(p) == ft[p].pc \in {"open_in", "pipe_in", "pipe1_in", "dup_in", "close_in"}

\* References to slot i that a call in progress has in hand, and the ones a
\* descriptor has without their being counted yet or any more.
Hand(p, i) ==
    (IF ft[p].pc \in {"opened", "pipe1", "pipe1_in", "piped", "close", "close_in"} /\ ft[p].f = i
        THEN 1 ELSE 0)
    + (IF ft[p].pc = "piped" /\ ft[p].f1 = i THEN 1 ELSE 0)
Uncounted(p, i) ==
    LET shown == ft[p].pc \in {"close", "close_in", "end", "put", "unlock"} /\ ft[p].fds # {}
        early == ft[p].pc \in {"dup", "dup_in"} /\ ft[p].child = FtNone
    IN  IF (shown \/ early) /\ ft[p].f = i THEN 1 ELSE 0

Count(i) == FoldSet(LAMBDA p, n : n + Cardinality({d \in Fds : oftable[p][d] = i})
                                    + Hand(p, i) - Uncounted(p, i), 0, FtProcs)

(***************************************************************************)
(* The types; and a slot is FD_NONE exactly when it has no reference,      *)
(* except between filealloc and the caller's filling it in, so that the    *)
(* ASSERT at the start of fileclose holds.                                 *)
(***************************************************************************)
FtTypeOK ==
    /\ \A i \in Slots : /\ ftable[i].type \in {"none", "pipe", "inode"}
                        /\ ftable[i].ref \in Nat
                        /\ ftable[i].writable \in BOOLEAN
                        /\ ftable[i].pipe \in FtPipes \cup {FtNone}
                        /\ ftable[i].ip \in FtInodes \cup {FtNone}
                        /\ ftable[i].ref = 0 => ftable[i].type = "none"
    /\ oftable \in [FtProcs -> [Fds -> 0..NFILE]]
    /\ ftFault \subseteq {"stale", "ip", "null", "torn"}
    /\ "null" \notin ftFault => \A p \in FtProcs : FtAt(p, "close") => ftable[ft[p].f].type # "none"
    /\ "torn" \in ftFault \/ Cardinality({p \in FtProcs : Inside(p)}) = (IF ftHeld THEN 1 ELSE 0)

(***************************************************************************)
(* A slot's ref is the number of descriptors of all processes that name it *)
(* and of calls in between, through dup, fork, close and exit at once: no  *)
(* file is closed under a descriptor, and none stays open but those that   *)
(* pipe2 gives up half way.                                                *)
(***************************************************************************)
FtRefs == "torn" \notin ftFault => \A i \in Slots \ lost : ftable[i].ref = Count(i)

(***************************************************************************)
(* Every inode has one reference per open file on it, from openat to the   *)
(* put of the last fileclose, until a pipe's close has put an inode that   *)
(* its slot had before (file.c:66).                                        *)
(***************************************************************************)
FtInodeRefs ==
    ftFault \cap {"ip", "torn"} = {} => \A x \in FtInodes :
        puts[x] = Cardinality({i \in Slots : ftable[i].type = "inode" /\ ftable[i].ip = x})
                  + Cardinality({p \in FtProcs : /\ FtAt(p, "put")
                                                 /\ ft[p].temp.type = "inode"
                                                 /\ ft[p].temp.ip = x})

(***************************************************************************)
(* A pipe counts as open at an end exactly while a file has that end or is *)
(* being closed, as long as no field of another use of a slot has been     *)
(* taken for the pipe's: the writable flag that a read end inherits, the   *)
(* slot that changes hands before pipeClose.                               *)
(***************************************************************************)
FtPipeEnds ==
    ftFault \cap {"stale", "torn"} = {} => \A x \in FtPipes :
        LET Has(w) == \/ \E i \in Slots : ftable[i].type = "pipe" /\ ftable[i].pipe = x
                                          /\ ftable[i].writable = w
                      \/ \E p \in FtProcs : FtAt(p, "end") /\ ft[p].temp.pipe = x
                                            /\ ft[p].temp.writable = w
        IN  pipes[x] = [r |-> Has(FALSE), w |-> Has(TRUE)]

\* The counts of file.c are right in every interleaving of open, pipe2, dup, fork,
\* close and exit: ref is the number of descriptors, and ftable.lock has one holder,
\* until its second release takes it from another; an inode has a reference per
\* file, until a pipe's close puts one too many.
FtCounts == FtTypeOK /\ FtRefs /\ FtInodeRefs
=============================================================================
