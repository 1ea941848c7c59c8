------------------------------ MODULE Console ------------------------------
(***************************************************************************)
(* kernel/console.c: the line buffer between the serial interrupt and the  *)
(* readers of the console.  input.buf is a ring; r, w and e are the        *)
(* positions last read, last committed and last edited.  An interrupt      *)
(* edits and commits; a reader that finds r = w sleeps on can_read_sem,    *)
(* which every commit posts once.                                          *)
(*                                                                         *)
(* The code takes two steps whose outcome is not what the ring stands for: *)
(* a reader that has slept goes on without testing r = w again, and the    *)
(* r-- that saves ^D makes r 2^64-1 when r is 0 (here -1), which hides a   *)
(* full ring from the interrupt.  lapse records that one of them has done  *)
(* harm; nothing is typed after it.                                        *)
(*                                                                         *)
(* console_read calls _wait_sem without _lock_sem: from its --val to its   *)
(* release of a lock it does not hold, a post or another wait may run.     *)
(* semRace records that one has; what the semaphore does from then on is   *)
(* left open: a wait may sleep or not, and a sleep may end at any time.    *)
(***************************************************************************)
EXTENDS Integers, Sequences, FiniteSets

CONSTANTS ConReaders, INPUT_BUF,
          ConMaxN,      \* longest read asked for
          ConMaxTyped   \* characters stored in the ring (a bound of the model)

ASSUME ConAssumption == /\ IsFiniteSet(ConReaders) /\ INPUT_BUF \in Nat \ {0}
                        /\ ConMaxN \in Nat /\ ConMaxTyped \in Nat

VARIABLES input,     \* buf, r, w, e
          canRead,   \* posts of can_read_sem that no wait has used
          semRace,   \* see above
          conLock,   \* holders of input.lock (the interrupt holds it within one step)
          ipLock,    \* value of the sleep lock of the console's inode
          conPc, conN, conGot,  \* reader -> step, n, characters in dst
          committed, \* the characters committed and not yet read
          lapse,     \* see above
          leaked,    \* a killed reader has returned
          typed

conVars == <<input, canRead, semRace, conLock, ipLock, conPc, conN, conGot, committed,
             lapse, leaked, typed>>

ConChars == {"x", "nl", "eof"}

ConsoleInit ==
    /\ input = [buf |-> [i \in 0 .. INPUT_BUF - 1 |-> "nul"], r |-> 0, w |-> 0, e |-> 0]
    /\ canRead = 0 /\ semRace = FALSE /\ conLock = {} /\ ipLock = 1
    /\ conPc = [p \in ConReaders |-> "out"]
    /\ conN = [p \in ConReaders |-> 0]
    /\ conGot = [p \in ConReaders |-> 0]
    /\ committed = <<>> /\ lapse = FALSE /\ leaked = FALSE /\ typed = 0

ConAt(l) == {p \in ConReaders : conPc[p] = l}

\* A use of can_read_sem while a reader is in it without its lock.
UseSem == semRace' = (semRace \/ ConAt("inside") # {})

Succ(i) == (i + 1) % INPUT_BUF
Pred(i) == (i - 1) % INPUT_BUF      \* the wrap of usize is a multiple of INPUT_BUF

-----------------------------------------------------------------------------
(* console_intr, one character at a time.                                  *)

\* What the ring holds between w and e, in order.
Edited(in) ==
    LET n == (in.e - in.w) % INPUT_BUF
    IN  [i \in 1 .. n |-> in.buf[(in.w + i) % INPUT_BUF]]

Unread == [i \in 1 .. Len(committed) |-> input.buf[(input.r + i) % INPUT_BUF]]

EraseWith(stop) ==
    /\ conLock = {} /\ ~lapse /\ ~stop
    /\ input' = [input EXCEPT !.e = Pred(@)]
    /\ UNCHANGED <<canRead, semRace, conLock, ipLock, conPc, conN, conGot, committed, lapse,
                   leaked, typed>>

\* Mutant: what is already committed can be erased.
Backspace_Committed == EraseWith(FALSE)

Backspace == EraseWith(input.e = input.w)

\* Ctrl+U erases back to w, or to a newline in front of the last character.
KillLine ==
    /\ conLock = {} /\ ~lapse
    /\ LET len   == (input.e - input.w) % INPUT_BUF
           After(k) == (input.e - k) % INPUT_BUF
           stops == {k \in 0 .. len : k = len \/ input.buf[Pred(After(k))] = "nl"}
       IN  input' = [input EXCEPT !.e = After(CHOOSE k \in stops : \A j \in stops : k <= j)]
    /\ UNCHANGED <<canRead, semRace, conLock, ipLock, conPc, conN, conGot, committed, lapse,
                   leaked, typed>>

Full == Succ(input.e) = input.r
\* The ring is full in fact although r is one below zero.
HiddenFull == input.r = -1 /\ Succ(input.e) = INPUT_BUF - 1

\* An ordinary character, newline or ^D.
Type(c) ==
    /\ conLock = {} /\ ~lapse /\ typed < ConMaxTyped
    /\ ~Full
    /\ LET in1 == [input EXCEPT !.e = Succ(@), !.buf[Succ(input.e)] = c]
       IN  IF c # "x" \/ Succ(in1.e) = input.r
           THEN /\ input' = [in1 EXCEPT !.w = in1.e]
                /\ committed' = committed \o Edited(in1)
                /\ canRead' = canRead + 1 /\ UseSem
           ELSE input' = in1 /\ UNCHANGED <<committed, canRead, semRace>>
    /\ typed' = typed + 1
    /\ lapse' = (lapse \/ HiddenFull)
    /\ UNCHANGED <<conLock, ipLock, conPc, conN, conGot, leaked>>

-----------------------------------------------------------------------------
(* fileread and filewrite hold the inode's lock around console_read and    *)
(* console_write, which give it up meanwhile.  A write takes input.lock,    *)
(* sends its characters and changes nothing here: it is a read of none.    *)

ConCall(p, n) ==
    /\ conPc[p] = "out" /\ ipLock > 0 /\ ~lapse
    /\ conPc' = [conPc EXCEPT ![p] = "lock"]
    /\ conN' = [conN EXCEPT ![p] = n] /\ conGot' = [conGot EXCEPT ![p] = 0]
    /\ UNCHANGED <<input, canRead, semRace, conLock, ipLock, committed, lapse, leaked, typed>>

\* One character; ^D ends the read and is kept for the next one when something
\* was read before it; a newline ends the read.
ConTake(p) ==
    LET r    == Succ(input.r)
        c    == input.buf[r]
        keep == c = "eof" /\ conGot[p] > 0
        ends == c \in {"eof", "nl"}
    IN  /\ input' = [input EXCEPT !.r = IF keep THEN r - 1 ELSE r]
        /\ committed' = IF keep \/ committed = <<>> THEN committed ELSE Tail(committed)
        /\ conN' = [conN EXCEPT ![p] = IF c = "eof" THEN @ ELSE @ - 1]
        /\ conGot' = [conGot EXCEPT ![p] = IF c = "eof" THEN @ ELSE @ + 1]
        /\ conPc' = [conPc EXCEPT ![p] = IF ends THEN "relock" ELSE "hold"]
        /\ conLock' = IF ends THEN {} ELSE {p}
        /\ lapse' = (lapse \/ input.r = input.w)

ConLeave(p, next) ==
    /\ conPc' = [conPc EXCEPT ![p] = next] /\ conLock' = {}
    /\ UNCHANGED <<input, committed, conN, conGot, lapse>>

\* input.lock is taken ("lock") or held ("hold"): the tests of n and of r == w.
LoopWith(p, next) ==
    /\ \/ conPc[p] = "lock" /\ conLock = {}
       \/ conPc[p] = "hold"
    /\ \/ conN[p] = 0 /\ ConLeave(p, next)
       \/ conN[p] > 0 /\ input.r = input.w /\ ConLeave(p, "wait")
       \/ conN[p] > 0 /\ input.r # input.w /\ ConTake(p)
    /\ UNCHANGED <<canRead, semRace, ipLock, leaked, typed>>

\* Mutant: console_read returns without the inode's lock.
ConLoop_NoRelock(p) == LoopWith(p, "unlock")

ConLoop(p) == LoopWith(p, "relock")

\* _wait_sem begins, without its lock.
ConWaitIn(p) ==
    /\ conPc[p] = "wait"
    /\ conPc' = [conPc EXCEPT ![p] = "inside"] /\ UseSem
    /\ UNCHANGED <<input, canRead, conLock, ipLock, conN, conGot, committed, lapse, leaked, typed>>

ConUp(p) ==
    /\ conPc' = [conPc EXCEPT ![p] = "again"]
    /\ canRead' = IF semRace THEN canRead ELSE canRead - 1

\* val, the posts not used less the sleepers, was positive, or the reader sleeps.
ConWaitDown(p) ==
    /\ conPc[p] = "inside"
    /\ \/ (semRace \/ canRead > Cardinality(ConAt("asleep"))) /\ ConUp(p)
       \/ /\ semRace \/ canRead <= Cardinality(ConAt("asleep"))
          /\ conPc' = [conPc EXCEPT ![p] = "asleep"] /\ UNCHANGED canRead
    /\ UNCHANGED <<input, semRace, conLock, ipLock, conN, conGot, committed, lapse, leaked, typed>>

\* _wait_sem returns true after a post (which sleeper it wakes is left open).
ConWake(p) ==
    /\ conPc[p] = "asleep" /\ (semRace \/ canRead > 0)
    /\ ConUp(p) /\ UseSem
    /\ UNCHANGED <<input, conLock, ipLock, conN, conGot, committed, lapse, leaked, typed>>

\* input.lock is taken again; r == w is not tested again.
ConAgain(p) ==
    /\ conPc[p] = "again" /\ conLock = {} /\ ConTake(p)
    /\ UNCHANGED <<canRead, semRace, ipLock, leaked, typed>>

\* kill (^C of console_intr among others) wakes a sleeper that no post has: it
\* returns -1 from the wait, without the inode's lock; fileread unlocks it all the same.
ConKilled(p) ==
    /\ conPc[p] = "asleep" /\ (semRace \/ canRead < Cardinality(ConAt("asleep")))
    /\ conPc' = [conPc EXCEPT ![p] = "dead"] /\ UseSem
    /\ leaked' = TRUE /\ ipLock' = ipLock + 1
    /\ UNCHANGED <<input, canRead, conLock, conN, conGot, committed, lapse, typed>>

ConRelock(p) ==
    /\ conPc[p] = "relock" /\ ipLock > 0
    /\ ipLock' = ipLock - 1 /\ conPc' = [conPc EXCEPT ![p] = "unlock"]
    /\ UNCHANGED <<input, canRead, semRace, conLock, conN, conGot, committed, lapse, leaked, typed>>

\* Back in fileread: inodes.unlock.
ConReturn(p) ==
    /\ conPc[p] = "unlock"
    /\ ipLock' = ipLock + 1 /\ conPc' = [conPc EXCEPT ![p] = "out"]
    /\ UNCHANGED <<input, canRead, semRace, conLock, conN, conGot, committed, lapse, leaked, typed>>

ConReader(p) ==
    \/ ConLoop(p) \/ ConWaitIn(p) \/ ConWaitDown(p) \/ ConWake(p) \/ ConAgain(p)
    \/ ConKilled(p) \/ ConRelock(p) \/ ConReturn(p)

ConsoleNext ==
    \/ Backspace \/ KillLine \/ \E c \in ConChars : Type(c)
    \/ \E p \in ConReaders : ConReader(p) \/ \E n \in 0 .. ConMaxN : ConCall(p, n)

ConsoleSpec == ConsoleInit /\ [][ConsoleNext]_conVars

-----------------------------------------------------------------------------
ConTypeOK ==
    /\ input.buf \in [0 .. INPUT_BUF - 1 -> ConChars \cup {"nul"}]
    /\ input.r \in -1 .. INPUT_BUF - 1
    /\ input.w \in 0 .. INPUT_BUF - 1 /\ input.e \in 0 .. INPUT_BUF - 1
    /\ canRead \in 0 .. ConMaxTyped /\ ipLock \in 0 .. 1 + 2 * Cardinality(ConReaders)
    /\ conLock \subseteq ConReaders /\ Cardinality(conLock) <= 1
    /\ committed \in Seq(ConChars)
    /\ conN \in [ConReaders -> 0 .. ConMaxN]

\* The ring holds, behind r, exactly the characters committed and not yet read,
\* in the order typed: editing never touches what is committed, typing never
\* runs over what is unread, and a read returns the next characters.
ConRing ==
    ~lapse => /\ Unread = committed
              /\ (input.w - input.r) % INPUT_BUF = Len(committed) % INPUT_BUF
              /\ Len(committed \o Edited(input)) < INPUT_BUF

\* Until a killed reader has returned, the inode's lock has one holder at most
\* although console_read and console_write give it up and take it again.
ConInodeLock ==
    ~leaked =>
        ipLock + Cardinality({p \in ConReaders : conPc[p] = "unlock"}) = 1

\* The ring of console.c holds what was committed and not yet read, in the order it
\* was typed.
ConSafe == ConTypeOK /\ ConRing

ConWaits == {"wait", "inside", "asleep", "again"}
ConPCs == ConWaits \cup {"out", "lock", "hold", "relock", "unlock", "dead"}

ConReaderTypes ==
    /\ conPc \in [ConReaders -> ConPCs] /\ conN \in [ConReaders -> 0 .. ConMaxN]
    /\ conGot \in [ConReaders -> Nat] /\ conLock \subseteq ConReaders

\* input.lock is the one of the reader in the loop; a reader waits only for
\* characters it still wants; every commit that canRead counts typed one.
ConHolding ==
    /\ \A p \in ConReaders : p \in conLock <=> conPc[p] = "hold"
    /\ \A p, q \in conLock : p = q
    /\ \A p \in ConReaders : conPc[p] \in ConWaits => conN[p] > 0
    /\ canRead \in 0 .. typed /\ typed \in 0 .. ConMaxTyped

\* The inode's lock is free, or held by the reader about to unlock it; every
\* reader that returned killed has posted it once too often.
ConPosts ==
    /\ ipLock \in Nat /\ ipLock + Cardinality(ConAt("unlock")) = 1 + Cardinality(ConAt("dead"))
    /\ ~leaked => ConAt("dead") = {}

ConRings == [buf : [0 .. INPUT_BUF - 1 -> ConChars \cup {"nul"}], r : -1 .. INPUT_BUF - 1,
             w : 0 .. INPUT_BUF - 1, e : 0 .. INPUT_BUF - 1]
ConInputType == input \in ConRings /\ committed \in Seq(ConChars)

\* The positions count from r: Len(committed) characters to w, and m more to e.
ConPlaced(in, com, m) ==
    /\ in.w = (in.r + Len(com)) % INPUT_BUF /\ in.e = (in.r + (Len(com) + m)) % INPUT_BUF
    /\ Len(com) + m < INPUT_BUF
    /\ \A i \in 1 .. Len(com) : in.buf[(in.r + i) % INPUT_BUF] = com[i]
    /\ \A i \in Len(com) + 1 .. Len(com) + m : in.buf[(in.r + i) % INPUT_BUF] \in ConChars
    /\ in.r = -1 => com # <<>>

\* The inductive invariant of the console.
ConInv ==
    /\ ConReaderTypes /\ ConHolding /\ ConPosts /\ ConInputType
    /\ ~lapse => \E m \in 0 .. INPUT_BUF : ConPlaced(input, committed, m)
=============================================================================
