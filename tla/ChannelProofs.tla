--------------------------- MODULE ChannelProofs ---------------------------
(* Proofs about what processes exchange bytes through: the pipe of          *)
(* fs/pipe.c, for any number of readers and writers, any PIPESIZE and any   *)
(* Wrap that is a multiple of it; then the console of kernel/console.c, for *)
(* any INPUT_BUF and any finite set of readers.                             *)
EXTENDS Pipe, Console, FiniteSetTheorems, WellFoundedInduction, TLAPS

\* The remainder is the one number of 0..n-1 at a multiple of n from a.
LEMMA ModUnique ==
    ASSUME NEW n \in Nat \ {0}, NEW a \in Int, NEW m \in Int, NEW r \in 0..n-1, a = n * m + r
    PROVE  a % n = r
  <1>1. a = n * (a \div n) + (a % n) /\ a % n \in 0..n-1 /\ a \div n \in Int
    OBVIOUS
  <1> DEFINE d == (a \div n)
             e == a % n
  <1>2. d \in Int /\ e \in 0..n-1 /\ n * d + e = n * m + r
    BY <1>1, Zenon
  <1> HIDE DEF d, e
  <1>3. n * (d - m) = r - e
    BY <1>2
  <1>4. d - m < 1
    <2> SUFFICES ASSUME d - m >= 1 PROVE FALSE
      BY <1>2
    <2>1. n * (d - m) >= n
      BY <1>2
    <2> QED BY <1>2, <1>3, <2>1
  <1>5. m - d < 1
    <2> SUFFICES ASSUME m - d >= 1 PROVE FALSE
      BY <1>2
    <2>1. n * (m - d) >= n
      BY <1>2
    <2> QED BY <1>2, <1>3, <2>1
  <1>6. d = m
    BY <1>2, <1>4, <1>5
  <1> QED BY <1>2, <1>6 DEF e

\* A counter of the ring that is counted up wraps to 0 at Wrap.
LEMMA CountUp ==
    ASSUME NEW a \in 0..Wrap-1
    PROVE  (a + 1) % Wrap = IF a + 1 = Wrap THEN 0 ELSE a + 1
  <1> USE PipeAssumption
  <1>1. CASE a + 1 = Wrap
    <2>1. a + 1 = Wrap * 1 + 0
      BY <1>1
    <2> QED BY <1>1, <2>1, ModUnique
  <1>2. CASE a + 1 # Wrap
    <2>1. a + 1 = Wrap * 0 + (a + 1) /\ a + 1 \in 0..Wrap-1
      BY <1>2
    <2> QED BY <1>2, <2>1, ModUnique
  <1> QED BY <1>1, <1>2, Zenon

\* The unsigned difference of the counters.
LEMMA Difference ==
    ASSUME NEW w \in 0..Wrap-1, NEW r \in 0..Wrap-1
    PROVE  /\ (w - r) % Wrap = IF w >= r THEN w - r ELSE (w - r) + Wrap
           /\ (w - r) % Wrap \in 0..Wrap-1
  <1> USE PipeAssumption
  <1>1. CASE w >= r
    <2>1. w - r = Wrap * 0 + (w - r) /\ w - r \in 0..Wrap-1
      BY <1>1
    <2> QED BY <1>1, <2>1, ModUnique
  <1>2. CASE w < r
    <2>1. w - r = Wrap * (-1) + ((w - r) + Wrap) /\ (w - r) + Wrap \in 0..Wrap-1
      BY <1>2
    <2> QED BY <1>2, <2>1, ModUnique
  <1> QED BY <1>1, <1>2

\* Wrapping a counter does not change the slot it stands for.
LEMMA SlotWraps ==
    ASSUME NEW a \in Int PROVE (a + Wrap) % PIPESIZE = a % PIPESIZE
  <1> USE PipeAssumption
  <1> DEFINE m == Wrap \div PIPESIZE
             d == a \div PIPESIZE
             e == a % PIPESIZE
  <1>1. m \in Int /\ Wrap = PIPESIZE * m
    BY Z3
  <1>2. d \in Int /\ e \in 0..PIPESIZE-1 /\ a = PIPESIZE * d + e
    OBVIOUS
  <1> HIDE DEF m, d, e
  <1>3. a + Wrap = PIPESIZE * (d + m) + e
    BY <1>1, <1>2
  <1>4. (a + Wrap) % PIPESIZE = e
    BY <1>1, <1>2, <1>3, ModUnique
  <1> QED BY <1>4, Zenon DEF e

\* Two positions less than n apart have two slots.
LEMMA SlotsDiffer ==
    ASSUME NEW n \in Nat \ {0}, NEW a \in Int, NEW b \in Int, a < b, b - a < n
    PROVE  a % n # b % n
  <1> DEFINE d == a \div n
             f == b \div n
             e == a % n
  <1> SUFFICES ASSUME b % n = e PROVE FALSE
    BY Zenon
  <1>1. d \in Int /\ e \in 0..n-1 /\ a = n * d + e
    OBVIOUS
  <1>2. f \in Int /\ b = n * f + e
    OBVIOUS
  <1> HIDE DEF d, e, f
  <1>3. b - a = n * (f - d)
    BY <1>1, <1>2
  <1>4. f - d >= 1 \/ f - d <= 0
    BY <1>1, <1>2
  <1>5. CASE f - d >= 1
    <2>1. n * (f - d) >= n
      BY <1>1, <1>2, <1>5
    <2> QED BY <1>3, <2>1
  <1>6. CASE f - d <= 0
    <2>1. n * (f - d) <= 0
      BY <1>1, <1>2, <1>6
    <2> QED BY <1>3, <2>1
  <1> QED BY <1>4, <1>5, <1>6, Zenon

\* The unsigned tests of the loops' heads: a free slot, or a byte.
LEMMA CanMoveIs ==
    ASSUME PipeTypeOK, RingHolds, NEW p \in Users
    PROVE  CanMove(p) <=> IF p \in Writers THEN Used < PIPESIZE ELSE Used > 0
  <1> USE PipeAssumption
  <1>1. Used \in 0..PIPESIZE
    BY Difference DEF Used, PipeTypeOK, RingTypeOK, RingHolds
  <1>2. (PIPESIZE - Used) % Wrap = PIPESIZE - Used
    <2> DEFINE x == PIPESIZE - Used
    <2>1. x = Wrap * 0 + x /\ x \in 0..Wrap-1
      BY <1>1
    <2> HIDE DEF x
    <2>2. x % Wrap = x
      BY <2>1, ModUnique
    <2> QED BY <2>2, Zenon DEF x
  <1> QED BY <1>1, <1>2 DEF CanMove

\* A byte written into a ring that is not full is its last, and overwrites none.
LEMMA PutRing ==
    ASSUME RingTypeOK, RingHolds, Used < PIPESIZE, NEW p \in Users, Put(p)
    PROVE  RingTypeOK' /\ RingHolds' /\ Used' = Used + 1
  <1> USE PipeAssumption DEF RingTypeOK
  <1>1. PICK b \in Bytes : /\ data' = [data EXCEPT ![nwrite % PIPESIZE] = b]
                           /\ nwrite' = (nwrite + 1) % Wrap /\ queue' = Append(queue, b)
                           /\ nread' = nread
    BY Zenon DEF Put
  <1> DEFINE n == Len(queue)
  <1>2. n \in Nat /\ Used = n /\ n < PIPESIZE /\ Len(queue') = n + 1 /\ queue' \in Seq(Bytes)
    BY <1>1 DEF RingHolds
  <1>3. /\ queue'[n + 1] = b
        /\ \A k \in 1..n : queue'[k] = queue[k]
    BY <1>1
  <1>p. \A k \in 1..n : data[(nread + k - 1) % PIPESIZE] = queue[k]
    BY Zenon DEF RingHolds
  <1> HIDE DEF n
  <1>4. nwrite' = (IF nwrite + 1 = Wrap THEN 0 ELSE nwrite + 1) /\ nwrite' \in 0..Wrap-1
    BY <1>1, CountUp
  <1>5. Used' = Used + 1
    <2>1. Used = IF nwrite >= nread THEN nwrite - nread ELSE (nwrite - nread) + Wrap
      BY Difference, Zenon DEF Used
    <2>2. Used' = IF nwrite' >= nread' THEN nwrite' - nread' ELSE (nwrite' - nread') + Wrap
      BY <1>1, <1>4, Difference, Zenon DEF Used
    <2> QED BY <1>1, <1>2, <1>4, <2>1, <2>2
  <1>6. nwrite % PIPESIZE = (nread + n) % PIPESIZE
    <2>1. nwrite = nread + n \/ nread + n = nwrite + Wrap
      BY SMTT(30), <1>2, Difference DEF Used
    <2>2. nread + n \in Int /\ nwrite \in Int
      BY <1>2
    <2>3. CASE nwrite = nread + n
      BY <2>3, Zenon
    <2>4. CASE nread + n = nwrite + Wrap
      BY <2>2, <2>4, SlotWraps, Zenon
    <2> QED BY <2>1, <2>3, <2>4, Zenon
  <1>7. nwrite % PIPESIZE \in 0..PIPESIZE-1
    OBVIOUS
  <1>8. data' \in [0..PIPESIZE-1 -> Bytes] /\ data'[nwrite % PIPESIZE] = b
    BY <1>1, <1>7, Zenon
  <1>9. \A k \in 1..n : data'[(nread + k - 1) % PIPESIZE] = data[(nread + k - 1) % PIPESIZE]
    <2> TAKE k \in 1..n
    <2> DEFINE x == nread + k - 1
    <2>1. x \in Int /\ nread + n \in Int /\ x < nread + n /\ (nread + n) - x < PIPESIZE
      BY <1>2
    <2> HIDE DEF x
    <2>2. x % PIPESIZE # (nread + n) % PIPESIZE
      <3> DEFINE y == nread + n
      <3>1. y \in Int /\ x < y /\ y - x < PIPESIZE
        BY <2>1, Zenon
      <3> HIDE DEF y
      <3>2. x % PIPESIZE # y % PIPESIZE
        BY <2>1, <3>1, SlotsDiffer, PipeAssumption, Zenon
      <3> QED BY <3>2, Zenon DEF y
    <2>4. x % PIPESIZE \in 0..PIPESIZE-1
      BY <2>1
    <2>3. data'[x % PIPESIZE] = data[x % PIPESIZE]
      BY <1>1, <1>6, <1>7, <2>2, <2>4, Zenon
    <2> QED BY <2>3, Zenon DEF x
  <1>10. \A k \in 1..n + 1 : data'[(nread + k - 1) % PIPESIZE] = queue'[k]
    <2> TAKE k \in 1..n + 1
    <2>1. CASE k = n + 1
      <3>1. nread + k - 1 = nread + n
        BY <1>2, <2>1
      <3> QED BY <1>3, <1>6, <1>8, <2>1, <3>1, Zenon
    <2>2. CASE k \in 1..n
      BY <1>3, <1>p, <1>9, <2>2, Zenon
    <2> QED BY <1>2, <2>1, <2>2
  <1>11. RingTypeOK'
    BY <1>1, <1>2, <1>4, <1>8, Zenon
  <1>12. RingHolds'
    BY <1>1, <1>2, <1>5, <1>10 DEF RingHolds
  <1> QED BY <1>5, <1>11, <1>12, Zenon

\* The byte taken from a ring that is not empty is the oldest.
LEMMA TakeRing ==
    ASSUME RingTypeOK, RingHolds, Used > 0, NEW p \in Users, Take(p)
    PROVE  RingTypeOK' /\ RingHolds' /\ Used' = Used - 1
  <1> USE PipeAssumption DEF RingTypeOK
  <1>1. nread' = (nread + 1) % Wrap /\ data' = data /\ nwrite' = nwrite
    BY Zenon DEF Take
  <1> DEFINE n == Len(queue)
  <1>2. n \in Nat /\ Used = n /\ n > 0 /\ n <= PIPESIZE /\ queue # <<>>
    BY DEF RingHolds
  <1>3. queue' = Tail(queue)
    BY <1>2, Zenon DEF Take
  <1>4. Len(queue') = n - 1 /\ queue' \in Seq(Bytes) /\ \A k \in 1..n - 1 : queue'[k] = queue[k + 1]
    BY <1>2, <1>3
  <1>5. \A k \in 1..n : data[(nread + k - 1) % PIPESIZE] = queue[k]
    BY Zenon DEF RingHolds
  <1> HIDE DEF n
  <1>6. nread' = (IF nread + 1 = Wrap THEN 0 ELSE nread + 1) /\ nread' \in 0..Wrap-1
    BY <1>1, CountUp
  <1>7. Used' = Used - 1
    <2>1. Used = IF nwrite >= nread THEN nwrite - nread ELSE (nwrite - nread) + Wrap
      BY Difference, Zenon DEF Used
    <2>2. Used' = IF nwrite' >= nread' THEN nwrite' - nread' ELSE (nwrite' - nread') + Wrap
      BY <1>1, <1>6, Difference, Zenon DEF Used
    <2> QED BY <1>1, <1>2, <1>6, <2>1, <2>2
  <1>8. \A k \in 1..n - 1 : data'[(nread' + k - 1) % PIPESIZE] = queue'[k]
    <2> TAKE k \in 1..n - 1
    <2> DEFINE x == nread' + k - 1
    <2>1. k + 1 \in 1..n /\ nread + (k + 1) - 1 = nread + k
      BY <1>2
    <2>2. x \in Int /\ (nread + k = x \/ nread + k = x + Wrap)
      BY <1>2, <1>6
    <2> HIDE DEF x
    <2>3. x % PIPESIZE = (nread + k) % PIPESIZE
      BY <2>2, SlotWraps, Zenon
    <2>4. data[(nread + k) % PIPESIZE] = queue[k + 1]
      BY <1>5, <2>1, Zenon
    <2> QED BY <1>1, <1>4, <2>3, <2>4, Zenon DEF x
  <1>9. RingTypeOK'
    BY <1>1, <1>4, <1>6, Zenon
  <1>10. RingHolds'
    BY <1>2, <1>4, <1>7, <1>8 DEF RingHolds
  <1> QED BY <1>7, <1>9, <1>10, Zenon

\* Every end has another.
LEMMA EndProps ==
    /\ \A p \in Users : End(p) \in Ends
    /\ \A e \in Ends : Other(e) \in Ends /\ Other(e) # e
    /\ \A p \in Users, e \in Ends : e # End(p) <=> e = Other(End(p))
    /\ \A p, q \in Users : End(p) # End(q) <=> End(p) = Other(End(q))
  BY Zenon DEF End, Ends, Other, Users

\* A step that leaves the ring alone changes nobody's chances to move a byte.
LEMMA RingSame ==
    ASSUME RingTypeOK, RingHolds, UNCHANGED ringVars
    PROVE  RingTypeOK' /\ RingHolds' /\ \A p \in Users : CanMove(p)' <=> CanMove(p)
  BY Zenon DEF RingTypeOK, RingHolds, ringVars, Used, CanMove

\* A step that leaves the ring alone, makes nobody wait who could move a byte and
\* takes nobody off the way to a post keeps PostPending.
LEMMA PendingKept ==
    ASSUME PostPending, \A p \in Users : CanMove(p)' <=> CanMove(p),
           \A p \in Users : Unposted(p)' => Unposted(p) \/ ~CanMove(p),
           \A p \in Users : at[p] \in YetToPost => at'[p] \in YetToPost
    PROVE  PostPending'
  BY Zenon DEF PostPending

\* pipeAlloc leaves the pipe in order.
LEMMA PipeInitInv == PipeInit => PipeInv
  <1> SUFFICES ASSUME PipeInit PROVE PipeInv
    BY Zenon
  <1> USE PipeAssumption
  <1>1. RingTypeOK
    BY DEF PipeInit, RingTypeOK
  <1>2. CallTypeOK
    <2>1. open \in [Ends -> BOOLEAN] /\ semlock \in [Ends -> BOOLEAN]
      BY Zenon DEF PipeInit
    <2>2. pipeUp \in [Users -> BOOLEAN] /\ pipeKilled \in [Users -> BOOLEAN]
      BY Zenon DEF PipeInit
    <2>3. at \in [Users -> PipePCs] /\ left \in [Users -> 0..MaxN]
      BY DEF PipeInit, PipePCs
    <2> QED BY <2>1, <2>2, <2>3, Zenon DEF PipeInit, CallTypeOK
  <1>3. RingHolds
    <2>1. Used = 0
      BY <1>1, Difference DEF PipeInit, RingTypeOK, Used
    <2> QED BY <2>1 DEF PipeInit, RingHolds
  <1>4. \A p \in Users : at[p] = "idle"
    BY Zenon DEF PipeInit
  <1>5. WaitsLocked /\ PostPending /\ LockOwned /\ OnlyKillBreaks
    BY <1>4, Zenon DEF PipeInit, WaitsLocked, PostPending, Unposted, LockOwned, OnlyKillBreaks
  <1> QED BY <1>1, <1>2, <1>3, <1>5, Zenon DEF PipeInv, PipeTypeOK

\* Entering a call.
LEMMA CallInv ==
    ASSUME PipeInv, NEW p \in Users, NEW k \in 0..MaxN, Call(p, k) PROVE PipeInv'
  <1> USE DEF PipeInv
  <1>0. RingTypeOK /\ CallTypeOK
    BY Zenon DEF PipeTypeOK
  <1>1. RingTypeOK' /\ RingHolds' /\ \A q \in Users : CanMove(q)' <=> CanMove(q)
    BY <1>0, RingSame, Zenon DEF Call
  <1>2. \A q \in Users : /\ at'[q] = (IF q = p THEN "acquire" ELSE at[q])
                         /\ (q # p => left'[q] = left[q])
    BY <1>0, Zenon DEF Call, PipeGoto, CallTypeOK
  <1>3. CallTypeOK'
    <2>1. at' \in [Users -> PipePCs]
      BY <1>0, Zenon DEF Call, PipeGoto, CallTypeOK, PipePCs
    <2>2. left' \in [Users -> 0..MaxN]
      BY <1>0, Zenon DEF Call, CallTypeOK
    <2> QED BY <1>0, <2>1, <2>2, Zenon DEF Call, CallTypeOK, lockVars
  <1>4. WaitsLocked'
    BY <1>2, Zenon DEF Call, WaitsLocked
  <1>5. PostPending'
    <2>1. \A q \in Users : Unposted(q)' => Unposted(q)
      BY <1>2, Zenon DEF Unposted, Call
    <2>2. \A q \in Users : at[q] \in YetToPost => at'[q] \in YetToPost
      BY <1>2, Zenon DEF YetToPost, Call
    <2> QED BY <1>1, <2>1, <2>2, PendingKept, Zenon
  <1>6. LockOwned'
    BY <1>2, Zenon DEF Call, LockOwned, lockVars
  <1>7. OnlyKillBreaks'
    BY Zenon DEF Call, OnlyKillBreaks, lockVars
  <1> QED BY <1>1, <1>3, <1>4, <1>5, <1>6, <1>7, Zenon DEF PipeTypeOK

\* Taking pi->lock, which nobody can have set then.
LEMMA AcquireInv ==
    ASSUME PipeInv, NEW p \in Users, Acquire(p) PROVE PipeInv'
  <1> USE DEF PipeInv
  <1>0. RingTypeOK /\ CallTypeOK
    BY Zenon DEF PipeTypeOK
  <1>1. RingTypeOK' /\ RingHolds' /\ \A q \in Users : CanMove(q)' <=> CanMove(q)
    BY <1>0, RingSame, Zenon DEF Acquire
  <1>2. at[p] = "acquire" /\ \A q \in Users : at'[q] = IF q = p THEN "loop" ELSE at[q]
    BY <1>0, Zenon DEF Acquire, PipeGoto, CallTypeOK
  <1>3. CallTypeOK'
    <2>1. at' \in [Users -> PipePCs]
      BY <1>0, Zenon DEF Acquire, PipeGoto, CallTypeOK, PipePCs
    <2> QED BY <1>0, <2>1, Zenon DEF Acquire, CallTypeOK
  <1>4. WaitsLocked'
    BY <1>2, Zenon DEF Acquire, WaitsLocked
  <1>5. PostPending'
    <2>1. \A q \in Users : Unposted(q)' => Unposted(q)
      BY <1>2, Zenon DEF Unposted, Acquire
    <2>2. \A q \in Users : at[q] \in YetToPost => at'[q] \in YetToPost
      BY <1>2, Zenon DEF YetToPost
    <2> QED BY <1>1, <2>1, <2>2, PendingKept, Zenon
  <1>6. LockOwned'
    <2>1. owner = Nobody /\ \A q \in Users : q # Nobody
      BY PipeAssumption, Zenon DEF Acquire, LockOwned
    <2> QED BY <1>2, <2>1, Zenon DEF Acquire, LockOwned
  <1>7. OnlyKillBreaks'
    BY Zenon DEF Acquire, OnlyKillBreaks
  <1> QED BY <1>1, <1>3, <1>4, <1>5, <1>6, <1>7, Zenon DEF PipeTypeOK

\* A byte moved: whoever can move one only now is of the other end, and the
\* mover has yet to post.
LEMMA MoveInv ==
    ASSUME PipeInv, NEW p \in Users, Move(p) PROVE PipeInv'
  <1> USE PipeAssumption DEF PipeInv
  <1>0. RingTypeOK /\ CallTypeOK
    BY Zenon DEF PipeTypeOK
  <1>1. /\ at[p] = "loop" /\ left[p] > 0 /\ CanMove(p)
        /\ left' = [left EXCEPT ![p] = @ - 1]
        /\ UNCHANGED <<open, lock, owner, broken, semlock, pipeUp, pipeKilled, at>>
    BY Zenon DEF Move, lockVars
  <1>2. IF p \in Writers THEN Used' = Used + 1 /\ Used < PIPESIZE ELSE Used' = Used - 1 /\ Used > 0
    BY <1>0, <1>1, CanMoveIs, PutRing, TakeRing, Zenon DEF Move
  <1>3. RingTypeOK' /\ RingHolds'
    BY <1>0, <1>1, CanMoveIs, PutRing, TakeRing, Zenon DEF Move
  <1>4. CallTypeOK'
    <2>1. left' \in [Users -> 0..MaxN]
      BY <1>0, <1>1 DEF CallTypeOK
    <2> QED BY <1>0, <1>1, <2>1, Zenon DEF CallTypeOK
  <1>5. WaitsLocked'
    <2>1. \A q \in Users : q # p => left'[q] = left[q]
      BY <1>0, <1>1, Zenon DEF CallTypeOK
    <2> QED BY <1>1, <2>1, Zenon DEF WaitsLocked
  <1>6. PostPending'
    <2>1. \A q \in Users : CanMove(q)' <=> IF q \in Writers THEN Used' < PIPESIZE ELSE Used' > 0
      <3>1. Used' \in 0..PIPESIZE
        <4>1. Used \in 0..PIPESIZE /\ Used \in Int
          BY <1>0, Difference DEF Used, RingTypeOK, RingHolds
        <4> QED BY <1>2, <4>1
      <3> DEFINE u == Used'
                 x == PIPESIZE - u
      <3>2. x = Wrap * 0 + x /\ x \in 0..Wrap-1 /\ (x > 0 <=> u < PIPESIZE)
        <4>1. u \in 0..PIPESIZE
          BY <3>1, Zenon
        <4> HIDE DEF u
        <4> QED BY <4>1
      <3>3. \A q \in Users : CanMove(q)' <=> IF q \in Writers THEN x % Wrap > 0 ELSE Used' > 0
        BY Zenon DEF CanMove
      <3> HIDE DEF x
      <3>4. x % Wrap = x
        BY <3>2, ModUnique
      <3> QED BY <3>2, <3>3, <3>4, Zenon
    <2>2. \A q \in Users : CanMove(q)' => CanMove(q) \/ End(q) # End(p)
      <3>1. Used \in Int
        BY <1>0, Difference DEF Used, RingTypeOK
      <3>2. \A q \in Users : CanMove(q) <=> IF q \in Writers THEN Used < PIPESIZE ELSE Used > 0
        BY CanMoveIs, Zenon
      <3>3. \A q \in Users : End(q) = IF q \in Writers THEN "w" ELSE "r"
        BY Zenon DEF End, Users
      <3> QED BY <1>2, <2>1, <3>1, <3>2, <3>3, Zenon
    <2> SUFFICES ASSUME NEW q \in Users, Unposted(q)', CanMove(q)'
                 PROVE  \E r \in Users : End(r) # End(q) /\ at'[r] \in YetToPost
      BY Zenon DEF PostPending
    <2>3. Unposted(q) /\ (CanMove(q) \/ End(q) # End(p))
      BY <1>1, <2>2, Zenon DEF Unposted
    <2>4. at'[p] \in YetToPost
      BY <1>1, Zenon DEF YetToPost
    <2> QED BY <1>1, <2>3, <2>4, Zenon DEF PostPending
  <1>7. LockOwned' /\ OnlyKillBreaks'
    BY <1>1, Zenon DEF LockOwned, OnlyKillBreaks
  <1> QED BY <1>3, <1>4, <1>5, <1>6, <1>7, Zenon DEF PipeTypeOK

\* A process that cannot move a byte begins to wait, and releases pi->lock.
LEMMA BlockInv ==
    ASSUME PipeInv, NEW p \in Users, Block(p) PROVE PipeInv'
  <1> USE PipeAssumption DEF PipeInv
  <1>0. RingTypeOK /\ CallTypeOK
    BY Zenon DEF PipeTypeOK
  <1>1. /\ at[p] = "loop" /\ left[p] > 0 /\ ~CanMove(p) /\ ~semlock[End(p)]
        /\ semlock' = [semlock EXCEPT ![End(p)] = TRUE] /\ lock' = FALSE /\ owner' = Nobody
        /\ broken' = (broken \/ owner # p) /\ UNCHANGED <<ringVars, open, pipeUp, pipeKilled, left>>
        /\ at' = [at EXCEPT ![p] = "notify"]
    BY Zenon DEF Block, PipeGoto
  <1>2. RingTypeOK' /\ RingHolds' /\ \A q \in Users : CanMove(q)' <=> CanMove(q)
    BY <1>0, <1>1, RingSame, Zenon
  <1>3. \A q \in Users : at'[q] = IF q = p THEN "notify" ELSE at[q]
    BY <1>0, <1>1, Zenon DEF CallTypeOK
  <1>s. \A e \in Ends : semlock'[e] = (e = End(p) \/ semlock[e])
    BY <1>0, <1>1, EndProps, Zenon DEF CallTypeOK
  <1>4. CallTypeOK'
    <2>1. at' \in [Users -> PipePCs]
      BY <1>0, <1>1, Zenon DEF CallTypeOK, PipePCs
    <2>2. semlock' \in [Ends -> BOOLEAN]
      BY <1>0, <1>1, Zenon DEF CallTypeOK
    <2>3. broken' \in BOOLEAN
      BY <1>1, Zenon
    <2> QED BY <1>0, <1>1, <2>1, <2>2, <2>3, Zenon DEF CallTypeOK
  <1>5. WaitsLocked'
    <2>1. \A q \in Users : at[q] \in {"notify", "wait"} => End(q) # End(p) /\ semlock[End(q)]
      BY <1>1, Zenon DEF WaitsLocked
    <2>2. \A q \in Users : at'[q] \in {"notify", "wait"} => q = p \/ at[q] \in {"notify", "wait"}
      BY <1>3, Zenon
    <2>3. \A q \in Users : at'[q] \in {"notify", "wait"} => semlock'[End(q)]
      BY <1>s, <2>1, <2>2, EndProps, Zenon
    <2>4. \A q \in Users : at'[q] \in {"notify", "wait", "asleep"} => left'[q] > 0
      BY <1>1, <1>3, Zenon DEF WaitsLocked
    <2>5. \A q, r \in Users : /\ at'[q] \in {"notify", "wait"} /\ at'[r] \in {"notify", "wait"}
                              /\ End(q) = End(r)
                              => q = r
      <3> HIDE DEF PipeInv
      <3> QED BY <2>1, <2>2, Zenon DEF PipeInv, WaitsLocked
    <2> QED BY <2>3, <2>4, <2>5, Zenon DEF WaitsLocked
  <1>6. PostPending'
    <2>1. \A q \in Users : Unposted(q)' => Unposted(q) \/ ~CanMove(q)
      BY <1>1, <1>3, Zenon DEF Unposted
    <2>2. \A q \in Users : at[q] \in YetToPost => at'[q] \in YetToPost
      BY <1>3, Zenon DEF YetToPost
    <2> QED BY <1>2, <2>1, <2>2, PendingKept, Zenon
  <1>7. LockOwned'
    <2>1. ~broken' => ~broken /\ owner = p
      BY <1>1, Zenon
    <2>2. \A q \in Users : q # Nobody
      BY Zenon
    <2>3. ~broken' => \A q \in Users : at'[q] # "loop" /\ (at'[q] = "release" => pipeKilled'[q])
      BY <1>1, <1>3, <2>1 DEF LockOwned
    <2> QED BY <1>1, <2>3, Zenon DEF LockOwned
  <1>8. OnlyKillBreaks'
    BY <1>1, Zenon DEF OnlyKillBreaks, LockOwned
  <1> QED BY <1>2, <1>4, <1>5, <1>6, <1>7, <1>8, Zenon DEF PipeTypeOK

\* post_all_sem of the other end: nobody of that end is left unposted, because
\* whoever is about to sleep there holds the lock the post takes.
LEMMA PostAllKeeps ==
    ASSUME PipeInv, NEW p \in Users, PostAll(Other(End(p))), UNCHANGED <<ringVars, semlock>>,
           \A q \in Users : q # p => at'[q] = at[q], Unposted(p)' => Unposted(p)
    PROVE  PostPending' /\ pipeUp' \in [Users -> BOOLEAN]
  <1> USE DEF PipeInv
  <1>0. RingTypeOK /\ CallTypeOK
    BY Zenon DEF PipeTypeOK
  <1>1. \A q \in Users : CanMove(q)' <=> CanMove(q)
    BY <1>0, RingSame, Zenon
  <1>2. ~semlock[Other(End(p))]
    BY Zenon DEF PostAll
  <1>3. \A q \in Users : pipeUp'[q] <=> pipeUp[q] \/ (at[q] = "asleep" /\ End(q) = Other(End(p)))
    BY Zenon DEF PostAll
  <1>4. pipeUp' \in [Users -> BOOLEAN]
    BY Zenon DEF PostAll
  <1>5. \A q \in Users : Unposted(q)' => End(q) = End(p) /\ Unposted(q)
    <2> SUFFICES ASSUME NEW q \in Users, Unposted(q)', q # p PROVE End(q) = End(p) /\ Unposted(q)
      BY Zenon
    <2>1. Unposted(q)
      BY <1>3, Zenon DEF Unposted
    <2>2. End(q) # Other(End(p))
      BY <1>2, <1>3, Zenon DEF Unposted, WaitsLocked
    <2> QED BY <2>1, <2>2, EndProps, Zenon
  <1>6. PostPending'
    <2> SUFFICES ASSUME NEW q \in Users, Unposted(q)', CanMove(q)'
                 PROVE  \E r \in Users : End(r) # End(q) /\ at'[r] \in YetToPost
      BY Zenon DEF PostPending
    <2>1. End(q) = End(p) /\ Unposted(q) /\ CanMove(q)
      BY <1>1, <1>5, Zenon
    <2>2. PICK r \in Users : End(r) # End(q) /\ at[r] \in YetToPost
      BY <2>1, Zenon DEF PostPending
    <2> QED BY <2>1, <2>2, Zenon
  <1> QED BY <1>4, <1>6, Zenon

\* The post before the wait.
LEMMA NotifyInv ==
    ASSUME PipeInv, NEW p \in Users, Notify(p) PROVE PipeInv'
  <1> USE DEF PipeInv
  <1>0. RingTypeOK /\ CallTypeOK
    BY Zenon DEF PipeTypeOK
  <1>1. /\ at[p] = "notify" /\ PostAll(Other(End(p))) /\ at' = [at EXCEPT ![p] = "wait"]
        /\ UNCHANGED <<ringVars, open, lock, owner, broken, semlock, pipeKilled, left>>
    BY Zenon DEF Notify, PipeGoto, lockVars
  <1>2. RingTypeOK' /\ RingHolds'
    BY <1>0, <1>1, RingSame, Zenon
  <1>3. \A q \in Users : at'[q] = IF q = p THEN "wait" ELSE at[q]
    BY <1>0, <1>1, Zenon DEF CallTypeOK
  <1>4. PostPending' /\ pipeUp' \in [Users -> BOOLEAN]
    BY <1>1, <1>3, PostAllKeeps, Zenon DEF Unposted
  <1>5. CallTypeOK'
    <2>1. at' \in [Users -> PipePCs]
      BY <1>0, <1>1, Zenon DEF CallTypeOK, PipePCs
    <2> QED BY <1>0, <1>1, <1>4, <2>1, Zenon DEF CallTypeOK
  <1>6. WaitsLocked'
    BY <1>1, <1>3, Zenon DEF WaitsLocked
  <1>7. LockOwned' /\ OnlyKillBreaks'
    BY <1>1, <1>3 DEF LockOwned, OnlyKillBreaks
  <1> QED BY <1>2, <1>4, <1>5, <1>6, <1>7, Zenon DEF PipeTypeOK

\* The post that ends a call.
LEMMA PostInv ==
    ASSUME PipeInv, NEW p \in Users, Post(p) PROVE PipeInv'
  <1> USE DEF PipeInv
  <1>0. RingTypeOK /\ CallTypeOK
    BY Zenon DEF PipeTypeOK
  <1>1. /\ at[p] = "post" /\ PostAll(Other(End(p))) /\ at' = [at EXCEPT ![p] = "idle"]
        /\ UNCHANGED <<ringVars, open, lock, owner, broken, semlock, pipeKilled, left>>
    BY Zenon DEF Post, PipeGoto, lockVars
  <1>2. RingTypeOK' /\ RingHolds'
    BY <1>0, <1>1, RingSame, Zenon
  <1>3. \A q \in Users : at'[q] = IF q = p THEN "idle" ELSE at[q]
    BY <1>0, <1>1, Zenon DEF CallTypeOK
  <1>4. PostPending' /\ pipeUp' \in [Users -> BOOLEAN]
    BY <1>1, <1>3, PostAllKeeps DEF Unposted
  <1>5. CallTypeOK'
    <2>1. at' \in [Users -> PipePCs]
      BY <1>0, <1>1, Zenon DEF CallTypeOK, PipePCs
    <2> QED BY <1>0, <1>1, <1>4, <2>1, Zenon DEF CallTypeOK
  <1>6. WaitsLocked'
    BY <1>1, <1>3 DEF WaitsLocked
  <1>7. LockOwned' /\ OnlyKillBreaks'
    BY <1>1, <1>3 DEF LockOwned, OnlyKillBreaks
  <1> QED BY <1>2, <1>4, <1>5, <1>6, <1>7, Zenon DEF PipeTypeOK

\* Going to sleep releases the semaphore's lock, which the process alone has.
LEMMA PipeSleepInv ==
    ASSUME PipeInv, NEW p \in Users, PipeSleep(p) PROVE PipeInv'
  <1> USE DEF PipeInv
  <1>0. RingTypeOK /\ CallTypeOK
    BY Zenon DEF PipeTypeOK
  <1>1. /\ at[p] = "wait" /\ at' = [at EXCEPT ![p] = "asleep"] /\ pipeUp' = [pipeUp EXCEPT ![p] = FALSE]
        /\ semlock' = [semlock EXCEPT ![End(p)] = FALSE]
        /\ UNCHANGED <<ringVars, open, lock, owner, broken, pipeKilled, left>>
    BY Zenon DEF PipeSleep, PipeGoto, lockVars
  <1>2. RingTypeOK' /\ RingHolds' /\ \A q \in Users : CanMove(q)' <=> CanMove(q)
    BY <1>0, <1>1, RingSame, Zenon
  <1>3. \A q \in Users : at'[q] = (IF q = p THEN "asleep" ELSE at[q]) /\ (q # p => pipeUp'[q] = pipeUp[q])
    BY <1>0, <1>1, Zenon DEF CallTypeOK
  <1>4. \A q \in Users : End(q) # End(p) => semlock'[End(q)] = semlock[End(q)]
    BY <1>0, <1>1, EndProps, Zenon DEF CallTypeOK
  <1>5. CallTypeOK'
    <2>1. at' \in [Users -> PipePCs]
      BY <1>0, <1>1, Zenon DEF CallTypeOK, PipePCs
    <2>2. pipeUp' \in [Users -> BOOLEAN] /\ semlock' \in [Ends -> BOOLEAN]
      BY <1>0, <1>1, Zenon DEF CallTypeOK
    <2> QED BY <1>0, <1>1, <2>1, <2>2, Zenon DEF CallTypeOK
  <1>6. WaitsLocked'
    <2>1. \A q \in Users : at'[q] \in {"notify", "wait"} => q # p /\ at[q] \in {"notify", "wait"}
      BY <1>3, Zenon
    <2>2. \A q \in Users : at'[q] \in {"notify", "wait"} => End(q) # End(p)
      BY <1>1, <2>1, Zenon DEF WaitsLocked
    <2>3. \A q \in Users : at'[q] \in {"notify", "wait"} => semlock'[End(q)]
      BY <1>4, <2>1, <2>2, Zenon DEF WaitsLocked
    <2>4. \A q \in Users : at'[q] \in {"notify", "wait", "asleep"} => left'[q] > 0
      BY <1>1, <1>3, Zenon DEF WaitsLocked
    <2> QED BY <2>1, <2>3, <2>4, Zenon DEF WaitsLocked
  <1>7. PostPending'
    <2>1. \A q \in Users : Unposted(q)' => Unposted(q) \/ ~CanMove(q)
      BY <1>1, <1>3, Zenon DEF Unposted
    <2>2. \A q \in Users : at[q] \in YetToPost => at'[q] \in YetToPost
      BY <1>1, <1>3, Zenon DEF YetToPost
    <2> QED BY <1>2, <2>1, <2>2, PendingKept, Zenon
  <1>8. LockOwned' /\ OnlyKillBreaks'
    BY <1>1, <1>3 DEF LockOwned, OnlyKillBreaks
  <1> QED BY <1>2, <1>5, <1>6, <1>7, <1>8, Zenon DEF PipeTypeOK

\* A wait ends: posted, with an iteration used up, or alerted by kill.
LEMMA ResumeInv ==
    ASSUME PipeInv, NEW p \in Users, Resume(p) PROVE PipeInv'
  <1> USE DEF PipeInv
  <1>0. RingTypeOK /\ CallTypeOK
    BY Zenon DEF PipeTypeOK
  <1>1. /\ at[p] = "asleep" /\ (pipeUp[p] \/ pipeKilled[p]) /\ pipeUp' = [pipeUp EXCEPT ![p] = FALSE]
        /\ UNCHANGED <<ringVars, open, lock, owner, broken, semlock, pipeKilled>>
    BY Zenon DEF Resume, lockVars
  <1>2. \/ pipeUp[p] /\ at' = [at EXCEPT ![p] = "acquire"] /\ left' = [left EXCEPT ![p] = @ - 1]
        \/ ~pipeUp[p] /\ at' = [at EXCEPT ![p] = "release"] /\ left' = left
    BY Zenon DEF Resume, PipeGoto
  <1>3. RingTypeOK' /\ RingHolds' /\ \A q \in Users : CanMove(q)' <=> CanMove(q)
    BY <1>0, <1>1, RingSame, Zenon
  <1>4. /\ at'[p] = "acquire" \/ (at'[p] = "release" /\ pipeKilled[p])
        /\ \A q \in Users : q # p => at'[q] = at[q] /\ pipeUp'[q] = pipeUp[q] /\ left'[q] = left[q]
    BY <1>0, <1>1, <1>2, Zenon DEF CallTypeOK
  <1>5. CallTypeOK'
    <2>1. at' \in [Users -> PipePCs]
      BY <1>0, <1>2, Zenon DEF CallTypeOK, PipePCs
    <2>2. pipeUp' \in [Users -> BOOLEAN]
      BY <1>0, <1>1, Zenon DEF CallTypeOK
    <2>3. left[p] > 0
      BY <1>1, Zenon DEF WaitsLocked
    <2>4. left' \in [Users -> 0..MaxN]
      BY <1>0, <1>2, <2>3, PipeAssumption DEF CallTypeOK
    <2> QED BY <1>0, <1>1, <2>1, <2>2, <2>4, Zenon DEF CallTypeOK
  <1>6. WaitsLocked'
    BY <1>1, <1>4, Zenon DEF WaitsLocked
  <1>7. PostPending'
    <2>1. \A q \in Users : Unposted(q)' => Unposted(q) \/ ~CanMove(q)
      BY <1>4, Zenon DEF Unposted
    <2>2. \A q \in Users : at[q] \in YetToPost => at'[q] \in YetToPost
      BY <1>1, <1>4, Zenon DEF YetToPost
    <2> QED BY <1>3, <2>1, <2>2, PendingKept, Zenon
  <1>8. LockOwned' /\ OnlyKillBreaks'
    BY <1>1, <1>4, Zenon DEF LockOwned, OnlyKillBreaks
  <1> QED BY <1>3, <1>5, <1>6, <1>7, <1>8, Zenon DEF PipeTypeOK

\* Leaving the loop.
LEMMA LeaveInv ==
    ASSUME PipeInv, NEW p \in Users, Leave(p) PROVE PipeInv'
  <1> USE DEF PipeInv
  <1>0. RingTypeOK /\ CallTypeOK
    BY Zenon DEF PipeTypeOK
  <1>1. /\ at[p] = "loop" /\ at' = [at EXCEPT ![p] = "release"]
        /\ UNCHANGED <<ringVars, open, lock, owner, broken, semlock, pipeUp, pipeKilled, left>>
    BY Zenon DEF Leave, PipeGoto, lockVars
  <1>2. RingTypeOK' /\ RingHolds' /\ \A q \in Users : CanMove(q)' <=> CanMove(q)
    BY <1>0, <1>1, RingSame, Zenon
  <1>3. \A q \in Users : at'[q] = IF q = p THEN "release" ELSE at[q]
    BY <1>0, <1>1, Zenon DEF CallTypeOK
  <1>4. CallTypeOK'
    <2>1. at' \in [Users -> PipePCs]
      BY <1>0, <1>1, Zenon DEF CallTypeOK, PipePCs
    <2> QED BY <1>0, <1>1, <2>1, Zenon DEF CallTypeOK
  <1>5. WaitsLocked'
    BY <1>1, <1>3 DEF WaitsLocked
  <1>6. PostPending'
    <2>1. \A q \in Users : Unposted(q)' => Unposted(q) \/ ~CanMove(q)
      BY <1>1, <1>3 DEF Unposted
    <2>2. \A q \in Users : at[q] \in YetToPost => at'[q] \in YetToPost
      BY <1>3, Zenon DEF YetToPost
    <2> QED BY <1>2, <2>1, <2>2, PendingKept, Zenon
  <1>7. LockOwned' /\ OnlyKillBreaks'
    BY <1>1, <1>3, Zenon DEF LockOwned, OnlyKillBreaks
  <1> QED BY <1>2, <1>4, <1>5, <1>6, <1>7, Zenon DEF PipeTypeOK

\* Releasing pi->lock: it is the process's own unless kill ended its wait.
LEMMA ReleaseInv ==
    ASSUME PipeInv, NEW p \in Users, Release(p) PROVE PipeInv'
  <1> USE PipeAssumption DEF PipeInv
  <1>0. RingTypeOK /\ CallTypeOK
    BY Zenon DEF PipeTypeOK
  <1>1. /\ at[p] = "release" /\ lock' = FALSE /\ owner' = Nobody /\ broken' = (broken \/ owner # p)
        /\ at' = [at EXCEPT ![p] = "post"] /\ left' = [left EXCEPT ![p] = 0]
        /\ UNCHANGED <<ringVars, open, semlock, pipeUp, pipeKilled>>
    BY Zenon DEF Release, PipeGoto
  <1>2. RingTypeOK' /\ RingHolds' /\ \A q \in Users : CanMove(q)' <=> CanMove(q)
    BY <1>0, <1>1, RingSame, Zenon
  <1>3. \A q \in Users : at'[q] = (IF q = p THEN "post" ELSE at[q]) /\ (q # p => left'[q] = left[q])
    BY <1>0, <1>1, Zenon DEF CallTypeOK
  <1>4. CallTypeOK'
    <2>1. at' \in [Users -> PipePCs]
      BY <1>0, <1>1, Zenon DEF CallTypeOK, PipePCs
    <2>2. left' \in [Users -> 0..MaxN]
      BY <1>0, <1>1 DEF CallTypeOK
    <2>3. broken' \in BOOLEAN
      BY <1>1, Zenon
    <2> QED BY <1>0, <1>1, <2>1, <2>2, <2>3, Zenon DEF CallTypeOK
  <1>5. WaitsLocked'
    BY <1>1, <1>3 DEF WaitsLocked
  <1>6. PostPending'
    <2>1. \A q \in Users : Unposted(q)' => Unposted(q) \/ ~CanMove(q)
      BY <1>1, <1>3 DEF Unposted
    <2>2. \A q \in Users : at[q] \in YetToPost => at'[q] \in YetToPost
      BY <1>3, Zenon DEF YetToPost
    <2> QED BY <1>2, <2>1, <2>2, PendingKept, Zenon
  <1>7. LockOwned'
    <2>1. ~broken' => ~broken /\ owner = p
      BY <1>1, Zenon
    <2>2. \A q \in Users : q # Nobody
      BY Zenon
    <2>3. ~broken' => \A q \in Users : at'[q] # "loop" /\ (at'[q] = "release" => pipeKilled'[q])
      BY <1>1, <1>3, <2>1 DEF LockOwned
    <2> QED BY <1>1, <2>3, Zenon DEF LockOwned
  <1>8. OnlyKillBreaks'
    <2>1. broken' => broken \/ pipeKilled[p]
      BY <1>1, Zenon DEF LockOwned
    <2> QED BY <1>1, <2>1, Zenon DEF OnlyKillBreaks
  <1> QED BY <1>2, <1>4, <1>5, <1>6, <1>7, <1>8, Zenon DEF PipeTypeOK

\* Closing an end: nobody holds pi->lock, and the second close leaves it set.
LEMMA CloseInv ==
    ASSUME PipeInv, NEW e \in Ends, Close(e) PROVE PipeInv'
  <1> USE DEF PipeInv
  <1>0. RingTypeOK /\ CallTypeOK
    BY Zenon DEF PipeTypeOK
  <1>1. /\ ~lock /\ open' = [open EXCEPT ![e] = FALSE] /\ lock' = ~open[Other(e)]
        /\ UNCHANGED <<ringVars, owner, broken, semlock, pipeUp, pipeKilled, at, left>>
    BY Zenon DEF Close
  <1>2. RingTypeOK' /\ RingHolds' /\ \A q \in Users : CanMove(q)' <=> CanMove(q)
    BY <1>0, <1>1, RingSame, Zenon
  <1>3. CallTypeOK'
    <2>1. open' \in [Ends -> BOOLEAN]
      BY <1>0, <1>1, Zenon DEF CallTypeOK
    <2>2. lock' \in BOOLEAN
      BY <1>1, Zenon
    <2> QED BY <1>0, <1>1, <2>1, <2>2, Zenon DEF CallTypeOK
  <1>4. WaitsLocked' /\ OnlyKillBreaks'
    BY <1>1, Zenon DEF WaitsLocked, OnlyKillBreaks
  <1>5. PostPending'
    <2>1. \A q \in Users : Unposted(q)' => Unposted(q)
      BY <1>1, Zenon DEF Unposted
    <2> QED BY <1>1, <1>2, <2>1, PendingKept, Zenon
  <1>6. LockOwned'
    BY <1>1, Zenon DEF LockOwned
  <1> QED BY <1>2, <1>3, <1>4, <1>5, <1>6, Zenon DEF PipeTypeOK

\* kill only sets a flag; the process finds it when it resumes.
LEMMA PipeKillInv ==
    ASSUME PipeInv, NEW p \in Users, PipeKill(p) PROVE PipeInv'
  <1> USE DEF PipeInv
  <1>0. RingTypeOK /\ CallTypeOK
    BY Zenon DEF PipeTypeOK
  <1>1. /\ pipeKilled' = [pipeKilled EXCEPT ![p] = TRUE]
        /\ UNCHANGED <<ringVars, open, lock, owner, broken, semlock, pipeUp, at, left>>
    BY Zenon DEF PipeKill, lockVars
  <1>2. RingTypeOK' /\ RingHolds' /\ \A q \in Users : CanMove(q)' <=> CanMove(q)
    BY <1>0, <1>1, RingSame, Zenon
  <1>3. CallTypeOK'
    <2>1. pipeKilled' \in [Users -> BOOLEAN]
      BY <1>0, <1>1, Zenon DEF CallTypeOK
    <2> QED BY <1>0, <1>1, <2>1, Zenon DEF CallTypeOK
  <1>4. WaitsLocked'
    BY <1>1, Zenon DEF WaitsLocked
  <1>5. PostPending'
    <2>1. \A q \in Users : Unposted(q)' => Unposted(q)
      BY <1>1, Zenon DEF Unposted
    <2> QED BY <1>1, <1>2, <2>1, PendingKept, Zenon
  <1>6. \A q \in Users : pipeKilled[q] => pipeKilled'[q]
    BY <1>0, <1>1, Zenon DEF CallTypeOK
  <1>7. LockOwned' /\ OnlyKillBreaks'
    BY <1>1, <1>6, Zenon DEF LockOwned, OnlyKillBreaks
  <1> QED BY <1>2, <1>3, <1>4, <1>5, <1>7, Zenon DEF PipeTypeOK

\* PipeInv is an invariant of the pipe.
THEOREM PipeInvariant == PipeSpec => []PipeInv
  <1>1. PipeInv /\ [PipeNext]_pipeVars => PipeInv'
    <2> SUFFICES ASSUME PipeInv, [PipeNext]_pipeVars PROVE PipeInv'
      BY Zenon
    <2>1. CASE UNCHANGED pipeVars
      BY <2>1, Zenon DEF pipeVars, ringVars, lockVars, PipeInv, PipeTypeOK, RingTypeOK, CallTypeOK, RingHolds, Used,
                  CanMove, WaitsLocked, PostPending, Unposted, LockOwned, OnlyKillBreaks
    <2>2. CASE PipeNext
      BY Zenon, <2>2, AcquireInv, MoveInv, BlockInv, NotifyInv, PipeSleepInv, ResumeInv, LeaveInv, ReleaseInv,
         PostInv, PipeKillInv, CallInv, CloseInv
         DEF PipeNext, Step
    <2> QED BY <2>1, <2>2, Zenon
  <1> QED BY <1>1, PipeInitInv, PTL DEF PipeSpec

\* The ring of pipeRead and pipeWrite holds the bytes written and not yet read,
\* in order, however often nread and nwrite wrap.
THEOREM RingIsSafe == PipeSpec => []RingSafe
  <1>1. PipeInv => RingSafe
    BY Zenon DEF PipeInv, RingSafe, RingMatchesQueue
  <1> QED BY <1>1, PipeInvariant, PTL

\* No reader sleeps on a byte and no writer on a free slot without a post of the
\* other end to come.
THEOREM NoSleeperForgotten == PipeSpec => []NoSleepOnData
  <1>1. PipeInv => NoSleepOnData
    BY Zenon DEF PipeInv, NoSleepOnData, PostPending, Unposted
  <1> QED BY <1>1, PipeInvariant, PTL

\* As long as nobody is killed, pi->lock is cleared only by the process that set
\* it: the loops of pipeRead and pipeWrite exclude each other.
PipeExclusive ==
    (\A p \in Users : ~pipeKilled[p]) =>
        ~broken /\ \A p, q \in Users : at[p] = "loop" /\ at[q] = "loop" => p = q

THEOREM LoopsExclude == PipeSpec => []PipeExclusive
  <1>1. PipeInv => PipeExclusive
    BY Zenon DEF PipeInv, PipeExclusive, OnlyKillBreaks, LockOwned
  <1> QED BY <1>1, PipeInvariant, PTL

-----------------------------------------------------------------------------

\* A remainder may be taken before or after an addition.
LEMMA SlotShift ==
    ASSUME NEW n \in Nat \ {0}, NEW a \in Int, NEW b \in Int
    PROVE  ((a % n) + b) % n = (a + b) % n
  <1> DEFINE d == a \div n
             s == a % n
             f == (s + b) \div n
             g == (s + b) % n
  <1>1. d \in Int /\ s \in 0..n-1 /\ a = n * d + s
    OBVIOUS
  <1>2. f \in Int /\ g \in 0..n-1 /\ s + b = n * f + g
    <2> HIDE DEF s
    <2>1. s + b \in Int
      BY <1>1
    <2> QED BY <2>1
  <1> HIDE DEF d, f, g
  <1>3. a + b = n * (d + f) + g
    <2> HIDE DEF s
    <2> QED BY <1>1, <1>2
  <1>4. (a + b) % n = g
    <2> HIDE DEF s
    <2> DEFINE c == a + b
               m == d + f
    <2>1. c \in Int /\ m \in Int /\ c = n * m + g
      BY <1>1, <1>2, <1>3
    <2> HIDE DEF c, m
    <2>2. c % n = g
      BY <1>2, <2>1, ModUnique, Zenon
    <2> QED BY <2>2, Zenon DEF c
  <1> QED BY <1>4, Zenon DEF g

\* A slot's number is its own remainder; n further is the same slot.
LEMMA SlotOf ==
    ASSUME NEW n \in Nat \ {0}
    PROVE  /\ \A a \in 0 .. n - 1 : a % n = a
           /\ \A a \in Int : a % n \in 0 .. n - 1 /\ (a + n) % n = a % n
  <1>1. ASSUME NEW a \in 0 .. n - 1 PROVE a % n = a
    <2>1. a = n * 0 + a
      OBVIOUS
    <2> QED BY <2>1, ModUnique
  <1>2. ASSUME NEW a \in Int PROVE a % n \in 0 .. n - 1 /\ (a + n) % n = a % n
    <2> DEFINE d == a \div n
               s == a % n
    <2>1. d \in Int /\ s \in 0..n-1 /\ a = n * d + s
      OBVIOUS
    <2> HIDE DEF d, s
    <2>2. a + n = n * (d + 1) + s
      BY <2>1
    <2>3. (a + n) % n = s
      BY <2>1, <2>2, ModUnique
    <2> QED BY <2>1, <2>3, Zenon DEF s
  <1> QED BY <1>1, <1>2, Zenon

\* The difference of two slots is how far apart their positions are.
LEMMA SlotsApart ==
    ASSUME NEW n \in Nat \ {0}, NEW a \in Int, NEW k \in Int
    PROVE  (((a + k) % n) - (a % n)) % n = k % n
  <1> DEFINE d == a \div n
             s == a % n
             x == -s
  <1>1. d \in Int /\ s \in 0..n-1 /\ a = n * d + s
    OBVIOUS
  <1> HIDE DEF d, s
  <1>2. x \in Int /\ a + k \in Int /\ (a + k) + x = n * d + k
    BY <1>1
  <1>3. (((a + k) % n) + x) % n = (n * d + k) % n
    <2> DEFINE c == a + k
    <2> HIDE DEF x
    <2>1. c \in Int /\ c + x = n * d + k
      BY <1>2, Zenon
    <2> HIDE DEF c
    <2>2. ((c % n) + x) % n = (c + x) % n
      BY <1>2, <2>1, SlotShift, Zenon
    <2>3. ((c % n) + x) % n = (n * d + k) % n
      BY <2>1, <2>2, Zenon
    <2> QED BY <2>3, Zenon DEF c
  <1>4. (n * d + k) % n = k % n
    <2> DEFINE f == k \div n
               g == k % n
    <2>1. f \in Int /\ g \in 0..n-1 /\ k = n * f + g
      OBVIOUS
    <2> HIDE DEF f, g
    <2>2. n * d + k = n * (d + f) + g /\ n * d + k \in Int
      BY <1>1, <2>1
    <2>3. (n * d + k) % n = g
      BY <1>1, <2>1, <2>2, ModUnique
    <2> QED BY <2>3, Zenon DEF g
  <1>5. ((a + k) % n) + x = ((a + k) % n) - s
    BY <1>1, <1>2, SlotOf, Zenon
  <1>6. (((a + k) % n) - s) % n = k % n
    BY <1>3, <1>4, <1>5, Zenon
  <1> QED BY <1>6, Zenon DEF s

\* The fields of the ring, and the slots its positions have.
LEMMA RingFacts ==
    ASSUME NEW in \in ConRings, NEW com \in Seq(ConChars), NEW m \in Nat, ConPlaced(in, com, m)
    PROVE  /\ in.r \in Int /\ Len(com) \in Nat
           /\ (in.e - in.w) % INPUT_BUF = m
           /\ \A k \in Int : (in.e + k) % INPUT_BUF = (in.r + (Len(com) + m + k)) % INPUT_BUF
           /\ \A k \in Int : (in.w + k) % INPUT_BUF = (in.r + (Len(com) + k)) % INPUT_BUF
  <1> USE ConAssumption
  <1>1. in.r \in Int /\ in.r \in -1 .. INPUT_BUF - 1 /\ Len(com) \in Nat
    BY DEF ConRings
  <1> DEFINE L == Len(com)
             x == in.r + L
             y == in.r + (L + m)
  <1>2. in.w = x % INPUT_BUF /\ in.e = y % INPUT_BUF /\ L + m < INPUT_BUF
    BY Zenon DEF ConPlaced
  <1>3. x \in Int /\ y \in Int /\ y = x + m /\ L \in Nat
    BY <1>1
  <1> HIDE DEF x, y, L
  <1>4. (in.e - in.w) % INPUT_BUF = m % INPUT_BUF
    <2>1. m \in Int /\ INPUT_BUF \in Nat \ {0}
      OBVIOUS
    <2>2. (((x + m) % INPUT_BUF) - (x % INPUT_BUF)) % INPUT_BUF = m % INPUT_BUF
      BY <1>3, <2>1, SlotsApart, Zenon
    <2> QED BY <1>2, <1>3, <2>2, Zenon
  <1>5. m % INPUT_BUF = m
    <2>1. m \in 0 .. INPUT_BUF - 1
      BY <1>2, <1>3
    <2> QED BY Zenon, <2>1, SlotOf
  <1>6. ASSUME NEW k \in Int
        PROVE  /\ (in.e + k) % INPUT_BUF = (in.r + (L + m + k)) % INPUT_BUF
               /\ (in.w + k) % INPUT_BUF = (in.r + (L + k)) % INPUT_BUF
    <2>1. (in.e + k) % INPUT_BUF = (y + k) % INPUT_BUF /\ (in.w + k) % INPUT_BUF = (x + k) % INPUT_BUF
      BY ZenonT(60), <1>2, <1>3, SlotShift
    <2>2. y + k = in.r + (L + m + k) /\ x + k = in.r + (L + k)
      <3>1. \A r, l \in Int : (r + (l + m)) + k = r + (l + m + k) /\ (r + l) + k = r + (l + k)
        OBVIOUS
      <3>2. in.r \in Int /\ L \in Int
        BY <1>1, <1>3
      <3> QED BY <3>1, <3>2, Zenon DEF x, y
    <2> QED BY <2>1, <2>2, Zenon
  <1> QED BY <1>1, <1>4, <1>5, <1>6, Zenon DEF L

\* What the ring holds from w to e.
LEMMA EditedIs ==
    ASSUME NEW in \in ConRings, NEW com \in Seq(ConChars), NEW m \in Nat, ConPlaced(in, com, m)
    PROVE  /\ Edited(in) \in Seq(ConChars) /\ Len(Edited(in)) = m
           /\ \A i \in 1 .. m : Edited(in)[i] = in.buf[(in.r + (Len(com) + i)) % INPUT_BUF]
  <1>1. Edited(in) = [i \in 1 .. m |-> in.buf[(in.w + i) % INPUT_BUF]]
    BY RingFacts, Zenon DEF Edited
  <1>2. ASSUME NEW i \in 1 .. m
        PROVE  /\ in.buf[(in.w + i) % INPUT_BUF] = in.buf[(in.r + (Len(com) + i)) % INPUT_BUF]
               /\ in.buf[(in.r + (Len(com) + i)) % INPUT_BUF] \in ConChars
    <2>1. i \in Int /\ Len(com) + i \in Len(com) + 1 .. Len(com) + m
      BY RingFacts
    <2> QED BY <2>1, RingFacts, Zenon DEF ConPlaced
  <1>3. Edited(in) \in [1 .. m -> ConChars]
    BY <1>1, <1>2, Zenon
  <1>4. Edited(in) \in Seq(ConChars) /\ Len(Edited(in)) = m
    BY <1>3
  <1> QED BY <1>1, <1>2, <1>4, Zenon

\* A ring placed like that is the ring ConRing describes.
LEMMA PlacedRing ==
    ASSUME ConInputType, NEW m \in Nat, ConPlaced(input, committed, m)
    PROVE  ConRing
  <1> USE ConAssumption DEF ConInputType
  <1>1. Unread = committed
    <2>1. committed = [i \in 1 .. Len(committed) |-> committed[i]]
      OBVIOUS
    <2>2. \A i \in 1 .. Len(committed) : input.buf[(input.r + i) % INPUT_BUF] = committed[i]
      BY Zenon DEF ConPlaced
    <2> QED BY <2>1, <2>2, Zenon DEF Unread
  <1>2. (input.w - input.r) % INPUT_BUF = Len(committed) % INPUT_BUF
    <2>1. \A r, w, l \in Int : -r \in Int /\ w + -r = w - r /\ r + (l + -r) = l
      OBVIOUS
    <2>2. input.r \in Int /\ input.w \in Int /\ Len(committed) \in Int
      BY DEF ConRings
    <2>3. \A k \in Int : (input.w + k) % INPUT_BUF = (input.r + (Len(committed) + k)) % INPUT_BUF
      BY RingFacts, Zenon
    <2> QED BY <2>1, <2>2, <2>3, Zenon
  <1>3. Len(committed \o Edited(input)) < INPUT_BUF
    <2>1. Edited(input) \in Seq(ConChars) /\ Len(Edited(input)) = m
      BY EditedIs, Zenon
    <2>2. Len(committed \o Edited(input)) = Len(committed) + m
      BY <2>1
    <2> QED BY <2>2, Zenon DEF ConPlaced
  <1> QED BY <1>1, <1>2, <1>3, Zenon DEF ConRing

\* Erasing k characters that are not committed.
LEMMA ErasePlaced ==
    ASSUME NEW in \in ConRings, NEW com \in Seq(ConChars), NEW m \in Nat, ConPlaced(in, com, m),
           NEW k \in 0 .. m, NEW in2 \in ConRings,
           in2 = [in EXCEPT !.e = (in.e - k) % INPUT_BUF]
    PROVE  ConPlaced(in2, com, m - k)
  <1> USE ConAssumption
  <1>1. in2.buf = in.buf /\ in2.r = in.r /\ in2.w = in.w /\ in2.e = (in.e - k) % INPUT_BUF
    BY Zenon DEF ConRings
  <1>2. (in.e - k) % INPUT_BUF = (in.r + (Len(com) + (m - k))) % INPUT_BUF
    <2>1. \A r, e, l \in Int : -k \in Int /\ e + -k = e - k /\ r + (l + m + -k) = r + (l + (m - k))
      OBVIOUS
    <2>2. in.r \in Int /\ in.e \in Int /\ Len(com) \in Int
      BY DEF ConRings
    <2>3. \A j \in Int : (in.e + j) % INPUT_BUF = (in.r + (Len(com) + m + j)) % INPUT_BUF
      BY ZenonT(60), RingFacts
    <2> QED BY <2>1, <2>2, <2>3, Zenon
  <1>3. Len(com) \in Nat /\ Len(com) + m < INPUT_BUF
    BY Zenon, RingFacts DEF ConPlaced
  <1>4. \A i \in Len(com) + 1 .. Len(com) + (m - k) : i \in Len(com) + 1 .. Len(com) + m
    BY <1>3
  <1>5. Len(com) + (m - k) < INPUT_BUF
    BY <1>3
  <1> QED BY <1>1, <1>2, <1>4, <1>5, Zenon DEF ConPlaced

\* The slot the next character goes to.
LEMMA NextSlot ==
    ASSUME NEW in \in ConRings, NEW com \in Seq(ConChars), NEW m \in Nat, ConPlaced(in, com, m)
    PROVE  Succ(in.e) = (in.r + (Len(com) + m + 1)) % INPUT_BUF
  <1>1. \A k \in Int : (in.e + k) % INPUT_BUF = (in.r + (Len(com) + m + k)) % INPUT_BUF
    BY RingFacts, Zenon
  <1>2. 1 \in Int
    OBVIOUS
  <1> QED BY <1>1, <1>2, Zenon DEF Succ

\* One character typed into a ring that is not full overwrites none.
LEMMA TypePlaced ==
    ASSUME NEW in \in ConRings, NEW com \in Seq(ConChars), NEW m \in Nat, ConPlaced(in, com, m),
           in.r % INPUT_BUF # Succ(in.e), NEW c \in ConChars, NEW in2 \in ConRings,
           in2 = [in EXCEPT !.e = Succ(in.e), !.buf[Succ(in.e)] = c]
    PROVE  ConPlaced(in2, com, m + 1)
  <1> USE ConAssumption
  <1> DEFINE L == Len(com)
             s == Succ(in.e)
  <1>1. in2.r = in.r /\ in2.w = in.w /\ in2.e = s /\ in2.buf = [in.buf EXCEPT ![s] = c]
    BY Zenon DEF ConRings
  <1>2. in.r \in Int /\ L \in Nat /\ L + m < INPUT_BUF /\ m \in Int
    <2>1. m \in Int
      OBVIOUS
    <2> QED BY <2>1, RingFacts, Zenon DEF ConPlaced
  <1>3. s = (in.r + (L + m + 1)) % INPUT_BUF
    BY NextSlot, Zenon
  <1>4. s \in 0 .. INPUT_BUF - 1
    <2>1. in.r + (L + m + 1) \in Int
      BY <1>2
    <2> QED BY <1>3, <2>1, SlotOf, Zenon
  <1>5. in.buf \in [0 .. INPUT_BUF - 1 -> ConChars \cup {"nul"}]
    BY Zenon DEF ConRings
  <1>6. in.r % INPUT_BUF # s
    BY Zenon
  <1> HIDE DEF s, L
  <1>7. L + m + 1 < INPUT_BUF
    <2> SUFFICES ASSUME L + m + 1 = INPUT_BUF PROVE FALSE
      BY <1>2
    <2> QED BY <1>2, <1>3, <1>6, SlotOf, Zenon
  <1>8. ASSUME NEW i \in 1 .. L + m PROVE in2.buf[(in.r + i) % INPUT_BUF] = in.buf[(in.r + i) % INPUT_BUF]
    <2>1. \A r \in Int : /\ r + i \in Int /\ r + (L + m + 1) \in Int /\ r + i < r + (L + m + 1)
                        /\ (r + (L + m + 1)) - (r + i) < INPUT_BUF
      BY SMTT(30), <1>2
    <2>2. \A a, b \in Int : a < b /\ b - a < INPUT_BUF => a % INPUT_BUF # b % INPUT_BUF
      BY SlotsDiffer, Zenon
    <2>3. (in.r + i) % INPUT_BUF # s
      BY <1>2, <1>3, <2>1, <2>2, Zenon
    <2>4. (in.r + i) % INPUT_BUF \in 0 .. INPUT_BUF - 1
      BY <1>2, <2>1, SlotOf, Zenon
    <2> QED BY ZenonT(60), <1>1, <1>4, <1>5, <2>3, <2>4
  <1>9. \A i \in 1 .. L : in2.buf[(in.r + i) % INPUT_BUF] = com[i]
    <2>1. \A i \in 1 .. L : i \in 1 .. L + m
      BY <1>2
    <2>2. \A i \in 1 .. L : in.buf[(in.r + i) % INPUT_BUF] = com[i]
      BY Zenon DEF ConPlaced, L
    <2> QED BY <1>8, <2>1, <2>2, Zenon
  <1>10. \A i \in L + 1 .. L + (m + 1) : in2.buf[(in.r + i) % INPUT_BUF] \in ConChars
    <2> TAKE i \in L + 1 .. L + (m + 1)
    <2>1. (i \in L + 1 .. L + m /\ i \in 1 .. L + m) \/ i = L + m + 1
      BY SMTT(30), <1>2
    <2>2. CASE i = L + m + 1
      BY <1>1, <1>3, <1>4, <1>5, <2>2, Zenon
    <2>3. CASE i \in L + 1 .. L + m /\ i \in 1 .. L + m
      <3>1. in.buf[(in.r + i) % INPUT_BUF] \in ConChars
        BY <2>3, Zenon DEF ConPlaced, L
      <3> QED BY <1>8, <2>3, <3>1, Zenon
    <2> QED BY <2>1, <2>2, <2>3, Zenon
  <1>11. L + (m + 1) = L + m + 1 /\ L + (m + 1) < INPUT_BUF
    BY <1>2, <1>7
  <1>12. in2.w = (in2.r + L) % INPUT_BUF /\ (in2.r = -1 => com # <<>>)
    BY <1>1, Zenon DEF ConPlaced, L
  <1> QED BY <1>1, <1>3, <1>9, <1>10, <1>11, <1>12, Zenon DEF ConPlaced, L

\* Full or not, what is edited are characters.
LEMMA TypedEdited ==
    ASSUME NEW in \in ConRings, NEW com \in Seq(ConChars), NEW m \in Nat, ConPlaced(in, com, m),
           NEW c \in ConChars, NEW in2 \in ConRings,
           in2 = [in EXCEPT !.e = Succ(in.e), !.buf[Succ(in.e)] = c]
    PROVE  Edited(in2) \in Seq(ConChars)
  <1> USE ConAssumption
  <1> DEFINE L == Len(com)
             x == in.r + L
             s == Succ(in.e)
             n == (in2.e - in2.w) % INPUT_BUF
  <1>1. in2.w = in.w /\ in2.e = s /\ in2.buf = [in.buf EXCEPT ![s] = c]
    BY Zenon DEF ConRings
  <1>2. in.r \in Int /\ L \in Nat /\ L + m < INPUT_BUF /\ m \in Int /\ m + 1 \in Int /\ 1 \in Int
    <2>1. m \in Int /\ m + 1 \in Int /\ 1 \in Int
      OBVIOUS
    <2> QED BY <2>1, RingFacts, Zenon DEF ConPlaced
  <1>3. s = (x + (m + 1)) % INPUT_BUF /\ x \in Int /\ in.w = x % INPUT_BUF
    <2>1. s = (in.r + (L + m + 1)) % INPUT_BUF
      BY NextSlot, Zenon
    <2>2. \A r, l \in Int : r + (l + m + 1) = (r + l) + (m + 1) /\ r + l \in Int
      OBVIOUS
    <2>3. L \in Int
      BY <1>2
    <2>4. in.w = x % INPUT_BUF
      BY Zenon DEF ConPlaced
    <2> QED BY <1>2, <2>1, <2>2, <2>3, <2>4, Zenon
  <1>4. in.buf \in [0 .. INPUT_BUF - 1 -> ConChars \cup {"nul"}]
    BY Zenon DEF ConRings
  <1>5. \A i \in Int : (in.w + i) % INPUT_BUF = (in.r + (L + i)) % INPUT_BUF
    BY RingFacts, Zenon
  <1>6. \A i \in L + 1 .. L + m : in.buf[(in.r + i) % INPUT_BUF] \in ConChars
    BY Zenon DEF ConPlaced
  <1> HIDE DEF s, x, L
  <1>7. n \in 0 .. m + 1
    <2>1. n = (m + 1) % INPUT_BUF
      <3>1. (((x + (m + 1)) % INPUT_BUF) - (x % INPUT_BUF)) % INPUT_BUF = (m + 1) % INPUT_BUF
        BY <1>2, <1>3, SlotsApart, Zenon
      <3> QED BY <1>1, <1>3, <3>1, Zenon
    <2>2. m + 1 \in 0 .. INPUT_BUF - 1 \/ m + 1 = INPUT_BUF
      BY <1>2
    <2>3. CASE m + 1 \in 0 .. INPUT_BUF - 1
      <3>1. (m + 1) % INPUT_BUF = m + 1
        BY <2>3, SlotOf, Zenon
      <3> QED BY <2>1, <3>1
    <2>4. CASE m + 1 = INPUT_BUF
      <3>1. m + 1 = INPUT_BUF * 1 + 0 /\ 0 \in 0 .. INPUT_BUF - 1
        BY <2>4
      <3>2. (m + 1) % INPUT_BUF = 0
        BY Zenon, <1>2, <3>1, ModUnique
      <3> QED BY <2>1, <3>2
    <2> QED BY <2>2, <2>3, <2>4, Zenon
  <1>8. ASSUME NEW i \in 1 .. n PROVE in2.buf[(in.w + i) % INPUT_BUF] \in ConChars
    <2>1. i \in Int /\ (i = m + 1 \/ L + i \in L + 1 .. L + m)
      BY SMTT(30), <1>2, <1>7
    <2>2. (in.w + i) % INPUT_BUF \in 0 .. INPUT_BUF - 1
      <3>1. in.r + (L + i) \in Int
        BY SMTT(30), <1>2, <2>1
      <3> QED BY <1>5, <2>1, <3>1, SlotOf, Zenon
    <2>3. CASE i = m + 1
      <3>1. (in.w + i) % INPUT_BUF = s
        <4>1. ((x % INPUT_BUF) + (m + 1)) % INPUT_BUF = (x + (m + 1)) % INPUT_BUF
          BY <1>2, <1>3, SlotShift, Zenon
        <4> QED BY <1>3, <2>3, <4>1, Zenon
      <3> QED BY <1>1, <1>4, <2>2, <3>1, Zenon
    <2>4. CASE L + i \in L + 1 .. L + m
      <3>1. in.buf[(in.w + i) % INPUT_BUF] \in ConChars
        BY <1>5, <1>6, <2>1, <2>4, Zenon
      <3> QED BY ZenonT(60), <1>1, <1>4, <2>2, <3>1
    <2> QED BY <2>1, <2>3, <2>4, Zenon
  <1>9. Edited(in2) = [i \in 1 .. n |-> in2.buf[(in2.w + i) % INPUT_BUF]]
    BY Zenon DEF Edited
  <1> HIDE DEF n
  <1>10. Edited(in2) \in [1 .. n -> ConChars] /\ n \in Nat
    <2>1. n \in Nat
      BY <1>7
    <2>2. \A i \in 1 .. n : in2.buf[(in2.w + i) % INPUT_BUF] \in ConChars
      BY <1>1, <1>8, Zenon
    <2> QED BY <1>9, <2>1, <2>2, Zenon
  <1> QED BY <1>10

\* The edited characters are committed.
LEMMA CommitPlaced ==
    ASSUME NEW in \in ConRings, NEW com \in Seq(ConChars), NEW m \in Nat, ConPlaced(in, com, m),
           NEW in2 \in ConRings, in2 = [in EXCEPT !.w = in.e]
    PROVE  ConPlaced(in2, com \o Edited(in), 0)
  <1> DEFINE L == Len(com)
             E == Edited(in)
             C == com \o E
  <1>1. in2.r = in.r /\ in2.w = in.e /\ in2.e = in.e /\ in2.buf = in.buf
    BY Zenon DEF ConRings
  <1>2. E \in Seq(ConChars) /\ Len(E) = m
        /\ \A i \in 1 .. m : E[i] = in.buf[(in.r + (L + i)) % INPUT_BUF]
    BY EditedIs, Zenon
  <1>3. in.e = (in.r + (L + m)) % INPUT_BUF /\ L + m < INPUT_BUF /\ (in.r = -1 => com # <<>>)
        /\ \A i \in 1 .. L : in.buf[(in.r + i) % INPUT_BUF] = com[i]
    BY Zenon DEF ConPlaced
  <1> HIDE DEF E
  <1>4. /\ L \in Nat /\ Len(C) = L + m /\ Len(C) + 0 = L + m
        /\ \A i \in 1 .. L : C[i] = com[i]
        /\ \A i \in L + 1 .. L + m : C[i] = E[i - L]
        /\ (com # <<>> => C # <<>>)
    <2>1. \A S, T \in Seq(ConChars) :
             /\ Len(S) \in Nat /\ Len(S \o T) = Len(S) + Len(T)
             /\ Len(S \o T) + 0 = Len(S) + Len(T)
             /\ \A i \in 1 .. Len(S) : (S \o T)[i] = S[i]
             /\ \A i \in Len(S) + 1 .. Len(S) + Len(T) : (S \o T)[i] = T[i - Len(S)]
      OBVIOUS
    <2>2. \A S, T \in Seq(ConChars) : S # <<>> => S \o T # <<>>
      OBVIOUS
    <2> QED BY <1>2, <2>1, <2>2, Zenon
  <1> HIDE DEF C, L
  <1>5. \A i \in 1 .. L + m : in.buf[(in.r + i) % INPUT_BUF] = C[i]
    <2> TAKE i \in 1 .. L + m
    <2>1. i \in 1 .. L \/ (i \in L + 1 .. L + m /\ i - L \in 1 .. m /\ L + (i - L) = i)
      BY <1>4
    <2> QED BY <1>2, <1>3, <1>4, <2>1, Zenon
  <1>6. \A i \in (L + m) + 1 .. L + m : FALSE
    BY <1>4
  <1> QED BY <1>1, <1>3, <1>4, <1>5, <1>6, Zenon DEF ConPlaced, C, E

\* The positions of a queue of l characters after the first one has left it.
LEMMA OneLess ==
    ASSUME NEW l \in Int, NEW m \in Int, NEW n \in Int, l + m < n
    PROVE  /\ l - 1 \in Int /\ (l - 1) + 1 = l /\ (l - 1) + m \in Int /\ ((l - 1) + m) + 1 = l + m
           /\ (l - 1) + m < n
           /\ \A i \in 1 .. l - 1 : i \in Int /\ i + 1 \in 1 .. l
           /\ \A i \in (l - 1) + 1 .. (l - 1) + m : i \in Int /\ i + 1 \in l + 1 .. l + m
  OBVIOUS

\* The first character that is committed is read.
LEMMA TakePlaced ==
    ASSUME NEW in \in ConRings, NEW com \in Seq(ConChars), NEW m \in Nat, ConPlaced(in, com, m),
           com # <<>>, NEW in2 \in ConRings, in2 = [in EXCEPT !.r = Succ(in.r)]
    PROVE  ConPlaced(in2, Tail(com), m)
  <1> USE ConAssumption
  <1> DEFINE L == Len(com)
             T == Tail(com)
  <1>1. in2.w = in.w /\ in2.e = in.e /\ in2.buf = in.buf /\ in2.r = Succ(in.r)
    BY Zenon DEF ConRings
  <1>2. in.r \in Int /\ L \in Nat /\ L + m < INPUT_BUF
    BY RingFacts, Zenon DEF ConPlaced
  <1>3. Len(T) = L - 1 /\ L \in Int /\ L >= 1 /\ \A i \in 1 .. L - 1 : T[i] = com[i + 1]
    OBVIOUS
  <1>4. in2.r # -1
    <2>1. in.r + 1 \in Int
      BY <1>2
    <2>2. Succ(in.r) \in 0 .. INPUT_BUF - 1
      BY <2>1, SlotOf, Zenon DEF Succ
    <2> QED BY <1>1, <2>2
  <1>5. ASSUME NEW i \in Int PROVE (in2.r + i) % INPUT_BUF = (in.r + (i + 1)) % INPUT_BUF
    <2>1. \A r \in Int : r + 1 \in Int /\ (r + 1) + i = r + (i + 1)
      OBVIOUS
    <2>2. (((in.r + 1) % INPUT_BUF) + i) % INPUT_BUF = ((in.r + 1) + i) % INPUT_BUF
      BY <1>2, <2>1, SlotShift, Zenon
    <2> QED BY <1>1, <1>2, <2>1, <2>2, Zenon DEF Succ
  <1>6. in.w = (in.r + L) % INPUT_BUF /\ in.e = (in.r + (L + m)) % INPUT_BUF
    BY Zenon DEF ConPlaced
  <1>7. /\ \A i \in 1 .. L : in.buf[(in.r + i) % INPUT_BUF] = com[i]
        /\ \A i \in L + 1 .. L + m : in.buf[(in.r + i) % INPUT_BUF] \in ConChars
    BY Zenon DEF ConPlaced
  <1> HIDE DEF L, T
  <1>8. /\ L - 1 \in Int /\ (L - 1) + 1 = L /\ (L - 1) + m \in Int /\ ((L - 1) + m) + 1 = L + m
        /\ (L - 1) + m < INPUT_BUF
        /\ \A i \in 1 .. L - 1 : i \in Int /\ i + 1 \in 1 .. L
        /\ \A i \in (L - 1) + 1 .. (L - 1) + m : i \in Int /\ i + 1 \in L + 1 .. L + m
    <2>1. m \in Int /\ INPUT_BUF \in Int
      OBVIOUS
    <2> QED BY <1>2, <1>3, <2>1, OneLess, Zenon
  <1>9. in2.w = (in2.r + (L - 1)) % INPUT_BUF /\ in2.e = (in2.r + ((L - 1) + m)) % INPUT_BUF
    BY <1>1, <1>5, <1>6, <1>8, Zenon
  <1>10. \A i \in 1 .. L - 1 : in2.buf[(in2.r + i) % INPUT_BUF] = T[i]
    BY <1>1, <1>3, <1>5, <1>7, <1>8, Zenon
  <1>11. \A i \in (L - 1) + 1 .. (L - 1) + m : in2.buf[(in2.r + i) % INPUT_BUF] \in ConChars
    BY <1>1, <1>5, <1>7, <1>8, Zenon
  <1> QED BY <1>3, <1>4, <1>8, <1>9, <1>10, <1>11, Zenon DEF ConPlaced, T

\* ^D put back with r--, wherever r stood.
LEMMA KeepPlaced ==
    ASSUME NEW in \in ConRings, NEW com \in Seq(ConChars), NEW m \in Nat, ConPlaced(in, com, m),
           com # <<>>, NEW in2 \in ConRings, in2 = [in EXCEPT !.r = Succ(in.r) - 1]
    PROVE  ConPlaced(in2, com, m)
  <1> USE ConAssumption
  <1>1. in2.w = in.w /\ in2.e = in.e /\ in2.buf = in.buf /\ in2.r = Succ(in.r) - 1
    BY Zenon DEF ConRings
  <1>2. in.r \in Int /\ Len(com) \in Int /\ Len(com) + m \in Int
    BY RingFacts
  <1>3. ASSUME NEW i \in Int PROVE (in2.r + i) % INPUT_BUF = (in.r + i) % INPUT_BUF
    <2>1. \A r \in Int : r + 1 \in Int /\ (r + 1) + (i - 1) = r + i /\ (r - 1) + i = r + (i - 1)
                        /\ i - 1 \in Int
      OBVIOUS
    <2>2. (((in.r + 1) % INPUT_BUF) + (i - 1)) % INPUT_BUF = ((in.r + 1) + (i - 1)) % INPUT_BUF
      BY ZenonT(60), <1>2, <2>1, SlotShift
    <2>3. Succ(in.r) \in Int
      <3>1. Succ(in.r) \in 0 .. INPUT_BUF - 1
        BY <1>2, <2>1, SlotOf, Zenon DEF Succ
      <3> QED BY <3>1
    <2>4. (Succ(in.r) + (i - 1)) % INPUT_BUF = (in.r + i) % INPUT_BUF
      BY <1>2, <2>1, <2>2, Zenon DEF Succ
    <2> QED BY <1>1, <2>1, <2>3, <2>4, Zenon
  <1>4. /\ \A i \in 1 .. Len(com) : i \in Int
        /\ \A i \in Len(com) + 1 .. Len(com) + m : i \in Int
    BY <1>2
  <1> QED BY <1>1, <1>2, <1>3, <1>4, Zenon DEF ConPlaced

\* A set of naturals has a least element.
LEMMA LeastNat ==
    ASSUME NEW S \in SUBSET Nat, S # {}
    PROVE  \E n \in S : \A m \in S : n <= m
  <1> DEFINE T == {0..n : n \in S}
  <1>1. \A n \in S : IsFiniteSet(0..n)
    BY FS_Interval
  <1>2. T \subseteq FiniteSubsetsOf(Nat) /\ T # {}
    <2>1. \A n \in S : 0..n \in FiniteSubsetsOf(Nat)
      BY <1>1 DEF FiniteSubsetsOf
    <2> QED BY <2>1, Zenon
  <1> HIDE DEF T
  <1>3. PICK x \in T : \A y \in T : <<y, x>> \notin StrictSubsetOrdering(Nat)
    BY <1>2, WFMin, FS_StrictSubsetOrderingWellFounded, Zenon
  <1> USE DEF T
  <1>4. PICK n \in S : x = 0..n
    BY Zenon
  <1>5. ASSUME NEW m \in S, m < n PROVE FALSE
    <2>1. 0..m \subseteq 0..n /\ 0..m # 0..n
      <3>1. n \in 0..n /\ n \notin 0..m
        BY <1>5
      <3> QED BY <1>5, <3>1
    <2>2. <<0..m, 0..n>> \in StrictSubsetOrdering(Nat)
      BY <2>1 DEF StrictSubsetOrdering
    <2> QED BY <2>2, <1>3, <1>4, Zenon
  <1> QED BY <1>5

\* A reader that moves from one place to another, and how many are at each.
LEMMA ConMoves ==
    ASSUME ConReaderTypes, NEW p \in ConReaders, NEW l \in ConPCs, conPc' = [conPc EXCEPT ![p] = l]
    PROVE  /\ conPc' \in [ConReaders -> ConPCs] /\ conPc'[p] = l
           /\ \A q \in ConReaders : q # p => conPc'[q] = conPc[q]
           /\ \A k \in ConPCs \ {l, conPc[p]} : ConAt(k)' = ConAt(k)
           /\ \A k : Cardinality(ConAt(k)) \in Nat
           /\ \A k : k = l /\ k # conPc[p] => Cardinality(ConAt(k)') = Cardinality(ConAt(k)) + 1
           /\ \A k : k # l /\ k = conPc[p] => Cardinality(ConAt(k)') = Cardinality(ConAt(k)) - 1
  <1>1. conPc' \in [ConReaders -> ConPCs] /\ conPc'[p] = l
    BY Zenon DEF ConReaderTypes
  <1>2. \A q \in ConReaders : q # p => conPc'[q] = conPc[q]
    BY Zenon DEF ConReaderTypes
  <1>3. \A k \in ConPCs \ {l, conPc[p]} : ConAt(k)' = ConAt(k)
    BY <1>1, <1>2, Zenon DEF ConAt
  <1>4. \A k : IsFiniteSet(ConAt(k))
    BY ConAssumption, FS_Subset, Zenon DEF ConAt
  <1>5. \A k : Cardinality(ConAt(k)) \in Nat
    BY <1>4, FS_CardinalityType, Zenon
  <1>6. \A k : k = l /\ k # conPc[p] => ConAt(k)' = ConAt(k) \cup {p} /\ p \notin ConAt(k)
    BY <1>1, <1>2, Zenon DEF ConAt
  <1>7. \A k : k # l /\ k = conPc[p] => ConAt(k)' = ConAt(k) \ {p} /\ p \in ConAt(k)
    BY <1>1, <1>2, Zenon DEF ConAt
  <1>8. \A k : k = l /\ k # conPc[p] => Cardinality(ConAt(k)') = Cardinality(ConAt(k)) + 1
    BY <1>4, <1>6, FS_AddElement, Zenon
  <1>9. \A k : k # l /\ k = conPc[p] => Cardinality(ConAt(k)') = Cardinality(ConAt(k)) - 1
    BY <1>4, <1>7, FS_RemoveElement, Zenon
  <1> QED BY <1>1, <1>2, <1>3, <1>5, <1>8, <1>9, Zenon

\* Nothing about the inode's lock changes while a reader is elsewhere.
LEMMA PostsKept ==
    ASSUME ConReaderTypes, ConPosts, NEW p \in ConReaders, NEW l \in ConPCs \ {"unlock", "dead"},
           conPc[p] \notin {"unlock", "dead"}, conPc' = [conPc EXCEPT ![p] = l],
           UNCHANGED <<ipLock, leaked>>
    PROVE  ConPosts'
  <1>1. ConAt("unlock")' = ConAt("unlock") /\ ConAt("dead")' = ConAt("dead")
    <2>1. "unlock" \in ConPCs \ {l, conPc[p]} /\ "dead" \in ConPCs \ {l, conPc[p]} /\ l \in ConPCs
      BY Zenon DEF ConPCs, ConWaits
    <2> QED BY <2>1, ConMoves, Zenon
  <1> QED BY <1>1, Zenon DEF ConPosts

\* console_init, and the first state of the inode's lock.
LEMMA ConsoleInitInv == ConsoleInit => ConInv
  <1> SUFFICES ASSUME ConsoleInit PROVE ConInv
    BY Zenon
  <1> USE ConAssumption DEF ConsoleInit
  <1>1. ConReaderTypes
    <2>1. conPc \in [ConReaders -> ConPCs]
      BY Zenon DEF ConPCs, ConWaits
    <2>2. conN \in [ConReaders -> 0 .. ConMaxN] /\ conGot \in [ConReaders -> Nat]
      OBVIOUS
    <2> QED BY <2>1, <2>2, Zenon DEF ConReaderTypes
  <1>2. ConHolding
    BY DEF ConHolding, ConWaits
  <1>3. ConPosts
    <2>1. ConAt("unlock") = {} /\ ConAt("dead") = {}
      BY Zenon DEF ConAt
    <2> QED BY Zenon, <2>1, FS_EmptySet DEF ConPosts
  <1>4. ConInputType
    <2>1. input \in ConRings
      BY DEF ConRings
    <2> QED BY <2>1 DEF ConInputType
  <1>5. ConPlaced(input, committed, 0) /\ 0 \in 0 .. INPUT_BUF
    <2>1. 0 % INPUT_BUF = 0
      BY SlotOf
    <2> QED BY <2>1 DEF ConPlaced
  <1> QED BY <1>1, <1>2, <1>3, <1>4, <1>5, Zenon DEF ConInv

\* The interrupt leaves the readers alone.
LEMMA InterruptKeeps ==
    ASSUME ConInv, UNCHANGED <<conLock, ipLock, conPc, conN, conGot, leaked>>,
           \/ UNCHANGED <<canRead, typed>>
           \/ typed' = typed + 1 /\ typed < ConMaxTyped /\ canRead' \in {canRead, canRead + 1}
    PROVE  ConReaderTypes' /\ ConHolding' /\ ConPosts'
  <1>1. ConReaderTypes' /\ ConPosts'
    BY Zenon DEF ConInv, ConReaderTypes, ConPosts, ConAt
  <1>2. canRead' \in 0 .. typed' /\ typed' \in 0 .. ConMaxTyped
    BY ConAssumption DEF ConInv, ConHolding
  <1> QED BY <1>1, <1>2, Zenon DEF ConInv, ConHolding

\* Erasing k of the characters edited and not committed, for k of the loops'.
LEMMA EraseInv ==
    ASSUME ConInv, ~lapse, NEW k \in Nat, k <= (input.e - input.w) % INPUT_BUF,
           input' = [input EXCEPT !.e = (input.e - k) % INPUT_BUF],
           UNCHANGED <<canRead, conLock, ipLock, conPc, conN, conGot, committed, lapse, leaked, typed>>
    PROVE  ConInv'
  <1> USE ConAssumption
  <1>1. PICK m \in 0 .. INPUT_BUF : ConPlaced(input, committed, m)
    BY Zenon DEF ConInv
  <1>2. input \in ConRings /\ committed \in Seq(ConChars) /\ m \in Nat
    <2>1. m \in Nat
      OBVIOUS
    <2> QED BY <2>1, Zenon DEF ConInv, ConInputType
  <1>3. k \in 0 .. m
    BY SMTT(30), <1>1, <1>2, RingFacts
  <1>4. input' \in ConRings
    <2>1. input.e - k \in Int
      BY <1>2 DEF ConRings
    <2>2. (input.e - k) % INPUT_BUF \in 0 .. INPUT_BUF - 1
      BY <2>1, SlotOf, Zenon
    <2> QED BY Zenon, <1>2, <2>2 DEF ConRings
  <1>5. ConPlaced(input', committed, m - k)
    BY <1>1, <1>2, <1>3, <1>4, ErasePlaced, Zenon
  <1>6. m - k \in 0 .. INPUT_BUF
    BY <1>2, <1>3
  <1>7. \E n \in 0 .. INPUT_BUF : ConPlaced(input', committed', n)
    BY <1>5, <1>6, Zenon
  <1>8. ConReaderTypes' /\ ConHolding' /\ ConPosts'
    BY InterruptKeeps, Zenon
  <1>9. ConInputType'
    BY <1>2, <1>4, Zenon DEF ConInputType
  <1> QED BY <1>7, <1>8, <1>9, Zenon DEF ConInv

\* Backspace.
LEMMA BackspaceInv == ASSUME ConInv, Backspace PROVE ConInv'
  <1> USE ConAssumption
  <1>1. /\ ~lapse /\ input.e # input.w /\ input' = [input EXCEPT !.e = Pred(input.e)]
        /\ UNCHANGED <<canRead, conLock, ipLock, conPc, conN, conGot, committed, lapse, leaked, typed>>
    BY Zenon DEF Backspace, EraseWith
  <1>2. input \in ConRings
    BY Zenon DEF ConInv, ConInputType
  <1>3. 1 <= (input.e - input.w) % INPUT_BUF
    <2>1. input.e \in 0 .. INPUT_BUF - 1 /\ input.w \in 0 .. INPUT_BUF - 1
      BY <1>2, Zenon DEF ConRings
    <2>2. PICK e, w \in 0 .. INPUT_BUF - 1 : input.e = e /\ input.w = w
      BY <2>1, Zenon
    <2>3. e # w
      BY <1>1, <2>2, Zenon
    <2>4. (e - w) % INPUT_BUF = IF e > w THEN e - w ELSE (e - w) + INPUT_BUF
      <3>1. CASE e > w
        <4>1. e - w \in 0 .. INPUT_BUF - 1 /\ e - w \in Int
          BY <3>1
        <4> QED BY Zenon, <3>1, <4>1, SlotOf
      <3>2. CASE e < w
        <4>1. (e - w) + INPUT_BUF \in 0 .. INPUT_BUF - 1 /\ e - w \in Int
          BY <3>2
        <4>2. ((e - w) + INPUT_BUF) % INPUT_BUF = (e - w) % INPUT_BUF
          BY <4>1, SlotOf, Zenon
        <4>3. ((e - w) + INPUT_BUF) % INPUT_BUF = (e - w) + INPUT_BUF
          BY <4>1, SlotOf, Zenon
        <4> QED BY <3>2, <4>2, <4>3
      <3> QED BY <2>3, <3>1, <3>2
    <2>5. 1 <= (e - w) % INPUT_BUF
      BY <2>3, <2>4
    <2> QED BY <2>2, <2>5, Zenon
  <1>4. input' = [input EXCEPT !.e = (input.e - 1) % INPUT_BUF] /\ 1 \in Nat
    BY <1>1, Zenon DEF Pred
  <1> QED BY <1>1, <1>3, <1>4, EraseInv, Zenon

\* Ctrl+U: as far as w, or the newline.
LEMMA KillLineInv == ASSUME ConInv, KillLine PROVE ConInv'
  <1> USE ConAssumption
  <1> DEFINE len == (input.e - input.w) % INPUT_BUF
             stops == {k \in 0 .. len : k = len \/ input.buf[Pred((input.e - k) % INPUT_BUF)] = "nl"}
             k0 == CHOOSE k \in stops : \A j \in stops : k <= j
  <1>1. /\ ~lapse /\ input' = [input EXCEPT !.e = (input.e - k0) % INPUT_BUF]
        /\ UNCHANGED <<canRead, conLock, ipLock, conPc, conN, conGot, committed, lapse, leaked, typed>>
    BY Zenon DEF KillLine
  <1>2. len \in Nat
    <2>1. input.e - input.w \in Int
      BY DEF ConInv, ConInputType, ConRings
    <2>2. len \in 0 .. INPUT_BUF - 1
      BY Zenon, <2>1, SlotOf
    <2> QED BY <2>2
  <1> HIDE DEF len
  <1>3. stops \in SUBSET Nat /\ stops # {}
    <2>1. len \in stops
      BY <1>2
    <2> QED BY <2>1
  <1>4. k0 \in stops
    <2> HIDE DEF stops
    <2> QED BY <1>3, LeastNat, Zenon
  <1>5. k0 \in Nat /\ k0 <= len
    <2> HIDE DEF k0
    <2> QED BY <1>2, <1>4
  <1> HIDE DEF k0
  <1> QED BY <1>1, <1>5, EraseInv, Zenon DEF len

\* A character typed; newline, ^D and a ring that is full commit the line.
LEMMA TypeInv == ASSUME ConInv, NEW c \in ConChars, Type(c) PROVE ConInv'
  <1> USE ConAssumption
  <1> DEFINE s == Succ(input.e)
             in1 == [input EXCEPT !.e = s, !.buf[s] = c]
             ends == c # "x" \/ Succ(in1.e) = input.r
  <1>1. /\ ~lapse /\ typed < ConMaxTyped /\ s # input.r /\ typed' = typed + 1
        /\ lapse' = (lapse \/ HiddenFull)
        /\ UNCHANGED <<conLock, ipLock, conPc, conN, conGot, leaked>>
    BY Zenon DEF Type, Full
  <1>2. IF ends THEN /\ input' = [in1 EXCEPT !.w = in1.e] /\ committed' = committed \o Edited(in1)
                     /\ canRead' = canRead + 1
        ELSE input' = in1 /\ committed' = committed /\ canRead' = canRead
    BY Zenon DEF Type
  <1>3. PICK m \in 0 .. INPUT_BUF : ConPlaced(input, committed, m)
    BY <1>1, Zenon DEF ConInv
  <1>4. input \in ConRings /\ committed \in Seq(ConChars) /\ m \in Nat
    <2>1. m \in Nat
      OBVIOUS
    <2> QED BY <2>1, Zenon DEF ConInv, ConInputType
  <1>5. s \in 0 .. INPUT_BUF - 1
    <2>1. input.e + 1 \in Int
      BY <1>4 DEF ConRings
    <2> QED BY <2>1, SlotOf, Zenon DEF Succ
  <1>6. in1 \in ConRings /\ in1.e = s
    <2> HIDE DEF s
    <2> QED BY Zenon, <1>4, <1>5 DEF ConRings
  <1>7. Edited(in1) \in Seq(ConChars)
    BY <1>3, <1>4, <1>6, TypedEdited, Zenon
  <1>8. ConReaderTypes' /\ ConHolding' /\ ConPosts'
    <2>1. canRead' \in {canRead, canRead + 1}
      BY <1>2, Zenon
    <2> QED BY <1>1, <2>1, InterruptKeeps, Zenon
  <1> HIDE DEF s, ends
  <1>9. [in1 EXCEPT !.w = in1.e] \in ConRings
    <2> HIDE DEF in1
    <2> QED BY Zenon, <1>5, <1>6 DEF ConRings
  <1>10. ConInputType'
    <2>1. committed \o Edited(in1) \in Seq(ConChars)
      <3> HIDE DEF in1
      <3> QED BY <1>4, <1>7
    <2> QED BY <1>2, <1>4, <1>6, <1>9, <2>1, Zenon DEF ConInputType
  <1>11. ASSUME ~lapse' PROVE \E n \in 0 .. INPUT_BUF : ConPlaced(input', committed', n)
    <2>1. input.r % INPUT_BUF # s
      <3>1. input.r \in 0 .. INPUT_BUF - 1 \/ input.r = -1
        BY <1>4 DEF ConRings
      <3>2. CASE input.r \in 0 .. INPUT_BUF - 1
        BY <1>1, <3>2, SlotOf, Zenon
      <3>3. CASE input.r = -1
        <4>1. s # INPUT_BUF - 1
          BY <1>1, <1>11, <3>3, Zenon DEF HiddenFull, s
        <4>2. -1 = INPUT_BUF * (-1) + (INPUT_BUF - 1) /\ INPUT_BUF - 1 \in 0 .. INPUT_BUF - 1
              /\ -1 \in Int
          OBVIOUS
        <4>3. (-1) % INPUT_BUF = INPUT_BUF - 1
          BY <4>2, ModUnique, Zenon
        <4> QED BY <3>3, <4>1, <4>3, Zenon
      <3> QED BY <3>1, <3>2, <3>3, Zenon
    <2>2. ConPlaced(in1, committed, m + 1)
      BY <1>3, <1>4, <1>6, <2>1, TypePlaced, Zenon DEF s
    <2> HIDE DEF in1
    <2>3. m + 1 \in Nat /\ 0 \in 0 .. INPUT_BUF /\ m + 1 \in 0 .. INPUT_BUF
      <3>1. Len(committed) + (m + 1) < INPUT_BUF
        BY <2>2, Zenon DEF ConPlaced
      <3>2. Len(committed) \in Nat
        BY <1>4
      <3> QED BY <1>4, <3>1, <3>2
    <2>4. ConPlaced([in1 EXCEPT !.w = in1.e], committed \o Edited(in1), 0)
      BY <1>4, <1>6, <1>9, <2>2, <2>3, CommitPlaced, Zenon
    <2> QED BY <1>2, <2>2, <2>3, <2>4, Zenon
  <1> QED BY <1>8, <1>10, <1>11, Zenon DEF ConInv

\* A reader at the head of the loop with the lock, or with the lock free, takes a
\* character.
LEMMA TakeInv ==
    ASSUME ConInv, NEW p \in ConReaders, conPc[p] \in {"lock", "hold", "again"}, conN[p] > 0,
           conLock = {} \/ conPc[p] = "hold", ConTake(p), UNCHANGED <<canRead, ipLock, leaked, typed>>
    PROVE  ConInv'
  <1> USE ConAssumption
  <1> DEFINE r == Succ(input.r)
             c == input.buf[r]
             keep == c = "eof" /\ conGot[p] > 0
             ends == c \in {"eof", "nl"}
  <1>1. /\ input' = [input EXCEPT !.r = IF keep THEN r - 1 ELSE r]
        /\ committed' = (IF keep \/ committed = <<>> THEN committed ELSE Tail(committed))
        /\ conN' = [conN EXCEPT ![p] = IF c = "eof" THEN @ ELSE @ - 1]
        /\ conGot' = [conGot EXCEPT ![p] = IF c = "eof" THEN @ ELSE @ + 1]
        /\ conPc' = [conPc EXCEPT ![p] = IF ends THEN "relock" ELSE "hold"]
        /\ conLock' = (IF ends THEN {} ELSE {p})
        /\ lapse' = (lapse \/ input.r = input.w)
    BY Zenon DEF ConTake
  <1>2. input \in ConRings /\ committed \in Seq(ConChars) /\ ConReaderTypes /\ ConHolding /\ ConPosts
    BY Zenon DEF ConInv, ConInputType
  <1>3. r \in 0 .. INPUT_BUF - 1 /\ input.r \in Int /\ input.r \in -1 .. INPUT_BUF - 1
    <2>1. input.r \in Int /\ input.r \in -1 .. INPUT_BUF - 1 /\ input.r + 1 \in Int
      BY <1>2 DEF ConRings
    <2> QED BY <2>1, SlotOf, Zenon DEF Succ
  <1> HIDE DEF r, c
  <1>4. ConReaderTypes'
    <2>1. conN' \in [ConReaders -> 0 .. ConMaxN]
      BY <1>1, <1>2 DEF ConReaderTypes
    <2>2. conGot' \in [ConReaders -> Nat]
      BY <1>1, <1>2 DEF ConReaderTypes
    <2>3. conPc' \in [ConReaders -> ConPCs]
      BY <1>1, <1>2, Zenon DEF ConReaderTypes, ConPCs, ConWaits
    <2>4. conLock' \subseteq ConReaders
      BY <1>1, Zenon
    <2> QED BY <2>1, <2>2, <2>3, <2>4, Zenon DEF ConReaderTypes
  <1>5. ConHolding'
    <2>1. \A q \in ConReaders : q # p => conPc'[q] = conPc[q] /\ conN'[q] = conN[q] /\ conPc[q] # "hold"
      <3>1. \A q \in ConReaders : q # p => conPc'[q] = conPc[q] /\ conN'[q] = conN[q]
        BY <1>1, <1>2, Zenon DEF ConReaderTypes
      <3>2. \A q \in ConReaders : q # p => conPc[q] # "hold"
        BY <1>2, Zenon DEF ConHolding
      <3> QED BY <3>1, <3>2, Zenon
    <2>2. conPc'[p] = IF ends THEN "relock" ELSE "hold"
      BY <1>1, <1>2, Zenon DEF ConReaderTypes
    <2>3. \A q \in ConReaders : q \in conLock' <=> conPc'[q] = "hold"
      <3>1. conLock' = IF ends THEN {} ELSE {p}
        BY <1>1, Zenon
      <3>2. p \in conLock' <=> conPc'[p] = "hold"
        BY <2>2, <3>1, Zenon
      <3>3. \A q \in ConReaders : q # p => q \notin conLock' /\ conPc'[q] # "hold"
        BY <2>1, <3>1, Zenon
      <3> QED BY <3>2, <3>3, Zenon
    <2>4. \A q, q2 \in conLock' : q = q2
      BY <1>1, Zenon
    <2>5. \A q \in ConReaders : conPc'[q] \in ConWaits => conN'[q] > 0
      <3>1. conPc'[p] \notin ConWaits
        BY <2>2, Zenon DEF ConWaits
      <3> QED BY <1>2, <2>1, <3>1, Zenon DEF ConHolding
    <2> QED BY <1>2, <2>3, <2>4, <2>5, Zenon DEF ConHolding
  <1>6. ConPosts'
    <2>1. (IF ends THEN "relock" ELSE "hold") \in ConPCs \ {"unlock", "dead"}
      BY Zenon DEF ConPCs, ConWaits
    <2>2. conPc[p] \notin {"unlock", "dead"}
      BY Zenon
    <2> HIDE DEF ends
    <2> QED BY <1>1, <1>2, <2>1, <2>2, PostsKept, Zenon
  <1>7. input' \in ConRings
    <2>1. (IF keep THEN r - 1 ELSE r) \in -1 .. INPUT_BUF - 1
      BY <1>3
    <2> HIDE DEF keep
    <2> QED BY Zenon, <1>1, <1>2, <2>1 DEF ConRings
  <1>8. committed' \in Seq(ConChars)
    <2>1. committed # <<>> => Tail(committed) \in Seq(ConChars)
      BY <1>2
    <2> QED BY <1>1, <1>2, <2>1, Zenon
  <1>9. ASSUME ~lapse' PROVE \E n \in 0 .. INPUT_BUF : ConPlaced(input', committed', n)
    <2>1. ~lapse /\ input.r # input.w
      BY <1>1, <1>9, Zenon
    <2>2. PICK m \in 0 .. INPUT_BUF : ConPlaced(input, committed, m)
      BY <2>1, Zenon DEF ConInv
    <2>3. m \in Nat
      OBVIOUS
    <2>4. committed # <<>>
      <3> SUFFICES ASSUME committed = <<>> PROVE FALSE
        BY Zenon
      <3>1. Len(committed) = 0
        BY Zenon
      <3>2. input.w = (input.r + 0) % INPUT_BUF /\ input.r # -1
        BY <2>2, <3>1, Zenon DEF ConPlaced
      <3>3. input.r \in 0 .. INPUT_BUF - 1 /\ input.r + 0 = input.r
        BY <1>3, <3>2
      <3>4. input.r % INPUT_BUF = input.r
        BY <3>3, SlotOf, Zenon
      <3> QED BY <2>1, <3>2, <3>3, <3>4, Zenon
    <2>5. CASE keep
      <3>1. input' = [input EXCEPT !.r = r - 1] /\ committed' = committed
        BY <1>1, <2>5, Zenon
      <3> QED BY <1>2, <1>7, <2>2, <2>3, <2>4, <3>1, KeepPlaced, Zenon DEF r
    <2>6. CASE ~keep
      <3>1. input' = [input EXCEPT !.r = r] /\ committed' = Tail(committed)
        BY <1>1, <2>4, <2>6, Zenon
      <3> QED BY <1>2, <1>7, <2>2, <2>3, <2>4, <3>1, TakePlaced, Zenon DEF r
    <2> QED BY <2>5, <2>6, Zenon
  <1> QED BY <1>4, <1>5, <1>6, <1>7, <1>8, <1>9, Zenon DEF ConInv, ConInputType

\* A step of a reader that moves no character: where it is, and who holds
\* input.lock.
LEMMA ReaderInv ==
    ASSUME ConInv, NEW p \in ConReaders, NEW l \in ConPCs, conPc' = [conPc EXCEPT ![p] = l],
           UNCHANGED <<input, committed, lapse>>, ConPosts',
           conN' \in [ConReaders -> 0 .. ConMaxN], conGot' \in [ConReaders -> Nat],
           \A q \in ConReaders : q # p => conN'[q] = conN[q],
           l # "hold", conLock' = IF conPc[p] = "hold" THEN {} ELSE conLock,
           l \in ConWaits => conN'[p] > 0,
           canRead' \in 0 .. canRead, typed' = typed
    PROVE  ConInv'
  <1>1. ConReaderTypes /\ ConHolding
    BY Zenon DEF ConInv
  <1>2. conPc' \in [ConReaders -> ConPCs] /\ conPc'[p] = l
        /\ \A q \in ConReaders : q # p => conPc'[q] = conPc[q]
    BY <1>1, Zenon DEF ConReaderTypes
  <1>3. ConReaderTypes'
    BY <1>1, <1>2, Zenon DEF ConReaderTypes
  <1>4. ConHolding'
    <2>1. \A q \in ConReaders : q \in conLock' <=> conPc'[q] = "hold"
      <3>1. CASE conPc[p] = "hold"
        <4>1. conLock' = {} /\ \A q \in ConReaders : q # p => conPc[q] # "hold"
          BY <1>1, <3>1, Zenon DEF ConHolding
        <4> QED BY <1>2, <4>1, Zenon
      <3>2. CASE conPc[p] # "hold"
        <4>1. conLock' = conLock
          BY <3>2, Zenon
        <4> QED BY <1>1, <1>2, <3>2, <4>1, Zenon DEF ConHolding
      <3> QED BY <3>1, <3>2, Zenon
    <2>2. \A q, q2 \in conLock' : q = q2
      BY <1>1, Zenon DEF ConHolding
    <2>3. \A q \in ConReaders : conPc'[q] \in ConWaits => conN'[q] > 0
      BY <1>1, <1>2, Zenon DEF ConHolding
    <2>4. canRead' \in 0 .. typed' /\ typed' \in 0 .. ConMaxTyped
      BY <1>1 DEF ConHolding
    <2> QED BY <2>1, <2>2, <2>3, <2>4, Zenon DEF ConHolding
  <1> QED BY <1>3, <1>4, Zenon DEF ConInv, ConInputType

\* fileread and filewrite call the console.
LEMMA ConCallInv == ASSUME ConInv, NEW p \in ConReaders, NEW n \in 0 .. ConMaxN, ConCall(p, n) PROVE ConInv'
  <1> USE ConAssumption
  <1>1. /\ conPc[p] = "out" /\ conPc' = [conPc EXCEPT ![p] = "lock"]
        /\ conN' = [conN EXCEPT ![p] = n] /\ conGot' = [conGot EXCEPT ![p] = 0]
        /\ UNCHANGED <<input, canRead, conLock, ipLock, committed, lapse, leaked, typed>>
    BY Zenon DEF ConCall
  <1>2. ConReaderTypes /\ ConPosts /\ ConHolding
    BY Zenon DEF ConInv
  <1>3. "lock" \in ConPCs \ {"unlock", "dead"} /\ "lock" \notin ConWaits
    BY Zenon DEF ConPCs, ConWaits
  <1>4. ConPosts'
    BY <1>1, <1>2, <1>3, PostsKept, Zenon
  <1>5. conN' \in [ConReaders -> 0 .. ConMaxN] /\ \A q \in ConReaders : q # p => conN'[q] = conN[q]
    BY <1>1, <1>2, Zenon DEF ConReaderTypes
  <1>6. conGot' \in [ConReaders -> Nat] /\ canRead' \in 0 .. canRead
    BY <1>1, <1>2 DEF ConReaderTypes, ConHolding
  <1> QED BY <1>1, <1>3, <1>4, <1>5, <1>6, ReaderInv, Zenon

\* The head of the loop: done, nothing to read, or a character.
LEMMA ConLoopInv == ASSUME ConInv, NEW p \in ConReaders, ConLoop(p) PROVE ConInv'
  <1> USE ConAssumption
  <1>1. /\ (conPc[p] = "lock" /\ conLock = {}) \/ conPc[p] = "hold"
        /\ \/ conN[p] = 0 /\ ConLeave(p, "relock")
           \/ conN[p] > 0 /\ ConLeave(p, "wait")
           \/ conN[p] > 0 /\ ConTake(p)
        /\ UNCHANGED <<canRead, ipLock, leaked, typed>>
    BY Zenon DEF ConLoop, LoopWith
  <1>2. ConReaderTypes /\ ConPosts /\ ConHolding
    BY Zenon DEF ConInv
  <1>3. ASSUME NEW l \in {"relock", "wait"}, ConLeave(p, l), l = "wait" => conN[p] > 0 PROVE ConInv'
    <2>1. /\ conPc' = [conPc EXCEPT ![p] = l] /\ conLock' = {}
          /\ UNCHANGED <<input, committed, conN, conGot, lapse>>
      BY <1>3, Zenon DEF ConLeave
    <2>2. l \in ConPCs \ {"unlock", "dead"} /\ l # "hold" /\ (l \in ConWaits => l = "wait")
      BY Zenon DEF ConPCs, ConWaits
    <2>3. ConPosts'
      <3>1. conPc[p] \notin {"unlock", "dead"}
        BY <1>1, Zenon
      <3> QED BY <1>1, <1>2, <2>1, <2>2, <3>1, PostsKept, Zenon
    <2>4. conLock' = IF conPc[p] = "hold" THEN {} ELSE conLock
      BY <1>1, <2>1, Zenon
    <2>5. conN' \in [ConReaders -> 0 .. ConMaxN] /\ conGot' \in [ConReaders -> Nat]
          /\ \A q \in ConReaders : q # p => conN'[q] = conN[q]
      BY <1>2, <2>1, Zenon DEF ConReaderTypes
    <2>6. canRead' \in 0 .. canRead /\ typed' = typed
      BY <1>1, <1>2 DEF ConHolding
    <2>7. l \in ConWaits => conN'[p] > 0
      BY <1>3, <2>1, <2>2, Zenon
    <2> QED BY <2>1, <2>2, <2>3, <2>4, <2>5, <2>6, <2>7, ReaderInv, Zenon
  <1>4. CASE conN[p] = 0 /\ ConLeave(p, "relock")
    BY <1>3, <1>4, Zenon
  <1>5. CASE conN[p] > 0 /\ ConLeave(p, "wait")
    BY <1>3, <1>5, Zenon
  <1>6. CASE conN[p] > 0 /\ ConTake(p)
    BY <1>1, <1>6, TakeInv, Zenon
  <1> QED BY <1>1, <1>4, <1>5, <1>6, Zenon

\* A step within _wait_sem, which may use up a post.
LEMMA ConWaitStep ==
    ASSUME ConInv, NEW p \in ConReaders, conPc[p] \in {"wait", "inside", "asleep"},
           NEW l \in {"inside", "asleep", "again"}, conPc' = [conPc EXCEPT ![p] = l],
           canRead' \in 0 .. canRead,
           UNCHANGED <<input, conLock, ipLock, conN, conGot, committed, lapse, leaked, typed>>
    PROVE  ConInv'
  <1>1. ConReaderTypes /\ ConPosts /\ ConHolding
    BY Zenon DEF ConInv
  <1>2. /\ l \in ConPCs \ {"unlock", "dead"} /\ l # "hold"
        /\ conPc[p] \in ConWaits /\ conPc[p] \notin {"unlock", "dead", "hold"}
    BY Zenon DEF ConPCs, ConWaits
  <1>3. ConPosts'
    BY <1>1, <1>2, PostsKept, Zenon
  <1>4. conN' \in [ConReaders -> 0 .. ConMaxN] /\ conGot' \in [ConReaders -> Nat]
        /\ (\A q \in ConReaders : q # p => conN'[q] = conN[q]) /\ conN'[p] > 0
    BY <1>1, <1>2, Zenon DEF ConReaderTypes, ConHolding
  <1>5. conLock' = IF conPc[p] = "hold" THEN {} ELSE conLock
    BY <1>2, Zenon
  <1> QED BY <1>2, <1>3, <1>4, <1>5, ReaderInv, Zenon

\* The post that a wait uses up; after a race nothing is counted.
LEMMA ConUpCount ==
    ASSUME ConInv, NEW p \in ConReaders, ConUp(p), semRace \/ canRead > 0
    PROVE  canRead' \in 0 .. canRead /\ conPc' = [conPc EXCEPT ![p] = "again"]
  <1>1. canRead \in Nat
    BY ConAssumption DEF ConInv, ConHolding
  <1>2. canRead' = (IF semRace THEN canRead ELSE canRead - 1) /\ conPc' = [conPc EXCEPT ![p] = "again"]
    BY Zenon DEF ConUp
  <1> QED BY <1>1, <1>2

\* _wait_sem from its start to its return.
LEMMA ConWaitInv ==
    ASSUME ConInv, NEW p \in ConReaders, ConWaitIn(p) \/ ConWaitDown(p) \/ ConWake(p) PROVE ConInv'
  <1>1. canRead \in Nat /\ canRead \in 0 .. canRead /\ ConReaderTypes
    BY ConAssumption DEF ConInv, ConHolding
  <1>2. Cardinality(ConAt("asleep")) \in Nat
    <2>1. IsFiniteSet(ConAt("asleep"))
      BY ConAssumption, FS_Subset, Zenon DEF ConAt
    <2> QED BY <2>1, FS_CardinalityType, Zenon
  <1>3. CASE ConWaitIn(p)
    BY <1>1, <1>3, ConWaitStep, Zenon DEF ConWaitIn
  <1>4. CASE ConWaitDown(p)
    <2>1. /\ conPc[p] = "inside"
          /\ UNCHANGED <<input, conLock, ipLock, conN, conGot, committed, lapse, leaked, typed>>
          /\ \/ (semRace \/ canRead > Cardinality(ConAt("asleep"))) /\ ConUp(p)
             \/ conPc' = [conPc EXCEPT ![p] = "asleep"] /\ canRead' = canRead
      BY <1>4, Zenon DEF ConWaitDown
    <2>2. canRead > Cardinality(ConAt("asleep")) => canRead > 0
      BY <1>1, <1>2
    <2> QED BY <1>1, <2>1, <2>2, ConUpCount, ConWaitStep, Zenon
  <1>5. CASE ConWake(p)
    <2>1. /\ conPc[p] = "asleep" /\ ConUp(p) /\ (semRace \/ canRead > 0)
          /\ UNCHANGED <<input, conLock, ipLock, conN, conGot, committed, lapse, leaked, typed>>
      BY <1>5, Zenon DEF ConWake
    <2> QED BY <2>1, ConUpCount, ConWaitStep, Zenon
  <1> QED BY <1>3, <1>4, <1>5, Zenon

\* The character after the wait, r = w or not.
LEMMA ConAgainInv == ASSUME ConInv, NEW p \in ConReaders, ConAgain(p) PROVE ConInv'
  <1>1. conPc[p] = "again" /\ conLock = {} /\ ConTake(p) /\ UNCHANGED <<canRead, ipLock, leaked, typed>>
    BY Zenon DEF ConAgain
  <1>2. conN[p] > 0
    BY <1>1, Zenon DEF ConInv, ConHolding, ConWaits
  <1> QED BY <1>1, <1>2, TakeInv, Zenon

\* The three steps that change the inode's lock: a killed reader that posts it
\* without having it, the wait for it, and the post of fileread.
LEMMA ConLockSteps ==
    ASSUME ConInv, NEW p \in ConReaders, ConKilled(p) \/ ConRelock(p) \/ ConReturn(p)
    PROVE  ConInv'
  <1>1. \E l \in {"dead", "unlock", "out"} : conPc' = [conPc EXCEPT ![p] = l]
    BY Zenon DEF ConKilled, ConRelock, ConReturn
  <1>2. PICK l \in {"dead", "unlock", "out"} : conPc' = [conPc EXCEPT ![p] = l]
    BY <1>1, Zenon
  <1>3. UNCHANGED <<input, canRead, conLock, conN, conGot, committed, lapse, typed>>
    BY Zenon DEF ConKilled, ConRelock, ConReturn
  <1>4. ConReaderTypes /\ ConPosts /\ ConHolding
    BY Zenon DEF ConInv
  <1>5. conPc[p] \in {"asleep", "relock", "unlock"}
    BY Zenon DEF ConKilled, ConRelock, ConReturn
  <1>6. ConPosts'
    <2> DEFINE u == Cardinality(ConAt("unlock"))
               d == Cardinality(ConAt("dead"))
               u2 == Cardinality(ConAt("unlock")')
               d2 == Cardinality(ConAt("dead")')
    <2>0. {"unlock", "dead", "out"} \subseteq ConPCs /\ "unlock" \in ConPCs /\ "dead" \in ConPCs /\ "out" \in ConPCs
      BY Zenon DEF ConPCs, ConWaits
    <2>1. u \in Nat /\ d \in Nat /\ ipLock \in Nat /\ ipLock + u = 1 + d
      <3>1. l \in ConPCs
        BY Zenon DEF ConPCs, ConWaits
      <3>2. u \in Nat
        BY <1>2, <1>4, <2>0, <3>1, ConMoves, Zenon
      <3>3. d \in Nat
        BY <1>2, <1>4, <2>0, <3>1, ConMoves, Zenon
      <3> QED BY <1>4, <3>2, <3>3, Zenon DEF ConPosts
    <2>2. CASE ConKilled(p)
      <3>1. conPc[p] = "asleep" /\ conPc' = [conPc EXCEPT ![p] = "dead"] /\ leaked' = TRUE
            /\ ipLock' = ipLock + 1
        BY <2>2, Zenon DEF ConKilled
      <3>2. u2 = u
        BY <1>4, <2>0, <3>1, ConMoves, Zenon
      <3>4. d2 = d + 1
        BY <1>4, <2>0, <3>1, ConMoves, Zenon
      <3>3. ipLock' \in Nat /\ ipLock' + u2 = 1 + d2
        BY <2>1, <3>1, <3>2, <3>4
      <3> QED BY <3>1, <3>3, Zenon DEF ConPosts
    <2>3. CASE ConRelock(p)
      <3>1. conPc[p] = "relock" /\ conPc' = [conPc EXCEPT ![p] = "unlock"] /\ leaked' = leaked
            /\ ipLock > 0 /\ ipLock' = ipLock - 1
        BY <2>3, Zenon DEF ConRelock
      <3>2. u2 = u + 1
        BY <1>4, <2>0, <3>1, ConMoves, Zenon
      <3>4. ConAt("dead")' = ConAt("dead")
        BY <1>4, <2>0, <3>1, ConMoves, Zenon
      <3>3. ipLock' \in Nat /\ ipLock' + u2 = 1 + d
        BY <2>1, <3>1, <3>2
      <3> QED BY <1>4, <3>1, <3>3, <3>4, Zenon DEF ConPosts
    <2>4. CASE ConReturn(p)
      <3>1. conPc[p] = "unlock" /\ conPc' = [conPc EXCEPT ![p] = "out"] /\ leaked' = leaked
            /\ ipLock' = ipLock + 1
        BY <2>4, Zenon DEF ConReturn
      <3>2. u2 = u - 1
        BY <1>4, <2>0, <3>1, ConMoves, Zenon
      <3>4. ConAt("dead")' = ConAt("dead")
        BY <1>4, <2>0, <3>1, ConMoves, Zenon
      <3>3. ipLock' \in Nat /\ ipLock' + u2 = 1 + d
        BY <2>1, <3>1, <3>2
      <3> QED BY <1>4, <3>1, <3>3, <3>4, Zenon DEF ConPosts
    <2> QED BY <2>2, <2>3, <2>4, Zenon
  <1>7. l \in ConPCs /\ l # "hold" /\ l \notin ConWaits /\ conPc[p] # "hold"
    BY <1>5, Zenon DEF ConPCs, ConWaits
  <1>8. conN' \in [ConReaders -> 0 .. ConMaxN] /\ conGot' \in [ConReaders -> Nat]
        /\ \A q \in ConReaders : q # p => conN'[q] = conN[q]
    BY <1>3, <1>4, Zenon DEF ConReaderTypes
  <1>9. canRead' \in 0 .. canRead /\ typed' = typed
    BY <1>3, <1>4, ConAssumption DEF ConHolding
  <1>10. conLock' = IF conPc[p] = "hold" THEN {} ELSE conLock
    BY <1>3, <1>7, Zenon
  <1> QED BY <1>2, <1>3, <1>6, <1>7, <1>8, <1>9, <1>10, ReaderInv, Zenon

\* ConInv is an invariant of the console.
THEOREM ConsoleInvariant == ConsoleSpec => []ConInv
  <1>1. ConInv /\ [ConsoleNext]_conVars => ConInv'
    <2> SUFFICES ASSUME ConInv, [ConsoleNext]_conVars PROVE ConInv'
      BY Zenon
    <2>1. CASE UNCHANGED conVars
      BY <2>1, Zenon DEF conVars, ConInv, ConReaderTypes, ConHolding, ConPosts, ConAt, ConInputType
    <2>2. CASE ConsoleNext
      BY Zenon, <2>2, BackspaceInv, KillLineInv, TypeInv, ConCallInv, ConLoopInv, ConWaitInv, ConAgainInv,
         ConLockSteps
         DEF ConsoleNext, ConReader
    <2> QED BY <2>1, <2>2, Zenon
  <1> QED BY <1>1, ConsoleInitInv, PTL DEF ConsoleSpec

\* The ring of console_intr and console_read holds what was committed and not yet
\* read, in the order typed, for every size of the ring and any number of readers.
THEOREM ConsoleIsSafe == ConsoleSpec => []ConSafe
  <1>1. ConInv => ConSafe
    <2> SUFFICES ASSUME ConInv PROVE ConSafe
      BY Zenon
    <2> USE ConAssumption
    <2>1. ConRing
      <3>1. ~lapse => \E m \in 0 .. INPUT_BUF : ConPlaced(input, committed, m)
        BY Zenon DEF ConInv
      <3>2. \A m \in 0 .. INPUT_BUF : m \in Nat
        OBVIOUS
      <3>3. ConInputType
        BY Zenon DEF ConInv
      <3>4. lapse \/ ConRing
        BY <3>1, <3>2, <3>3, PlacedRing, Zenon
      <3> QED BY <3>4, Zenon DEF ConRing
    <2>2. ipLock \in 0 .. 1 + 2 * Cardinality(ConReaders)
      <3> DEFINE u == Cardinality(ConAt("unlock"))
                 d == Cardinality(ConAt("dead"))
                 n == Cardinality(ConReaders)
      <3>1. ConAt("unlock") \in SUBSET ConReaders /\ ConAt("dead") \in SUBSET ConReaders
        BY Zenon DEF ConAt
      <3>2. IsFiniteSet(ConAt("unlock")) /\ d <= n
        BY <3>1, FS_Subset, Zenon
      <3>3. IsFiniteSet(ConAt("dead"))
        BY <3>1, FS_Subset, Zenon
      <3>4. u \in Nat /\ d \in Nat /\ n \in Nat
        BY <3>2, <3>3, FS_CardinalityType, Zenon
      <3>5. ipLock \in Nat /\ ipLock + u = 1 + d
        BY Zenon DEF ConInv, ConPosts
      <3> HIDE DEF u, d, n
      <3>6. ipLock \in 0 .. 1 + 2 * n
        BY <3>2, <3>4, <3>5
      <3> QED BY <3>6, Zenon DEF n
    <2>3. Cardinality(conLock) <= 1
      <3>1. conLock = {} \/ \E p : conLock = {p}
        <4>1. \A p, q \in conLock : p = q
          BY Zenon DEF ConInv, ConHolding
        <4> QED BY <4>1
      <3>2. Cardinality(conLock) \in {0, 1}
        BY <3>1, FS_EmptySet, FS_Singleton, Zenon
      <3> QED BY <3>2
    <2>4. canRead \in 0 .. ConMaxTyped
      BY DEF ConInv, ConHolding
    <2>5. input.buf \in [0 .. INPUT_BUF - 1 -> ConChars \cup {"nul"}] /\ input.r \in -1 .. INPUT_BUF - 1
          /\ input.w \in 0 .. INPUT_BUF - 1 /\ input.e \in 0 .. INPUT_BUF - 1
      BY Zenon DEF ConInv, ConInputType, ConRings
    <2> QED BY <2>1, <2>2, <2>3, <2>4, <2>5, Zenon DEF ConInv, ConSafe, ConTypeOK, ConReaderTypes, ConInputType
  <1> QED BY <1>1, ConsoleInvariant, PTL

\* fileread and filewrite never share the console's inode lock, until a killed
\* reader has posted it without having it.
THEOREM ConsoleInodeLocked == ConsoleSpec => []ConInodeLock
  <1>1. ConInv => ConInodeLock
    <2> SUFFICES ASSUME ConInv, ~leaked PROVE ipLock + Cardinality(ConAt("unlock")) = 1
      BY Zenon DEF ConInodeLock, ConAt
    <2>1. Cardinality(ConAt("dead")) = 0
      BY FS_EmptySet, Zenon DEF ConInv, ConPosts
    <2> QED BY <2>1 DEF ConInv, ConPosts
  <1> QED BY <1>1, ConsoleInvariant, PTL
=============================================================================
