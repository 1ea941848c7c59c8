------------------------------- MODULE PidMap -------------------------------
(***************************************************************************)
(* Process ids: get_next_pid and free_pid of kernel/pidmap.h, as           *)
(* start_proc takes a local id from a container's map and wait gives it    *)
(* back (kernel/proc.c).  Both run under pid_base_lock, so each is a step. *)
(* start_proc keeps the -1 of a full map as the id, and wait frees it like *)
(* any other.                                                              *)
(***************************************************************************)
EXTENDS Integers, FiniteSets, FiniteSetsExt

CONSTANTS PidSize,     \* pid_namespace_size, a power of two
          PidZeroed,   \* bits that init_pidmap's memset reaches
          PidProcs     \* processes that may be alive together

ASSUME PidAssumption ==
    PidSize \in Nat \ {0} /\ PidZeroed \in Nat /\ IsFiniteSet(PidProcs)

VARIABLES bitmap,      \* the bits that are set
          nr_free,
          pid_base,
          pidOf,       \* each process's id; PidSize when it has none
          pidLost      \* history: a -1 was given back

pidVars == <<bitmap, nr_free, pid_base, pidOf, pidLost>>

NoId == PidSize

\* init_pidmap: only the first bits are cleared, the rest is what kalloc
\* found there.  The global map and the root container's are cleared whole.
PidMapInit ==
    /\ bitmap \in SUBSET (PidZeroed..(PidSize - 1))
    /\ nr_free = PidSize
    /\ pid_base = 0
    /\ pidOf = [p \in PidProcs |-> NoId]
    /\ pidLost = FALSE

\* size when there is none
find_next_zero_bit(size, offset) ==
    LET zeros == {i \in offset..(size - 1) : i \notin bitmap}
    IN  IF zeros = {} THEN (IF offset < size THEN size ELSE offset) ELSE Min(zeros)

\* The search from pid_base + 1 to the end, then the one from 0, which stops
\* one bit early.
NextPid(again) ==
    LET offset == find_next_zero_bit(PidSize, (pid_base + 1) % PidSize)
        found  == IF offset = PidSize THEN find_next_zero_bit(PidSize - 1, again) ELSE offset
    IN  IF nr_free = 0 \/ found = PidSize \/ found \in bitmap THEN -1 ELSE found

StartWith(p, pid, marks) ==
    /\ pidOf[p] = NoId
    /\ pidOf' = [pidOf EXCEPT ![p] = pid]
    /\ IF pid = -1 THEN UNCHANGED <<bitmap, nr_free, pid_base>>
       ELSE /\ bitmap' = IF marks THEN bitmap \cup {pid} ELSE bitmap
            /\ nr_free' = nr_free - 1
            /\ pid_base' = pid
    /\ UNCHANGED pidLost

get_next_pid_Unmarked(p) == StartWith(p, NextPid(0), FALSE)
get_next_pid_FromOne(p) == StartWith(p, NextPid(1), TRUE)
get_next_pid(p) == StartWith(p, NextPid(0), TRUE)

\* -1 & (size - 1) is the last bit.
free_pid(p) ==
    /\ pidOf[p] # NoId
    /\ nr_free' = nr_free + 1
    /\ bitmap' = bitmap \ {pidOf[p] % PidSize}
    /\ pidOf' = [pidOf EXCEPT ![p] = NoId]
    /\ pidLost' = (pidOf[p] = -1)
    /\ UNCHANGED pid_base

\* After a -1 has come back the last bit is clear whoever has that id, and
\* nr_free is too large: not followed.
PidMapNext == ~pidLost /\ \E p \in PidProcs : get_next_pid(p) \/ free_pid(p)

-----------------------------------------------------------------------------
(* Properties                                                               *)

PidMapSpec == PidMapInit /\ [][PidMapNext]_pidVars

\* The types: bits and ids are within the map, or the -1 of a full one.
PidTypeOK ==
    /\ bitmap \subseteq 0..(PidSize - 1) /\ pid_base \in 0..(PidSize - 1)
    /\ nr_free \in Int /\ pidLost \in BOOLEAN
    /\ pidOf \in [PidProcs -> -1..PidSize]

HasId(p) == pidOf[p] \in 0..(PidSize - 1)

(***************************************************************************)
(* As long as no -1 of a full map has been given back, no two live         *)
(* processes have the same id, whatever the bits beyond memset's reach     *)
(* were, and an id in use is marked.                                       *)
(***************************************************************************)
PidUnique ==
    ~pidLost => \A p, q \in PidProcs :
        HasId(p) => /\ pidOf[p] \in bitmap
                    /\ pidOf[p] = pidOf[q] => p = q

(***************************************************************************)
(* nr_free is the number of ids not in use, so that it never wraps below 0.*)
(***************************************************************************)
PidFreeCount == ~pidLost => nr_free = PidSize - Cardinality({p \in PidProcs : HasId(p)})

(***************************************************************************)
(* get_next_pid fails only when every bit is set: the search that starts   *)
(* over and stops one bit early misses none, as the first one has seen the *)
(* last bit.                                                               *)
(***************************************************************************)
PidFoundIfAny == [][\A p \in PidProcs : (pidOf[p] = NoId /\ pidOf'[p] = -1)
                                        => (nr_free = 0 \/ bitmap = 0..(PidSize - 1))]_pidVars

\* pidmap.h gives an id to one process at a time and counts the ids that are left.
PidSafe == PidTypeOK /\ PidUnique /\ PidFreeCount
=============================================================================
