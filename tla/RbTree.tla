------------------------------- MODULE RbTree -------------------------------
(***************************************************************************)
(* The red-black tree of common/rbtree.c, which keeps the run queues of    *)
(* the scheduler, the timers of a CPU and the map from pids to processes.  *)
(* Nodes are their keys, 0 is NULL.  The code writes every case of the two *)
(* fix-ups twice, for the left and for the right; here the side is a       *)
(* parameter.  The tree is used under its owner's lock: an operation is a  *)
(* step.                                                                    *)
(***************************************************************************)
EXTENDS Integers, FiniteSets, FiniteSetsExt

CONSTANTS RbKeys    \* the keys, a set of numbers from 1

VARIABLES rb,       \* [root, n]: the root and each node's [l, r, p, c]
          rbIn      \* what the tree should hold: the keys inserted and not erased

rbVars == <<rb, rbIn>>

Red == 0
Black == 1
Off == [l |-> 0, r |-> 0, p |-> 0, c |-> Red]

RbTreeInit == rb = [root |-> 0, n |-> [k \in RbKeys |-> Off]] /\ rbIn = {}

Opp(s) == IF s = "l" THEN "r" ELSE "l"
IsRed(t, x) == x # 0 /\ t.n[x].c = Red
SetCh(t, x, s, y) == [t EXCEPT !.n[x][s] = y]
SetParent(t, x, p) == IF x = 0 THEN t ELSE [t EXCEPT !.n[x].p = p]
\* `if (x) rb_set_parent_color(x, p, c)'
SetPC(t, x, p, c) == IF x = 0 THEN t ELSE [t EXCEPT !.n[x].p = p, !.n[x].c = c]

rb_change_child(t, old, new, parent) ==
    IF parent = 0 THEN [t EXCEPT !.root = new]
    ELSE SetCh(t, parent, IF t.n[parent].l = old THEN "l" ELSE "r", new)

rb_rotate_set_parents(t, old, new, c) ==
    LET o == t.n[old]
    IN  rb_change_child(SetPC(SetPC(t, new, o.p, o.c), old, new, c), old, new, o.p)

-----------------------------------------------------------------------------
(* Insertion                                                                *)

\* Case 3 of __rb_insert_fix, with tmp the child of parent that crosses over.
Hoist(t, g, parent, s) ==
    LET tmp == t.n[parent][Opp(s)]
        t1  == SetPC(SetCh(t, g, s, tmp), tmp, g, Black)
    IN  rb_rotate_set_parents(SetCh(t1, parent, Opp(s), g), g, parent, Red)

\* Case 2: node is its parent's inner child and takes the parent's place
\* (but for its own parent pointer, which Hoist sets).
Straighten(t, parent, node, s) ==
    LET tmp == t.n[node][s]
        t1  == SetPC(SetCh(t, parent, Opp(s), tmp), tmp, parent, Black)
    IN  SetPC(SetCh(t1, node, s, parent), parent, node, Red)

RECURSIVE rb_insert_fix(_, _)
rb_insert_fix(t, node) ==
    LET parent == t.n[node].p
        g      == t.n[parent].p
        s      == IF parent # t.n[g].r THEN "l" ELSE "r"
        uncle  == t.n[g][Opp(s)]
        up     == SetPC(SetPC(t, uncle, g, Black), parent, g, Black)
    IN  IF parent = 0 THEN [SetPC(t, node, 0, Black) EXCEPT !.root = node]
        ELSE IF ~IsRed(t, parent) THEN t
        ELSE IF IsRed(t, uncle)
             THEN rb_insert_fix(SetPC(up, g, t.n[g].p, Red), g)
        ELSE IF node = t.n[parent][Opp(s)]
             THEN Hoist(Straighten(t, parent, node, s), g, node, s)
        ELSE Hoist(t, g, parent, s)

\* The leaf below which a new key goes, or the node that has it already.
RECURSIVE Descend(_, _, _, _)
Descend(t, k, x, parent) ==
    IF x = 0 \/ x = k THEN [at |-> x, parent |-> parent]
    ELSE Descend(t, k, t.n[x][IF k < x THEN "l" ELSE "r"], x)

\* -1 and no change when an equal key is there.
rb_insert(k) ==
    LET d  == Descend(rb, k, rb.root, 0)
        t0 == [rb EXCEPT !.n[k] = [Off EXCEPT !.p = d.parent]]
        t1 == IF d.parent = 0 THEN t0
              ELSE SetCh(t0, d.parent, IF k < d.parent THEN "l" ELSE "r", k)
    IN  /\ rb' = IF d.at # 0 THEN rb ELSE rb_insert_fix(t1, k)
        /\ rbIn' = rbIn \cup {k}

-----------------------------------------------------------------------------
(* Erasure                                                                  *)

RECURSIVE Leftmost(_, _)
Leftmost(t, x) == IF t.n[x].l = 0 THEN x ELSE Leftmost(t, t.n[x].l)

\* __rb_erase: the tree without the node, and where to rebalance (0: nowhere).
rb_erase_node(t, node) ==
    LET nd    == t.n[node]
        only  == IF nd.l = 0 THEN nd.r ELSE nd.l
        \* at most one child, which takes the node's place and colour
        one   == LET t1 == rb_change_child(t, node, only, nd.p)
                 IN  [t |-> SetPC(t1, only, nd.p, nd.c),
                      at |-> IF only = 0 /\ nd.c = Black THEN nd.p ELSE 0]
        succ  == Leftmost(t, nd.r)
        child == t.n[succ].r
        near  == succ = nd.r
        par   == IF near THEN succ ELSE t.n[succ].p
        \* two: the successor leaves its place to its right child ...
        t1    == IF near THEN t
                 ELSE SetParent(SetCh(SetCh(t, par, "l", child), succ, "r", nd.r), nd.r, succ)
        \* ... and takes the node's
        t2    == SetParent(SetCh(t1, succ, "l", nd.l), nd.l, succ)
        t3    == SetPC(rb_change_child(t2, node, succ, nd.p), succ, nd.p, nd.c)
        two   == [t |-> SetPC(t3, child, par, Black),
                  at |-> IF child = 0 /\ t.n[succ].c = Black THEN par ELSE 0]
    IN  IF nd.l = 0 \/ nd.r = 0 THEN one ELSE two

\* The last rotation of __rb_erase_fix: sib, the child of parent on side o,
\* goes up, with far black below it.
Settle(t, parent, sib, far, o) ==
    LET in == t.n[sib][Opp(o)]
        t1 == SetParent(SetCh(t, parent, o, in), in, parent)
        t2 == SetPC(SetCh(t1, sib, Opp(o), parent), far, sib, Black)
    IN  rb_rotate_set_parents(t2, parent, sib, Black)

\* __rb_erase_fix: node is the side that is one black short, o the other one.
RECURSIVE EraseFixWith(_, _, _, _)
EraseFixWith(t0, parent, node, climbs) ==
    LET o    == IF t0.n[parent].r # node THEN "r" ELSE "l"
        s    == Opp(o)
        old  == t0.n[parent][o]
        in   == t0.n[old][s]
        \* case 1, a red sibling: rotate it up and go on with its inner child
        t1   == SetCh(SetPC(SetCh(t0, parent, o, in), in, parent, Black), old, s, parent)
        t    == IF IsRed(t0, old) THEN rb_rotate_set_parents(t1, parent, old, Red) ELSE t0
        sib  == IF IsRed(t0, old) THEN in ELSE old
        far  == t.n[sib][o]
        near == t.n[sib][s]
        \* case 2, two black nephews
        flat == SetPC(t, sib, parent, Red)
        up   == t.n[parent].p
        \* case 3, a red inner nephew
        tmp  == t.n[near][o]
        t3   == SetPC(SetCh(t, sib, s, tmp), tmp, sib, Black)
        t4   == SetCh(SetCh(t3, near, o, sib), parent, o, near)
    IN  IF ~IsRed(t, far) /\ ~IsRed(t, near)
        THEN IF IsRed(t, parent) THEN [flat EXCEPT !.n[parent].c = Black]
             ELSE IF up # 0 /\ climbs THEN EraseFixWith(flat, up, parent, climbs)
             ELSE flat
        ELSE IF ~IsRed(t, far) THEN Settle(t4, parent, near, sib, o)
        ELSE Settle(t, parent, sib, far, o)

rb_erase_fix_Once(t, parent) == EraseFixWith(t, parent, 0, FALSE)
rb_erase_fix(t, parent) == EraseFixWith(t, parent, 0, TRUE)

rb_erase(k) ==
    LET e == rb_erase_node(rb, k)
        t == IF e.at = 0 THEN e.t ELSE rb_erase_fix(e.t, e.at)
    IN  /\ k \in rbIn
        /\ rb' = [t EXCEPT !.n[k] = Off]
        /\ rbIn' = rbIn \ {k}

RbTreeNext == \E k \in RbKeys : rb_insert(k) \/ rb_erase(k)

\* The code leaves the fields of an erased node; _rb_insert clears them.

rb_lookup(k) == Descend(rb, k, rb.root, 0).at
rb_first == IF rb.root = 0 THEN 0 ELSE Leftmost(rb, rb.root)

-----------------------------------------------------------------------------
(* Properties                                                               *)

\* Below x, with every key strictly between lo and hi: the black height, or
\* -1 when an order, a parent pointer, a colour or the height is wrong.
RECURSIVE Height(_, _, _, _)
Height(x, parent, lo, hi) ==
    LET nd == rb.n[x]
        hl == Height(nd.l, x, lo, x)
        hr == Height(nd.r, x, x, hi)
    IN  IF x = 0 THEN 0
        ELSE IF x <= lo \/ x >= hi \/ nd.p # parent \/ (IsRed(rb, x) /\ IsRed(rb, parent))
                \/ hl = -1 \/ hl # hr
        THEN -1
        ELSE hl + nd.c

(***************************************************************************)
(* After every insertion and erasure the tree is a red-black tree: keys in *)
(* order, parent pointers right, no red node under a red one, as many      *)
(* black nodes on every path, a black root.  The scheduler's search time   *)
(* and the very reachability of a process rest on it.                      *)
(***************************************************************************)
RbBalanced == ~IsRed(rb, rb.root) /\ Height(rb.root, 0, 0, Max(RbKeys) + 1) # -1

(***************************************************************************)
(* The tree holds what was put in and not taken out: _rb_lookup finds a    *)
(* key exactly when it is in, and _rb_first returns the least, which is    *)
(* the process that has run least.                                         *)
(***************************************************************************)
RbHolds == /\ \A k \in RbKeys : rb_lookup(k) = (IF k \in rbIn THEN k ELSE 0)
           /\ rb_first = (IF rbIn = {} THEN 0 ELSE Min(rbIn))

\* rbtree.c is a set: after any insertions and erasures a balanced search tree with
\* exactly the keys that are in.
RbSafe == RbBalanced /\ RbHolds
=============================================================================
