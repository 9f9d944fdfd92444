---------------------------- MODULE AvlRotations ----------------------------
(***************************************************************************)
(* The rotations of avl/avl.c on a heap of nodes, and the two places that  *)
(* choose one: after an insertion, and on the way up from a deletion.      *)
(*                                                                         *)
(* A heap is a record of functions, one per field of avl_node: left,       *)
(* right, parent, key, balance and rank (the last two share                *)
(* rank_and_balance in the code).  Node Root is the sentinel: the tree     *)
(* hangs from its right pointer, its key is NULL.  Each operator takes a   *)
(* heap and gives the heap, or the value, that the C function leaves.      *)
(*                                                                         *)
(* The mirror images that the code spells out twice are one operator here, *)
(* with the side as a parameter: -1 for left, 1 for right.                 *)
(***************************************************************************)
EXTENDS Integers

Root == 0
Nil  == -1
NoKey == 0

Kid(h, n, d) == IF d = -1 THEN h.left[n] ELSE h.right[n]

SetKid(h, n, d, m) == IF d = -1 THEN [h EXCEPT !.left[n] = m]
                                ELSE [h EXCEPT !.right[n] = m]

\* Hang m below n on side d; m's parent pointer follows when there is an m.
Hang(h, n, d, m) ==
    LET g == SetKid(h, n, d, m)
    IN  IF m = Nil THEN g ELSE [g EXCEPT !.parent[m] = n]

\* Which side of n a key being inserted goes to: equal keys go left.
Side(h, k, n) == IF k <= h.key[n] THEN -1 ELSE 1

Top(h) == h.right[Root]

\* avl_node_new: a node has rank 1 and is balanced.
avl_node_new(h, n, k, p) ==
    [h EXCEPT !.left[n] = Nil, !.right[n] = Nil, !.parent[n] = p,
              !.key[n] = k, !.balance[n] = 0, !.rank[n] = 1]

-----------------------------------------------------------------------------
(* Rotations.  s is too heavy on side a; p comes up in its place.          *)

\* Mutant of SingleRotation: the ranks are left alone.
RotationWithoutRanks(h, s, a) ==
    LET r == Kid(h, s, a)
    IN  Hang(Hang(h, s, a, Kid(h, r, -a)), r, -a, s)

\* The links and ranks of a single rotation.
SingleRotation(h, s, a) ==
    LET r == Kid(h, s, a)
        g == Hang(Hang(h, s, a, Kid(h, r, -a)), r, -a, s)
    IN  IF a = -1 THEN [g EXCEPT !.rank[s] = @ - g.rank[r]]
                  ELSE [g EXCEPT !.rank[r] = @ + g.rank[s]]

\* The links and ranks of a double rotation.
DoubleRotation(h, s, a) ==
    LET r  == Kid(h, s, a)
        p  == Kid(h, r, -a)
        g1 == Hang(Hang(h, r, -a, Kid(h, p, a)), p, a, r)
        g  == Hang(Hang(g1, s, a, Kid(g1, p, -a)), p, -a, s)
        rp == g.rank[p] + g.rank[r]
    IN  IF a = -1 THEN [g EXCEPT !.rank[p] = rp, !.rank[s] = @ - rp]
                  ELSE [g EXCEPT !.rank[r] = @ - g.rank[p],
                                 !.rank[p] = @ + g.rank[s]]

\* The balance factors after a double rotation that brought p up over r and s.
DoubleBalance(h, s, r, p, a) ==
    [h EXCEPT !.balance[s] = IF h.balance[p] = a THEN -a ELSE 0,
              !.balance[r] = IF h.balance[p] = -a THEN a ELSE 0,
              !.balance[p] = 0]

\* p takes the place of s under t.
Replace(h, t, s, p) == Hang(h, t, IF h.right[t] = s THEN 1 ELSE -1, p)

-----------------------------------------------------------------------------
(* Where the balance is restored                                           *)

\* "balancing act": s leans to side a after the insertion.
BalancingAct(h, t, s, a) ==
    LET r == Kid(h, s, a)
        p == Kid(h, r, -a)
    IN  IF h.balance[s] = 0 THEN [h EXCEPT !.balance[s] = a]
        ELSE IF h.balance[s] = -a THEN [h EXCEPT !.balance[s] = 0]
        ELSE IF h.balance[r] = a
        THEN Replace([SingleRotation(h, s, a) EXCEPT !.balance[s] = 0,
                                                     !.balance[r] = 0], t, s, r)
        ELSE Replace(DoubleBalance(DoubleRotation(h, s, a), s, r, p, a), t, s, p)

\* One turn of the climb at p, whose subtree on side d got shorter: the heap,
\* the node that is now on top of that subtree and whether it got shorter too.
Shrink(h, p, d) ==
    LET a == -d
        q == Kid(h, p, a)
        r == Kid(h, q, d)
        t == h.parent[p]
    IN  IF h.balance[p] = 0
        THEN [h |-> [h EXCEPT !.balance[p] = a], top |-> p, shorter |-> FALSE]
        ELSE IF h.balance[p] = d
        THEN [h |-> [h EXCEPT !.balance[p] = 0], top |-> p, shorter |-> TRUE]
        ELSE IF h.balance[q] = 0
        THEN [h |-> Replace([SingleRotation(h, p, a) EXCEPT !.balance[q] = d,
                                                            !.balance[p] = a], t, p, q),
              top |-> q, shorter |-> FALSE]
        ELSE IF h.balance[q] = h.balance[p]
        THEN [h |-> Replace([SingleRotation(h, p, a) EXCEPT !.balance[q] = 0,
                                                            !.balance[p] = 0], t, p, q),
              top |-> q, shorter |-> TRUE]
        ELSE [h |-> Replace(DoubleBalance(DoubleRotation(h, p, a), p, q, r, a), t, p, r),
              top |-> r, shorter |-> TRUE]

\* x, which has at most one child, is taken out and the child moves into its
\* place: the heap, and the node and the side of it that got shorter.
Detached(h, x) ==
    LET child == IF h.left[x] # Nil THEN h.left[x] ELSE h.right[x]
        p == h.parent[x]
        d == IF h.left[p] = x THEN -1 ELSE 1
    IN  [h |-> Hang(h, p, d, child), p |-> p, d |-> d]
=============================================================================
