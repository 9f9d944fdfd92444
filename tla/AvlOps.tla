------------------------------- MODULE AvlOps -------------------------------
(***************************************************************************)
(* The algorithms of avl/avl.c on the heaps of AvlRotations: insertion,    *)
(* deletion, walks, lookups and avl_verify.  What the code does with a     *)
(* loop over the tree is a recursive operator.                             *)
(***************************************************************************)
EXTENDS AvlRotations, Sequences

-----------------------------------------------------------------------------
(* avl_insert                                                              *)

\* The walk down.  It counts the new node into the rank of every node it leaves
\* to the left, and remembers the last unbalanced node s and its parent t.
RECURSIVE InsertWalk(_, _, _, _, _)
InsertWalk(h, k, p, t, s) ==
    LET d == Side(h, k, p)
        g == IF d = -1 THEN [h EXCEPT !.rank[p] = @ + 1] ELSE h
        q == Kid(h, p, d)
    IN  IF q = Nil THEN [h |-> g, p |-> p, d |-> d, t |-> t, s |-> s]
        ELSE IF h.balance[q] # 0 THEN InsertWalk(g, k, q, p, q)
        ELSE InsertWalk(g, k, q, t, s)

\* "adjust balance factors": the nodes from p down to the new node q lean to it.
RECURSIVE LeanTo(_, _, _, _)
LeanTo(h, k, p, q) ==
    IF p = q THEN h
    ELSE LET d == Side(h, k, p)
         IN  LeanTo([h EXCEPT !.balance[p] = d], k, Kid(h, p, d), q)

\* avl_insert with n as the new node.
avl_insert(h, k, n) ==
    IF Top(h) = Nil THEN Hang(avl_node_new(h, n, k, Root), Root, 1, n)
    ELSE LET w == InsertWalk(h, k, Top(h), Root, Top(h))
             g == Hang(avl_node_new(w.h, n, k, w.p), w.p, w.d, n)
             a == Side(g, k, w.s)
         IN  BalancingAct(LeanTo(g, k, Kid(g, w.s, a), n), w.t, w.s, a)

\* avl_insert when there is no memory for the node: it returns -1 from the
\* bottom of the walk.
avl_insert_nomem(h, k) ==
    IF Top(h) = Nil THEN h ELSE InsertWalk(h, k, Top(h), Root, Top(h)).h

-----------------------------------------------------------------------------
(* avl_delete                                                              *)

\* The walk down to key k, counting it out of the ranks on the way.  Where it
\* ends: at the node, or at the node below which k would have to be.
RECURSIVE DeleteWalk(_, _, _)
DeleteWalk(h, k, x) ==
    IF k = h.key[x] THEN [h |-> h, x |-> x, side |-> 0]
    ELSE LET d == IF k < h.key[x] THEN -1 ELSE 1
             g == IF d = -1 THEN [h EXCEPT !.rank[x] = @ - 1] ELSE h
         IN  IF Kid(h, x, d) = Nil THEN [h |-> g, x |-> x, side |-> d]
             ELSE DeleteWalk(g, k, Kid(h, x, d))

\* "undo the rank changes all the way up the tree".
RECURSIVE UndoRanks(_, _)
UndoRanks(h, x) ==
    IF x = Top(h) THEN h
    ELSE LET p == h.parent[x]
         IN  UndoRanks(IF h.left[p] = x THEN [h EXCEPT !.rank[p] = @ + 1] ELSE h, p)

\* The key is not in the tree.  Both branches of the code give one to the rank
\* of the last node, whichever side the walk fell off.
DeleteMiss(h, x, side) == UndoRanks([h EXCEPT !.rank[x] = @ + 1], x)

RECURSIVE Rightmost(_, _)
Rightmost(h, y) == IF h.right[y] = Nil THEN y ELSE Rightmost(h, h.right[y])

RECURSIVE Leftmost(_, _)
Leftmost(h, n) == IF h.left[n] = Nil THEN n ELSE Leftmost(h, h.left[n])

\* "climb back up the tree, rotating when necessary".
RECURSIVE Climb(_, _, _)
Climb(h, p, d) ==
    IF h.parent[p] = Nil THEN h
    ELSE LET w == Shrink(h, p, d)
             u == w.h.parent[w.top]
         IN  IF w.shorter THEN Climb(w.h, u, IF w.h.left[u] = w.top THEN -1 ELSE 1)
             ELSE w.h

\* Take out node x, which has at most one child.
Unlink(h, x) == LET y == Detached(h, x) IN Climb(y.h, y.p, y.d)

\* Mutants of avl_delete: the successor goes instead of the predecessor, or a key
\* that is not there takes the last node of the walk with it.
DeleteSuccessor(h, k) ==
    IF Top(h) = Nil THEN [h |-> h, ret |-> -1, freed |-> Nil]
    ELSE LET w == DeleteWalk(h, k, Top(h))
             x == w.x
             y == Leftmost(w.h, w.h.right[x])
             g == [w.h EXCEPT !.key[x] = w.h.key[y], !.key[y] = w.h.key[x]]
         IN  IF w.side # 0 THEN [h |-> DeleteMiss(w.h, x, w.side), ret |-> -1, freed |-> Nil]
             ELSE IF h.left[x] # Nil /\ h.right[x] # Nil
             THEN [h |-> Unlink(g, y), ret |-> 0, freed |-> y]
             ELSE [h |-> Unlink(w.h, x), ret |-> 0, freed |-> x]
DeleteWhateverIsThere(h, k) ==
    IF Top(h) = Nil THEN [h |-> h, ret |-> -1, freed |-> Nil]
    ELSE LET x == Rightmost(h, Top(h))
         IN  [h |-> Unlink(h, x), ret |-> 0, freed |-> x]

\* avl_delete of a key: the heap it leaves, what it returns and the node that it
\* frees.  A node with two children gets its predecessor's key instead, and the
\* predecessor's node goes.
avl_delete(h, k) ==
    IF Top(h) = Nil THEN [h |-> h, ret |-> -1, freed |-> Nil]
    ELSE LET w == DeleteWalk(h, k, Top(h))
             x == w.x
             y == Rightmost(w.h, w.h.left[x])
             g == [w.h EXCEPT !.key[x] = w.h.key[y], !.key[y] = w.h.key[x],
                              !.rank[x] = @ - 1]
         IN  IF w.side # 0 THEN [h |-> DeleteMiss(w.h, x, w.side), ret |-> -1, freed |-> Nil]
             ELSE IF h.left[x] # Nil /\ h.right[x] # Nil
             THEN [h |-> Unlink(g, y), ret |-> 0, freed |-> y]
             ELSE [h |-> Unlink(w.h, x), ret |-> 0, freed |-> x]

-----------------------------------------------------------------------------
(* Walking the tree                                                        *)

avl_get_first(h) == IF Top(h) = Nil THEN Nil ELSE Leftmost(h, Top(h))

\* Mutant of UpFrom: one step up, from whichever side.
UpOnce(h, n, d) == IF h.key[h.parent[n]] = NoKey THEN Nil ELSE h.parent[n]

\* Up from n until the step comes from side d.  The climb ends at the sentinel,
\* recognised by its NULL key.
RECURSIVE UpFrom(_, _, _)
UpFrom(h, n, d) ==
    LET p == h.parent[n]
    IN  IF p = Nil \/ h.key[p] = NoKey THEN Nil
        ELSE IF Kid(h, p, d) = n THEN p ELSE UpFrom(h, p, d)

avl_get_prev(h, n) == IF h.left[n] # Nil THEN Rightmost(h, h.left[n])
                      ELSE UpFrom(h, n, 1)
avl_get_next(h, n) == IF h.right[n] # Nil THEN Leftmost(h, h.right[n])
                      ELSE UpFrom(h, n, -1)

-----------------------------------------------------------------------------
(* Lookups                                                                 *)

\* The node at 1-based position m below p, by ranks.
RECURSIVE ByRank(_, _, _)
ByRank(h, p, m) ==
    IF p = Nil THEN Nil
    ELSE IF m < h.rank[p] THEN ByRank(h, h.left[p], m)
    ELSE IF m > h.rank[p] THEN ByRank(h, h.right[p], m - h.rank[p])
    ELSE p

avl_get_by_index(h, i) == ByRank(h, Top(h), i + 1)

RECURSIVE ByKey(_, _, _)
ByKey(h, k, x) ==
    IF x = Nil \/ h.key[x] = k THEN x
    ELSE ByKey(h, k, IF k < h.key[x] THEN h.left[x] ELSE h.right[x])

avl_get_by_key(h, k) == ByKey(h, k, Top(h))

\* Mutant of Closest: only exact matches count.
ClosestExact(h, k, d, x, best) == IF ByKey(h, k, x) = Nil THEN best ELSE k

\* The last key met on the way down that lies on side d of k, or k itself.
RECURSIVE Closest(_, _, _, _, _)
Closest(h, k, d, x, best) ==
    IF x = Nil THEN best
    ELSE LET c == h.key[x]
         IN  IF c = k THEN k
             ELSE IF k < c THEN Closest(h, k, d, h.left[x], IF d = 1 THEN c ELSE best)
             ELSE Closest(h, k, d, h.right[x], IF d = -1 THEN c ELSE best)

avl_get_item_by_key_most(h, k)  == Closest(h, k, -1, Top(h), NoKey)
avl_get_item_by_key_least(h, k) == Closest(h, k, 1, Top(h), NoKey)

\* Mutant of IndexWalk: the index of the top node whatever the key.
IndexOfTop(h, k, x, m) == [node |-> ByKey(h, k, x), index |-> m - 1]

\* avl_get_index_by_key on a tree that is not empty: the node, if k is there,
\* and the index.
RECURSIVE IndexWalk(_, _, _, _)
IndexWalk(h, k, x, m) ==
    IF k = h.key[x] THEN [node |-> x, index |-> m - 1]
    ELSE IF k < h.key[x]
    THEN IF h.left[x] = Nil THEN [node |-> Nil, index |-> m - 2]
         ELSE IndexWalk(h, k, h.left[x], m - h.rank[x] + h.rank[h.left[x]])
    ELSE IF h.right[x] = Nil THEN [node |-> Nil, index |-> m - 1]
         ELSE IndexWalk(h, k, h.right[x], m + h.rank[h.right[x]])

avl_get_index_by_key(h, k) == IndexWalk(h, k, Top(h), h.rank[Top(h)])

\* Mutant of Run: it looks at one neighbour only.
RunOfOne(h, k, n, d) == IF n = Nil \/ h.key[n] # k THEN 0 ELSE 1

\* How many nodes with key k come one after the other from n on, on side d.
RECURSIVE Run(_, _, _, _)
Run(h, k, n, d) ==
    IF n = Nil \/ h.key[n] # k THEN 0
    ELSE 1 + Run(h, k, IF d = -1 THEN avl_get_prev(h, n) ELSE avl_get_next(h, n), d)

avl_get_span_by_key(h, k) ==
    LET w == avl_get_index_by_key(h, k)
    IN  IF w.node = Nil THEN <<w.index, w.index>>
        ELSE <<w.index - Run(h, k, avl_get_prev(h, w.node), -1),
               w.index + Run(h, k, avl_get_next(h, w.node), 1) + 1>>

avl_get_span_by_two_keys(h, j, k) ==
    LET lo == IF j > k THEN k ELSE j
        hi == IF j > k THEN j ELSE k
        a  == avl_get_index_by_key(h, lo)
        b  == avl_get_index_by_key(h, hi)
    IN  <<IF a.node = Nil THEN a.index + 1
          ELSE a.index - Run(h, lo, avl_get_prev(h, a.node), -1),
          IF b.node = Nil THEN b.index + 1
          ELSE b.index + Run(h, hi, avl_get_next(h, b.node), 1)>>

\* avl_iterate_index_range: the keys it calls the function with, for
\* 0 < high <= length.
RECURSIVE BackFrom(_, _, _)
BackFrom(h, n, left) ==
    IF left = 0 THEN <<>>
    ELSE <<h.key[n]>> \o BackFrom(h, avl_get_prev(h, n), left - 1)

avl_iterate_index_range(h, low, high) ==
    BackFrom(h, ByRank(h, Top(h), high), high - low)

\* The nodes in the order of avl_iterate_inorder.
RECURSIVE Inorder(_, _)
Inorder(h, n) == IF n = Nil THEN <<>>
                 ELSE Inorder(h, h.left[n]) \o <<n>> \o Inorder(h, h.right[n])

avl_iterate_inorder(h) == LET s == Inorder(h, Top(h))
                          IN  [i \in 1 .. Len(s) |-> h.key[s[i]]]

-----------------------------------------------------------------------------
(* avl_verify                                                              *)

RECURSIVE Height(_, _)
Height(h, n) == IF n = Nil THEN 0
                ELSE LET l == Height(h, h.left[n])
                         r == Height(h, h.right[n])
                     IN  1 + (IF l > r THEN l ELSE r)

\* avl_verify_balance, avl_verify_parent and avl_verify_rank at one node.
BalanceOK(h, n) ==
    LET b == Height(h, h.right[n]) - Height(h, h.left[n])
    IN  b = h.balance[n] /\ b \in -1 .. 1
ParentOK(h, n) == \A m \in {h.left[n], h.right[n]} : m # Nil => h.parent[m] = n
RankOK(h, n)   == h.rank[n] = Len(Inorder(h, h.left[n])) + 1
=============================================================================
