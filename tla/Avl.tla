-------------------------------- MODULE Avl --------------------------------
(***************************************************************************)
(* An avl_tree under a client that inserts and deletes keys: the state is  *)
(* the heap of nodes and the length field; "bag" is what a sorted bag of   *)
(* keys would hold after the same calls, the specification that the tree   *)
(* is checked against.                                                     *)
(*                                                                         *)
(* Addresses mean nothing to the code, so after each call the nodes are    *)
(* renamed to their position in the tree (Renamed); what a call does to    *)
(* the identity of nodes is stated on the call itself (SavedNextSurvives). *)
(***************************************************************************)
EXTENDS AvlOps, FiniteSets, SequencesExt

CONSTANTS
    Keys,       \* the keys, positive numbers (a NULL key marks the sentinel)
    MaxNodes,   \* bound: nodes in the tree
    Repeated,   \* the keys that the client may insert more than once
    MaxCopies,  \* bound: copies of such a key in the tree
    Misses,     \* the client may delete a key that is not in the tree
    AllocFails, \* malloc may fail
    MaxFailed,  \* bound: calls that return -1
    FailNodes   \* bound: nodes in a tree on which a call returned -1

ASSUME AvlAssumption ==
    /\ Keys \subseteq Nat \ {0} /\ Repeated \subseteq Keys
    /\ MaxNodes \in Nat \ {0} /\ MaxCopies \in Nat \ {0} /\ MaxFailed \in Nat
    /\ FailNodes \in 0 .. MaxNodes
    /\ Misses \in BOOLEAN /\ AllocFails \in BOOLEAN

VARIABLES heap, length, bag, failed
vars == <<heap, length, bag, failed>>

Nodes == 0 .. MaxNodes

\* avl_tree_new: the sentinel alone.  The other nodes are free memory.
avl_tree_new ==
    [left |-> [n \in Nodes |-> Nil], right |-> [n \in Nodes |-> Nil],
     parent |-> [n \in Nodes |-> Nil], key |-> [n \in Nodes |-> NoKey],
     balance |-> [n \in Nodes |-> 0],
     rank |-> [n \in Nodes |-> IF n = Root THEN 1 ELSE 0]]

Init == heap = avl_tree_new /\ length = 0 /\ bag = [k \in Keys |-> 0] /\ failed = 0

\* The same tree with its nodes numbered in order, and all other memory clear.
Renamed(h) ==
    LET s == Inorder(h, Top(h))
        old(n) == IF n = Root THEN Root ELSE s[n]
        new(n) == IF n \in {Nil, Root} THEN n ELSE CHOOSE i \in 1 .. Len(s) : s[i] = n
        here == 0 .. Len(s)
    IN  [left    |-> [n \in Nodes |-> IF n \in here THEN new(h.left[old(n)]) ELSE Nil],
         right   |-> [n \in Nodes |-> IF n \in here THEN new(h.right[old(n)]) ELSE Nil],
         parent  |-> [n \in Nodes |-> IF n \in here THEN new(h.parent[old(n)]) ELSE Nil],
         key     |-> [n \in Nodes |-> IF n \in here THEN h.key[old(n)] ELSE NoKey],
         balance |-> [n \in Nodes |-> IF n \in here THEN h.balance[old(n)] ELSE 0],
         rank    |-> [n \in Nodes |-> IF n \in here THEN h.rank[old(n)] ELSE 0]]

Insert(k) ==
    /\ length < IF failed > 0 THEN FailNodes ELSE MaxNodes
    /\ bag[k] < IF k \in Repeated THEN MaxCopies ELSE 1
    /\ heap' = Renamed(avl_insert(heap, k, length + 1))
    /\ length' = length + 1
    /\ bag' = [bag EXCEPT ![k] = @ + 1]
    /\ UNCHANGED failed

CallFails == failed < MaxFailed /\ length <= FailNodes /\ failed' = failed + 1

InsertNoMemory(k) ==
    /\ AllocFails /\ CallFails
    /\ heap' = avl_insert_nomem(heap, k)
    /\ UNCHANGED <<length, bag>>

Delete(k) ==
    /\ bag[k] > 0
    /\ heap' = Renamed(avl_delete(heap, k).h)
    /\ length' = length - 1
    /\ bag' = [bag EXCEPT ![k] = @ - 1]
    /\ UNCHANGED failed

DeleteMissing(k) ==
    /\ Misses /\ CallFails
    /\ bag[k] = 0
    /\ heap' = avl_delete(heap, k).h
    /\ UNCHANGED <<length, bag>>

Next == \E k \in Keys : \/ Insert(k) \/ InsertNoMemory(k)
                        \/ Delete(k) \/ DeleteMissing(k)

Spec == Init /\ [][Next]_vars

-----------------------------------------------------------------------------
(* The specification: a sorted bag                                         *)

Live == 1 .. length        \* the nodes in the tree, in order

Count(S) == FoldSet(LAMBDA k, acc : bag[k] + acc, 0, S)

\* The i-th key of the bag, from 1.
KeyAt(i) == CHOOSE k \in Keys :
    /\ Count({j \in Keys : j < k}) < i
    /\ i <= Count({j \in Keys : j <= k})

Sorted == [i \in 1 .. Count(Keys) |-> KeyAt(i)]

-----------------------------------------------------------------------------
(* Properties                                                              *)

\* The tree holds the keys of the bag in order, after every insertion and
\* deletion with its rotations and key swaps, and "length" counts them.
Contents == avl_iterate_inorder(heap) = Sorted /\ length = Count(Keys)

\* What avl_verify checks.  The balance factors are the height differences and the
\* tree is an AVL tree; every child points back to its parent, the top node to the
\* sentinel, as the walks up of avl_get_next and avl_delete need; the rank of a node
\* is one more than the size of its left subtree ("invalid rank at node"), unless a
\* call returned -1 before, which leaves ranks wrong (DeleteMissing, InsertNoMemory).
Verified ==
    /\ \A n \in Live : BalanceOK(heap, n)
    /\ \A n \in {Root} \cup Live : ParentOK(heap, n)
    /\ failed = 0 => \A n \in Live : RankOK(heap, n)

\* avl_get_first and avl_get_next meet the nodes in order and then stop;
\* avl_get_prev goes the other way.
Walks ==
    /\ avl_get_first(heap) = IF length = 0 THEN Nil ELSE 1
    /\ \A n \in Live : /\ avl_get_next(heap, n) = IF n = length THEN Nil ELSE n + 1
                       /\ avl_get_prev(heap, n) = IF n = 1 THEN Nil ELSE n - 1

\* Lookups by key: avl_get_by_key finds a key exactly when it is there, and the
\* _most and _least variants find the closest key below or above.
KeyLookups == \A k \in Keys :
    LET below == {j \in Keys : j <= k /\ bag[j] > 0}
        above == {j \in Keys : j >= k /\ bag[j] > 0}
    IN  /\ (avl_get_by_key(heap, k) # Nil) <=> (bag[k] > 0)
        /\ avl_get_item_by_key_most(heap, k) = IF below = {} THEN NoKey ELSE Max(below)
        /\ avl_get_item_by_key_least(heap, k) = IF above = {} THEN NoKey ELSE Min(above)

\* Lookups by position: avl_get_by_index answers for exactly the indices below
\* "length", avl_get_span_by_key gives the half-open range of positions of the
\* copies of a key (for an absent key, twice the position of the closest
\* preceding one), and avl_iterate_index_range visits a range backwards.  Positions
\* are counted in ranks, so a call that returned -1 may have spoilt them.
IndexLookups == failed = 0 =>
    /\ \A i \in 0 .. length : avl_get_by_index(heap, i) = IF i < length THEN i + 1 ELSE Nil
    /\ length > 0 => \A k \in Keys :
          LET lo == Count({j \in Keys : j < k})
          IN  avl_get_span_by_key(heap, k) =
                IF bag[k] > 0 THEN <<lo, lo + bag[k]>> ELSE <<lo - 1, lo - 1>>
    /\ LET sorted == Sorted
       IN  \A low, high \in 0 .. length : low <= high /\ high > 0 =>
             avl_iterate_index_range(heap, low, high) =
                 [i \in 1 .. (high - low) |-> sorted[high - i + 1]]

\* A client that walks the tree and deletes as it goes takes avl_get_next first:
\* deleting a key that is there once never frees the node of the next key, nor
\* changes that node's key, although avl_delete swaps keys between nodes.
SavedNextSurvives == \A n \in Live :
    bag[heap.key[n]] = 1 /\ n < length =>
        LET d == avl_delete(heap, heap.key[n])
        IN  d.ret = 0 /\ d.freed \notin {Nil, n + 1} /\ d.h.key[n + 1] = heap.key[n + 1]

\* avl_get_span_by_two_keys, the keys in either order and with any number of
\* copies: low is the position of the first key that is not below the lower one,
\* high that of the last copy of the upper one.  When the upper key is not in the
\* tree, high is the position after the last key below it.
TwoKeysSpan == failed = 0 /\ length > 0 => \A j, k \in Keys :
    LET lo == Min({j, k})
        hi == Max({j, k})
    IN  avl_get_span_by_two_keys(heap, j, k) =
            <<Count({i \in Keys : i < lo}),
              IF bag[hi] > 0 THEN Count({i \in Keys : i <= hi}) - 1
              ELSE Count({i \in Keys : i < hi})>>
=============================================================================
