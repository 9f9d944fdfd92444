------------------------- MODULE AvlRotationProofs -------------------------
(***************************************************************************)
(* Proofs about AvlRotations, for a tree of any shape and size.  After     *)
(* BalancingAct or a turn of Shrink the nodes of the subtree that it turns *)
(* stand in the same order, each is balanced and knows its parent, its     *)
(* rank and its balance, and the subtree is as tall as the caller          *)
(* believes.  From there to the climb of avl_delete: once a node has been  *)
(* detached, the turns of the loop leave a whole tree.                     *)
(*                                                                         *)
(* S is a set of nodes that contains the kids of its nodes, T the set of   *)
(* all nodes in the tree.  What the recursive operators of AvlOps compute  *)
(* is given here as two functions on such a set: I[n] is the sequence of   *)
(* the nodes below n in order, H[n] the height of n.                       *)
(***************************************************************************)
EXTENDS AvlRotations, SequenceFacts

Sides == {-1, 1}

\* The side across.
LEMMA OtherSide ==
    ASSUME NEW a \in Sides
    PROVE  /\ -a \in Sides
           /\ -a # a
           /\ -(-a) = a
           /\ a = -1 => -a = 1
           /\ a = 1 => -a = -1
<1>1. a \in Int /\ (a = 0 - 1 \/ a = 1)
  BY DEF Sides
<1>2. -a = 0 - a /\ -(-a) = 0 - (0 - a) /\ -1 = 0 - 1
  BY <1>1
<1> QED
  BY <1>1, <1>2 DEF Sides

\* A heap on the nodes N.
Heaps(N) == [left : [N -> N \cup {Nil}], right : [N -> N \cup {Nil}],
             parent : [N -> N \cup {Nil}], key : [N -> Int],
             balance : [N -> Int], rank : [N -> Int]]

Larger(i, j) == IF i > j THEN i ELSE j

\* The links within S: a kid is in S, it knows its parent, and no node is the
\* kid of a parent on both sides.
Linked(h, S) ==
    \A n \in S : /\ \A d \in Sides : /\ Kid(h, n, d) \in S \cup {Nil}
                                     /\ Kid(h, n, d) # Nil => h.parent[Kid(h, n, d)] = n
                 /\ Kid(h, n, -1) = Kid(h, n, 1) => Kid(h, n, 1) = Nil

\* I is the order of the nodes, as Inorder would list them.
Ordered(h, S, I) ==
    /\ I \in [S \cup {Nil} -> Seq(S)] /\ I[Nil] = << >>
    /\ \A n \in S : I[n] = I[Kid(h, n, -1)] \o <<n>> \o I[Kid(h, n, 1)]

\* H is the height of each node, as Height would compute it.
Tall(h, S, H) ==
    /\ H \in [S \cup {Nil} -> Nat] /\ H[Nil] = 0
    /\ \A n \in S : H[n] = 1 + Larger(H[Kid(h, n, -1)], H[Kid(h, n, 1)])

\* A node's rank is its position in its own subtree.
Ranked(h, S, I) == \A n \in S : h.rank[n] = Len(I[Kid(h, n, -1)]) + 1

\* A node's balance is how much taller its right subtree is, by one at most.
Balanced(h, S, H) ==
    \A n \in S : /\ h.balance[n] = H[Kid(h, n, 1)] - H[Kid(h, n, -1)]
                 /\ h.balance[n] \in -1 .. 1

\* All of it but the balance.
Subtree(h, S, I, H) == Linked(h, S) /\ Ordered(h, S, I) /\ Tall(h, S, H) /\ Ranked(h, S, I)

\* p hangs below t on one side of it, and not on the other; what does is t's.
HangsFrom(h, S, t, p) ==
    /\ h.parent[p] = t
    /\ \E d \in Sides : /\ Kid(h, t, d) = p /\ Kid(h, t, -d) # p
                        /\ Kid(h, t, -d) \in S => h.parent[Kid(h, t, -d)] = t

\* h and g differ only within S, and at the link of t, where q takes the place
\* of p.
OnlyWithin(h, g, N, S, t, p, q) ==
    /\ g.key = h.key
    /\ \A n \in N \ S : /\ g.parent[n] = h.parent[n]
                        /\ g.balance[n] = h.balance[n]
                        /\ g.rank[n] = h.rank[n]
                        /\ \A d \in Sides : Kid(g, n, d) = IF n = t /\ Kid(h, t, d) = p THEN q
                                                           ELSE Kid(h, n, d)

-----------------------------------------------------------------------------
(* What the steps of a rotation write                                      *)

\* g is h with the balance factors f, or with the ranks f.
BalanceWritten(h, g, N, f) ==
    /\ g \in Heaps(N) /\ g.key = h.key /\ g.balance = f /\ g.rank = h.rank /\ g.parent = h.parent
    /\ \A x, e : Kid(g, x, e) = Kid(h, x, e)
RankWritten(h, g, N, f) ==
    /\ g \in Heaps(N) /\ g.key = h.key /\ g.balance = h.balance /\ g.rank = f /\ g.parent = h.parent
    /\ \A x, e : Kid(g, x, e) = Kid(h, x, e)

LEMMA BalanceWrites ==
    ASSUME NEW N, NEW h \in Heaps(N), NEW f \in [N -> Int]
    PROVE  BalanceWritten(h, [h EXCEPT !.balance = f], N, f)
<1>1. /\ [h EXCEPT !.balance = f] \in Heaps(N)
      /\ [h EXCEPT !.balance = f].key = h.key
      /\ [h EXCEPT !.balance = f].rank = h.rank
      /\ [h EXCEPT !.balance = f].parent = h.parent
      /\ [h EXCEPT !.balance = f].balance = f
      /\ [h EXCEPT !.balance = f].left = h.left
      /\ [h EXCEPT !.balance = f].right = h.right
  BY DEF Heaps
<1> DEFINE g == [h EXCEPT !.balance = f]
<1> HIDE DEF g
<1>2. \A x, e : Kid(g, x, e) = Kid(h, x, e)
  BY <1>1 DEF Kid, g
<1> QED
  BY <1>1, <1>2 DEF BalanceWritten, g

LEMMA RankWrites ==
    ASSUME NEW N, NEW h \in Heaps(N), NEW f \in [N -> Int]
    PROVE  RankWritten(h, [h EXCEPT !.rank = f], N, f)
<1>1. /\ [h EXCEPT !.rank = f] \in Heaps(N)
      /\ [h EXCEPT !.rank = f].key = h.key
      /\ [h EXCEPT !.rank = f].rank = f
      /\ [h EXCEPT !.rank = f].parent = h.parent
      /\ [h EXCEPT !.rank = f].balance = h.balance
      /\ [h EXCEPT !.rank = f].left = h.left
      /\ [h EXCEPT !.rank = f].right = h.right
  BY DEF Heaps
<1> DEFINE g == [h EXCEPT !.rank = f]
<1> HIDE DEF g
<1>2. \A x, e : Kid(g, x, e) = Kid(h, x, e)
  BY <1>1 DEF Kid, g
<1> QED
  BY <1>1, <1>2 DEF RankWritten, g

\* Writing one rank writes the ranks.
LEMMA OneRank ==
    ASSUME NEW N, NEW h \in Heaps(N), NEW s \in N, NEW i \in Int
    PROVE  /\ [h.rank EXCEPT ![s] = i] \in [N -> Int]
           /\ [h EXCEPT !.rank[s] = i] = [h EXCEPT !.rank = [h.rank EXCEPT ![s] = i]]
BY DEF Heaps

\* g is h with m hung below n on side d: one link, and the parent pointer behind
\* it.
Hung(h, g, N, n, d, m) ==
    /\ g \in Heaps(N) /\ g.key = h.key /\ g.balance = h.balance /\ g.rank = h.rank
    /\ \A x \in N : g.parent[x] = IF x = m THEN n ELSE h.parent[x]
    /\ \A x \in N, e \in Sides : Kid(g, x, e) = IF x = n /\ e = d THEN m ELSE Kid(h, x, e)

LEMMA HangWrites ==
    ASSUME NEW N, Nil \notin N, NEW h \in Heaps(N), NEW n \in N, NEW d \in Sides,
           NEW m \in N \cup {Nil}
    PROVE  Hung(h, Hang(h, n, d, m), N, n, d, m)
<1> DEFINE g == SetKid(h, n, d, m)
<1>1. /\ g \in Heaps(N) /\ g.key = h.key /\ g.balance = h.balance /\ g.rank = h.rank
      /\ g.parent = h.parent
  <2>1. CASE d = -1
    BY <2>1 DEF Heaps, SetKid
  <2>2. CASE d = 1
    BY <2>2 DEF Heaps, SetKid
  <2> QED
    BY <2>1, <2>2 DEF Sides
<1>2. ASSUME NEW x \in N, NEW e \in Sides
      PROVE  Kid(g, x, e) = IF x = n /\ e = d THEN m ELSE Kid(h, x, e)
  <2>1. CASE d = -1
    BY <2>1 DEF Heaps, SetKid, Kid, Sides
  <2>2. CASE d = 1
    BY <2>2 DEF Heaps, SetKid, Kid, Sides
  <2> QED
    BY <2>1, <2>2 DEF Sides
<1>3. CASE m = Nil
  <2>1. Hang(h, n, d, m) = g
    BY <1>3 DEF Hang
  <2> HIDE DEF g
  <2> QED
    BY <1>1, <1>2, <1>3, <2>1 DEF Hung
<1>4. CASE m # Nil
  <2>1. Hang(h, n, d, m) = [g EXCEPT !.parent[m] = n]
    BY <1>4 DEF Hang
  <2> HIDE DEF g
  <2>2. /\ [g EXCEPT !.parent[m] = n] \in Heaps(N)
        /\ [g EXCEPT !.parent[m] = n].left = g.left
        /\ [g EXCEPT !.parent[m] = n].right = g.right
        /\ [g EXCEPT !.parent[m] = n].key = g.key
        /\ [g EXCEPT !.parent[m] = n].balance = g.balance
        /\ [g EXCEPT !.parent[m] = n].rank = g.rank
        /\ \A x \in N : [g EXCEPT !.parent[m] = n].parent[x] = IF x = m THEN n ELSE g.parent[x]
    BY <1>1, <1>4 DEF Heaps
  <2>3. \A x, e : Kid([g EXCEPT !.parent[m] = n], x, e) = Kid(g, x, e)
    BY <2>2 DEF Kid
  <2> QED
    BY <1>1, <1>2, <2>1, <2>2, <2>3 DEF Hung
<1> QED
  BY <1>3, <1>4

\* Replace puts p where s hangs below t.
Replaced(h, g, N, t, s, p) ==
    /\ g \in Heaps(N) /\ g.key = h.key /\ g.balance = h.balance /\ g.rank = h.rank
    /\ \A x \in N : g.parent[x] = IF x = p THEN t ELSE h.parent[x]
    /\ \A x \in N, e \in Sides :
          Kid(g, x, e) = IF x = t /\ Kid(h, t, e) = s THEN p ELSE Kid(h, x, e)

LEMMA ReplaceWrites ==
    ASSUME NEW N, Nil \notin N, NEW h \in Heaps(N), NEW t \in N, NEW s \in N, NEW p \in N,
           Kid(h, t, 1) = s <=> Kid(h, t, -1) # s
    PROVE  Replaced(h, Replace(h, t, s, p), N, t, s, p)
<1> DEFINE d == IF h.right[t] = s THEN 1 ELSE -1
<1>1. d \in Sides /\ Replace(h, t, s, p) = Hang(h, t, d, p)
  BY DEF Replace, Sides
<1>2. \A e \in Sides : Kid(h, t, e) = s <=> e = d
  BY DEF Kid, Sides
<1> HIDE DEF d
<1>3. Hung(h, Hang(h, t, d, p), N, t, d, p)
  BY <1>1, HangWrites
<1> QED
  BY <1>1, <1>2, <1>3 DEF Hung, Replaced

\* The links, the parents and the ranks after a single rotation: r comes up over
\* s, whose subtree B it leaves to s.
SinglyRotated(h, g, N, a, s, r, B) ==
    /\ g \in Heaps(N) /\ g.key = h.key /\ g.balance = h.balance
    /\ \A x \in N : g.parent[x] = IF x = s THEN r ELSE IF x = B THEN s ELSE h.parent[x]
    /\ \A x \in N, e \in Sides : Kid(g, x, e) = IF x = s /\ e = a THEN B
                                               ELSE IF x = r /\ e = -a THEN s
                                               ELSE Kid(h, x, e)
    /\ a = -1 => \A x \in N : g.rank[x] = IF x = s THEN h.rank[s] - h.rank[r] ELSE h.rank[x]
    /\ a = 1 => \A x \in N : g.rank[x] = IF x = r THEN h.rank[r] + h.rank[s] ELSE h.rank[x]

LEMMA SingleWrites ==
    ASSUME NEW N, Nil \notin N, NEW h \in Heaps(N), NEW a \in Sides, NEW s \in N, NEW r \in N,
           NEW B \in N \cup {Nil},
           r = Kid(h, s, a), B = Kid(h, r, -a), r # s, B # s, B # r
    PROVE  SinglyRotated(h, SingleRotation(h, s, a), N, a, s, r, B)
<1> DEFINE g1 == Hang(h, s, a, B)
           g == Hang(g1, r, -a, s)
<1>0. -a \in Sides
  BY DEF Sides
<1>1. /\ g1 \in Heaps(N) /\ g1.key = h.key /\ g1.balance = h.balance /\ g1.rank = h.rank
      /\ \A x \in N : g1.parent[x] = IF x = B THEN s ELSE h.parent[x]
      /\ \A x \in N, e \in Sides : Kid(g1, x, e) = IF x = s /\ e = a THEN B ELSE Kid(h, x, e)
  <2>1. Hung(h, g1, N, s, a, B)
    BY HangWrites
  <2> QED
    BY <2>1 DEF Hung
<1>2. /\ g \in Heaps(N) /\ g.key = g1.key /\ g.balance = g1.balance /\ g.rank = g1.rank
      /\ \A x \in N : g.parent[x] = IF x = s THEN r ELSE g1.parent[x]
      /\ \A x \in N, e \in Sides : Kid(g, x, e) = IF x = r /\ e = -a THEN s ELSE Kid(g1, x, e)
  <2> HIDE DEF g1
  <2>1. Hung(g1, g, N, r, -a, s)
    BY <1>0, <1>1, HangWrites
  <2> QED
    BY <2>1 DEF Hung
<1> HIDE DEF g1
<1>3. SingleRotation(h, s, a) = IF a = -1 THEN [g EXCEPT !.rank[s] = @ - g.rank[r]]
                                ELSE [g EXCEPT !.rank[r] = @ + g.rank[s]]
  BY DEF SingleRotation, g1
<1> HIDE DEF g
<1> DEFINE f == IF a = -1 THEN [h.rank EXCEPT ![s] = h.rank[s] - h.rank[r]]
                ELSE [h.rank EXCEPT ![r] = h.rank[r] + h.rank[s]]
<1>4. f \in [N -> Int] /\ SingleRotation(h, s, a) = [g EXCEPT !.rank = f]
  <2>0. /\ g.rank = h.rank /\ h.rank \in [N -> Int]
        /\ h.rank[s] - h.rank[r] \in Int /\ h.rank[r] + h.rank[s] \in Int
    BY <1>1, <1>2 DEF Heaps
  <2>1. CASE a = -1
    <3>1. SingleRotation(h, s, a) = [g EXCEPT !.rank[s] = h.rank[s] - h.rank[r]]
      BY <1>3, <2>0, <2>1
    <3> QED
      BY <1>2, <2>0, <2>1, <3>1, OneRank
  <2>2. CASE a = 1
    <3>1. SingleRotation(h, s, a) = [g EXCEPT !.rank[r] = h.rank[r] + h.rank[s]]
      BY <1>3, <2>0, <2>2
    <3> QED
      BY <1>2, <2>0, <2>2, <3>1, OneRank
  <2> QED
    BY <2>1, <2>2 DEF Sides
<1>5. /\ a = -1 => \A x \in N : f[x] = IF x = s THEN h.rank[s] - h.rank[r] ELSE h.rank[x]
      /\ a = 1 => \A x \in N : f[x] = IF x = r THEN h.rank[r] + h.rank[s] ELSE h.rank[x]
  BY DEF Heaps
<1> HIDE DEF f
<1>6. RankWritten(g, [g EXCEPT !.rank = f], N, f)
  BY <1>2, <1>4, RankWrites
<1>7. RankWritten(g, SingleRotation(h, s, a), N, f)
  BY <1>4, <1>6
<1> QED
  BY <1>1, <1>2, <1>5, <1>7 DEF SinglyRotated, RankWritten

\* The ranks that a double rotation writes once the links are g's.
DoubleRanks(g, a, s, r, p) ==
    IF a = -1 THEN [g EXCEPT !.rank[p] = g.rank[p] + g.rank[r],
                             !.rank[s] = @ - (g.rank[p] + g.rank[r])]
    ELSE [g EXCEPT !.rank[r] = @ - g.rank[p], !.rank[p] = @ + g.rank[s]]

LEMMA DoubleSteps ==
    ASSUME NEW h, NEW a, NEW s, NEW r, NEW p, NEW g1, NEW g2, NEW g,
           r = Kid(h, s, a), p = Kid(h, r, -a),
           g1 = Hang(Hang(h, r, -a, Kid(h, p, a)), p, a, r),
           g2 = Hang(g1, s, a, Kid(g1, p, -a)), g = Hang(g2, p, -a, s)
    PROVE  DoubleRotation(h, s, a) = DoubleRanks(g, a, s, r, p)
BY DEF DoubleRotation, DoubleRanks

\* The same for a double rotation: p comes up over r and s, its subtrees B and C
\* go to them.
DoublyRotated(h, g, N, a, s, r, p, B, C) ==
    /\ g \in Heaps(N) /\ g.key = h.key /\ g.balance = h.balance
    /\ \A x \in N : g.parent[x] = IF x \in {r, s} THEN p ELSE IF x = B THEN r
                                  ELSE IF x = C THEN s ELSE h.parent[x]
    /\ \A x \in N, e \in Sides : Kid(g, x, e) = IF x = r /\ e = -a THEN B
                                               ELSE IF x = s /\ e = a THEN C
                                               ELSE IF x = p THEN IF e = a THEN r ELSE s
                                               ELSE Kid(h, x, e)
    /\ a = -1 => \A x \in N : g.rank[x] =
          IF x = p THEN h.rank[p] + h.rank[r]
          ELSE IF x = s THEN h.rank[s] - (h.rank[p] + h.rank[r]) ELSE h.rank[x]
    /\ a = 1 => \A x \in N : g.rank[x] =
          IF x = p THEN h.rank[p] + h.rank[s]
          ELSE IF x = r THEN h.rank[r] - h.rank[p] ELSE h.rank[x]

LEMMA DoubleWrites ==
    ASSUME NEW N, Nil \notin N, NEW h \in Heaps(N), NEW a \in Sides,
           NEW s \in N, NEW r \in N, NEW p \in N, NEW B \in N \cup {Nil}, NEW C \in N \cup {Nil},
           r = Kid(h, s, a), p = Kid(h, r, -a), B = Kid(h, p, a), C = Kid(h, p, -a),
           r # s, p # s, p # r, B \notin {s, r, p}, C \notin {s, r, p}, B = C => C = Nil
    PROVE  DoublyRotated(h, DoubleRotation(h, s, a), N, a, s, r, p, B, C)
<1> DEFINE g0 == Hang(h, r, -a, B)
           g1 == Hang(g0, p, a, r)
           g2 == Hang(g1, s, a, C)
           g == Hang(g2, p, -a, s)
<1>0. -a \in Sides /\ -a # a /\ \A e \in Sides : e # a => e = -a
  BY DEF Sides
<1>1. /\ g0 \in Heaps(N) /\ g0.key = h.key /\ g0.balance = h.balance /\ g0.rank = h.rank
      /\ \A x \in N : g0.parent[x] = IF x = B THEN r ELSE h.parent[x]
      /\ \A x \in N, e \in Sides : Kid(g0, x, e) = IF x = r /\ e = -a THEN B ELSE Kid(h, x, e)
  <2>1. Hung(h, g0, N, r, -a, B)
    BY <1>0, HangWrites
  <2> QED
    BY <2>1 DEF Hung
<1>2. /\ g1 \in Heaps(N) /\ g1.key = g0.key /\ g1.balance = g0.balance /\ g1.rank = g0.rank
      /\ \A x \in N : g1.parent[x] = IF x = r THEN p ELSE g0.parent[x]
      /\ \A x \in N, e \in Sides : Kid(g1, x, e) = IF x = p /\ e = a THEN r ELSE Kid(g0, x, e)
  <2> HIDE DEF g0
  <2>1. Hung(g0, g1, N, p, a, r)
    BY <1>1, HangWrites
  <2> QED
    BY <2>1 DEF Hung
<1>3. /\ g2 \in Heaps(N) /\ g2.key = g1.key /\ g2.balance = g1.balance /\ g2.rank = g1.rank
      /\ \A x \in N : g2.parent[x] = IF x = C THEN s ELSE g1.parent[x]
      /\ \A x \in N, e \in Sides : Kid(g2, x, e) = IF x = s /\ e = a THEN C ELSE Kid(g1, x, e)
  <2> HIDE DEF g1
  <2>1. Hung(g1, g2, N, s, a, C)
    BY <1>2, HangWrites
  <2> QED
    BY <2>1 DEF Hung
<1>4. /\ g \in Heaps(N) /\ g.key = g2.key /\ g.balance = g2.balance /\ g.rank = g2.rank
      /\ \A x \in N : g.parent[x] = IF x = s THEN p ELSE g2.parent[x]
      /\ \A x \in N, e \in Sides : Kid(g, x, e) = IF x = p /\ e = -a THEN s ELSE Kid(g2, x, e)
  <2> HIDE DEF g2
  <2>1. Hung(g2, g, N, p, -a, s)
    BY <1>0, <1>3, HangWrites
  <2> QED
    BY <2>1 DEF Hung
<1> HIDE DEF g0
<1>5. Kid(g1, p, -a) = C
  <2> HIDE DEF g1
  <2> QED
    BY <1>0, <1>1, <1>2
<1>6. DoubleRotation(h, s, a) = DoubleRanks(g, a, s, r, p)
  <2>1. g1 = Hang(Hang(h, r, -a, Kid(h, p, a)), p, a, r)
    BY DEF g0
  <2> HIDE DEF g1
  <2>2. g2 = Hang(g1, s, a, Kid(g1, p, -a))
    BY <1>5
  <2> HIDE DEF g2
  <2> QED
    BY <2>1, <2>2, DoubleSteps
<1> HIDE DEF g, g1, g2
<1> DEFINE f == IF a = -1
                THEN [h.rank EXCEPT ![p] = h.rank[p] + h.rank[r],
                                    ![s] = h.rank[s] - (h.rank[p] + h.rank[r])]
                ELSE [h.rank EXCEPT ![r] = h.rank[r] - h.rank[p],
                                    ![p] = h.rank[p] + h.rank[s]]
<1>7. g.rank = h.rank /\ h.rank \in [N -> Int] /\ g.rank \in [N -> Int]
  BY <1>1, <1>2, <1>3, <1>4 DEF Heaps
<1>8. f \in [N -> Int] /\ DoubleRotation(h, s, a) = [g EXCEPT !.rank = f]
  <2>1. CASE a = -1
    <3>1. DoubleRotation(h, s, a) = [g EXCEPT !.rank[p] = h.rank[p] + h.rank[r],
                                              !.rank[s] = h.rank[s] - (h.rank[p] + h.rank[r])]
      BY <1>6, <1>7, <2>1 DEF DoubleRanks
    <3>2. h.rank[p] + h.rank[r] \in Int /\ h.rank[s] - (h.rank[p] + h.rank[r]) \in Int
      BY <1>7
    <3>3. [g.rank EXCEPT ![p] = h.rank[p] + h.rank[r],
                                        ![s] = h.rank[s] - (h.rank[p] + h.rank[r])] = f
      BY <1>7, <2>1
    <3>4. /\ [g.rank EXCEPT ![p] = h.rank[p] + h.rank[r],
                                        ![s] = h.rank[s] - (h.rank[p] + h.rank[r])] \in [N -> Int]
          /\ [g EXCEPT !.rank[p] = h.rank[p] + h.rank[r],
                                          !.rank[s] = h.rank[s] - (h.rank[p] + h.rank[r])]
             = [g EXCEPT !.rank = [g.rank EXCEPT ![p] = h.rank[p] + h.rank[r],
                                        ![s] = h.rank[s] - (h.rank[p] + h.rank[r])]]
      BY <1>4, <3>2 DEF Heaps
    <3> QED
      BY <3>1, <3>3, <3>4
  <2>2. CASE a = 1
    <3>1. DoubleRotation(h, s, a) = [g EXCEPT !.rank[r] = h.rank[r] - h.rank[p],
                                              !.rank[p] = h.rank[p] + h.rank[s]]
      BY <1>6, <1>7, <2>2 DEF DoubleRanks
    <3>2. h.rank[r] - h.rank[p] \in Int /\ h.rank[p] + h.rank[s] \in Int
      BY <1>7
    <3>3. [g.rank EXCEPT ![r] = h.rank[r] - h.rank[p],
                                        ![p] = h.rank[p] + h.rank[s]] = f
      BY <1>7, <2>2
    <3>4. /\ [g.rank EXCEPT ![r] = h.rank[r] - h.rank[p],
                                        ![p] = h.rank[p] + h.rank[s]] \in [N -> Int]
          /\ [g EXCEPT !.rank[r] = h.rank[r] - h.rank[p],
                                          !.rank[p] = h.rank[p] + h.rank[s]]
             = [g EXCEPT !.rank = [g.rank EXCEPT ![r] = h.rank[r] - h.rank[p],
                                        ![p] = h.rank[p] + h.rank[s]]]
      BY <1>4, <3>2 DEF Heaps
    <3> QED
      BY <3>1, <3>3, <3>4
  <2> QED
    BY <2>1, <2>2 DEF Sides
<1>9. /\ a = -1 => \A x \in N : f[x] = IF x = p THEN h.rank[p] + h.rank[r]
                                       ELSE IF x = s THEN h.rank[s] - (h.rank[p] + h.rank[r])
                                       ELSE h.rank[x]
      /\ a = 1 => \A x \in N : f[x] = IF x = p THEN h.rank[p] + h.rank[s]
                                      ELSE IF x = r THEN h.rank[r] - h.rank[p] ELSE h.rank[x]
  BY <1>7
<1> HIDE DEF f
<1>10. \A x \in N : g.parent[x] = IF x \in {r, s} THEN p ELSE IF x = B THEN r
                                  ELSE IF x = C THEN s ELSE h.parent[x]
  BY <1>1, <1>2, <1>3, <1>4
<1>11. \A x \in N, e \in Sides :
          Kid(g, x, e) = IF x = r /\ e = -a THEN B ELSE IF x = s /\ e = a THEN C
                         ELSE IF x = p THEN IF e = a THEN r ELSE s ELSE Kid(h, x, e)
  BY <1>0, <1>1, <1>2, <1>3, <1>4
<1>12. g \in Heaps(N) /\ g.key = h.key /\ g.balance = h.balance
  BY <1>1, <1>2, <1>3, <1>4
<1>13. RankWritten(g, [g EXCEPT !.rank = f], N, f)
  BY <1>4, <1>8, RankWrites
<1>14. RankWritten(g, DoubleRotation(h, s, a), N, f)
  BY <1>8, <1>13
<1> QED
  BY <1>9, <1>10, <1>11, <1>12, <1>14 DEF DoublyRotated, RankWritten

-----------------------------------------------------------------------------
(* A node seen from side a                                                 *)

\* The sequence with x on side a of n, and y on the other.
Flank(a, x, n, y) == IF a = -1 THEN x \o <<n>> \o y ELSE y \o <<n>> \o x

\* Of what is on side a and what is on the other, the one to the left.
Leftward(a, x, y) == IF a = -1 THEN x ELSE y

\* What Subtree says of n.
SideOK(h, S, I, H, a, n) ==
    /\ Kid(h, n, a) \in S \cup {Nil} /\ Kid(h, n, -a) \in S \cup {Nil}
    /\ Kid(h, n, a) # Nil => h.parent[Kid(h, n, a)] = n
    /\ Kid(h, n, -a) # Nil => h.parent[Kid(h, n, -a)] = n
    /\ Kid(h, n, a) = Kid(h, n, -a) => Kid(h, n, a) = Nil
    /\ I[n] = Flank(a, I[Kid(h, n, a)], n, I[Kid(h, n, -a)])
    /\ H[n] = 1 + Larger(H[Kid(h, n, a)], H[Kid(h, n, -a)])
    /\ h.rank[n] = Len(Leftward(a, I[Kid(h, n, a)], I[Kid(h, n, -a)])) + 1

Counts(S, I, H) ==
    /\ I \in [S \cup {Nil} -> Seq(S)] /\ I[Nil] = << >>
    /\ H \in [S \cup {Nil} -> Nat] /\ H[Nil] = 0

LEMMA FromSide ==
    ASSUME NEW h, NEW S, NEW I, NEW H, NEW a \in Sides
    PROVE  Subtree(h, S, I, H) <=> Counts(S, I, H) /\ \A n \in S : SideOK(h, S, I, H, a, n)
<1>0. ASSUME NEW i \in Nat, NEW j \in Nat
      PROVE  Larger(i, j) = Larger(j, i)
  BY DEF Larger
<1>1. ASSUME Counts(S, I, H), NEW n \in S, a = -1
      PROVE  SideOK(h, S, I, H, a, n) <=>
                /\ \A d \in Sides : /\ Kid(h, n, d) \in S \cup {Nil}
                                    /\ Kid(h, n, d) # Nil => h.parent[Kid(h, n, d)] = n
                /\ Kid(h, n, -1) = Kid(h, n, 1) => Kid(h, n, 1) = Nil
                /\ I[n] = I[Kid(h, n, -1)] \o <<n>> \o I[Kid(h, n, 1)]
                /\ H[n] = 1 + Larger(H[Kid(h, n, -1)], H[Kid(h, n, 1)])
                /\ h.rank[n] = Len(I[Kid(h, n, -1)]) + 1
  <2>1. -a = 1
    BY <1>1, OtherSide, Zenon
  <2> QED
    BY <1>1, <2>1 DEF SideOK, Sides, Flank, Leftward
<1>2. ASSUME Counts(S, I, H), NEW n \in S, a = 1
      PROVE  SideOK(h, S, I, H, a, n) <=>
                /\ \A d \in Sides : /\ Kid(h, n, d) \in S \cup {Nil}
                                    /\ Kid(h, n, d) # Nil => h.parent[Kid(h, n, d)] = n
                /\ Kid(h, n, -1) = Kid(h, n, 1) => Kid(h, n, 1) = Nil
                /\ I[n] = I[Kid(h, n, -1)] \o <<n>> \o I[Kid(h, n, 1)]
                /\ H[n] = 1 + Larger(H[Kid(h, n, -1)], H[Kid(h, n, 1)])
                /\ h.rank[n] = Len(I[Kid(h, n, -1)]) + 1
  <2>1. -a = -1
    BY <1>2
  <2>2. CASE Kid(h, n, -1) \in S \cup {Nil} /\ Kid(h, n, 1) \in S \cup {Nil}
    <3>1. Larger(H[Kid(h, n, -1)], H[Kid(h, n, 1)]) = Larger(H[Kid(h, n, 1)], H[Kid(h, n, -1)])
      BY <1>0, <1>2, <2>2 DEF Counts
    <3> QED
      BY <1>2, <2>1, <3>1 DEF SideOK, Sides, Flank, Leftward
  <2>3. CASE ~(Kid(h, n, -1) \in S \cup {Nil} /\ Kid(h, n, 1) \in S \cup {Nil})
    BY <1>2, <2>1, <2>3 DEF SideOK, Sides
  <2> QED
    BY <2>2, <2>3
<1>3. a = -1 \/ a = 1
  BY DEF Sides
<1> QED
  BY <1>1, <1>2, <1>3 DEF Subtree, Linked, Ordered, Tall, Ranked, Counts

\* A flank of nodes of S is a sequence of nodes of S; its length.
FlankOf(S, a, x, n, y) ==
    /\ Flank(a, x, n, y) \in Seq(S)
    /\ Len(Flank(a, x, n, y)) = Len(x) + Len(y) + 1
    /\ Len(Flank(a, x, n, y)) = Len(y) + Len(x) + 1
    /\ Len(Flank(a, x, n, y)) \in Nat /\ Len(x) \in Nat /\ Len(y) \in Nat

LEMMA FlankIs ==
    ASSUME NEW S, NEW a \in Sides, NEW x \in Seq(S), NEW n \in S, NEW y \in Seq(S)
    PROVE  FlankOf(S, a, x, n, y)
<1>1. <<n>> \in Seq(S) /\ Len(<<n>>) = 1 /\ Len(x) \in Nat /\ Len(y) \in Nat
  OBVIOUS
<1>2. /\ x \o <<n>> \in Seq(S) /\ Len(x \o <<n>>) = Len(x) + 1
      /\ y \o <<n>> \in Seq(S) /\ Len(y \o <<n>>) = Len(y) + 1
  BY <1>1, ConcatProperties
<1>3. /\ (x \o <<n>>) \o y \in Seq(S) /\ Len((x \o <<n>>) \o y) = Len(x) + 1 + Len(y)
      /\ (y \o <<n>>) \o x \in Seq(S) /\ Len((y \o <<n>>) \o x) = Len(y) + 1 + Len(x)
  BY <1>2, ConcatProperties
<1> QED
  BY <1>1, <1>3 DEF Flank, FlankOf

\* The ranks of three neighbours.
LEMMA CountDown ==
    ASSUME NEW x, NEW y, NEW z, Len(x) = Len(y) + Len(z) + 1,
           Len(x) \in Nat, Len(y) \in Nat, Len(z) \in Nat
    PROVE  (Len(x) + 1) - (Len(y) + 1) = Len(z) + 1
OBVIOUS

LEMMA CountUp ==
    ASSUME NEW x, NEW y, NEW z, Len(x) = Len(y) + Len(z) + 1,
           Len(x) \in Nat, Len(y) \in Nat, Len(z) \in Nat
    PROVE  (Len(y) + 1) + (Len(z) + 1) = Len(x) + 1
OBVIOUS

\* A rotation does not change the order.
LEMMA FlankTurns ==
    ASSUME NEW S, NEW a \in Sides, NEW x \in Seq(S), NEW m \in S, NEW y \in Seq(S), NEW n \in S,
           NEW z \in Seq(S)
    PROVE  Flank(a, Flank(a, x, m, y), n, z) = Flank(a, x, m, Flank(a, y, n, z))
<1>1. CASE a = -1
  <2>1. <<m>> \in Seq(S) /\ <<n>> \in Seq(S) /\ x \o <<m>> \in Seq(S)
        /\ <<n>> \o z \in Seq(S) /\ y \o <<n>> \in Seq(S)
    BY ConcatProperties
  <2>2. (x \o <<m>> \o y) \o <<n>> = x \o <<m>> \o (y \o <<n>>)
    BY <2>1, ConcatAssociative
  <2>3. (x \o <<m>> \o (y \o <<n>>)) \o z = x \o <<m>> \o ((y \o <<n>>) \o z)
    BY <2>1, ConcatAssociative
  <2>4. (x \o <<m>> \o y) \o <<n>> \o z = x \o <<m>> \o (y \o <<n>> \o z)
    BY <2>2, <2>3
  <2> QED
    BY <1>1, <2>4 DEF Flank
<1>2. CASE a = 1
  <2>1. <<n>> \in Seq(S) /\ <<m>> \in Seq(S) /\ z \o <<n>> \in Seq(S)
        /\ <<m>> \o x \in Seq(S) /\ y \o <<m>> \in Seq(S)
    BY ConcatProperties
  <2>2. (z \o <<n>> \o y) \o <<m>> = z \o <<n>> \o (y \o <<m>>)
    BY <2>1, ConcatAssociative
  <2>3. (z \o <<n>> \o (y \o <<m>>)) \o x = z \o <<n>> \o ((y \o <<m>>) \o x)
    BY <2>1, ConcatAssociative, SMTT(30)
  <2>4. (z \o <<n>> \o y) \o <<m>> \o x = z \o <<n>> \o (y \o <<m>> \o x)
    BY <2>2, <2>3
  <2> QED
    BY <1>2, <2>4 DEF Flank
<1> QED
  BY <1>1, <1>2 DEF Sides

-----------------------------------------------------------------------------
(* A single rotation in its place                                          *)

\* g is h with r over s: the links, the parents and the ranks.
Turned(h, g, N, a, t, s, r, B) ==
    /\ g \in Heaps(N) /\ g.key = h.key
    /\ \A x \in N : g.parent[x] = IF x = r THEN t ELSE IF x = s THEN r ELSE IF x = B THEN s
                                  ELSE h.parent[x]
    /\ \A x \in N, e \in Sides : Kid(g, x, e) = IF x = s /\ e = a THEN B
                                               ELSE IF x = r /\ e = -a THEN s
                                               ELSE IF x = t /\ Kid(h, t, e) = s THEN r
                                               ELSE Kid(h, x, e)
    /\ a = -1 => \A x \in N : g.rank[x] = IF x = s THEN h.rank[s] - h.rank[r] ELSE h.rank[x]
    /\ a = 1 => \A x \in N : g.rank[x] = IF x = r THEN h.rank[r] + h.rank[s] ELSE h.rank[x]

\* What hangs where: s with kid r on side a, the subtrees A and B of r and C of s.
Bent(h, N, S, a, t, s, r, A, B, C) ==
    /\ Nil \notin N /\ S \subseteq N /\ h \in Heaps(N) /\ a \in Sides
    /\ t \in N \ S /\ s \in S /\ r \in S /\ HangsFrom(h, S, t, s)
    /\ r = Kid(h, s, a) /\ C = Kid(h, s, -a) /\ A = Kid(h, r, a) /\ B = Kid(h, r, -a)

\* What follows of the parents: the five are different nodes.
LEMMA BentApart ==
    ASSUME NEW N, NEW S, NEW h, NEW I, NEW H, NEW a, NEW t, NEW s, NEW r, NEW A, NEW B, NEW C,
           Subtree(h, S, I, H), Bent(h, N, S, a, t, s, r, A, B, C)
    PROVE  /\ r # s /\ t \notin {s, r, A, B, C} /\ A \in S \cup {Nil} /\ B \in S \cup {Nil} /\ C \in S \cup {Nil}
           /\ A \notin {s, r} /\ B \notin {s, r} /\ C \notin {s, r}
           /\ A = B => A = Nil
           /\ A = C => A = Nil
           /\ B = C => B = Nil
           /\ h.parent[s] = t /\ h.parent[r] = s
           /\ A # Nil => h.parent[A] = r
           /\ B # Nil => h.parent[B] = r
           /\ C # Nil => h.parent[C] = s
<1>1. a \in Sides /\ -a \in Sides /\ s \in S /\ r \in S /\ Nil \notin S /\ t \notin S /\ t # Nil
  BY DEF Bent, Sides
<1>2. SideOK(h, S, I, H, a, s) /\ SideOK(h, S, I, H, a, r)
  BY <1>1, FromSide
<1>3. /\ h.parent[s] = t /\ h.parent[r] = s /\ A \in S \cup {Nil} /\ B \in S \cup {Nil}
      /\ C \in S \cup {Nil}
      /\ A # Nil => h.parent[A] = r
      /\ B # Nil => h.parent[B] = r
      /\ C # Nil => h.parent[C] = s
      /\ A = B => A = Nil
      /\ r = C => r = Nil
  BY <1>1, <1>2 DEF SideOK, Bent, HangsFrom
<1> QED
  BY <1>1, <1>3

\* SingleRotation and Replace make that turn.
LEMMA TurnIs ==
    ASSUME NEW N, NEW S, NEW h, NEW I, NEW H, NEW a, NEW t, NEW s, NEW r, NEW A, NEW B, NEW C,
           Subtree(h, S, I, H), Bent(h, N, S, a, t, s, r, A, B, C), NEW f \in [N -> Int],
           NEW k, k = [SingleRotation(h, s, a) EXCEPT !.balance = f],
           NEW g, g = Replace(k, t, s, r)
    PROVE  Turned(h, g, N, a, t, s, r, B) /\ g.balance = f
<1>1. /\ Nil \notin N /\ h \in Heaps(N) /\ a \in Sides /\ s \in N /\ r \in N /\ t \in N
      /\ r = Kid(h, s, a) /\ B = Kid(h, r, -a) /\ (Kid(h, t, 1) = s <=> Kid(h, t, -1) # s)
  <2>1. PICK e \in Sides : Kid(h, t, e) = s /\ Kid(h, t, -e) # s
    BY DEF Bent, HangsFrom
  <2>2. Kid(h, t, 1) = s <=> Kid(h, t, -1) # s
    <3>1. e = 1 \/ (e = -1 /\ -e = 1)
      BY DEF Sides
    <3> QED
      BY <2>1, <3>1
  <2> QED
    BY <2>2 DEF Bent
<1>2. r # s /\ B \notin {s, r} /\ t \notin {s, r} /\ B \in N \cup {Nil} /\ t # B
  <2>1. S \subseteq N
    BY DEF Bent
  <2> QED
    BY <2>1, BentApart
<1> DEFINE k0 == SingleRotation(h, s, a)
<1>3. SinglyRotated(h, k0, N, a, s, r, B)
  BY <1>1, <1>2, SingleWrites
<1> HIDE DEF k0
<1>4. k0 \in Heaps(N)
  BY <1>3 DEF SinglyRotated
<1>5. BalanceWritten(k0, k, N, f)
  <2>1. BalanceWritten(k0, [k0 EXCEPT !.balance = f], N, f)
    BY <1>4, BalanceWrites
  <2> QED
    BY <2>1 DEF k0
<1>6. k \in Heaps(N) /\ \A e \in Sides : Kid(k, t, e) = Kid(h, t, e)
  BY <1>1, <1>2, <1>3, <1>5 DEF SinglyRotated, BalanceWritten
<1>7. Kid(k, t, 1) = s <=> Kid(k, t, -1) # s
  BY <1>1, <1>6 DEF Sides
<1>8. Replaced(k, g, N, t, s, r)
  BY <1>1, <1>6, <1>7, ReplaceWrites
<1>9. /\ \A x \in N : g.parent[x] = IF x = r THEN t ELSE k.parent[x]
      /\ \A x \in N : k.parent[x] = IF x = s THEN r ELSE IF x = B THEN s ELSE h.parent[x]
      /\ \A x \in N, e \in Sides :
            Kid(g, x, e) = IF x = t /\ Kid(h, t, e) = s THEN r ELSE Kid(k, x, e)
      /\ \A x \in N, e \in Sides : Kid(k, x, e) = IF x = s /\ e = a THEN B
                                                 ELSE IF x = r /\ e = -a THEN s
                                                 ELSE Kid(h, x, e)
      /\ g \in Heaps(N) /\ g.key = h.key /\ g.balance = f /\ g.rank = k0.rank
  BY <1>3, <1>5, <1>6, <1>8 DEF SinglyRotated, BalanceWritten, Replaced
<1>10. /\ a = -1 => \A x \in N : g.rank[x] = IF x = s THEN h.rank[s] - h.rank[r] ELSE h.rank[x]
       /\ a = 1 => \A x \in N : g.rank[x] = IF x = r THEN h.rank[r] + h.rank[s] ELSE h.rank[x]
  BY <1>3, <1>9 DEF SinglyRotated
<1>11. \A x \in N : g.parent[x] = IF x = r THEN t ELSE IF x = s THEN r ELSE IF x = B THEN s
                                  ELSE h.parent[x]
  BY <1>9
<1>12. \A x \in N, e \in Sides : Kid(g, x, e) = IF x = s /\ e = a THEN B
                                               ELSE IF x = r /\ e = -a THEN s
                                               ELSE IF x = t /\ Kid(h, t, e) = s THEN r
                                               ELSE Kid(h, x, e)
  BY <1>2, <1>9
<1> QED
  BY <1>9, <1>10, <1>11, <1>12 DEF Turned

\* The heights after the turn.
TurnedHeights(H, H2, S, s, r, A, B, C) ==
    /\ \A n \in (S \cup {Nil}) \ {s, r} : H2[n] = H[n]
    /\ H2[s] = 1 + Larger(H[B], H[C])
    /\ H2[r] = 1 + Larger(H[A], H2[s])

\* The turn keeps the order and makes a subtree again, with r on top.
LEMMA TurnKeeps ==
    ASSUME NEW N, NEW S, NEW h, NEW I, NEW H, NEW a, NEW t, NEW s, NEW r, NEW A, NEW B, NEW C,
           Subtree(h, S, I, H), Bent(h, N, S, a, t, s, r, A, B, C),
           NEW g, Turned(h, g, N, a, t, s, r, B)
    PROVE  \E I2, H2 : /\ Subtree(g, S, I2, H2) /\ I2[r] = I[s]
                       /\ \A n \in (S \cup {Nil}) \ {s, r} : I2[n] = I[n]
                       /\ TurnedHeights(H, H2, S, s, r, A, B, C)
<1> DEFINE Is == Flank(a, I[B], s, I[C])
           I2 == [n \in S \cup {Nil} |-> IF n = s THEN Is ELSE IF n = r THEN I[s] ELSE I[n]]
           hs == 1 + Larger(H[B], H[C])
           hr == 1 + Larger(H[A], hs)
           H2 == [n \in S \cup {Nil} |-> IF n = s THEN hs ELSE IF n = r THEN hr ELSE H[n]]
<1>1. /\ a \in Sides /\ -a \in Sides /\ a # -a /\ s \in S /\ r \in S /\ Nil \notin S
      /\ t \notin S /\ S \subseteq N
      /\ r = Kid(h, s, a) /\ C = Kid(h, s, -a) /\ A = Kid(h, r, a) /\ B = Kid(h, r, -a)
  BY DEF Bent, Sides
<1>2. /\ r # s /\ A \in S \cup {Nil} /\ B \in S \cup {Nil} /\ C \in S \cup {Nil}
      /\ A \notin {s, r} /\ B \notin {s, r} /\ C \notin {s, r}
      /\ A = B => A = Nil
      /\ A = C => A = Nil
      /\ B = C => B = Nil
      /\ h.parent[s] = t /\ h.parent[r] = s
      /\ A # Nil => h.parent[A] = r
      /\ B # Nil => h.parent[B] = r
      /\ C # Nil => h.parent[C] = s
  BY BentApart
<1>3. Counts(S, I, H) /\ \A n \in S : SideOK(h, S, I, H, a, n)
  BY <1>1, FromSide
<1>4. /\ I[s] = Flank(a, I[r], s, I[C]) /\ I[r] = Flank(a, I[A], r, I[B])
      /\ h.rank[s] = Len(Leftward(a, I[r], I[C])) + 1
      /\ h.rank[r] = Len(Leftward(a, I[A], I[B])) + 1
  BY <1>1, <1>3 DEF SideOK
<1>5. I[A] \in Seq(S) /\ I[B] \in Seq(S) /\ I[C] \in Seq(S) /\ I[s] \in Seq(S) /\ I[r] \in Seq(S)
  BY <1>1, <1>2, <1>3 DEF Counts
<1>6. /\ Is \in Seq(S) /\ Len(Is) = Len(I[B]) + Len(I[C]) + 1
      /\ Len(Is) \in Nat /\ Len(I[B]) \in Nat /\ Len(I[C]) \in Nat
  <2>1. FlankOf(S, a, I[B], s, I[C])
    BY <1>1, <1>5, FlankIs
  <2> QED
    BY <2>1, Zenon DEF FlankOf
<1>7. /\ Len(I[r]) = Len(I[A]) + Len(I[B]) + 1
      /\ Len(I[r]) \in Nat /\ Len(I[A]) \in Nat /\ Len(I[B]) \in Nat
  <2>1. FlankOf(S, a, I[A], r, I[B])
    BY <1>1, <1>5, FlankIs
  <2> QED
    BY <1>4, <2>1, Zenon DEF FlankOf
<1>8. I[s] = Flank(a, I[A], r, Is)
  BY <1>1, <1>4, <1>5, FlankTurns
<1>9. hs \in Nat /\ hr \in Nat
  BY <1>2, <1>3 DEF Counts, Larger
<1> HIDE DEF Is, hs, hr
<1>10. Counts(S, I2, H2)
  BY <1>1, <1>3, <1>5, <1>6, <1>9 DEF Counts
<1>11. /\ I2[s] = Is /\ I2[r] = I[s] /\ I2[A] = I[A] /\ I2[B] = I[B] /\ I2[C] = I[C]
       /\ H2[s] = hs /\ H2[r] = hr /\ H2[A] = H[A] /\ H2[B] = H[B] /\ H2[C] = H[C]
       /\ \A n \in (S \cup {Nil}) \ {s, r} : I2[n] = I[n] /\ H2[n] = H[n]
  BY <1>1, <1>2
<1> HIDE DEF I2, H2
<1>12. /\ \A x \in N : g.parent[x] = IF x = r THEN t ELSE IF x = s THEN r ELSE IF x = B THEN s
                                     ELSE h.parent[x]
       /\ \A x \in N, e \in Sides : Kid(g, x, e) = IF x = s /\ e = a THEN B
                                                  ELSE IF x = r /\ e = -a THEN s
                                                  ELSE IF x = t /\ Kid(h, t, e) = s THEN r
                                                  ELSE Kid(h, x, e)
  BY DEF Turned
<1>13. SideOK(g, S, I2, H2, a, s)
  <2>1. Kid(g, s, a) = B /\ Kid(g, s, -a) = C
    BY <1>1, <1>2, <1>12
  <2>2. (B # Nil => g.parent[B] = s) /\ (C # Nil => g.parent[C] = s)
    BY <1>1, <1>2, <1>12
  <2>3. g.rank[s] = Len(Leftward(a, I[B], I[C])) + 1
    <3>1. CASE a = -1
      <4>1. g.rank[s] = h.rank[s] - h.rank[r]
        BY <1>1, <3>1 DEF Turned
      <4>2. h.rank[s] = Len(I[r]) + 1 /\ h.rank[r] = Len(I[A]) + 1
        BY <1>4, <3>1 DEF Leftward
      <4>4. Leftward(a, I[B], I[C]) = I[B]
        BY <3>1 DEF Leftward
      <4>5. g.rank[s] = Len(I[B]) + 1
        <5>1. (Len(I[r]) + 1) - (Len(I[A]) + 1) = Len(I[B]) + 1
          BY <1>7, CountDown
        <5> QED
          BY <4>1, <4>2, <5>1, Zenon
      <4> QED
        BY <4>4, <4>5, Zenon
    <3>2. CASE a = 1
      <4>1. Leftward(a, I[r], I[C]) = I[C] /\ Leftward(a, I[B], I[C]) = I[C]
        BY <3>2 DEF Leftward
      <4>2. g.rank[s] = h.rank[s]
        BY <1>1, <1>2, <3>2 DEF Turned
      <4> QED
        BY <1>4, <4>1, <4>2, Zenon
    <3> QED
      BY <1>1, <3>1, <3>2 DEF Sides
  <2> QED
    BY <1>2, <1>11, <2>1, <2>2, <2>3 DEF SideOK, Is, hs
<1>14. SideOK(g, S, I2, H2, a, r)
  <2>1. Kid(g, r, a) = A /\ Kid(g, r, -a) = s
    BY <1>1, <1>2, <1>12
  <2>2. (A # Nil => g.parent[A] = r) /\ g.parent[s] = r
    BY <1>1, <1>2, <1>12
  <2>3. g.rank[r] = Len(Leftward(a, I[A], Is)) + 1
    <3>1. CASE a = -1
      BY <1>1, <1>2, <1>4, <3>1 DEF Turned, Leftward
    <3>2. CASE a = 1
      <4>1. g.rank[r] = h.rank[r] + h.rank[s]
        BY <1>1, <3>2 DEF Turned
      <4>2. h.rank[s] = Len(I[C]) + 1 /\ h.rank[r] = Len(I[B]) + 1
        BY <1>4, <3>2 DEF Leftward
      <4>4. Leftward(a, I[A], Is) = Is
        BY <3>2 DEF Leftward
      <4>5. g.rank[r] = Len(Is) + 1
        <5>1. (Len(I[B]) + 1) + (Len(I[C]) + 1) = Len(Is) + 1
          BY <1>6, CountUp
        <5> QED
          BY <4>1, <4>2, <5>1, Zenon
      <4> QED
        BY <4>4, <4>5, Zenon
    <3> QED
      BY <1>1, <3>1, <3>2 DEF Sides
  <2> QED
    BY <1>1, <1>2, <1>8, <1>11, <2>1, <2>2, <2>3 DEF SideOK, hr
<1>15. ASSUME NEW n \in S, n # s, n # r
       PROVE  SideOK(g, S, I2, H2, a, n)
  <2>1. SideOK(h, S, I, H, a, n)
    BY <1>3
  <2>2. Kid(g, n, a) = Kid(h, n, a) /\ Kid(g, n, -a) = Kid(h, n, -a)
    BY <1>1, <1>12, <1>15
  <2>3. ASSUME NEW m \in S \cup {Nil}, m # Nil => h.parent[m] = n
        PROVE  /\ m # Nil => g.parent[m] = n
               /\ I2[m] = I[m] /\ H2[m] = H[m]
    <3>1. m # s /\ m # r /\ (m # Nil => m # B)
      BY <1>1, <1>2, <1>15, <2>3
    <3> QED
      BY <1>1, <1>11, <1>12, <2>3, <3>1
  <2>4. /\ Kid(h, n, a) \in S \cup {Nil} /\ Kid(h, n, -a) \in S \cup {Nil}
        /\ Kid(h, n, a) # Nil => h.parent[Kid(h, n, a)] = n
        /\ Kid(h, n, -a) # Nil => h.parent[Kid(h, n, -a)] = n
    BY <2>1 DEF SideOK
  <2>5. /\ Kid(h, n, a) # Nil => g.parent[Kid(h, n, a)] = n
        /\ I2[Kid(h, n, a)] = I[Kid(h, n, a)] /\ H2[Kid(h, n, a)] = H[Kid(h, n, a)]
        /\ Kid(h, n, -a) # Nil => g.parent[Kid(h, n, -a)] = n
        /\ I2[Kid(h, n, -a)] = I[Kid(h, n, -a)] /\ H2[Kid(h, n, -a)] = H[Kid(h, n, -a)]
    BY <2>3, <2>4
  <2>6. g.rank[n] = h.rank[n] /\ I2[n] = I[n] /\ H2[n] = H[n]
    BY <1>1, <1>11, <1>15 DEF Turned, Sides
  <2> QED
    BY <2>1, <2>2, <2>5, <2>6 DEF SideOK
<1>16. Subtree(g, S, I2, H2)
  BY <1>1, <1>10, <1>13, <1>14, <1>15, FromSide
<1>17. TurnedHeights(H, H2, S, s, r, A, B, C)
  BY <1>11 DEF TurnedHeights, hs, hr
<1> QED
  BY <1>11, <1>16, <1>17

-----------------------------------------------------------------------------
(* A double rotation in its place                                          *)

\* g is h with p over r and s.
Twisted(h, g, N, a, t, s, r, p, B, C) ==
    /\ g \in Heaps(N) /\ g.key = h.key
    /\ \A x \in N : g.parent[x] = IF x = p THEN t ELSE IF x \in {r, s} THEN p
                                  ELSE IF x = B THEN r ELSE IF x = C THEN s ELSE h.parent[x]
    /\ \A x \in N, e \in Sides : Kid(g, x, e) = IF x = r /\ e = -a THEN B
                                               ELSE IF x = s /\ e = a THEN C
                                               ELSE IF x = p THEN IF e = a THEN r ELSE s
                                               ELSE IF x = t /\ Kid(h, t, e) = s THEN p
                                               ELSE Kid(h, x, e)
    /\ a = -1 => \A x \in N : g.rank[x] =
          IF x = p THEN h.rank[p] + h.rank[r]
          ELSE IF x = s THEN h.rank[s] - (h.rank[p] + h.rank[r]) ELSE h.rank[x]
    /\ a = 1 => \A x \in N : g.rank[x] =
          IF x = p THEN h.rank[p] + h.rank[s]
          ELSE IF x = r THEN h.rank[r] - h.rank[p] ELSE h.rank[x]

\* What hangs where: s with kid r on side a, r with kid p on the other, and the
\* subtrees A of r, B and C of p, and D of s.
Crooked(h, N, S, a, t, s, r, p, A, B, C, D) ==
    /\ Bent(h, N, S, a, t, s, r, A, p, D)
    /\ p \in S /\ B = Kid(h, p, a) /\ C = Kid(h, p, -a)

LEMMA CrookedApart ==
    ASSUME NEW N, NEW S, NEW h, NEW I, NEW H, NEW a, NEW t, NEW s, NEW r, NEW p,
           NEW A, NEW B, NEW C, NEW D,
           Subtree(h, S, I, H), Crooked(h, N, S, a, t, s, r, p, A, B, C, D)
    PROVE  /\ r # s /\ p # s /\ p # r /\ t \notin {s, r, p, A, B, C, D}
           /\ A \in S \cup {Nil} /\ B \in S \cup {Nil} /\ C \in S \cup {Nil} /\ D \in S \cup {Nil}
           /\ A \notin {s, r, p} /\ B \notin {s, r, p} /\ C \notin {s, r, p} /\ D \notin {s, r, p}
           /\ A = B => A = Nil
           /\ A = C => A = Nil
           /\ A = D => A = Nil
           /\ B = C => B = Nil
           /\ B = D => B = Nil
           /\ C = D => C = Nil
           /\ h.parent[s] = t /\ h.parent[r] = s /\ h.parent[p] = r
           /\ A # Nil => h.parent[A] = r
           /\ B # Nil => h.parent[B] = p
           /\ C # Nil => h.parent[C] = p
           /\ D # Nil => h.parent[D] = s
<1>1. /\ a \in Sides /\ p \in S /\ s \in S /\ r \in S /\ Nil \notin S /\ t \notin S /\ t # Nil
      /\ B = Kid(h, p, a) /\ C = Kid(h, p, -a) /\ Bent(h, N, S, a, t, s, r, A, p, D)
  BY DEF Bent, Crooked
<1>2. /\ r # s /\ p \notin {s, r} /\ A \in S \cup {Nil} /\ D \in S \cup {Nil}
      /\ h.parent[s] = t /\ h.parent[r] = s /\ h.parent[p] = r
      /\ A # Nil => h.parent[A] = r
      /\ D # Nil => h.parent[D] = s
      /\ A = p => A = Nil
      /\ D \notin {s, r} /\ A \notin {s, r}
      /\ A = D => A = Nil
  BY <1>1, BentApart
<1>3. SideOK(h, S, I, H, a, p)
  BY <1>1, FromSide
<1>4. /\ B \in S \cup {Nil} /\ C \in S \cup {Nil}
      /\ B # Nil => h.parent[B] = p
      /\ C # Nil => h.parent[C] = p
      /\ B = C => B = Nil
  BY <1>1, <1>3 DEF SideOK
<1> QED
  BY <1>1, <1>2, <1>4

\* DoubleRotation, DoubleBalance and Replace make that twist.
LEMMA TwistIs ==
    ASSUME NEW N, NEW S, NEW h, NEW I, NEW H, NEW a, NEW t, NEW s, NEW r, NEW p,
           NEW A, NEW B, NEW C, NEW D,
           Subtree(h, S, I, H), Crooked(h, N, S, a, t, s, r, p, A, B, C, D),
           NEW f \in [N -> Int],
           NEW k, k = [DoubleRotation(h, s, a) EXCEPT !.balance = f],
           NEW g, g = Replace(k, t, s, p)
    PROVE  Twisted(h, g, N, a, t, s, r, p, B, C) /\ g.balance = f
<1>1. /\ Nil \notin N /\ h \in Heaps(N) /\ a \in Sides /\ s \in N /\ r \in N /\ p \in N /\ t \in N
      /\ r = Kid(h, s, a) /\ p = Kid(h, r, -a) /\ B = Kid(h, p, a) /\ C = Kid(h, p, -a)
      /\ (Kid(h, t, 1) = s <=> Kid(h, t, -1) # s)
  <2>1. PICK e \in Sides : Kid(h, t, e) = s /\ Kid(h, t, -e) # s
    BY DEF Crooked, Bent, HangsFrom
  <2>2. Kid(h, t, 1) = s <=> Kid(h, t, -1) # s
    <3>1. e = 1 \/ (e = -1 /\ -e = 1)
      BY DEF Sides
    <3> QED
      BY <2>1, <3>1
  <2> QED
    BY <2>2 DEF Crooked, Bent
<1>2. /\ r # s /\ p # s /\ p # r /\ B \notin {s, r, p} /\ C \notin {s, r, p}
      /\ B = C => C = Nil
      /\ t \notin {s, r, p} /\ B \in N \cup {Nil} /\ C \in N \cup {Nil} /\ t # B /\ t # C
  <2>1. S \subseteq N
    BY DEF Crooked, Bent
  <2> QED
    BY <2>1, CrookedApart
<1> DEFINE k0 == DoubleRotation(h, s, a)
<1>3. DoublyRotated(h, k0, N, a, s, r, p, B, C)
  BY <1>1, <1>2, DoubleWrites
<1> HIDE DEF k0
<1>4. k0 \in Heaps(N)
  BY <1>3 DEF DoublyRotated
<1>5. BalanceWritten(k0, k, N, f)
  <2>1. BalanceWritten(k0, [k0 EXCEPT !.balance = f], N, f)
    BY <1>4, BalanceWrites
  <2> QED
    BY <2>1 DEF k0
<1>6. k \in Heaps(N) /\ \A e \in Sides : Kid(k, t, e) = Kid(h, t, e)
  BY <1>1, <1>2, <1>3, <1>5 DEF DoublyRotated, BalanceWritten
<1>7. Kid(k, t, 1) = s <=> Kid(k, t, -1) # s
  BY <1>1, <1>6 DEF Sides
<1>8. Replaced(k, g, N, t, s, p)
  BY <1>1, <1>6, <1>7, ReplaceWrites
<1>9. /\ \A x \in N : g.parent[x] = IF x = p THEN t ELSE k.parent[x]
      /\ \A x \in N : k.parent[x] = IF x \in {r, s} THEN p ELSE IF x = B THEN r
                                    ELSE IF x = C THEN s ELSE h.parent[x]
      /\ \A x \in N, e \in Sides :
            Kid(g, x, e) = IF x = t /\ Kid(h, t, e) = s THEN p ELSE Kid(k, x, e)
      /\ \A x \in N, e \in Sides : Kid(k, x, e) = IF x = r /\ e = -a THEN B
                                                 ELSE IF x = s /\ e = a THEN C
                                                 ELSE IF x = p THEN IF e = a THEN r ELSE s
                                                 ELSE Kid(h, x, e)
      /\ g \in Heaps(N) /\ g.key = h.key /\ g.balance = f /\ g.rank = k0.rank
  BY <1>3, <1>5, <1>6, <1>8 DEF DoublyRotated, BalanceWritten, Replaced
<1>10. /\ a = -1 => \A x \in N : g.rank[x] =
             IF x = p THEN h.rank[p] + h.rank[r]
             ELSE IF x = s THEN h.rank[s] - (h.rank[p] + h.rank[r]) ELSE h.rank[x]
       /\ a = 1 => \A x \in N : g.rank[x] =
             IF x = p THEN h.rank[p] + h.rank[s]
             ELSE IF x = r THEN h.rank[r] - h.rank[p] ELSE h.rank[x]
  BY <1>3, <1>9 DEF DoublyRotated
<1>11. \A x \in N : g.parent[x] = IF x = p THEN t ELSE IF x \in {r, s} THEN p
                                  ELSE IF x = B THEN r ELSE IF x = C THEN s ELSE h.parent[x]
  BY <1>9
<1>12. \A x \in N, e \in Sides : Kid(g, x, e) = IF x = r /\ e = -a THEN B
                                               ELSE IF x = s /\ e = a THEN C
                                               ELSE IF x = p THEN IF e = a THEN r ELSE s
                                               ELSE IF x = t /\ Kid(h, t, e) = s THEN p
                                               ELSE Kid(h, x, e)
  BY <1>2, <1>9
<1> QED
  BY <1>9, <1>10, <1>11, <1>12 DEF Twisted

\* The heights after the twist.
TwistedHeights(H, H2, S, s, r, p, A, B, C, D) ==
    /\ \A n \in (S \cup {Nil}) \ {s, r, p} : H2[n] = H[n]
    /\ H2[r] = 1 + Larger(H[A], H[B])
    /\ H2[s] = 1 + Larger(H[C], H[D])
    /\ H2[p] = 1 + Larger(H2[r], H2[s])

\* The twist keeps the order and makes a subtree again, with p on top.
LEMMA TwistKeeps ==
    ASSUME NEW N, NEW S, NEW h, NEW I, NEW H, NEW a, NEW t, NEW s, NEW r, NEW p,
           NEW A, NEW B, NEW C, NEW D,
           Subtree(h, S, I, H), Crooked(h, N, S, a, t, s, r, p, A, B, C, D),
           NEW g, Twisted(h, g, N, a, t, s, r, p, B, C)
    PROVE  \E I2, H2 : /\ Subtree(g, S, I2, H2) /\ I2[p] = I[s]
                       /\ \A n \in (S \cup {Nil}) \ {s, r, p} : I2[n] = I[n]
                       /\ TwistedHeights(H, H2, S, s, r, p, A, B, C, D)
<1> DEFINE Ir == Flank(a, I[A], r, I[B])
           Is == Flank(a, I[C], s, I[D])
           I2 == [n \in S \cup {Nil} |-> IF n = r THEN Ir ELSE IF n = s THEN Is
                                         ELSE IF n = p THEN I[s] ELSE I[n]]
           hr == 1 + Larger(H[A], H[B])
           hs == 1 + Larger(H[C], H[D])
           hp == 1 + Larger(hr, hs)
           H2 == [n \in S \cup {Nil} |-> IF n = r THEN hr ELSE IF n = s THEN hs
                                         ELSE IF n = p THEN hp ELSE H[n]]
<1>1. /\ a \in Sides /\ -a \in Sides /\ a # -a /\ s \in S /\ r \in S /\ p \in S /\ Nil \notin S
      /\ t \notin S /\ S \subseteq N
      /\ r = Kid(h, s, a) /\ D = Kid(h, s, -a) /\ A = Kid(h, r, a) /\ p = Kid(h, r, -a)
      /\ B = Kid(h, p, a) /\ C = Kid(h, p, -a)
  BY DEF Crooked, Bent, Sides
<1>2. /\ r # s /\ p # s /\ p # r
      /\ A \in S \cup {Nil} /\ B \in S \cup {Nil} /\ C \in S \cup {Nil} /\ D \in S \cup {Nil}
      /\ A \notin {s, r, p} /\ B \notin {s, r, p} /\ C \notin {s, r, p} /\ D \notin {s, r, p}
      /\ A = B => A = Nil
      /\ A = C => A = Nil
      /\ A = D => A = Nil
      /\ B = C => B = Nil
      /\ B = D => B = Nil
      /\ C = D => C = Nil
      /\ h.parent[s] = t /\ h.parent[r] = s /\ h.parent[p] = r
      /\ A # Nil => h.parent[A] = r
      /\ B # Nil => h.parent[B] = p
      /\ C # Nil => h.parent[C] = p
      /\ D # Nil => h.parent[D] = s
  BY CrookedApart
<1>3. Counts(S, I, H) /\ \A n \in S : SideOK(h, S, I, H, a, n)
  BY <1>1, FromSide
<1>4. /\ I[s] = Flank(a, I[r], s, I[D]) /\ I[r] = Flank(a, I[A], r, I[p])
      /\ I[p] = Flank(a, I[B], p, I[C])
      /\ h.rank[s] = Len(Leftward(a, I[r], I[D])) + 1
      /\ h.rank[r] = Len(Leftward(a, I[A], I[p])) + 1
      /\ h.rank[p] = Len(Leftward(a, I[B], I[C])) + 1
  BY <1>1, <1>3 DEF SideOK
<1>5. /\ I[A] \in Seq(S) /\ I[B] \in Seq(S) /\ I[C] \in Seq(S) /\ I[D] \in Seq(S)
      /\ I[s] \in Seq(S) /\ I[r] \in Seq(S) /\ I[p] \in Seq(S)
  BY <1>1, <1>2, <1>3 DEF Counts
<1>6. /\ FlankOf(S, a, I[A], r, I[B]) /\ FlankOf(S, a, I[C], s, I[D])
      /\ FlankOf(S, a, I[B], p, I[C]) /\ FlankOf(S, a, I[A], r, I[p])
  BY <1>1, <1>5, FlankIs
<1>7. /\ Ir \in Seq(S) /\ Is \in Seq(S)
      /\ Len(Ir) = Len(I[B]) + Len(I[A]) + 1 /\ Len(Is) = Len(I[C]) + Len(I[D]) + 1
      /\ Len(I[p]) = Len(I[B]) + Len(I[C]) + 1 /\ Len(I[p]) = Len(I[C]) + Len(I[B]) + 1
      /\ Len(I[r]) = Len(I[A]) + Len(I[p]) + 1
      /\ Len(I[A]) \in Nat /\ Len(I[B]) \in Nat /\ Len(I[C]) \in Nat /\ Len(I[D]) \in Nat
      /\ Len(I[p]) \in Nat /\ Len(I[r]) \in Nat /\ Len(Ir) \in Nat /\ Len(Is) \in Nat
  BY <1>4, <1>6, Zenon DEF FlankOf
<1> HIDE DEF Ir, Is, hs, hr, hp
<1>8. I[s] = Flank(a, Ir, p, Is) /\ Len(I[r]) = Len(Ir) + Len(I[C]) + 1
  <2>0. Flank(a, Flank(a, I[A], r, I[B]), p, I[C]) = Flank(a, I[A], r, Flank(a, I[B], p, I[C]))
    <3>1. /\ a \in Sides /\ r \in S /\ p \in S
          /\ I[A] \in Seq(S) /\ I[B] \in Seq(S) /\ I[C] \in Seq(S)
      BY <1>1, <1>5
    <3> QED
      BY <3>1, FlankTurns
  <2>1. I[r] = Flank(a, Ir, p, I[C])
    BY <1>4, <2>0, Zenon DEF Ir
  <2>2. Flank(a, Flank(a, Ir, p, I[C]), s, I[D]) = Flank(a, Ir, p, Is)
    BY <1>1, <1>5, <1>7, FlankTurns DEF Is
  <2>3. FlankOf(S, a, Ir, p, I[C])
    BY <1>1, <1>5, <1>7, FlankIs
  <2> QED
    BY <1>4, <2>1, <2>2, <2>3, Zenon DEF FlankOf
<1>9. hs \in Nat /\ hr \in Nat /\ hp \in Nat
  BY <1>2, <1>3, SMTT(30) DEF Counts, Larger, hs, hr, hp
<1>10. Counts(S, I2, H2)
  BY <1>1, <1>3, <1>5, <1>7, <1>9 DEF Counts
<1>11. /\ I2[s] = Is /\ I2[r] = Ir /\ I2[p] = I[s]
       /\ I2[A] = I[A] /\ I2[B] = I[B] /\ I2[C] = I[C] /\ I2[D] = I[D]
       /\ H2[s] = hs /\ H2[r] = hr /\ H2[p] = hp
       /\ H2[A] = H[A] /\ H2[B] = H[B] /\ H2[C] = H[C] /\ H2[D] = H[D]
       /\ \A n \in (S \cup {Nil}) \ {s, r, p} : I2[n] = I[n] /\ H2[n] = H[n]
  BY <1>1, <1>2
<1> HIDE DEF I2, H2
<1>12. /\ \A x \in N : g.parent[x] = IF x = p THEN t ELSE IF x \in {r, s} THEN p
                                     ELSE IF x = B THEN r ELSE IF x = C THEN s ELSE h.parent[x]
       /\ \A x \in N, e \in Sides : Kid(g, x, e) = IF x = r /\ e = -a THEN B
                                                  ELSE IF x = s /\ e = a THEN C
                                                  ELSE IF x = p THEN IF e = a THEN r ELSE s
                                                  ELSE IF x = t /\ Kid(h, t, e) = s THEN p
                                                  ELSE Kid(h, x, e)
  BY DEF Twisted
<1>13. SideOK(g, S, I2, H2, a, s)
  <2>1. Kid(g, s, a) = C /\ Kid(g, s, -a) = D
    BY <1>1, <1>2, <1>12
  <2>2. (C # Nil => g.parent[C] = s) /\ (D # Nil => g.parent[D] = s)
    BY <1>1, <1>2, <1>12
  <2>3. g.rank[s] = Len(Leftward(a, I[C], I[D])) + 1
    <3>1. CASE a = -1
      <4>1. g.rank[s] = h.rank[s] - (h.rank[p] + h.rank[r])
        BY <1>1, <1>2, <3>1 DEF Twisted
      <4>2. h.rank[s] = Len(I[r]) + 1 /\ h.rank[r] = Len(I[A]) + 1 /\ h.rank[p] = Len(I[B]) + 1
        BY <1>4, <3>1 DEF Leftward
      <4>3. (Len(I[B]) + 1) + (Len(I[A]) + 1) = Len(Ir) + 1
        BY <1>7, CountUp
      <4>5. (Len(I[r]) + 1) - (Len(Ir) + 1) = Len(I[C]) + 1
        <5>1. /\ Len(I[r]) = Len(Ir) + Len(I[C]) + 1
              /\ Len(I[r]) \in Nat /\ Len(Ir) \in Nat /\ Len(I[C]) \in Nat
          BY <1>7, <1>8, Zenon
        <5> QED
          BY <5>1, CountDown
      <4>4. Leftward(a, I[C], I[D]) = I[C]
        BY <3>1 DEF Leftward
      <4> QED
        BY <4>1, <4>2, <4>3, <4>4, <4>5, Zenon
    <3>2. CASE a = 1
      <4>1. Leftward(a, I[r], I[D]) = I[D] /\ Leftward(a, I[C], I[D]) = I[D]
        BY <3>2 DEF Leftward
      <4>2. g.rank[s] = h.rank[s]
        BY <1>1, <1>2, <3>2 DEF Twisted
      <4> QED
        BY <1>4, <4>1, <4>2, Zenon
    <3> QED
      BY <1>1, <3>1, <3>2 DEF Sides
  <2> QED
    BY <1>2, <1>11, <2>1, <2>2, <2>3 DEF SideOK, Is, hs
<1>14. SideOK(g, S, I2, H2, a, r)
  <2>1. Kid(g, r, a) = A /\ Kid(g, r, -a) = B
    BY <1>1, <1>2, <1>12
  <2>2. (A # Nil => g.parent[A] = r) /\ (B # Nil => g.parent[B] = r)
    BY <1>1, <1>2, <1>12
  <2>3. g.rank[r] = Len(Leftward(a, I[A], I[B])) + 1
    <3>1. CASE a = -1
      <4>1. Leftward(a, I[A], I[p]) = I[A] /\ Leftward(a, I[A], I[B]) = I[A]
        BY <3>1 DEF Leftward
      <4>2. g.rank[r] = h.rank[r]
        BY <1>1, <1>2, <3>1 DEF Twisted
      <4> QED
        BY <1>4, <4>1, <4>2, Zenon
    <3>2. CASE a = 1
      <4>1. g.rank[r] = h.rank[r] - h.rank[p]
        BY <1>1, <1>2, <3>2 DEF Twisted
      <4>2. h.rank[r] = Len(I[p]) + 1 /\ h.rank[p] = Len(I[C]) + 1
        BY <1>4, <3>2 DEF Leftward
      <4>3. (Len(I[p]) + 1) - (Len(I[C]) + 1) = Len(I[B]) + 1
        <5>1. /\ Len(I[p]) = Len(I[C]) + Len(I[B]) + 1
              /\ Len(I[p]) \in Nat /\ Len(I[C]) \in Nat /\ Len(I[B]) \in Nat
          BY <1>7, Zenon
        <5> QED
          BY <5>1, CountDown
      <4>4. Leftward(a, I[A], I[B]) = I[B]
        BY <3>2 DEF Leftward
      <4> QED
        BY <4>1, <4>2, <4>3, <4>4, Zenon
    <3> QED
      BY <1>1, <3>1, <3>2 DEF Sides
  <2> QED
    BY <1>2, <1>11, <2>1, <2>2, <2>3 DEF SideOK, Ir, hr
<1>15. SideOK(g, S, I2, H2, a, p)
  <2>1. Kid(g, p, a) = r /\ Kid(g, p, -a) = s
    BY <1>1, <1>2, <1>12
  <2>2. g.parent[r] = p /\ g.parent[s] = p
    BY <1>1, <1>2, <1>12
  <2>3. g.rank[p] = Len(Leftward(a, Ir, Is)) + 1
    <3>1. CASE a = -1
      <4>1. g.rank[p] = h.rank[p] + h.rank[r]
        BY <1>1, <3>1 DEF Twisted
      <4>2. h.rank[r] = Len(I[A]) + 1 /\ h.rank[p] = Len(I[B]) + 1
        BY <1>4, <3>1 DEF Leftward
      <4>3. (Len(I[B]) + 1) + (Len(I[A]) + 1) = Len(Ir) + 1
        BY <1>7, CountUp
      <4>4. Leftward(a, Ir, Is) = Ir
        BY <3>1 DEF Leftward
      <4> QED
        BY <4>1, <4>2, <4>3, <4>4, Zenon
    <3>2. CASE a = 1
      <4>1. g.rank[p] = h.rank[p] + h.rank[s]
        BY <1>1, <3>2 DEF Twisted
      <4>2. h.rank[s] = Len(I[D]) + 1 /\ h.rank[p] = Len(I[C]) + 1
        BY <1>4, <3>2 DEF Leftward
      <4>3. (Len(I[C]) + 1) + (Len(I[D]) + 1) = Len(Is) + 1
        BY <1>7, CountUp
      <4>4. Leftward(a, Ir, Is) = Is
        BY <3>2 DEF Leftward
      <4> QED
        BY <4>1, <4>2, <4>3, <4>4, Zenon
    <3> QED
      BY <1>1, <3>1, <3>2 DEF Sides
  <2> QED
    BY <1>1, <1>2, <1>8, <1>11, <2>1, <2>2, <2>3 DEF SideOK, hp
<1>16. ASSUME NEW n \in S, n # s, n # r, n # p
       PROVE  SideOK(g, S, I2, H2, a, n)
  <2>1. SideOK(h, S, I, H, a, n)
    BY <1>3
  <2>2. Kid(g, n, a) = Kid(h, n, a) /\ Kid(g, n, -a) = Kid(h, n, -a)
    BY <1>1, <1>12, <1>16
  <2>3. ASSUME NEW m \in S \cup {Nil}, m # Nil => h.parent[m] = n
        PROVE  /\ m # Nil => g.parent[m] = n
               /\ I2[m] = I[m] /\ H2[m] = H[m]
    <3>1. m # s /\ m # r /\ m # p /\ (m # Nil => m # B /\ m # C)
      BY <1>1, <1>2, <1>16, <2>3
    <3> QED
      BY <1>1, <1>11, <1>12, <2>3, <3>1
  <2>4. /\ Kid(h, n, a) \in S \cup {Nil} /\ Kid(h, n, -a) \in S \cup {Nil}
        /\ Kid(h, n, a) # Nil => h.parent[Kid(h, n, a)] = n
        /\ Kid(h, n, -a) # Nil => h.parent[Kid(h, n, -a)] = n
    BY <2>1 DEF SideOK
  <2>5. /\ Kid(h, n, a) # Nil => g.parent[Kid(h, n, a)] = n
        /\ I2[Kid(h, n, a)] = I[Kid(h, n, a)] /\ H2[Kid(h, n, a)] = H[Kid(h, n, a)]
        /\ Kid(h, n, -a) # Nil => g.parent[Kid(h, n, -a)] = n
        /\ I2[Kid(h, n, -a)] = I[Kid(h, n, -a)] /\ H2[Kid(h, n, -a)] = H[Kid(h, n, -a)]
    BY <2>3, <2>4
  <2>6. g.rank[n] = h.rank[n] /\ I2[n] = I[n] /\ H2[n] = H[n]
    BY <1>1, <1>11, <1>16 DEF Twisted, Sides
  <2> QED
    BY <2>1, <2>2, <2>5, <2>6 DEF SideOK
<1>17. Subtree(g, S, I2, H2)
  BY <1>1, <1>10, <1>13, <1>14, <1>15, <1>16, FromSide
<1>18. TwistedHeights(H, H2, S, s, r, p, A, B, C, D)
  BY <1>11 DEF TwistedHeights, hs, hr, hp
<1> QED
  BY <1>11, <1>17, <1>18

-----------------------------------------------------------------------------
(* The balance after a rotation                                            *)

\* How much taller the right side is, with i on side a and j on the other.
Lean(a, i, j) == IF a = 1 THEN i - j ELSE j - i

\* What Balanced says of n, seen from side a.
LeanOK(h, H, a, n) == /\ h.balance[n] = Lean(a, H[Kid(h, n, a)], H[Kid(h, n, -a)])
                      /\ h.balance[n] \in -1 .. 1

LEMMA LeanFromSide ==
    ASSUME NEW h, NEW S, NEW H, NEW a \in Sides
    PROVE  Balanced(h, S, H) <=> \A n \in S : LeanOK(h, H, a, n)
<1>1. CASE a = -1
  <2>1. -a = 1
    BY <1>1, OtherSide, Zenon
  <2> QED
    BY <1>1, <2>1 DEF Balanced, LeanOK, Lean
<1>2. CASE a = 1
  BY <1>2 DEF Balanced, LeanOK, Lean
<1> QED
  BY <1>1, <1>2 DEF Sides

\* n is where its parent pointer says.
Known(h, n) == \E e \in Sides : Kid(h, h.parent[n], e) = n

\* g is what becomes of h when q comes to the top of S instead of p: S keeps its
\* order, is balanced, and its top is as tall as "height".  The other nodes of S
\* that hang from outside are left alone with all that is below them.
Rebalanced(h, g, N, S, I, H, t, p, q, height) ==
    /\ g \in Heaps(N) /\ q \in S /\ HangsFrom(g, S, t, q) /\ OnlyWithin(h, g, N, S, t, p, q)
    /\ \A n \in S : /\ g.parent[n] \in S \cup {t, h.parent[n]}
                    /\ h.parent[n] \in N /\ Known(h, n) => Known(g, n)
    /\ \E I2, H2 : /\ Subtree(g, S, I2, H2) /\ Balanced(g, S, H2)
                   /\ I2[q] = I[p] /\ H2[q] = height
                   /\ \A n \in S : h.parent[n] \notin S /\ n # p =>
                         g.parent[n] = h.parent[n] /\ I2[n] = I[n] /\ H2[n] = H[n]

\* The balance after a single rotation that the tall side of s calls for.
LEMMA SingleFits ==
    ASSUME NEW N, NEW S, NEW h, NEW I, NEW H, NEW a, NEW t, NEW s, NEW r, NEW A, NEW B, NEW C,
           Subtree(h, S, I, H), Bent(h, N, S, a, t, s, r, A, B, C),
           \A n \in S \ {s} : LeanOK(h, H, a, n),
           H[r] = H[C] + 2, h.balance[r] \in {0, a},
           NEW g,
           g = Replace([SingleRotation(h, s, a) EXCEPT
                            !.balance = [h.balance EXCEPT ![s] = IF h.balance[r] = 0 THEN a ELSE 0,
                                                          ![r] = IF h.balance[r] = 0 THEN -a ELSE 0]],
                       t, s, r)
    PROVE  Rebalanced(h, g, N, S, I, H, t, s, r, H[C] + IF h.balance[r] = 0 THEN 3 ELSE 2)
<1> DEFINE f == [h.balance EXCEPT ![s] = IF h.balance[r] = 0 THEN a ELSE 0,
                                  ![r] = IF h.balance[r] = 0 THEN -a ELSE 0]
           k == [SingleRotation(h, s, a) EXCEPT !.balance = f]
<1>1. /\ a \in Sides /\ -a \in Sides /\ a # -a /\ s \in S /\ r \in S /\ Nil \notin N
      /\ t \in N /\ t \notin S /\ S \subseteq N /\ h \in Heaps(N)
      /\ r = Kid(h, s, a) /\ C = Kid(h, s, -a) /\ A = Kid(h, r, a) /\ B = Kid(h, r, -a)
  BY DEF Bent, Sides
<1>2. /\ r # s /\ t \notin {s, r, A, B, C}
      /\ A \in S \cup {Nil} /\ B \in S \cup {Nil} /\ C \in S \cup {Nil}
      /\ A \notin {s, r} /\ B \notin {s, r} /\ C \notin {s, r}
      /\ h.parent[s] = t /\ h.parent[r] = s /\ (B # Nil => h.parent[B] = r)
  BY BentApart
<1>3. /\ f \in [N -> Int] /\ f[s] = (IF h.balance[r] = 0 THEN a ELSE 0)
      /\ f[r] = (IF h.balance[r] = 0 THEN -a ELSE 0)
      /\ \A n \in N \ {s, r} : f[n] = h.balance[n]
  BY <1>1, <1>2 DEF Heaps, Sides
<1>4. Turned(h, g, N, a, t, s, r, B) /\ g.balance = f
  <2> HIDE DEF f
  <2>1. k = [SingleRotation(h, s, a) EXCEPT !.balance = f] /\ g = Replace(k, t, s, r)
    BY DEF f
  <2> HIDE DEF k
  <2> QED
    BY <1>3, <2>1, TurnIs
<1> HIDE DEF f, k
<1>5. PICK I2, H2 : /\ Subtree(g, S, I2, H2) /\ I2[r] = I[s]
                    /\ \A n \in (S \cup {Nil}) \ {s, r} : I2[n] = I[n]
                    /\ TurnedHeights(H, H2, S, s, r, A, B, C)
  BY <1>4, TurnKeeps
<1>6. Counts(S, I, H) /\ (\A n \in S : SideOK(h, S, I, H, a, n)) /\ Counts(S, I2, H2)
      /\ \A n \in S : SideOK(g, S, I2, H2, a, n)
  BY <1>1, <1>5, FromSide
<1>7. /\ H[A] \in Nat /\ H[B] \in Nat /\ H[C] \in Nat /\ H[r] \in Nat
      /\ H[r] = 1 + Larger(H[A], H[B]) /\ h.balance[r] = Lean(a, H[A], H[B])
  BY <1>1, <1>2, <1>6, SMTT(30) DEF Counts, SideOK, LeanOK
<1>8. H2[s] = 1 + Larger(H[B], H[C]) /\ H2[r] = 1 + Larger(H[A], H2[s])
  BY <1>5 DEF TurnedHeights
<1>9. /\ f[s] = Lean(a, H[B], H[C]) /\ f[s] \in -1 .. 1
      /\ f[r] = Lean(a, H[A], H2[s]) /\ f[r] \in -1 .. 1
      /\ H2[r] = H[C] + IF h.balance[r] = 0 THEN 3 ELSE 2
  <2>1. CASE a = -1
    <3>1. -a = 1
      BY <1>1, <2>1, OtherSide, Zenon
    <3> QED
      BY <1>3, <1>7, <1>8, <2>1, <3>1 DEF Lean, Larger
  <2>2. CASE a = 1
    BY <1>3, <1>7, <1>8, <2>2 DEF Lean, Larger
  <2> QED
    BY <1>1, <2>1, <2>2 DEF Sides
<1>10. /\ \A x \in N : g.parent[x] = IF x = r THEN t ELSE IF x = s THEN r ELSE IF x = B THEN s
                                     ELSE h.parent[x]
       /\ \A x \in N, e \in Sides : Kid(g, x, e) = IF x = s /\ e = a THEN B
                                                  ELSE IF x = r /\ e = -a THEN s
                                                  ELSE IF x = t /\ Kid(h, t, e) = s THEN r
                                                  ELSE Kid(h, x, e)
       /\ g \in Heaps(N) /\ g.key = h.key
  BY <1>4 DEF Turned
<1>11. LeanOK(g, H2, a, s) /\ LeanOK(g, H2, a, r)
  <2>1. Kid(g, s, a) = B /\ Kid(g, s, -a) = C /\ Kid(g, r, a) = A /\ Kid(g, r, -a) = s
    BY <1>1, <1>2, <1>10
  <2>2. H2[A] = H[A] /\ H2[B] = H[B] /\ H2[C] = H[C]
    BY <1>2, <1>5 DEF TurnedHeights
  <2> QED
    BY <1>4, <1>9, <2>1, <2>2 DEF LeanOK
<1>12. ASSUME NEW n \in S, n # s, n # r
       PROVE  LeanOK(g, H2, a, n)
  <2>1. Kid(g, n, a) = Kid(h, n, a) /\ Kid(g, n, -a) = Kid(h, n, -a) /\ g.balance[n] = h.balance[n]
    BY <1>1, <1>3, <1>4, <1>10, <1>12
  <2>2. SideOK(h, S, I, H, a, n) /\ LeanOK(h, H, a, n)
    BY <1>6, <1>12
  <2>3. Kid(h, n, a) \in (S \cup {Nil}) \ {s, r} /\ Kid(h, n, -a) \in (S \cup {Nil}) \ {s, r}
    BY <1>1, <1>2, <1>12, <2>2 DEF SideOK
  <2>4. H2[Kid(h, n, a)] = H[Kid(h, n, a)] /\ H2[Kid(h, n, -a)] = H[Kid(h, n, -a)]
    BY <1>5, <2>3 DEF TurnedHeights
  <2> QED
    BY <2>1, <2>2, <2>4 DEF LeanOK
<1>13. Balanced(g, S, H2)
  BY <1>1, <1>11, <1>12, LeanFromSide
<1>14. OnlyWithin(h, g, N, S, t, s, r)
  <2>1. \A n \in N \ S : g.rank[n] = h.rank[n]
    BY <1>1, <1>4 DEF Turned, Sides
  <2>2. \A n \in N \ S : g.parent[n] = h.parent[n] /\ g.balance[n] = h.balance[n]
    BY <1>1, <1>2, <1>3, <1>4, <1>10
  <2>3. \A n \in N \ S, e \in Sides : Kid(g, n, e) = IF n = t /\ Kid(h, t, e) = s THEN r
                                                     ELSE Kid(h, n, e)
    BY <1>1, <1>10
  <2> QED
    BY <1>10, <2>1, <2>2, <2>3 DEF OnlyWithin
<1>15. HangsFrom(g, S, t, r)
  <2>1. PICK e \in Sides : /\ Kid(h, t, e) = s /\ Kid(h, t, -e) # s
                           /\ Kid(h, t, -e) \in S => h.parent[Kid(h, t, -e)] = t
    BY DEF Bent, HangsFrom
  <2>2. -e \in Sides
    BY DEF Sides
  <2>3. Kid(g, t, e) = r /\ Kid(g, t, -e) = Kid(h, t, -e) /\ g.parent[r] = t
    BY <1>1, <1>2, <1>10, <2>1, <2>2
  <2>4. Kid(h, t, -e) # r
    BY <1>1, <1>2, <2>1
  <2>5. ASSUME Kid(h, t, -e) \in S
        PROVE  g.parent[Kid(h, t, -e)] = t
    BY <1>1, <1>2, <1>10, <2>1, <2>4, <2>5
  <2> QED
    BY <2>3, <2>4, <2>5 DEF HangsFrom
<1>16. ASSUME NEW n \in S
       PROVE  /\ g.parent[n] \in S \cup {t, h.parent[n]}
              /\ h.parent[n] \in N /\ Known(h, n) => Known(g, n)
  <2>1. g.parent[n] \in S \cup {t, h.parent[n]}
    BY <1>1, <1>10
  <2>2. ASSUME h.parent[n] \in N, Known(h, n)
        PROVE  Known(g, n)
    <3>1. CASE n = r
      BY <1>15, <3>1 DEF HangsFrom, Known
    <3>2. CASE n = s
      <4>1. g.parent[s] = r /\ Kid(g, r, -a) = s
        BY <1>1, <1>2, <1>10
      <4> QED
        BY <1>1, <3>2, <4>1 DEF Known
    <3>3. CASE n = B
      <4>1. g.parent[n] = s /\ Kid(g, s, a) = n
        BY <1>1, <1>2, <1>10, <3>3
      <4> QED
        BY <1>1, <4>1 DEF Known
    <3>4. CASE n \notin {r, s, B}
      <4>1. PICK e \in Sides : Kid(h, h.parent[n], e) = n
        BY <2>2 DEF Known
      <4>2. g.parent[n] = h.parent[n] /\ Kid(g, h.parent[n], e) = n
        BY <1>1, <1>10, <2>2, <3>4, <4>1
      <4> QED
        BY <4>2 DEF Known
    <3> QED
      BY <3>1, <3>2, <3>3, <3>4
  <2> QED
    BY <2>1, <2>2
<1>17. ASSUME NEW n \in S, h.parent[n] \notin S, n # s
       PROVE  g.parent[n] = h.parent[n] /\ I2[n] = I[n] /\ H2[n] = H[n]
  <2>1. n # r /\ n # B
    BY <1>1, <1>2, <1>17
  <2> QED
    BY <1>1, <1>5, <1>10, <1>17, <2>1 DEF TurnedHeights
<1> QED
  BY <1>1, <1>5, <1>9, <1>10, <1>13, <1>14, <1>15, <1>16, <1>17, SMTT(30) DEF Rebalanced

\* The same for a double rotation, where the tall side of r is the inner one.
LEMMA DoubleFits ==
    ASSUME NEW N, NEW S, NEW h, NEW I, NEW H, NEW a, NEW t, NEW s, NEW r, NEW p,
           NEW A, NEW B, NEW C, NEW D,
           Subtree(h, S, I, H), Crooked(h, N, S, a, t, s, r, p, A, B, C, D),
           \A n \in S \ {s} : LeanOK(h, H, a, n),
           H[r] = H[D] + 2, h.balance[r] = -a,
           NEW g,
           g = Replace([DoubleRotation(h, s, a) EXCEPT
                            !.balance = [h.balance EXCEPT ![s] = IF h.balance[p] = a THEN -a ELSE 0,
                                                          ![r] = IF h.balance[p] = -a THEN a ELSE 0,
                                                          ![p] = 0]],
                       t, s, p)
    PROVE  Rebalanced(h, g, N, S, I, H, t, s, p, H[D] + 2)
<1> DEFINE f == [h.balance EXCEPT ![s] = IF h.balance[p] = a THEN -a ELSE 0,
                                  ![r] = IF h.balance[p] = -a THEN a ELSE 0,
                                  ![p] = 0]
           k == [DoubleRotation(h, s, a) EXCEPT !.balance = f]
<1>1. /\ a \in Sides /\ -a \in Sides /\ a # -a /\ s \in S /\ r \in S /\ p \in S /\ Nil \notin N
      /\ t \in N /\ t \notin S /\ S \subseteq N /\ h \in Heaps(N)
      /\ r = Kid(h, s, a) /\ D = Kid(h, s, -a) /\ A = Kid(h, r, a) /\ p = Kid(h, r, -a)
      /\ B = Kid(h, p, a) /\ C = Kid(h, p, -a)
  BY DEF Crooked, Bent, Sides
<1>2. /\ r # s /\ p # s /\ p # r /\ t \notin {s, r, p, A, B, C, D}
      /\ A \in S \cup {Nil} /\ B \in S \cup {Nil} /\ C \in S \cup {Nil} /\ D \in S \cup {Nil}
      /\ A \notin {s, r, p} /\ B \notin {s, r, p} /\ C \notin {s, r, p} /\ D \notin {s, r, p}
      /\ h.parent[s] = t /\ h.parent[r] = s /\ h.parent[p] = r
      /\ B # Nil => h.parent[B] = p
      /\ C # Nil => h.parent[C] = p
      /\ B = C => B = Nil
  BY CrookedApart
<1>3. /\ f \in [N -> Int] /\ f[s] = (IF h.balance[p] = a THEN -a ELSE 0)
      /\ f[r] = (IF h.balance[p] = -a THEN a ELSE 0) /\ f[p] = 0
      /\ \A n \in N \ {s, r, p} : f[n] = h.balance[n]
  BY <1>1, <1>2 DEF Heaps, Sides
<1>4. Twisted(h, g, N, a, t, s, r, p, B, C) /\ g.balance = f
  <2> HIDE DEF f
  <2>1. k = [DoubleRotation(h, s, a) EXCEPT !.balance = f] /\ g = Replace(k, t, s, p)
    BY DEF f
  <2> HIDE DEF k
  <2> QED
    BY <1>3, <2>1, TwistIs
<1> HIDE DEF f, k
<1>5. PICK I2, H2 : /\ Subtree(g, S, I2, H2) /\ I2[p] = I[s]
                    /\ \A n \in (S \cup {Nil}) \ {s, r, p} : I2[n] = I[n]
                    /\ TwistedHeights(H, H2, S, s, r, p, A, B, C, D)
  BY <1>4, TwistKeeps
<1>6. Counts(S, I, H) /\ (\A n \in S : SideOK(h, S, I, H, a, n)) /\ Counts(S, I2, H2)
      /\ \A n \in S : SideOK(g, S, I2, H2, a, n)
  BY <1>1, <1>5, FromSide
<1>7. /\ H[A] \in Nat /\ H[B] \in Nat /\ H[C] \in Nat /\ H[D] \in Nat /\ H[r] \in Nat /\ H[p] \in Nat
      /\ H[r] = 1 + Larger(H[A], H[p]) /\ h.balance[r] = Lean(a, H[A], H[p])
      /\ H[p] = 1 + Larger(H[B], H[C]) /\ h.balance[p] = Lean(a, H[B], H[C])
      /\ h.balance[p] \in -1 .. 1
  <2>1. SideOK(h, S, I, H, a, r) /\ SideOK(h, S, I, H, a, p)
    BY <1>1, <1>6
  <2>2. LeanOK(h, H, a, r) /\ LeanOK(h, H, a, p)
    BY <1>1, <1>2
  <2>3. H[r] = 1 + Larger(H[A], H[p]) /\ H[p] = 1 + Larger(H[B], H[C])
    BY <1>1, <2>1 DEF SideOK
  <2>4. /\ h.balance[r] = Lean(a, H[A], H[p]) /\ h.balance[p] = Lean(a, H[B], H[C])
        /\ h.balance[p] \in -1 .. 1
    BY <1>1, <2>2 DEF LeanOK
  <2>5. /\ H[A] \in Nat /\ H[B] \in Nat /\ H[C] \in Nat /\ H[D] \in Nat /\ H[r] \in Nat
        /\ H[p] \in Nat
    BY <1>1, <1>2, <1>6 DEF Counts
  <2> QED
    BY <2>3, <2>4, <2>5
<1>8. /\ H2[s] = 1 + Larger(H[C], H[D]) /\ H2[r] = 1 + Larger(H[A], H[B])
      /\ H2[p] = 1 + Larger(H2[r], H2[s])
  BY <1>5 DEF TwistedHeights
<1>9. /\ f[s] = Lean(a, H[C], H[D]) /\ f[s] \in -1 .. 1
      /\ f[r] = Lean(a, H[A], H[B]) /\ f[r] \in -1 .. 1
      /\ f[p] = Lean(a, H2[r], H2[s]) /\ f[p] \in -1 .. 1
      /\ H2[p] = H[D] + 2
  <2>1. CASE a = -1
    <3>1. -a = 1
      BY <1>1, <2>1, OtherSide, Zenon
    <3> QED
      BY <1>3, <1>7, <1>8, <2>1, <3>1 DEF Lean, Larger
  <2>2. CASE a = 1
    BY <1>3, <1>7, <1>8, <2>2 DEF Lean, Larger
  <2> QED
    BY <1>1, <2>1, <2>2 DEF Sides
<1>10. /\ \A x \in N : g.parent[x] = IF x = p THEN t ELSE IF x \in {r, s} THEN p
                                     ELSE IF x = B THEN r ELSE IF x = C THEN s ELSE h.parent[x]
       /\ \A x \in N, e \in Sides : Kid(g, x, e) = IF x = r /\ e = -a THEN B
                                                  ELSE IF x = s /\ e = a THEN C
                                                  ELSE IF x = p THEN IF e = a THEN r ELSE s
                                                  ELSE IF x = t /\ Kid(h, t, e) = s THEN p
                                                  ELSE Kid(h, x, e)
       /\ g \in Heaps(N) /\ g.key = h.key
  BY <1>4 DEF Twisted
<1>11. LeanOK(g, H2, a, s) /\ LeanOK(g, H2, a, r) /\ LeanOK(g, H2, a, p)
  <2>1. /\ Kid(g, s, a) = C /\ Kid(g, s, -a) = D /\ Kid(g, r, a) = A /\ Kid(g, r, -a) = B
        /\ Kid(g, p, a) = r /\ Kid(g, p, -a) = s
    BY <1>1, <1>2, <1>10
  <2>2. H2[A] = H[A] /\ H2[B] = H[B] /\ H2[C] = H[C] /\ H2[D] = H[D]
    BY <1>2, <1>5 DEF TwistedHeights
  <2> QED
    BY <1>4, <1>9, <2>1, <2>2 DEF LeanOK
<1>12. ASSUME NEW n \in S, n # s, n # r, n # p
       PROVE  LeanOK(g, H2, a, n)
  <2>1. Kid(g, n, a) = Kid(h, n, a) /\ Kid(g, n, -a) = Kid(h, n, -a) /\ g.balance[n] = h.balance[n]
    BY <1>1, <1>3, <1>4, <1>10, <1>12
  <2>2. SideOK(h, S, I, H, a, n) /\ LeanOK(h, H, a, n)
    BY <1>6, <1>12
  <2>3. Kid(h, n, a) \in (S \cup {Nil}) \ {s, r, p} /\ Kid(h, n, -a) \in (S \cup {Nil}) \ {s, r, p}
    BY <1>1, <1>2, <1>12, <2>2 DEF SideOK
  <2>4. H2[Kid(h, n, a)] = H[Kid(h, n, a)] /\ H2[Kid(h, n, -a)] = H[Kid(h, n, -a)]
    BY <1>5, <2>3 DEF TwistedHeights
  <2> QED
    BY <2>1, <2>2, <2>4 DEF LeanOK
<1>13. Balanced(g, S, H2)
  BY <1>1, <1>11, <1>12, LeanFromSide
<1>14. OnlyWithin(h, g, N, S, t, s, p)
  <2>1. \A n \in N \ S : g.rank[n] = h.rank[n]
    BY <1>1, <1>4 DEF Twisted, Sides
  <2>2. \A n \in N \ S : g.parent[n] = h.parent[n] /\ g.balance[n] = h.balance[n]
    BY <1>1, <1>2, <1>3, <1>4, <1>10
  <2>3. \A n \in N \ S, e \in Sides : Kid(g, n, e) = IF n = t /\ Kid(h, t, e) = s THEN p
                                                     ELSE Kid(h, n, e)
    BY <1>1, <1>10
  <2> QED
    BY <1>10, <2>1, <2>2, <2>3 DEF OnlyWithin
<1>15. HangsFrom(g, S, t, p)
  <2>1. PICK e \in Sides : /\ Kid(h, t, e) = s /\ Kid(h, t, -e) # s
                           /\ Kid(h, t, -e) \in S => h.parent[Kid(h, t, -e)] = t
    BY DEF Crooked, Bent, HangsFrom
  <2>2. -e \in Sides
    BY DEF Sides
  <2>3. Kid(g, t, e) = p /\ Kid(g, t, -e) = Kid(h, t, -e) /\ g.parent[p] = t
    BY <1>1, <1>2, <1>10, <2>1, <2>2
  <2>4. Kid(h, t, -e) # p /\ Kid(h, t, -e) # r
    BY <1>1, <1>2, <2>1
  <2>5. ASSUME Kid(h, t, -e) \in S
        PROVE  g.parent[Kid(h, t, -e)] = t
    BY <1>1, <1>2, <1>10, <2>1, <2>4, <2>5
  <2> QED
    BY <2>3, <2>4, <2>5 DEF HangsFrom
<1>16. ASSUME NEW n \in S
       PROVE  /\ g.parent[n] \in S \cup {t, h.parent[n]}
              /\ h.parent[n] \in N /\ Known(h, n) => Known(g, n)
  <2>1. g.parent[n] \in S \cup {t, h.parent[n]}
    BY <1>1, <1>10
  <2>2. ASSUME h.parent[n] \in N, Known(h, n)
        PROVE  Known(g, n)
    <3>1. CASE n = p
      BY <1>15, <3>1 DEF HangsFrom, Known
    <3>2. CASE n \in {r, s}
      <4>1. g.parent[n] = p /\ (Kid(g, p, -a) = n \/ Kid(g, p, a) = n)
        BY <1>1, <1>2, <1>10, <3>2
      <4> QED
        BY <1>1, <4>1 DEF Known
    <3>3. CASE n = B
      <4>1. g.parent[n] = r /\ Kid(g, r, -a) = n
        BY <1>1, <1>2, <1>10, <3>3
      <4> QED
        BY <1>1, <4>1 DEF Known
    <3>4. CASE n = C
      <4>1. g.parent[n] = s /\ Kid(g, s, a) = n
        BY <1>1, <1>2, <1>10, <3>4
      <4> QED
        BY <1>1, <4>1 DEF Known
    <3>5. CASE n \notin {r, s, p, B, C}
      <4>1. PICK e \in Sides : Kid(h, h.parent[n], e) = n
        BY <2>2 DEF Known
      <4>2. g.parent[n] = h.parent[n]
        BY <1>1, <1>10, <3>5
      <4>3. e = a \/ e = -a
        BY <1>1 DEF Sides
      <4>4. Kid(g, h.parent[n], e) = n
        BY <1>1, <1>10, <2>2, <3>5, <4>1, <4>3
      <4> QED
        BY <4>2, <4>4 DEF Known
    <3> QED
      BY <3>1, <3>2, <3>3, <3>4, <3>5
  <2> QED
    BY <2>1, <2>2
<1>17. ASSUME NEW n \in S, h.parent[n] \notin S, n # s
       PROVE  g.parent[n] = h.parent[n] /\ I2[n] = I[n] /\ H2[n] = H[n]
  <2>1. n # r /\ n # p /\ n # B /\ n # C
    BY <1>1, <1>2, <1>17
  <2> QED
    BY <1>1, <1>5, <1>10, <1>17, <2>1 DEF TwistedHeights
<1> QED
  BY <1>1, <1>5, <1>9, <1>10, <1>13, <1>14, <1>15, <1>16, <1>17, SMTT(30) DEF Rebalanced

\* Where no rotation is needed, the balance factor of the top node is all there
\* is to write.
LEMMA BalanceFits ==
    ASSUME NEW N, NEW S \in SUBSET N, Nil \notin N, NEW h \in Heaps(N), NEW I, NEW H,
           Subtree(h, S, I, H), NEW t \in N \ S, NEW p \in S, HangsFrom(h, S, t, p),
           NEW a \in Sides, \A n \in S \ {p} : LeanOK(h, H, a, n),
           NEW b \in -1 .. 1, b = Lean(a, H[Kid(h, p, a)], H[Kid(h, p, -a)]),
           NEW g, g = [h EXCEPT !.balance[p] = b]
    PROVE  Rebalanced(h, g, N, S, I, H, t, p, p, H[p])
<1> DEFINE f == [h.balance EXCEPT ![p] = b]
<1>1. f \in [N -> Int] /\ f[p] = b /\ \A n \in N \ {p} : f[n] = h.balance[n]
  BY DEF Heaps
<1>2. g = [h EXCEPT !.balance = f]
  BY DEF Heaps
<1> HIDE DEF f
<1>3. BalanceWritten(h, g, N, f)
  BY <1>1, <1>2, BalanceWrites
<1>4. /\ g \in Heaps(N) /\ g.key = h.key /\ g.balance = f /\ g.rank = h.rank
      /\ g.parent = h.parent
      /\ \A x, e : Kid(g, x, e) = Kid(h, x, e)
  BY <1>3 DEF BalanceWritten
<1>5. Subtree(g, S, I, H)
  <2>1. Linked(g, S)
    BY <1>4 DEF Subtree, Linked
  <2>2. Ordered(g, S, I)
    <3>1. ASSUME NEW n \in S
          PROVE  I[n] = I[Kid(g, n, -1)] \o <<n>> \o I[Kid(g, n, 1)]
      <4>1. I[n] = I[Kid(h, n, -1)] \o <<n>> \o I[Kid(h, n, 1)]
        BY DEF Subtree, Ordered
      <4>2. Kid(g, n, -1) = Kid(h, n, -1) /\ Kid(g, n, 1) = Kid(h, n, 1)
        BY <1>4
      <4> QED
        BY <4>1, <4>2, Zenon
    <3>2. I \in [S \cup {Nil} -> Seq(S)] /\ I[Nil] = << >>
      BY DEF Subtree, Ordered
    <3> QED
      BY <3>1, <3>2 DEF Ordered
  <2>3. Tall(g, S, H)
    BY <1>4 DEF Subtree, Tall
  <2>4. Ranked(g, S, I)
    BY <1>4 DEF Subtree, Ranked
  <2> QED
    BY <2>1, <2>2, <2>3, <2>4 DEF Subtree
<1>6. \A n \in S : LeanOK(g, H, a, n)
  BY <1>1, <1>4 DEF LeanOK
<1>7. Balanced(g, S, H)
  BY <1>6, LeanFromSide
<1>8. OnlyWithin(h, g, N, S, t, p, p)
  BY <1>1, <1>4 DEF OnlyWithin
<1>9. HangsFrom(g, S, t, p)
  BY <1>4 DEF HangsFrom
<1>10. \A n \in S : h.parent[n] \in N /\ Known(h, n) => Known(g, n)
  BY <1>4 DEF Known
<1>11. \A n \in S : g.parent[n] = h.parent[n]
  BY <1>4
<1> QED
  BY <1>4, <1>5, <1>7, <1>8, <1>9, <1>10, <1>11 DEF Rebalanced

\* What a rotation finds on the side that is taller by two.
LEMMA RotationFinds ==
    ASSUME NEW N, NEW S \in SUBSET N, Nil \notin N, NEW h \in Heaps(N), NEW I, NEW H,
           Subtree(h, S, I, H), NEW t \in N \ S, NEW s \in S, HangsFrom(h, S, t, s),
           NEW a \in Sides, \A n \in S \ {s} : LeanOK(h, H, a, n),
           H[Kid(h, s, a)] = H[Kid(h, s, -a)] + 2,
           NEW r, r = Kid(h, s, a), NEW p, p = Kid(h, r, -a)
    PROVE  /\ Bent(h, N, S, a, t, s, r, Kid(h, r, a), p, Kid(h, s, -a))
           /\ r \in S /\ r # s /\ h.balance[r] \in {0, a, -a}
           /\ SinglyRotated(h, SingleRotation(h, s, a), N, a, s, r, p)
           /\ h.balance[r] = -a =>
                 /\ p \in S /\ p # r /\ p # s
                 /\ Crooked(h, N, S, a, t, s, r, p, Kid(h, r, a), Kid(h, p, a), Kid(h, p, -a),
                            Kid(h, s, -a))
                 /\ DoublyRotated(h, DoubleRotation(h, s, a), N, a, s, r, p, Kid(h, p, a),
                                  Kid(h, p, -a))
<1> DEFINE D == Kid(h, s, -a)
           A == Kid(h, r, a)
           B == Kid(h, p, a)
           C == Kid(h, p, -a)
<1>1. Counts(S, I, H) /\ (\A n \in S : SideOK(h, S, I, H, a, n)) /\ -a \in Sides /\ -a # a
  BY FromSide, OtherSide
<1>2. r \in S \cup {Nil} /\ D \in S \cup {Nil}
  BY <1>1 DEF SideOK
<1>3. r # Nil /\ r \in S /\ H[r] \in Nat /\ H[D] \in Nat /\ H[r] = H[D] + 2
  BY <1>1, <1>2 DEF Counts
<1>4. Bent(h, N, S, a, t, s, r, A, p, D)
  BY <1>3 DEF Bent
<1>5. r # s
  BY <1>4, BentApart
<1>6. /\ A \in S \cup {Nil} /\ p \in S \cup {Nil}
      /\ h.balance[r] = Lean(a, H[A], H[p]) /\ h.balance[r] \in -1 .. 1
  BY <1>1, <1>3, <1>5 DEF SideOK, LeanOK
<1>7. h.balance[r] \in {0, a, -a}
  <2>1. CASE a = -1
    <3>1. -a = 1
      BY <1>1, <2>1, OtherSide, Zenon
    <3> QED
      BY <1>6, <2>1, <3>1
  <2>2. CASE a = 1
    BY <1>6, <2>2
  <2> QED
    BY <2>1, <2>2 DEF Sides
<1>8. s \in N /\ r \in N /\ p \in N \cup {Nil} /\ p # s /\ p # r
  BY <1>3, <1>4, <1>6, BentApart
<1>9. SinglyRotated(h, SingleRotation(h, s, a), N, a, s, r, p)
  BY <1>5, <1>8, SingleWrites
<1>10. ASSUME h.balance[r] = -a
       PROVE  /\ p \in S /\ p # r /\ p # s
              /\ Crooked(h, N, S, a, t, s, r, p, A, B, C, D)
              /\ DoublyRotated(h, DoubleRotation(h, s, a), N, a, s, r, p, B, C)
  <2>1. p # Nil
    <3>0. H[A] \in Nat /\ H[p] \in Nat /\ (p = Nil => H[p] = 0)
      BY <1>1, <1>6 DEF Counts
    <3>1. CASE a = -1
      <4>1. -a = 1
        BY <1>1, <3>1, OtherSide, Zenon
      <4>2. H[p] - H[A] = 1
        BY <1>6, <1>10, <3>1, <4>1 DEF Lean
      <4> QED
        BY <3>0, <4>2
    <3>2. CASE a = 1
      <4>1. H[A] - H[p] = -1
        BY <1>6, <1>10, <3>2 DEF Lean
      <4> QED
        BY <3>0, <4>1
    <3> QED
      BY <3>1, <3>2 DEF Sides
  <2>2. Crooked(h, N, S, a, t, s, r, p, A, B, C, D)
    BY <1>4, <1>6, <2>1 DEF Crooked
  <2>3. /\ r # s /\ p # s /\ p # r /\ B \in N \cup {Nil} /\ C \in N \cup {Nil}
        /\ B \notin {s, r, p} /\ C \notin {s, r, p}
        /\ B = C => C = Nil
    BY <2>2, CrookedApart
  <2>4. s \in N /\ r \in N /\ p \in N /\ p \in S
    BY <1>6, <1>8, <2>1
  <2> HIDE DEF B, C
  <2>5. B = Kid(h, p, a) /\ C = Kid(h, p, -a)
    BY DEF B, C
  <2>6. DoublyRotated(h, DoubleRotation(h, s, a), N, a, s, r, p, B, C)
    BY <2>3, <2>4, <2>5, DoubleWrites
  <2> QED
    BY <2>2, <2>3, <2>4, <2>6
<1> QED
  BY <1>3, <1>4, <1>5, <1>7, <1>9, <1>10

-----------------------------------------------------------------------------
(* The two places that restore the balance                                 *)

\* DoubleBalance writes three balance factors of a heap that DoubleRotation left
\* with the balance factors of h.
WithBalance(h, f) == [h EXCEPT !.balance = f]
TwistedBalance(b, a, s, r, p) == [b EXCEPT ![s] = IF b[p] = a THEN -a ELSE 0,
                                           ![r] = IF b[p] = -a THEN a ELSE 0,
                                           ![p] = 0]

LEMMA DoubleBalanceIs ==
    ASSUME NEW N, NEW k \in Heaps(N), NEW a \in Sides, NEW s \in N, NEW r \in N, NEW p \in N
    PROVE  DoubleBalance(k, s, r, p, a) =
              WithBalance(k, TwistedBalance(k.balance, a, s, r, p))
BY DEF DoubleBalance, WithBalance, TwistedBalance, Heaps

\* One turn of the climb of avl_delete (Shrink).  Let the subtree of p be in
\* order and balanced, but for side d of p, which has just got shorter by one, so
\* that p's balance factor is that of the old height.  Then the turn leaves the
\* nodes in the same order, every node of the subtree is balanced and has the
\* right links, rank and balance factor, nothing changes outside of the subtree
\* but the link to its top, and the subtree has got shorter by one if the turn
\* says so, and is as tall as before if it does not.
THEOREM ShrinkRebalances ==
    ASSUME NEW N, NEW S \in SUBSET N, Nil \notin N, NEW h \in Heaps(N), NEW I, NEW H,
           Subtree(h, S, I, H), NEW p \in S, NEW t \in N \ S, HangsFrom(h, S, t, p),
           Balanced(h, S \ {p}, H),
           NEW d \in Sides, NEW i, i = H[Kid(h, p, d)] + 1, NEW j, j = H[Kid(h, p, -d)],
           h.balance[p] = Lean(d, i, j), h.balance[p] \in -1 .. 1,
           NEW w, w = Shrink(h, p, d)
    PROVE  Rebalanced(h, w.h, N, S, I, H, t, p, w.top,
                      IF w.shorter THEN Larger(i, j) ELSE 1 + Larger(i, j))
<1> DEFINE a == -d
           q == Kid(h, p, a)
           r == Kid(h, q, -a)
           x == H[Kid(h, p, -a)]
<1>1. /\ a \in Sides /\ -a = d /\ a # d
      /\ d = -1 => a = 1
      /\ d = 1 => a = -1
  BY OtherSide
<1>2. Counts(S, I, H) /\ SideOK(h, S, I, H, a, p) /\ \A n \in S \ {p} : LeanOK(h, H, a, n)
  <2> HIDE DEF a
  <2> QED
    BY <1>1, FromSide, LeanFromSide
<1> HIDE DEF a
<1>3. /\ x \in Nat /\ H[q] \in Nat /\ i = x + 1 /\ j = H[q] /\ H[p] = 1 + Larger(H[q], x)
      /\ q \in S \cup {Nil}
  <2>1. Kid(h, p, a) \in S \cup {Nil} /\ Kid(h, p, -a) \in S \cup {Nil}
        /\ H[p] = 1 + Larger(H[Kid(h, p, a)], H[Kid(h, p, -a)])
    BY <1>2 DEF SideOK
  <2>2. Kid(h, p, d) = Kid(h, p, -a) /\ Kid(h, p, -d) = Kid(h, p, a)
    BY <1>1 DEF a
  <2> QED
    BY <1>2, <2>1, <2>2 DEF Counts
<1>4. t = h.parent[p]
  BY DEF HangsFrom
<1>5. Shrink(h, p, d) =
        IF h.balance[p] = 0
        THEN [h |-> [h EXCEPT !.balance[p] = a], top |-> p, shorter |-> FALSE]
        ELSE IF h.balance[p] = d
        THEN [h |-> [h EXCEPT !.balance[p] = 0], top |-> p, shorter |-> TRUE]
        ELSE IF h.balance[q] = 0
        THEN [h |-> Replace([SingleRotation(h, p, a) EXCEPT !.balance[q] = d,
                                                            !.balance[p] = a], t, p, q),
              top |-> q, shorter |-> FALSE]
        ELSE IF h.balance[q] = h.balance[p]
        THEN [h |-> Replace([SingleRotation(h, p, a) EXCEPT !.balance[q] = 0,
                                                            !.balance[p] = 0], t, p, q),
              top |-> q, shorter |-> TRUE]
        ELSE [h |-> Replace(DoubleBalance(DoubleRotation(h, p, a), p, q, r, a), t, p, r),
              top |-> r, shorter |-> TRUE]
  BY <1>1, <1>4, Zenon DEF Shrink, a
<1> HIDE DEF q, r, x
<1>6. CASE h.balance[p] = 0
  <2>1. w = [h |-> [h EXCEPT !.balance[p] = a], top |-> p, shorter |-> FALSE]
    BY <1>5, <1>6
  <2>2. a = Lean(a, H[q], x) /\ a \in -1 .. 1 /\ H[p] = 1 + Larger(i, j)
    <3>1. CASE d = -1
      BY <1>1, <1>3, <1>6, <3>1 DEF Lean, Larger
    <3>2. CASE d = 1
      BY <1>1, <1>3, <1>6, <3>2 DEF Lean, Larger
    <3> QED
      BY <3>1, <3>2 DEF Sides
  <2>3. Rebalanced(h, [h EXCEPT !.balance[p] = a], N, S, I, H, t, p, p, H[p])
    BY <1>1, <1>2, <2>2, BalanceFits DEF q, x
  <2> QED
    BY <2>1, <2>2, <2>3
<1>7. CASE h.balance[p] = d
  <2>1. w = [h |-> [h EXCEPT !.balance[p] = 0], top |-> p, shorter |-> TRUE]
    BY <1>1, <1>5, <1>7 DEF Sides
  <2>2. 0 = Lean(a, H[q], x) /\ 0 \in -1 .. 1 /\ H[p] = Larger(i, j)
    <3>1. CASE d = -1
      BY <1>1, <1>3, <1>7, <3>1 DEF Lean, Larger
    <3>2. CASE d = 1
      BY <1>1, <1>3, <1>7, <3>2 DEF Lean, Larger
    <3> QED
      BY <3>1, <3>2 DEF Sides
  <2>3. Rebalanced(h, [h EXCEPT !.balance[p] = 0], N, S, I, H, t, p, p, H[p])
    BY <1>1, <1>2, <2>2, BalanceFits DEF q, x
  <2> QED
    BY <2>1, <2>2, <2>3
<1>8. CASE h.balance[p] # 0 /\ h.balance[p] # d
  <2>1. h.balance[p] = a /\ H[q] = x + 2 /\ Larger(i, j) = x + 2
    <3>1. CASE d = -1
      BY <1>1, <1>3, <1>8, <3>1 DEF Lean, Larger
    <3>2. CASE d = 1
      BY <1>1, <1>3, <1>8, <3>2 DEF Lean, Larger
    <3> QED
      BY <3>1, <3>2 DEF Sides
  <2> DEFINE k == SingleRotation(h, p, a)
             m == DoubleRotation(h, p, a)
             A == Kid(h, q, a)
             D == Kid(h, p, -a)
             B == Kid(h, r, a)
             C == Kid(h, r, -a)
  <2>2. /\ Bent(h, N, S, a, t, p, q, A, r, D)
        /\ q \in S /\ q # p /\ h.balance[q] \in {0, a, -a}
        /\ SinglyRotated(h, k, N, a, p, q, r)
        /\ h.balance[q] = -a =>
              /\ r \in S /\ r # q /\ r # p
              /\ Crooked(h, N, S, a, t, p, q, r, A, B, C, D)
              /\ DoublyRotated(h, m, N, a, p, q, r, B, C)
    <3>1. q = Kid(h, p, a) /\ r = Kid(h, q, -a) /\ H[Kid(h, p, a)] = H[Kid(h, p, -a)] + 2
      BY <2>1 DEF q, r, x
    <3> QED
      BY <1>1, <1>2, <3>1, RotationFinds
  <2>3. x = H[D]
    BY DEF x
  <2> HIDE DEF k, m, A, B, C, D
  <2>4. k \in Heaps(N) /\ k.balance = h.balance /\ p \in N /\ q \in N
    BY <2>2 DEF SinglyRotated
  <2>5. CASE h.balance[q] = 0
    <3>1. w = [h |-> Replace([k EXCEPT !.balance[q] = d, !.balance[p] = a], t, p, q),
               top |-> q, shorter |-> FALSE]
      BY <1>5, <1>8, <2>5 DEF k
    <3>2. [k EXCEPT !.balance[q] = d, !.balance[p] = a]
          = [k EXCEPT !.balance = [k.balance EXCEPT ![q] = d, ![p] = a]]
      BY <1>1, <2>4 DEF Heaps, Sides
    <3>3. [k.balance EXCEPT ![q] = d, ![p] = a] =
          [h.balance EXCEPT ![p] = IF h.balance[q] = 0 THEN a ELSE 0,
                            ![q] = IF h.balance[q] = 0 THEN -a ELSE 0]
      BY <1>1, <2>2, <2>4, <2>5 DEF Heaps
    <3>4. Rebalanced(h, w.h, N, S, I, H, t, p, q, H[D] + IF h.balance[q] = 0 THEN 3 ELSE 2)
      <4>1. w.h = Replace([SingleRotation(h, p, a) EXCEPT
                              !.balance = [h.balance EXCEPT
                                              ![p] = IF h.balance[q] = 0 THEN a ELSE 0,
                                              ![q] = IF h.balance[q] = 0 THEN -a ELSE 0]], t, p, q)
        BY <3>1, <3>2, <3>3 DEF k
      <4> QED
        BY <1>2, <2>1, <2>2, <2>3, <2>5, <4>1, SingleFits
    <3>5. H[D] + (IF h.balance[q] = 0 THEN 3 ELSE 2) = 1 + Larger(i, j)
      BY <1>3, <2>1, <2>3, <2>5
    <3> QED
      BY <3>1, <3>4, <3>5
  <2>6. CASE h.balance[q] = a
    <3>0. a # 0
      BY <1>1 DEF Sides
    <3>1. w = [h |-> Replace([k EXCEPT !.balance[q] = 0, !.balance[p] = 0], t, p, q),
               top |-> q, shorter |-> TRUE]
      BY <1>5, <1>8, <2>1, <2>6, <3>0 DEF k
    <3>2. [k EXCEPT !.balance[q] = 0, !.balance[p] = 0]
          = [k EXCEPT !.balance = [k.balance EXCEPT ![q] = 0, ![p] = 0]]
      BY <2>4 DEF Heaps
    <3>3. [k.balance EXCEPT ![q] = 0, ![p] = 0] =
          [h.balance EXCEPT ![p] = IF h.balance[q] = 0 THEN a ELSE 0,
                            ![q] = IF h.balance[q] = 0 THEN -a ELSE 0]
      BY <2>2, <2>4, <2>6, <3>0 DEF Heaps
    <3>4. Rebalanced(h, w.h, N, S, I, H, t, p, q, H[D] + IF h.balance[q] = 0 THEN 3 ELSE 2)
      <4>1. w.h = Replace([SingleRotation(h, p, a) EXCEPT
                              !.balance = [h.balance EXCEPT
                                              ![p] = IF h.balance[q] = 0 THEN a ELSE 0,
                                              ![q] = IF h.balance[q] = 0 THEN -a ELSE 0]], t, p, q)
        BY <3>1, <3>2, <3>3 DEF k
      <4> QED
        BY <1>2, <2>1, <2>2, <2>3, <2>6, <4>1, SingleFits
    <3>5. H[D] + (IF h.balance[q] = 0 THEN 3 ELSE 2) = Larger(i, j)
      BY <1>3, <2>1, <2>3, <2>6, <3>0
    <3> QED
      BY <3>1, <3>4, <3>5
  <2>7. CASE h.balance[q] = -a
    <3>0. -a # 0 /\ -a # a
      BY <1>1 DEF Sides
    <3>1. w = [h |-> Replace(DoubleBalance(m, p, q, r, a), t, p, r), top |-> r, shorter |-> TRUE]
      BY <1>5, <1>8, <2>1, <2>7, <3>0 DEF m
    <3>2. m \in Heaps(N) /\ m.balance = h.balance /\ r \in N
      BY <2>2, <2>7 DEF DoublyRotated
    <3>3. DoubleBalance(m, p, q, r, a) = WithBalance(m, TwistedBalance(m.balance, a, p, q, r))
      BY <1>1, <2>4, <3>2, DoubleBalanceIs
    <3>4. w.h = Replace([DoubleRotation(h, p, a) EXCEPT
                            !.balance = [h.balance EXCEPT ![p] = IF h.balance[r] = a THEN -a ELSE 0,
                                                          ![q] = IF h.balance[r] = -a THEN a ELSE 0,
                                                          ![r] = 0]], t, p, r)
      BY <3>1, <3>2, <3>3 DEF m, WithBalance, TwistedBalance
    <3>5. Rebalanced(h, w.h, N, S, I, H, t, p, r, H[D] + 2)
      BY <1>2, <2>1, <2>2, <2>3, <2>7, <3>4, DoubleFits
    <3>6. H[D] + 2 = Larger(i, j)
      BY <2>1, <2>3
    <3> QED
      BY <3>1, <3>5, <3>6
  <2> QED
    BY <2>2, <2>5, <2>6, <2>7
<1> QED
  BY <1>6, <1>7, <1>8

\* The "balancing act" of avl_insert (BalancingAct).  Let the subtree of s be in
\* order and balanced, but for side a of s, which has just grown by one, so that
\* s's balance factor is that of the old height; and if s had been leaning to
\* side a already, let its kid there lean to one side, as the kids on the way
\* down to the new node do.  Then the act leaves the nodes in the same order,
\* every node of the subtree is balanced and has the right links, rank and
\* balance factor, nothing changes outside of the subtree but the link to its
\* top, and the subtree is as tall as before the insertion, unless s had been
\* balanced.
THEOREM BalancingActRebalances ==
    ASSUME NEW N, NEW S \in SUBSET N, Nil \notin N, NEW h \in Heaps(N), NEW I, NEW H,
           Subtree(h, S, I, H), NEW s \in S, NEW t \in N \ S, HangsFrom(h, S, t, s),
           Balanced(h, S \ {s}, H),
           NEW a \in Sides,
           NEW i, i = H[Kid(h, s, a)] - 1, NEW j, j = H[Kid(h, s, -a)],
           h.balance[s] = Lean(a, i, j), h.balance[s] \in -1 .. 1,
           h.balance[s] = a => h.balance[Kid(h, s, a)] # 0
    PROVE  \E top : Rebalanced(h, BalancingAct(h, t, s, a), N, S, I, H, t, s, top,
                               1 + Larger(i, j) + IF h.balance[s] = 0 THEN 1 ELSE 0)
<1> DEFINE r == Kid(h, s, a)
           p == Kid(h, r, -a)
           D == Kid(h, s, -a)
           g == BalancingAct(h, t, s, a)
<1>1. /\ -a \in Sides /\ -a # a
      /\ a = -1 => -a = 1
      /\ a = 1 => -a = -1
  BY OtherSide
<1>2. Counts(S, I, H) /\ SideOK(h, S, I, H, a, s) /\ \A n \in S \ {s} : LeanOK(h, H, a, n)
  BY FromSide, LeanFromSide
<1>3. /\ r \in S \cup {Nil} /\ D \in S \cup {Nil} /\ H[r] \in Nat /\ H[D] \in Nat
      /\ H[s] = 1 + Larger(H[r], H[D])
      /\ i = H[r] - 1 /\ j = H[D]
  BY <1>2 DEF Counts, SideOK
<1>4. g = IF h.balance[s] = 0 THEN [h EXCEPT !.balance[s] = a]
          ELSE IF h.balance[s] = -a THEN [h EXCEPT !.balance[s] = 0]
          ELSE IF h.balance[r] = a
          THEN Replace([SingleRotation(h, s, a) EXCEPT !.balance[s] = 0, !.balance[r] = 0], t, s, r)
          ELSE Replace(DoubleBalance(DoubleRotation(h, s, a), s, r, p, a), t, s, p)
  BY DEF BalancingAct
<1> HIDE DEF r, p, D, g
<1>5. CASE h.balance[s] = 0
  <2>1. g = [h EXCEPT !.balance[s] = a]
    BY <1>4, <1>5
  <2>2. a = Lean(a, H[r], H[D]) /\ a \in -1 .. 1 /\ H[s] = 1 + Larger(i, j) + 1
    <3>1. CASE a = -1
      BY <1>1, <1>3, <1>5, <3>1 DEF Lean, Larger
    <3>2. CASE a = 1
      BY <1>1, <1>3, <1>5, <3>2 DEF Lean, Larger
    <3> QED
      BY <3>1, <3>2 DEF Sides
  <2>3. Rebalanced(h, g, N, S, I, H, t, s, s, H[s])
    BY <1>2, <2>1, <2>2, BalanceFits DEF r, D
  <2> QED
    BY <1>5, <2>2, <2>3 DEF g
<1>6. CASE h.balance[s] = -a
  <2>0. -a # 0
    BY <1>1 DEF Sides
  <2>1. g = [h EXCEPT !.balance[s] = 0]
    BY <1>4, <1>6, <2>0
  <2>2. 0 = Lean(a, H[r], H[D]) /\ 0 \in -1 .. 1 /\ H[s] = 1 + Larger(i, j) + 0
    <3>1. CASE a = -1
      BY <1>1, <1>3, <1>6, <3>1 DEF Lean, Larger
    <3>2. CASE a = 1
      BY <1>1, <1>3, <1>6, <3>2 DEF Lean, Larger
    <3> QED
      BY <3>1, <3>2 DEF Sides
  <2>3. Rebalanced(h, g, N, S, I, H, t, s, s, H[s])
    BY <1>2, <2>1, <2>2, BalanceFits DEF r, D
  <2> QED
    BY <1>6, <2>0, <2>2, <2>3 DEF g
<1>7. CASE h.balance[s] # 0 /\ h.balance[s] # -a
  <2>1. h.balance[s] = a /\ H[r] = H[D] + 2 /\ 1 + Larger(i, j) + 0 = H[D] + 2
    <3>1. CASE a = -1
      BY <1>1, <1>3, <1>7, <3>1 DEF Lean, Larger
    <3>2. CASE a = 1
      BY <1>1, <1>3, <1>7, <3>2, SMTT(30) DEF Lean, Larger
    <3> QED
      BY <3>1, <3>2 DEF Sides
  <2> DEFINE k == SingleRotation(h, s, a)
             m == DoubleRotation(h, s, a)
             A == Kid(h, r, a)
             B == Kid(h, p, a)
             C == Kid(h, p, -a)
  <2>2. /\ Bent(h, N, S, a, t, s, r, A, p, D)
        /\ r \in S /\ r # s /\ h.balance[r] \in {0, a, -a}
        /\ SinglyRotated(h, k, N, a, s, r, p)
        /\ h.balance[r] = -a =>
              /\ p \in S /\ p # r /\ p # s
              /\ Crooked(h, N, S, a, t, s, r, p, A, B, C, D)
              /\ DoublyRotated(h, m, N, a, s, r, p, B, C)
    <3>1. r = Kid(h, s, a) /\ p = Kid(h, r, -a) /\ H[Kid(h, s, a)] = H[Kid(h, s, -a)] + 2
      BY <2>1 DEF r, p, D
    <3> QED
      BY <1>2, <3>1, RotationFinds DEF D
  <2> HIDE DEF k, m, A, B, C
  <2>4. k \in Heaps(N) /\ k.balance = h.balance /\ s \in N /\ r \in N
    BY <2>2 DEF SinglyRotated
  <2>5. CASE h.balance[r] = a
    <3>0. a # 0
      BY <1>1 DEF Sides
    <3>1. g = Replace([k EXCEPT !.balance[s] = 0, !.balance[r] = 0], t, s, r)
      BY <1>4, <1>7, <2>5 DEF k
    <3>2. [k EXCEPT !.balance[s] = 0, !.balance[r] = 0]
          = [k EXCEPT !.balance = [k.balance EXCEPT ![s] = 0, ![r] = 0]]
      BY <2>4 DEF Heaps
    <3>3. [k.balance EXCEPT ![s] = 0, ![r] = 0] =
          [h.balance EXCEPT ![s] = IF h.balance[r] = 0 THEN a ELSE 0,
                            ![r] = IF h.balance[r] = 0 THEN -a ELSE 0]
      BY <2>2, <2>4, <2>5, <3>0 DEF Heaps
    <3>4. Rebalanced(h, g, N, S, I, H, t, s, r, H[D] + IF h.balance[r] = 0 THEN 3 ELSE 2)
      <4>1. g = Replace([SingleRotation(h, s, a) EXCEPT
                            !.balance = [h.balance EXCEPT
                                            ![s] = IF h.balance[r] = 0 THEN a ELSE 0,
                                            ![r] = IF h.balance[r] = 0 THEN -a ELSE 0]], t, s, r)
        BY <3>1, <3>2, <3>3 DEF k
      <4> QED
        BY <1>2, <2>1, <2>2, <2>5, <4>1, SingleFits
    <3> QED
      BY <1>7, <2>1, <2>5, <3>0, <3>4 DEF g
  <2>6. CASE h.balance[r] = -a
    <3>1. g = Replace(DoubleBalance(m, s, r, p, a), t, s, p)
      BY <1>1, <1>4, <1>7, <2>6 DEF m
    <3>2. m \in Heaps(N) /\ m.balance = h.balance /\ p \in N
      BY <2>2, <2>6 DEF DoublyRotated
    <3>3. DoubleBalance(m, s, r, p, a) = WithBalance(m, TwistedBalance(m.balance, a, s, r, p))
      BY <2>4, <3>2, DoubleBalanceIs
    <3>4. g = Replace([DoubleRotation(h, s, a) EXCEPT
                          !.balance = [h.balance EXCEPT ![s] = IF h.balance[p] = a THEN -a ELSE 0,
                                                        ![r] = IF h.balance[p] = -a THEN a ELSE 0,
                                                        ![p] = 0]], t, s, p)
      BY <3>1, <3>2, <3>3 DEF m, WithBalance, TwistedBalance
    <3>5. Rebalanced(h, g, N, S, I, H, t, s, p, H[D] + 2)
      BY <1>2, <2>1, <2>2, <2>6, <3>4, DoubleFits
    <3> QED
      BY <1>7, <2>1, <3>5 DEF g
  <2> QED
    BY <2>1, <2>2, <2>5, <2>6 DEF r
<1> QED
  BY <1>5, <1>6, <1>7

-----------------------------------------------------------------------------
(* A turn of the climb in the whole tree                                   *)

\* The nodes T are the tree: they hang from Root, below one another.
Rooted(h, N, T) ==
    /\ T \subseteq N /\ Root \in N \ T /\ Nil \notin N
    /\ h \in Heaps(N) /\ h.parent[Root] = Nil /\ Kid(h, Root, -1) = Nil
    /\ Linked(h, T \cup {Root})
    /\ \A n \in T : h.parent[n] \in T \cup {Root} /\ Known(h, n)

\* The height of side e of n as the balance factors have it: side d of p has got
\* shorter by one, and nothing above it knows yet.
Seen(h, H, p, d, n, e) == H[Kid(h, n, e)] + IF n = p /\ e = d THEN 1 ELSE 0

\* Heights and balance factors agree but for that.
Reckoned(h, T, H, p, d) ==
    /\ H \in [T \cup {Nil} -> Nat] /\ H[Nil] = 0
    /\ \A n \in T : /\ H[n] = 1 + Larger(Seen(h, H, p, d, n, -1), Seen(h, H, p, d, n, 1))
                    /\ h.balance[n] = Seen(h, H, p, d, n, 1) - Seen(h, H, p, d, n, -1)
                    /\ h.balance[n] \in -1 .. 1

\* The tree while avl_delete climbs: at p, whose side d has got shorter.
Deficient(h, N, T, I, H, p, d) ==
    /\ Rooted(h, N, T) /\ Ordered(h, T, I) /\ Ranked(h, T, I)
    /\ p \in T /\ d \in Sides /\ Reckoned(h, T, H, p, d)

\* The tree between two calls.
Whole(h, N, T, I, H) == Rooted(h, N, T) /\ Subtree(h, T, I, H) /\ Balanced(h, T, H)

\* Nothing is owed at Nil.
LEMMA ReckonedWhole ==
    ASSUME NEW h, NEW N, NEW T, Nil \notin N, T \subseteq N, NEW H, NEW d
    PROVE  Reckoned(h, T, H, Nil, d) /\ Linked(h, T) <=> Tall(h, T, H) /\ Balanced(h, T, H) /\ Linked(h, T)
<1>1. SUFFICES ASSUME Linked(h, T), H \in [T \cup {Nil} -> Nat]
               PROVE  Reckoned(h, T, H, Nil, d) <=> Tall(h, T, H) /\ Balanced(h, T, H)
  BY DEF Reckoned, Tall
<1>2. ASSUME NEW n \in T, NEW e \in Sides
      PROVE  Seen(h, H, Nil, d, n, e) = H[Kid(h, n, e)]
  <2>1. n # Nil /\ Kid(h, n, e) \in T \cup {Nil}
    BY <1>1 DEF Linked
  <2> QED
    BY <1>1, <2>1 DEF Seen
<1> QED
  BY <1>1, <1>2 DEF Reckoned, Tall, Balanced, Sides

\* Linked without Root: no node's kid is Root.
LEMMA RootedLinks ==
    ASSUME NEW h, NEW N, NEW T, Rooted(h, N, T)
    PROVE  /\ Linked(h, T)
           /\ Kid(h, Root, 1) \in T \cup {Nil}
           /\ Kid(h, Root, 1) # Nil => h.parent[Kid(h, Root, 1)] = Root
<1>1. ASSUME NEW n \in T \cup {Root}, NEW e \in Sides
      PROVE  Kid(h, n, e) \in T \cup {Nil}
  <2>1. /\ Kid(h, n, e) \in T \cup {Root} \cup {Nil}
        /\ Kid(h, n, e) # Nil => h.parent[Kid(h, n, e)] = n
    BY DEF Rooted, Linked
  <2>2. Kid(h, n, e) # Root
    BY <2>1 DEF Rooted, Root, Nil
  <2> QED
    BY <2>1, <2>2
<1> QED
  BY <1>1 DEF Rooted, Linked, Sides

\* What stands below a node of a set that contains the kids of its nodes stands
\* in that set.
LEMMA OrderWithin ==
    ASSUME NEW h, NEW T, NEW S, S \subseteq T, NEW I, Ordered(h, T, I),
           NEW H, H \in [T \cup {Nil} -> Nat],
           \A n \in S, e \in Sides : /\ Kid(h, n, e) \in S \cup {Nil}
                                     /\ Kid(h, n, e) # Nil => H[Kid(h, n, e)] < H[n]
    PROVE  \A n \in S : I[n] \in Seq(S)
<1> DEFINE P == {k \in Nat : \A n \in S : H[n] < k => I[n] \in Seq(S)}
<1>1. 0 \in P
  <2>1. \A n \in S : ~(H[n] < 0)
    OBVIOUS
  <2> QED
    BY <2>1
<1>2. ASSUME NEW k \in P \cap Nat PROVE k + 1 \in P
  <2> SUFFICES ASSUME NEW n \in S, H[n] < k + 1 PROVE I[n] \in Seq(S)
    OBVIOUS
  <2>1. ASSUME NEW e \in Sides PROVE I[Kid(h, n, e)] \in Seq(S)
    <3>1. CASE Kid(h, n, e) = Nil
      BY <3>1 DEF Ordered
    <3>2. CASE Kid(h, n, e) # Nil
      <4>1. Kid(h, n, e) \in S /\ H[Kid(h, n, e)] < H[n] /\ H[n] \in Nat /\ H[Kid(h, n, e)] \in Nat
        BY <3>2
      <4>2. H[Kid(h, n, e)] < k
        BY <4>1
      <4> QED
        BY <4>1, <4>2
    <3> QED
      BY <3>1, <3>2
  <2>2. I[n] = I[Kid(h, n, -1)] \o <<n>> \o I[Kid(h, n, 1)]
    BY DEF Ordered
  <2>3. I[Kid(h, n, -1)] \in Seq(S) /\ I[Kid(h, n, 1)] \in Seq(S) /\ <<n>> \in Seq(S)
    BY <2>1 DEF Sides
  <2> HIDE DEF P
  <2>4. I[Kid(h, n, -1)] \o <<n>> \in Seq(S)
    BY <2>3, ConcatProperties
  <2>5. (I[Kid(h, n, -1)] \o <<n>>) \o I[Kid(h, n, 1)] \in Seq(S)
    BY <2>3, <2>4, ConcatProperties
  <2> QED
    BY <2>2, <2>5
<1>3. Nat \subseteq P
  <2> HIDE DEF P
  <2> QED
    BY <1>1, <1>2, NatSetInduction
<1>4. ASSUME NEW n \in S PROVE I[n] \in Seq(S)
  <2>1. H[n] \in Nat /\ H[n] + 1 \in P
    BY <1>3
  <2> QED
    BY <2>1
<1> QED
  BY <1>4

\* The heights below t, p's subtree among them.
Below(T, H, t) == IF t = Root THEN T ELSE {n \in T : H[n] < H[t]}

\* The heights of the nodes S as they are, p on top of the side that got shorter.
Actual(h, S, H, p) == [n \in S \cup {Nil} |-> IF n = p THEN 1 + Larger(H[Kid(h, p, -1)], H[Kid(h, p, 1)])
                                              ELSE H[n]]

\* What the climb has to do with when it comes to p, whose parent is t.
Found(h, T, H, p, d, t, S, J, K) ==
    /\ p \in S /\ S \subseteq T /\ t \in T \cup {Root} /\ t \notin S
    /\ \A n \in S, e \in Sides : Kid(h, n, e) \in S \cup {Nil}
    /\ \A e \in Sides : t \in T => Kid(h, t, e) \in S \cup {Nil}
    /\ Subtree(h, S, J, K) /\ Balanced(h, S \ {p}, K) /\ HangsFrom(h, S, t, p)
    /\ \A e \in Sides : K[Kid(h, p, e)] = H[Kid(h, p, e)] /\ H[Kid(h, p, e)] \in Nat
    /\ H[p] = 1 + Larger(H[Kid(h, p, d)] + 1, H[Kid(h, p, -d)])
    /\ h.balance[p] = Lean(d, H[Kid(h, p, d)] + 1, H[Kid(h, p, -d)])
    /\ h.balance[p] \in -1 .. 1

LEMMA ClimbFinds ==
    ASSUME NEW h, NEW N, NEW T, NEW I, NEW H, NEW p, NEW d, Deficient(h, N, T, I, H, p, d),
           NEW t, t = h.parent[p], NEW S, S = Below(T, H, t),
           NEW K, K = Actual(h, S, H, p), NEW J, J = [n \in S \cup {Nil} |-> I[n]]
    PROVE  Found(h, T, H, p, d, t, S, J, K)
<1>1. /\ Linked(h, T) /\ p \in T /\ d \in Sides /\ Root \notin T /\ Nil \notin T
      /\ H \in [T \cup {Nil} -> Nat] /\ H[Nil] = 0
      /\ t \in T \cup {Root} /\ Known(h, p)
      /\ Kid(h, Root, -1) = Nil
  BY RootedLinks DEF Deficient, Rooted, Reckoned
<1>2. ASSUME NEW n \in T, NEW e \in Sides
      PROVE  /\ Kid(h, n, e) \in T \cup {Nil} /\ Seen(h, H, p, d, n, e) \in Nat
             /\ H[Kid(h, n, e)] \in Nat
             /\ Kid(h, n, e) # Nil => h.parent[Kid(h, n, e)] = n
             /\ H[Kid(h, n, e)] < H[n]
             /\ ~(n = p /\ e = d) => Seen(h, H, p, d, n, e) = H[Kid(h, n, e)]
             /\ n = p /\ e = d => Seen(h, H, p, d, n, e) = H[Kid(h, n, e)] + 1
  <2>1. Kid(h, n, e) \in T \cup {Nil} /\ H[Kid(h, n, e)] \in Nat
        /\ (Kid(h, n, e) # Nil => h.parent[Kid(h, n, e)] = n)
    BY <1>1 DEF Linked
  <2>2. /\ Seen(h, H, p, d, n, e) \in Nat /\ H[Kid(h, n, e)] <= Seen(h, H, p, d, n, e)
        /\ ~(n = p /\ e = d) => Seen(h, H, p, d, n, e) = H[Kid(h, n, e)]
        /\ n = p /\ e = d => Seen(h, H, p, d, n, e) = H[Kid(h, n, e)] + 1
    BY <2>1 DEF Seen
  <2>3. \A x \in Sides : Kid(h, n, x) \in T \cup {Nil} /\ H[Kid(h, n, x)] \in Nat
    BY <1>1 DEF Linked
  <2>4. Seen(h, H, p, d, n, -1) \in Nat /\ Seen(h, H, p, d, n, 1) \in Nat
    BY <2>3 DEF Seen, Sides
  <2>5. H[n] = 1 + Larger(Seen(h, H, p, d, n, -1), Seen(h, H, p, d, n, 1)) /\ H[n] \in Nat
    BY <1>1 DEF Deficient, Reckoned
  <2>6. e = -1 \/ e = 1
    BY DEF Sides
  <2>7. Seen(h, H, p, d, n, e) < H[n]
    BY <2>4, <2>5, <2>6 DEF Larger
  <2> QED
    BY <2>1, <2>2, <2>5, <2>7
<1>3. PICK x \in {-1, 1} : Kid(h, t, x) = p
  BY <1>1 DEF Known, Sides
<1>4. t \in T => H[p] < H[t]
  BY <1>2, <1>3 DEF Sides
<1>5. p \in S /\ S \subseteq T /\ t \notin S
  BY <1>1, <1>2, <1>4 DEF Below
<1>6. ASSUME NEW n \in S, NEW e \in Sides PROVE Kid(h, n, e) \in S \cup {Nil}
  <2>1. /\ n \in T /\ Kid(h, n, e) \in T \cup {Nil} /\ H[Kid(h, n, e)] < H[n]
        /\ H[n] \in Nat /\ H[Kid(h, n, e)] \in Nat
    BY <1>1, <1>2, <1>5
  <2>2. CASE t = Root
    BY <2>1, <2>2 DEF Below
  <2>3. CASE t # Root
    <3>1. t \in T /\ H[t] \in Nat /\ H[n] < H[t]
      BY <1>1, <2>3 DEF Below
    <3> QED
      BY <2>1, <2>3, <3>1 DEF Below
  <2> QED
    BY <2>2, <2>3
<1>7. \A e \in Sides : t \in T => Kid(h, t, e) \in S \cup {Nil}
  BY <1>1, <1>2 DEF Below
<1>8. ASSUME NEW n \in S, NEW e \in Sides PROVE Kid(h, n, e) # p
  BY <1>2, <1>5, <1>1
<1>9. HangsFrom(h, S, t, p)
  <2>1. CASE t = Root
    <3>1. x = 1 /\ Kid(h, t, -1) # p
      BY <1>1, <1>3, <2>1
    <3>2. 1 \in Sides /\ Kid(h, t, 1) = p /\ Kid(h, t, -1) = Nil /\ Nil \notin S /\ p # Nil
      BY <1>1, <1>3, <1>5, <2>1, <3>1 DEF Sides
    <3> QED
      BY <3>2 DEF HangsFrom
  <2>2. CASE t \in T
    <3>1. /\ Kid(h, t, -1) = Kid(h, t, 1) => Kid(h, t, 1) = Nil
          /\ \A e \in Sides : Kid(h, t, e) # Nil => h.parent[Kid(h, t, e)] = t
      BY <1>1, <2>2 DEF Linked
    <3>2. -x \in Sides /\ x \in Sides /\ Kid(h, t, -x) # p
      BY <1>1, <1>3, <3>1 DEF Sides
    <3>3. Kid(h, t, -x) \in S => h.parent[Kid(h, t, -x)] = t
      BY <1>1, <1>5, <3>1, <3>2
    <3> QED
      BY <1>3, <3>2, <3>3 DEF HangsFrom
  <2> QED
    BY <1>1, <2>1, <2>2
<1>10. /\ K \in [S \cup {Nil} -> Nat] /\ K[Nil] = 0
       /\ K[p] = 1 + Larger(H[Kid(h, p, -1)], H[Kid(h, p, 1)])
       /\ \A n \in S \cup {Nil} : n # p => K[n] = H[n]
  <2>1. H[Kid(h, p, -1)] \in Nat /\ H[Kid(h, p, 1)] \in Nat
    BY <1>1, <1>2 DEF Sides
  <2>2. 1 + Larger(H[Kid(h, p, -1)], H[Kid(h, p, 1)]) \in Nat
    BY <2>1 DEF Larger
  <2> QED
    BY <1>1, <1>5, <2>2 DEF Actual
<1>11. ASSUME NEW n \in S, NEW e \in Sides PROVE K[Kid(h, n, e)] = H[Kid(h, n, e)]
  BY <1>6, <1>8, <1>10
<1>12. /\ J \in [S \cup {Nil} -> Seq(S)] /\ J[Nil] = << >>
       /\ \A n \in S \cup {Nil} : J[n] = I[n]
  <2>0. Ordered(h, T, I)
    BY DEF Deficient
  <2>1. \A n \in S : I[n] \in Seq(S)
    BY <1>1, <1>2, <1>5, <1>6, <2>0, OrderWithin
  <2>2. I[Nil] = << >> /\ << >> \in Seq(S)
    BY <2>0 DEF Ordered
  <2> QED
    BY <2>1, <2>2
<1>13. ASSUME NEW n \in S
       PROVE  /\ J[n] = J[Kid(h, n, -1)] \o <<n>> \o J[Kid(h, n, 1)]
              /\ h.rank[n] = Len(J[Kid(h, n, -1)]) + 1
  <2>1. J[n] = I[n] /\ J[Kid(h, n, -1)] = I[Kid(h, n, -1)] /\ J[Kid(h, n, 1)] = I[Kid(h, n, 1)]
    BY <1>6, <1>12 DEF Sides
  <2>2. n \in T
    BY <1>5
  <2>3. /\ I[n] = I[Kid(h, n, -1)] \o <<n>> \o I[Kid(h, n, 1)]
        /\ h.rank[n] = Len(I[Kid(h, n, -1)]) + 1
    BY <2>2 DEF Deficient, Ordered, Ranked
  <2> QED
    BY <2>1, <2>3, Zenon
<1>14. ASSUME NEW n \in S
       PROVE  /\ K[n] = 1 + Larger(K[Kid(h, n, -1)], K[Kid(h, n, 1)])
              /\ n # p => /\ h.balance[n] = K[Kid(h, n, 1)] - K[Kid(h, n, -1)]
                          /\ h.balance[n] \in -1 .. 1
  <2>1. K[Kid(h, n, -1)] = H[Kid(h, n, -1)] /\ K[Kid(h, n, 1)] = H[Kid(h, n, 1)]
    BY <1>11 DEF Sides
  <2>2. CASE n = p
    BY <1>10, <2>1, <2>2
  <2>3. CASE n # p
    <3>1. /\ n \in T /\ K[n] = H[n]
          /\ Seen(h, H, p, d, n, -1) = H[Kid(h, n, -1)]
          /\ Seen(h, H, p, d, n, 1) = H[Kid(h, n, 1)]
      BY <1>2, <1>5, <1>10, <2>3 DEF Sides
    <3>2. /\ H[n] = 1 + Larger(Seen(h, H, p, d, n, -1), Seen(h, H, p, d, n, 1))
          /\ h.balance[n] = Seen(h, H, p, d, n, 1) - Seen(h, H, p, d, n, -1)
          /\ h.balance[n] \in -1 .. 1
      BY <3>1 DEF Deficient, Reckoned
    <3> QED
      BY <2>1, <3>1, <3>2
  <2> QED
    BY <2>2, <2>3
<1>15. Linked(h, S)
  BY <1>1, <1>5, <1>6 DEF Linked
<1>16. Subtree(h, S, J, K) /\ Balanced(h, S \ {p}, K)
  BY <1>10, <1>12, <1>13, <1>14, <1>15 DEF Subtree, Ordered, Tall, Ranked, Balanced
<1>17. /\ H[p] = 1 + Larger(H[Kid(h, p, d)] + 1, H[Kid(h, p, -d)])
       /\ h.balance[p] = Lean(d, H[Kid(h, p, d)] + 1, H[Kid(h, p, -d)])
       /\ h.balance[p] \in -1 .. 1
  <2>1. /\ H[p] = 1 + Larger(Seen(h, H, p, d, p, -1), Seen(h, H, p, d, p, 1))
        /\ h.balance[p] = Seen(h, H, p, d, p, 1) - Seen(h, H, p, d, p, -1)
        /\ h.balance[p] \in -1 .. 1
    BY <1>1 DEF Deficient, Reckoned
  <2>2. H[Kid(h, p, -1)] \in Nat /\ H[Kid(h, p, 1)] \in Nat
    BY <1>1, <1>2 DEF Sides
  <2>3. CASE d = -1
    <3>1. -d = 1
      BY <2>3, OtherSide, <1>1, Zenon
    <3>2. /\ Seen(h, H, p, d, p, -1) = H[Kid(h, p, -1)] + 1
          /\ Seen(h, H, p, d, p, 1) = H[Kid(h, p, 1)]
      BY <1>1, <1>2, <2>3 DEF Sides
    <3>3. Kid(h, p, -d) = Kid(h, p, 1) /\ Kid(h, p, d) = Kid(h, p, -1)
      BY <2>3, <3>1, Zenon
    <3> QED
      BY <2>1, <2>3, <3>2, <3>3 DEF Lean
  <2>4. CASE d = 1
    <3>2. /\ Seen(h, H, p, d, p, -1) = H[Kid(h, p, -1)]
          /\ Seen(h, H, p, d, p, 1) = H[Kid(h, p, 1)] + 1
      BY <1>1, <1>2, <2>4 DEF Sides
    <3>3. Kid(h, p, -d) = Kid(h, p, -1) /\ Kid(h, p, d) = Kid(h, p, 1)
      BY <2>4
    <3> QED
      BY <2>1, <2>2, <2>4, <3>2, <3>3 DEF Lean, Larger
  <2> QED
    BY <1>1, <2>3, <2>4 DEF Sides
<1> QED
  BY <1>1, <1>2, <1>5, <1>6, <1>7, <1>9, <1>11, <1>16, <1>17 DEF Found

\* What stands in S comes from A, what stands elsewhere from B.
Glued(A, B, S, T) == [n \in T \cup {Nil} |-> IF n \in S THEN A[n] ELSE B[n]]

\* What is left by the turn w, after which the climb would be at side e of u: the
\* same keys in the same order, and a tree that is whole or lets the climb go on.
TurnLeaves(h, N, T, I, w, u, e) ==
    \E I2, H2 : /\ w.h.key = h.key /\ I2[Top(w.h)] = I[Top(h)]
                /\ IF w.shorter /\ u # Root THEN Deficient(w.h, N, T, I2, H2, u, e)
                   ELSE Whole(w.h, N, T, I2, H2)

\* avl_delete's climb keeps what it needs ("climb back up the tree, rotating when
\* necessary", avl.c:454).  Let T be a tree in order, every node with the right
\* links and rank, balanced to all appearances; but side d of p has just got
\* shorter by one.  Then a turn of the loop leaves the nodes in the same order.
\* If it ends the loop, the tree is balanced; if it does not, the same can be said
\* of the node and the side to which it moves up.
THEOREM ClimbTurn ==
    ASSUME NEW h, NEW N, NEW T, NEW I, NEW H, NEW p, NEW d, Deficient(h, N, T, I, H, p, d),
           NEW w, w = Shrink(h, p, d), NEW u, u = w.h.parent[w.top],
           NEW e, e = IF w.h.left[u] = w.top THEN -1 ELSE 1
    PROVE  TurnLeaves(h, N, T, I, w, u, e)
<1> DEFINE t == h.parent[p]
           S == Below(T, H, t)
           K == Actual(h, S, H, p)
           J == [n \in S \cup {Nil} |-> I[n]]
           i == H[Kid(h, p, d)] + 1
           j == H[Kid(h, p, -d)]
           height == IF w.shorter THEN Larger(i, j) ELSE 1 + Larger(i, j)
           q == w.top
           g == w.h
<1>1. /\ Linked(h, T) /\ p \in T /\ d \in Sides /\ Root \notin T /\ Nil \notin N /\ T \subseteq N
      /\ Root \in N /\ h \in Heaps(N) /\ h.parent[Root] = Nil /\ Kid(h, Root, -1) = Nil
      /\ H \in [T \cup {Nil} -> Nat] /\ H[Nil] = 0
      /\ Kid(h, Root, 1) \in T \cup {Nil}
      /\ Kid(h, Root, 1) # Nil => h.parent[Kid(h, Root, 1)] = Root
  BY RootedLinks DEF Deficient, Rooted, Reckoned
<1>2. /\ p \in S /\ S \subseteq T /\ t \in T \cup {Root} /\ t \notin S
      /\ \A n \in S, x \in Sides : Kid(h, n, x) \in S \cup {Nil}
      /\ \A x \in Sides : t \in T => Kid(h, t, x) \in S \cup {Nil}
      /\ Subtree(h, S, J, K) /\ Balanced(h, S \ {p}, K) /\ HangsFrom(h, S, t, p)
      /\ \A x \in Sides : K[Kid(h, p, x)] = H[Kid(h, p, x)] /\ H[Kid(h, p, x)] \in Nat
      /\ H[p] = 1 + Larger(i, j) /\ h.balance[p] = Lean(d, i, j) /\ h.balance[p] \in -1 .. 1
  <2> HIDE DEF t, S, K, J
  <2>1. t = h.parent[p] /\ S = Below(T, H, t) /\ K = Actual(h, S, H, p) /\ J = [n \in S \cup {Nil} |-> I[n]]
    BY DEF t, S, K, J
  <2>2. Found(h, T, H, p, d, t, S, J, K)
    BY <2>1, ClimbFinds
  <2> QED
    BY <2>2 DEF Found
<1>3. /\ \A n \in S \cup {Nil} : J[n] = I[n]
      /\ \A n \in S \cup {Nil} : n # p => K[n] = H[n]
      /\ t = h.parent[p]
      /\ t = Root => S = T
  BY DEF Actual, Below
<1> HIDE DEF t, S, K, J
<1>4. i = K[Kid(h, p, d)] + 1 /\ j = K[Kid(h, p, -d)] /\ i \in Nat /\ j \in Nat
  BY <1>1, <1>2, OtherSide
<1> HIDE DEF i, j
<1>5. Rebalanced(h, g, N, S, J, K, t, p, q, height)
  <2>1. S \in SUBSET N /\ t \in N \ S
    BY <1>1, <1>2
  <2> QED
    BY <1>1, <1>2, <1>4, <2>1, ShrinkRebalances
<1>6. w.shorter => height + 1 = H[p]
  BY <1>2, <1>4 DEF Larger
<1>7. ~w.shorter => height = H[p]
  BY <1>2
<1> HIDE DEF height, q, g
<1>8. /\ g \in Heaps(N) /\ q \in S /\ g.parent[q] = t /\ g.key = h.key
      /\ \A n \in N \ S : /\ g.parent[n] = h.parent[n]
                          /\ g.balance[n] = h.balance[n]
                          /\ g.rank[n] = h.rank[n]
                          /\ \A x \in Sides : Kid(g, n, x) = IF n = t /\ Kid(h, t, x) = p THEN q
                                                             ELSE Kid(h, n, x)
      /\ \A n \in S : /\ g.parent[n] \in S \cup {t, h.parent[n]}
                      /\ h.parent[n] \in N /\ Known(h, n) => Known(g, n)
  BY <1>5 DEF Rebalanced, HangsFrom, OnlyWithin
<1>9. PICK J2, K2 : /\ Subtree(g, S, J2, K2) /\ Balanced(g, S, K2)
                    /\ J2[q] = J[p] /\ K2[q] = height
                    /\ \A n \in S : h.parent[n] \notin S /\ n # p =>
                          g.parent[n] = h.parent[n] /\ J2[n] = J[n] /\ K2[n] = K[n]
  BY <1>5 DEF Rebalanced
<1> DEFINE I2 == Glued(J2, I, S, T)
           H2 == Glued(K2, H, S, T)
<1>10. /\ Ordered(h, T, I) /\ Ranked(h, T, I)
       /\ J2 \in [S \cup {Nil} -> Seq(S)] /\ J2[Nil] = << >>
       /\ K2 \in [S \cup {Nil} -> Nat] /\ K2[Nil] = 0
  BY <1>9 DEF Deficient, Subtree, Ordered, Tall
<1>11. /\ I2 \in [T \cup {Nil} -> Seq(T)] /\ I2[Nil] = << >>
       /\ H2 \in [T \cup {Nil} -> Nat] /\ H2[Nil] = 0
       /\ \A n \in S \cup {Nil} : I2[n] = J2[n] /\ H2[n] = K2[n]
       /\ \A n \in T \ S : I2[n] = I[n] /\ H2[n] = H[n]
  <2>1. Seq(S) \subseteq Seq(T)
    BY <1>2
  <2>2. I \in [T \cup {Nil} -> Seq(T)] /\ I[Nil] = << >>
    BY <1>10 DEF Ordered
  <2> QED
    BY <1>1, <1>2, <1>10, <2>1, <2>2 DEF Glued
<1> HIDE DEF I2, H2
\* What is below the nodes outside of S: as before, but for q.
<1>12. ASSUME NEW n \in (T \cup {Root}) \ S, NEW x \in Sides, ~(n = t /\ Kid(h, t, x) = p)
       PROVE  /\ Kid(g, n, x) = Kid(h, n, x) /\ Kid(g, n, x) \in T \cup {Nil}
              /\ Kid(g, n, x) # Nil => g.parent[Kid(g, n, x)] = n
              /\ I2[Kid(g, n, x)] = I[Kid(h, n, x)] /\ H2[Kid(g, n, x)] = H[Kid(h, n, x)]
              /\ Kid(h, n, x) # p
  <2> DEFINE m == Kid(h, n, x)
  <2>1. Kid(g, n, x) = m
    BY <1>1, <1>8, <1>12
  <2>2. m \in T \cup {Nil} /\ (m # Nil => h.parent[m] = n)
    <3>1. CASE n = Root
      BY <1>1, <3>1 DEF Sides
    <3>2. CASE n # Root
      BY <1>1, <3>2 DEF Linked
    <3> QED
      BY <3>1, <3>2
  <2>3. m # p
    <3>1. m = p => n = t
      BY <1>1, <1>3, <2>2
    <3> QED
      BY <1>12, <3>1
  <2> HIDE DEF m
  <2>4. (m # Nil => g.parent[m] = n) /\ I2[m] = I[m] /\ H2[m] = H[m]
    <3>1. CASE m = Nil
      BY <1>1, <1>10, <1>11, <3>1 DEF Ordered
    <3>2. CASE m \in T \ S
      BY <1>1, <1>8, <1>11, <2>2, <3>2
    <3>3. CASE m \in S
      <4>1. h.parent[m] = n /\ n \notin S /\ m # Nil
        BY <1>1, <1>2, <2>2, <3>3
      <4> QED
        BY <1>3, <1>9, <1>11, <2>3, <3>3, <4>1
    <3> QED
      BY <2>2, <3>1, <3>2, <3>3
  <2> QED
    BY <2>1, <2>2, <2>3, <2>4 DEF m
<1>13. ASSUME NEW x \in Sides, Kid(h, t, x) = p
       PROVE  /\ Kid(g, t, x) = q
              /\ I2[Kid(g, t, x)] = I[Kid(h, t, x)] /\ H2[Kid(g, t, x)] = height
  BY <1>1, <1>2, <1>3, <1>8, <1>9, <1>11, <1>13
<1>14. /\ \E x \in Sides : Kid(h, t, x) = p
       /\ \A x, y \in Sides : Kid(h, t, x) = p /\ Kid(h, t, y) = p => x = y
       /\ \E x \in Sides : Kid(g, t, x) = q /\ Kid(g, t, -x) # q
  BY <1>2, <1>5 DEF HangsFrom, Rebalanced, Sides
<1>15. Linked(g, T \cup {Root})
  <2>1. ASSUME NEW n \in S
        PROVE  /\ \A x \in Sides : /\ Kid(g, n, x) \in T \cup {Root} \cup {Nil}
                                   /\ Kid(g, n, x) # Nil => g.parent[Kid(g, n, x)] = n
               /\ Kid(g, n, -1) = Kid(g, n, 1) => Kid(g, n, 1) = Nil
    BY <1>2, <1>9 DEF Subtree, Linked
  <2>2. ASSUME NEW n \in (T \cup {Root}) \ S
        PROVE  /\ \A x \in Sides : /\ Kid(g, n, x) \in T \cup {Root} \cup {Nil}
                                   /\ Kid(g, n, x) # Nil => g.parent[Kid(g, n, x)] = n
               /\ Kid(g, n, -1) = Kid(g, n, 1) => Kid(g, n, 1) = Nil
    <3>1. \A x \in Sides : /\ Kid(g, n, x) \in T \cup {Root} \cup {Nil}
                           /\ Kid(g, n, x) # Nil => g.parent[Kid(g, n, x)] = n
      BY <1>2, <1>8, <1>12, <1>13
    <3>2. CASE n = t
      <4>1. PICK x \in Sides : Kid(g, t, x) = q /\ Kid(g, t, -x) # q
        BY <1>14
      <4>2. /\ x = -1 => -x = 1
            /\ x = 1 => -x = -1
            /\ x = -1 \/ x = 1
        BY OtherSide DEF Sides
      <4>3. Kid(g, t, -1) # Kid(g, t, 1)
        BY <4>1, <4>2, Zenon
      <4> QED
        BY <3>1, <3>2, <4>3
    <3>3. CASE n # t
      <4>1. Kid(g, n, -1) = Kid(h, n, -1) /\ Kid(g, n, 1) = Kid(h, n, 1)
        BY <1>12, <3>3 DEF Sides
      <4>2. Kid(h, n, -1) = Kid(h, n, 1) => Kid(h, n, 1) = Nil
        BY DEF Deficient, Rooted, Linked
      <4> QED
        BY <3>1, <4>1, <4>2, Zenon
    <3> QED
      BY <3>2, <3>3
  <2> QED
    BY <2>1, <2>2 DEF Linked
<1>16. ASSUME NEW n \in T
       PROVE  g.parent[n] \in T \cup {Root} /\ Known(g, n)
  <2>1. h.parent[n] \in T \cup {Root} /\ Known(h, n)
    BY DEF Deficient, Rooted
  <2>2. CASE n \in S
    BY <1>1, <1>2, <1>8, <2>1, <2>2
  <2>3. CASE n \notin S
    <3>1. g.parent[n] = h.parent[n]
      BY <1>1, <1>8, <2>3
    <3>2. PICK x \in Sides : Kid(h, h.parent[n], x) = n
      BY <2>1 DEF Known
    <3>3. h.parent[n] \in (T \cup {Root}) \ S
      BY <1>1, <1>2, <2>1, <2>3, <3>2
    <3>4. ~(h.parent[n] = t /\ Kid(h, t, x) = p)
      BY <1>2, <2>3, <3>2
    <3>5. Kid(g, h.parent[n], x) = n
      BY <1>12, <3>2, <3>3, <3>4
    <3> QED
      BY <2>1, <3>1, <3>5 DEF Known
  <2> QED
    BY <2>2, <2>3
<1>17. Rooted(g, N, T)
  <2>1. Root \in N \ S /\ Root \in (T \cup {Root}) \ S
    BY <1>1, <1>2
  <2>2. g.parent[Root] = Nil
    BY <1>1, <1>8, <2>1
  <2>3. Kid(g, Root, -1) = Nil
    <3>1. ~(Root = t /\ Kid(h, t, -1) = p)
      BY <1>1
    <3> QED
      BY <1>1, <1>12, <2>1, <3>1 DEF Sides
  <2> QED
    BY <1>1, <1>8, <1>15, <1>16, <2>2, <2>3 DEF Rooted
<1>18. ASSUME NEW n \in T
       PROVE  /\ I2[n] = I2[Kid(g, n, -1)] \o <<n>> \o I2[Kid(g, n, 1)]
              /\ g.rank[n] = Len(I2[Kid(g, n, -1)]) + 1
  <2>1. CASE n \in S
    <3>1. Kid(g, n, -1) \in S \cup {Nil} /\ Kid(g, n, 1) \in S \cup {Nil}
      BY <1>9, <2>1 DEF Subtree, Linked, Sides
    <3>2. /\ J2[n] = J2[Kid(g, n, -1)] \o <<n>> \o J2[Kid(g, n, 1)]
          /\ g.rank[n] = Len(J2[Kid(g, n, -1)]) + 1
      BY <1>9, <2>1 DEF Subtree, Ordered, Ranked
    <3>3. /\ I2[n] = J2[n] /\ I2[Kid(g, n, -1)] = J2[Kid(g, n, -1)]
          /\ I2[Kid(g, n, 1)] = J2[Kid(g, n, 1)]
      BY <1>11, <2>1, <3>1
    <3> QED
      BY <3>2, <3>3, Zenon
  <2>2. CASE n \notin S
    <3>1. ASSUME NEW x \in Sides PROVE I2[Kid(g, n, x)] = I[Kid(h, n, x)]
      BY <1>12, <1>13, <2>2
    <3>2. /\ I2[n] = I[n] /\ g.rank[n] = h.rank[n]
          /\ I2[Kid(g, n, -1)] = I[Kid(h, n, -1)] /\ I2[Kid(g, n, 1)] = I[Kid(h, n, 1)]
      BY <1>1, <1>8, <1>11, <2>2, <3>1 DEF Sides
    <3>3. /\ I[n] = I[Kid(h, n, -1)] \o <<n>> \o I[Kid(h, n, 1)]
          /\ h.rank[n] = Len(I[Kid(h, n, -1)]) + 1
      BY <1>10 DEF Ordered, Ranked
    <3> QED
      BY <3>2, <3>3, Zenon
  <2> QED
    BY <2>1, <2>2
<1>19. Ordered(g, T, I2) /\ Ranked(g, T, I2)
  BY <1>11, <1>18 DEF Ordered, Ranked
<1>20. I2[Top(g)] = I[Top(h)]
  <2>1. Root \in (T \cup {Root}) \ S /\ Top(g) = Kid(g, Root, 1) /\ Top(h) = Kid(h, Root, 1)
    BY <1>1, <1>2 DEF Top, Kid
  <2> QED
    BY <1>12, <1>13, <2>1 DEF Sides
<1> DEFINE owed == w.shorter /\ t # Root
           o == IF owed THEN t ELSE Nil
<1>21. u = t /\ w.h = g /\ w.top = q
  BY <1>8 DEF g, q
<1>22. owed => e \in Sides /\ Kid(g, t, e) = q /\ \A x \in Sides : Kid(h, t, x) = p <=> x = e
  <2>1. /\ e = -1 => Kid(g, t, e) = q
        /\ Kid(g, t, -1) = q => e = -1
        /\ e \in Sides
    BY <1>21 DEF Kid, Sides
  <2>2. Kid(g, t, e) = q
    BY <1>14, <2>1 DEF Sides
  <2>3. \A x \in Sides : Kid(g, t, x) = q => x = e
    BY <1>14, <2>2, <2>1 DEF Sides
  <2>4. \A x \in Sides : Kid(h, t, x) = p => x = e
    BY <1>13, <2>3
  <2> QED
    BY <1>14, <2>1, <2>2, <2>4
<1>23. Reckoned(g, T, H2, o, e)
  <2>1. ASSUME NEW n \in T
        PROVE  /\ H2[n] = 1 + Larger(Seen(g, H2, o, e, n, -1), Seen(g, H2, o, e, n, 1))
               /\ g.balance[n] = Seen(g, H2, o, e, n, 1) - Seen(g, H2, o, e, n, -1)
               /\ g.balance[n] \in -1 .. 1
    <3>1. CASE n \in S
      <4>1. Kid(g, n, -1) \in S \cup {Nil} /\ Kid(g, n, 1) \in S \cup {Nil} /\ n # o
        BY <1>1, <1>2, <1>9, <3>1 DEF Subtree, Linked, Sides
      <4>2. /\ K2[n] = 1 + Larger(K2[Kid(g, n, -1)], K2[Kid(g, n, 1)])
            /\ g.balance[n] = K2[Kid(g, n, 1)] - K2[Kid(g, n, -1)]
            /\ g.balance[n] \in -1 .. 1
        BY <1>9, <3>1 DEF Subtree, Tall, Balanced
      <4>3. /\ Seen(g, H2, o, e, n, -1) = K2[Kid(g, n, -1)]
            /\ Seen(g, H2, o, e, n, 1) = K2[Kid(g, n, 1)]
            /\ H2[n] = K2[n]
        BY <1>10, <1>11, <3>1, <4>1 DEF Seen
      <4> QED
        BY <4>2, <4>3
    <3>2. CASE n \notin S
      <4>1. ASSUME NEW x \in Sides
            PROVE  Seen(g, H2, o, e, n, x) = Seen(h, H, p, d, n, x)
        <5>1. n # p /\ Kid(h, n, x) \in T \cup {Nil}
          BY <1>1, <1>2, <3>2 DEF Linked
        <5>2. Seen(h, H, p, d, n, x) = H[Kid(h, n, x)]
          BY <1>1, <5>1 DEF Seen
        <5>3. CASE n = t /\ Kid(h, t, x) = p
          <6>1. H2[Kid(g, n, x)] = height /\ t # Root
            BY <1>1, <1>13, <5>3
          <6>2. CASE w.shorter
            <7>1. n = o /\ x = e
              BY <1>22, <5>3, <6>1, <6>2
            <7> QED
              BY <1>6, <5>2, <5>3, <6>1, <6>2, <7>1 DEF Seen
          <6>3. CASE ~w.shorter
            <7>1. n # o
              BY <1>1, <6>3
            <7>2. height = H[p] /\ H[p] \in Nat
              BY <1>1, <1>7, <6>3
            <7> HIDE DEF o
            <7> QED
              BY <5>2, <5>3, <6>1, <7>1, <7>2 DEF Seen
          <6> QED
            BY <6>2, <6>3
        <5>4. CASE ~(n = t /\ Kid(h, t, x) = p)
          <6>1. H2[Kid(g, n, x)] = H[Kid(h, n, x)] /\ H[Kid(h, n, x)] \in Nat
            BY <1>1, <1>12, <3>2, <5>1, <5>4
          <6>2. ~(n = o /\ x = e)
            BY <1>1, <1>22, <5>4
          <6> HIDE DEF o
          <6> QED
            BY <5>2, <6>1, <6>2 DEF Seen
        <5> QED
          BY <5>3, <5>4
      <4>2. /\ Seen(g, H2, o, e, n, -1) = Seen(h, H, p, d, n, -1)
            /\ Seen(g, H2, o, e, n, 1) = Seen(h, H, p, d, n, 1)
        BY <4>1 DEF Sides
      <4>3. H2[n] = H[n] /\ g.balance[n] = h.balance[n]
        BY <1>1, <1>8, <1>11, <3>2
      <4>4. /\ H[n] = 1 + Larger(Seen(h, H, p, d, n, -1), Seen(h, H, p, d, n, 1))
            /\ h.balance[n] = Seen(h, H, p, d, n, 1) - Seen(h, H, p, d, n, -1)
            /\ h.balance[n] \in -1 .. 1
        BY DEF Deficient, Reckoned
      <4> HIDE DEF o
      <4> QED
        BY <4>2, <4>3, <4>4
    <3> QED
      BY <3>1, <3>2
  <2> HIDE DEF o
  <2> QED
    BY <1>11, <2>1 DEF Reckoned
<1>24. CASE owed
  <2>1. o = t /\ t \in T /\ e \in Sides
    BY <1>2, <1>22, <1>24
  <2>2. Deficient(g, N, T, I2, H2, t, e)
    <3> HIDE DEF o
    <3> QED
      BY <1>17, <1>19, <1>23, <2>1 DEF Deficient
  <2> QED
    BY <1>8, <1>20, <1>21, <1>24, <2>2 DEF TurnLeaves
<1>25. CASE ~owed
  <2>1. o = Nil /\ Linked(g, T)
    BY <1>17, <1>25, RootedLinks
  <2>2. Tall(g, T, H2) /\ Balanced(g, T, H2)
    <3> HIDE DEF o
    <3> QED
      BY <1>1, <1>23, <2>1, ReckonedWhole
  <2>3. Whole(g, N, T, I2, H2)
    <3> HIDE DEF o
    <3> QED
      BY <1>17, <1>19, <2>1, <2>2 DEF Whole, Subtree
  <2> QED
    BY <1>8, <1>20, <1>21, <1>25, <2>3 DEF TurnLeaves
<1> QED
  BY <1>24, <1>25

-----------------------------------------------------------------------------
(* A sequence without a node                                               *)

\* f[k] is what is left of the first k elements when x is taken out.
Sieve(s, x, f) ==
    /\ DOMAIN f = 0 .. Len(s) /\ f = [k \in 0 .. Len(s) |-> f[k]] /\ f[0] = << >>
    /\ \A k \in 1 .. Len(s) : f[k] = IF s[k] = x THEN f[k - 1] ELSE Append(f[k - 1], s[k])

Without(s, x) == (CHOOSE f : Sieve(s, x, f))[Len(s)]

LEMMA SieveExists ==
    ASSUME NEW s, Len(s) \in Nat, NEW x
    PROVE  \E f : Sieve(s, x, f)
<1> DEFINE Q(n, f) == /\ DOMAIN f = 0 .. n /\ f = [k \in 0 .. n |-> f[k]] /\ f[0] = << >>
                      /\ \A k \in 1 .. n : f[k] = IF s[k] = x THEN f[k - 1]
                                                  ELSE Append(f[k - 1], s[k])
           P == {n \in Nat : \E f : Q(n, f)}
<1>1. 0 \in P
  <2>1. Q(0, [k \in 0 .. 0 |-> << >>])
    OBVIOUS
  <2> HIDE DEF Q
  <2> QED
    BY <2>1
<1>2. ASSUME NEW n \in P \cap Nat PROVE n + 1 \in P
  <2>1. PICK f : Q(n, f)
    <3> HIDE DEF Q
    <3> QED  OBVIOUS
  <2> DEFINE g == [k \in 0 .. n + 1 |-> IF k <= n THEN f[k] ELSE IF s[n + 1] = x THEN f[n]
                                        ELSE Append(f[n], s[n + 1])]
  <2>2. /\ DOMAIN g = 0 .. n + 1 /\ g[0] = << >>
        /\ \A k \in 0 .. n : g[k] = f[k]
        /\ g[n + 1] = IF s[n + 1] = x THEN f[n] ELSE Append(f[n], s[n + 1])
    BY <2>1
  <2>3. g = [k \in 0 .. n + 1 |-> g[k]]
    OBVIOUS
  <2> HIDE DEF g
  <2>4. ASSUME NEW k \in 1 .. n + 1
        PROVE  g[k] = IF s[k] = x THEN g[k - 1] ELSE Append(g[k - 1], s[k])
    <3>1. CASE k = n + 1
      <4>1. k - 1 = n /\ n \in 0 .. n
        BY <3>1
      <4> QED
        BY <2>2, <3>1, <4>1
    <3>2. CASE k # n + 1
      <4>1. k \in 1 .. n /\ k \in 0 .. n /\ k - 1 \in 0 .. n
        BY <3>2
      <4>2. f[k] = IF s[k] = x THEN f[k - 1] ELSE Append(f[k - 1], s[k])
        BY <2>1, <4>1
      <4> QED
        BY <2>2, <4>1, <4>2
    <3> QED
      BY <3>1, <3>2
  <2>5. Q(n + 1, g)
    BY <2>2, <2>3, <2>4
  <2> HIDE DEF Q
  <2> QED
    BY <2>5
<1>3. Nat \subseteq P
  <2> HIDE DEF P
  <2> QED
    BY <1>1, <1>2, NatSetInduction
<1>4. PICK f : Q(Len(s), f)
  <2> HIDE DEF Q
  <2> QED
    BY <1>3
<1> QED
  BY <1>4 DEF Sieve

\* Two sieves agree as far as their sequences do.
LEMMA SievesAgree ==
    ASSUME NEW s, Len(s) \in Nat, NEW t, Len(t) \in Nat, NEW x, NEW f, Sieve(s, x, f),
           NEW g, Sieve(t, x, g),
           NEW m \in Nat, m <= Len(s), m <= Len(t), \A k \in 1 .. m : s[k] = t[k]
    PROVE  f[m] = g[m]
<1> DEFINE P == {n \in Nat : n <= m => f[n] = g[n]}
<1>1. 0 \in P
  BY DEF Sieve
<1>2. ASSUME NEW n \in P \cap Nat PROVE n + 1 \in P
  <2> SUFFICES ASSUME n + 1 <= m PROVE f[n + 1] = g[n + 1]
    OBVIOUS
  <2>1. /\ n + 1 \in 1 .. m /\ n + 1 \in 1 .. Len(s) /\ n + 1 \in 1 .. Len(t) /\ (n + 1) - 1 = n
        /\ f[n] = g[n]
    OBVIOUS
  <2>2. f[n + 1] = IF s[n + 1] = x THEN f[n] ELSE Append(f[n], s[n + 1])
    BY <2>1 DEF Sieve
  <2>3. g[n + 1] = IF t[n + 1] = x THEN g[n] ELSE Append(g[n], t[n + 1])
    BY <2>1 DEF Sieve
  <2>4. s[n + 1] = t[n + 1]
    BY <2>1
  <2> QED
    BY <2>1, <2>2, <2>3, <2>4, Zenon
<1> HIDE DEF P
<1>3. m \in P
  BY <1>1, <1>2, NatSetInduction
<1> QED
  BY <1>3 DEF P

LEMMA WithoutEmpty ==
    ASSUME NEW x
    PROVE  Without(<< >>, x) = << >>
<1>1. Len(<< >>) = 0
  OBVIOUS
<1> DEFINE f == CHOOSE f : Sieve(<< >>, x, f)
<1>2. Sieve(<< >>, x, f)
  BY <1>1, SieveExists
<1> QED
  BY <1>1, <1>2 DEF Sieve, Without

LEMMA WithoutAppend ==
    ASSUME NEW T, NEW s \in Seq(T), NEW y \in T, NEW x
    PROVE  Without(Append(s, y), x) = IF y = x THEN Without(s, x) ELSE Append(Without(s, x), y)
<1> DEFINE t == Append(s, y)
           n == Len(s)
<1>1. /\ n \in Nat /\ Len(t) = n + 1 /\ t[n + 1] = y
      /\ \A k \in 1 .. n : t[k] = s[k]
  OBVIOUS
<1> DEFINE f == CHOOSE f : Sieve(s, x, f)
           g == CHOOSE g : Sieve(t, x, g)
<1>2. Without(s, x) = f[n] /\ Without(t, x) = g[Len(t)]
  BY DEF Without
<1>3. Sieve(s, x, f) /\ Sieve(t, x, g)
  <2>1. Len(s) \in Nat /\ Len(t) \in Nat
    BY <1>1
  <2> HIDE DEF t
  <2> QED
    BY <2>1, SieveExists
<1> HIDE DEF t, n, f, g
<1>4. f[n] = g[n]
  BY <1>1, <1>3, SievesAgree DEF n
<1>5. g[n + 1] = IF t[n + 1] = x THEN g[n] ELSE Append(g[n], t[n + 1])
  <2>1. n + 1 \in 1 .. Len(t) /\ (n + 1) - 1 = n
    BY <1>1
  <2> QED
    BY <1>3, <2>1 DEF Sieve
<1>6. Without(t, x) = IF y = x THEN Without(s, x) ELSE Append(Without(s, x), y)
  BY <1>1, <1>2, <1>4, <1>5
<1> QED
  BY <1>6 DEF t

\* What is appended to two sequences is appended to the second.
AppendsLast(b, c, z) == Append(b \o c, z) = b \o Append(c, z)

LEMMA AppendLast ==
    ASSUME NEW T, NEW b \in Seq(T), NEW c \in Seq(T), NEW z \in T
    PROVE  AppendsLast(b, c, z)
BY DEF AppendsLast

\* Taking x out of two sequences takes it out of the one after the other.
Parts(s, t, x) == Without(s \o t, x) = Without(s, x) \o Without(t, x)

LEMMA WithoutParts ==
    ASSUME NEW T, NEW s \in Seq(T), NEW t \in Seq(T), NEW x
    PROVE  Parts(s, t, x) /\ Without(t, x) \in Seq(T \ {x})
<1> DEFINE P == {n \in Nat : \A r \in Seq(T) : Len(r) = n =>
                                /\ Without(r, x) \in Seq(T \ {x})
                                /\ \A v \in Seq(T) : Without(v, x) \in Seq(T \ {x})
                                      => Without(v \o r, x) = Without(v, x) \o Without(r, x)}
<1>1. 0 \in P
  <2> SUFFICES ASSUME NEW r \in Seq(T), Len(r) = 0
               PROVE  /\ Without(r, x) \in Seq(T \ {x})
                      /\ \A v \in Seq(T) : Without(v, x) \in Seq(T \ {x})
                            => Without(v \o r, x) = Without(v, x) \o Without(r, x)
    OBVIOUS
  <2>1. r = << >> /\ << >> \in Seq(T \ {x})
    OBVIOUS
  <2>2. Without(r, x) = << >>
    BY <2>1, WithoutEmpty
  <2>3. ASSUME NEW v \in Seq(T), Without(v, x) \in Seq(T \ {x})
        PROVE  v \o r = v /\ Without(v, x) \o << >> = Without(v, x)
    <3>1. \A S : \A a \in Seq(S) : a \o << >> = a
      OBVIOUS
    <3> QED
      BY <2>1, <2>3, <3>1
  <2> QED
    BY <2>1, <2>2, <2>3
<1>2. ASSUME NEW n \in P \cap Nat PROVE n + 1 \in P
  <2> SUFFICES ASSUME NEW r \in Seq(T), Len(r) = n + 1
               PROVE  /\ Without(r, x) \in Seq(T \ {x})
                      /\ \A v \in Seq(T) : Without(v, x) \in Seq(T \ {x})
                            => Without(v \o r, x) = Without(v, x) \o Without(r, x)
    OBVIOUS
  <2>1. PICK a \in Seq(T), y \in T : r = Append(a, y) /\ Len(a) = n
    <3>1. SubSeq(r, 1, n) \in Seq(T) /\ Len(SubSeq(r, 1, n)) = n
          /\ \A k \in 1 .. n : SubSeq(r, 1, n)[k] = r[k]
      BY FirstPart
    <3>2. r[n + 1] \in T
      OBVIOUS
    <3>3. r = Append(SubSeq(r, 1, n), r[n + 1])
      BY <3>1, <3>2
    <3> QED
      BY <3>1, <3>2, <3>3
  <2>2. /\ Without(a, x) \in Seq(T \ {x})
        /\ \A v \in Seq(T) : Without(v, x) \in Seq(T \ {x})
              => Without(v \o a, x) = Without(v, x) \o Without(a, x)
    BY <2>1
  <2> HIDE DEF P
  <2>3. Without(r, x) = IF y = x THEN Without(a, x) ELSE Append(Without(a, x), y)
    BY <2>1, WithoutAppend
  <2>4. Without(r, x) \in Seq(T \ {x})
    BY <2>2, <2>3
  <2>5. ASSUME NEW v \in Seq(T), Without(v, x) \in Seq(T \ {x})
        PROVE  Without(v \o r, x) = Without(v, x) \o Without(r, x)
    <3>1. v \o r = Append(v \o a, y) /\ v \o a \in Seq(T)
      BY <2>1
    <3>2. Without(v \o r, x) = IF y = x THEN Without(v \o a, x) ELSE Append(Without(v \o a, x), y)
      <4> DEFINE va == v \o a
      <4>1. va \in Seq(T) /\ v \o r = Append(va, y)
        BY <3>1
      <4> HIDE DEF va
      <4>2. Without(Append(va, y), x) = IF y = x THEN Without(va, x) ELSE Append(Without(va, x), y)
        BY <4>1, WithoutAppend
      <4> QED
        BY <4>1, <4>2 DEF va
    <3>3. Without(v \o a, x) = Without(v, x) \o Without(a, x)
      BY <2>2, <2>5
    <3>4. CASE y = x
      BY <2>3, <3>2, <3>3, <3>4
    <3>5. CASE y # x
      <4>1. Without(r, x) = Append(Without(a, x), y)
        BY <2>3, <3>5
      <4>2. Without(v \o r, x) = Append(Without(v, x) \o Without(a, x), y)
        BY <3>2, <3>3, <3>5
      <4> DEFINE wv == Without(v, x)
                 wa == Without(a, x)
                 U == T \ {x}
      <4>3. wv \in Seq(U) /\ wa \in Seq(U) /\ y \in U
        BY <2>2, <2>5, <3>5
      <4>4. Append(wv \o wa, y) = wv \o Append(wa, y)
        <5> HIDE DEF wv, wa, U
        <5>1. AppendsLast(wv, wa, y)
          BY <4>3, AppendLast
        <5> QED
          BY <5>1, Zenon DEF AppendsLast
      <4> QED
        BY <4>1, <4>2, <4>4, Zenon
    <3> QED
      BY <3>4, <3>5
  <2> QED
    BY <2>4, <2>5
<1>3. Nat \subseteq P
  <2> HIDE DEF P
  <2> QED
    BY <1>1, <1>2, NatSetInduction
<1>4. Len(s) \in P /\ Len(t) \in P
  <2> HIDE DEF P
  <2> QED
    BY <1>3
<1>5. Without(s, x) \in Seq(T \ {x}) /\ Without(t, x) \in Seq(T \ {x})
  BY <1>4
<1>6. \A v \in Seq(T) : Without(v, x) \in Seq(T \ {x})
         => Without(v \o t, x) = Without(v, x) \o Without(t, x)
  BY <1>4
<1> QED
  BY <1>5, <1>6 DEF Parts

\* Taking x out of what stands below n.
Flanked(l, n, r, x) ==
    Without(l \o <<n>> \o r, x) = IF n = x THEN Without(l, x) \o Without(r, x)
                                  ELSE Without(l, x) \o <<n>> \o Without(r, x)

LEMMA WithoutFlanked ==
    ASSUME NEW T, NEW l \in Seq(T), NEW n \in T, NEW r \in Seq(T), NEW x
    PROVE  Flanked(l, n, r, x)
<1>1. Append(l, n) = l \o <<n>> /\ Append(l, n) \in Seq(T)
  BY AppendIsConcat, AppendProperties
<1> DEFINE k == Append(l, n)
<1>2. Without(k, x) = IF n = x THEN Without(l, x) ELSE Append(Without(l, x), n)
  BY WithoutAppend
<1>3. Without(k \o r, x) = Without(k, x) \o Without(r, x)
  <2> HIDE DEF k
  <2>1. k \in Seq(T)
    BY <1>1 DEF k
  <2>2. Parts(k, r, x)
    BY <2>1, WithoutParts
  <2> QED
    BY <2>2, Zenon DEF Parts
<1>4. Without(l, x) \in Seq(T \ {x}) /\ Without(r, x) \in Seq(T \ {x})
  BY WithoutParts
<1>5. n # x => Append(Without(l, x), n) = Without(l, x) \o <<n>>
  <2> SUFFICES ASSUME n # x PROVE Append(Without(l, x), n) = Without(l, x) \o <<n>>
    OBVIOUS
  <2> DEFINE wl == Without(l, x)
  <2>1. wl \in Seq(T \ {x}) /\ n \in T \ {x}
    BY <1>4
  <2> HIDE DEF wl
  <2>2. Append(wl, n) = wl \o <<n>>
    BY <2>1, AppendIsConcat
  <2> QED
    BY <2>2 DEF wl
<1>6. Without(l \o <<n>> \o r, x) = Without(k, x) \o Without(r, x)
  BY <1>1, <1>3, Zenon
<1>7. CASE n = x
  BY <1>2, <1>4, <1>6, <1>7, Zenon DEF Flanked
<1>8. CASE n # x
  BY <1>2, <1>4, <1>5, <1>6, <1>8, Zenon DEF Flanked
<1> QED
  BY <1>7, <1>8

-----------------------------------------------------------------------------
(* Taking a node out of the tree                                           *)

\* avl_delete's climb starts with what it needs ("scoot this child into the place
\* of <x>", avl.c:426).  Let T be a tree in order and balanced, and let x be a
\* node of it with at most one child that has been counted out of the ranks of
\* the others.  When it has been detached, the nodes stand in the same order
\* without x.  If x was the top of the tree, that is balanced; if it was not, it
\* is all that the climb needs at x's parent.
THEOREM DetachedIsDeficient ==
    ASSUME NEW h, NEW N, NEW T, NEW I, NEW H, Rooted(h, N, T), Ordered(h, T, I), Tall(h, T, H),
           Balanced(h, T, H), NEW x \in T, Kid(h, x, -1) = Nil \/ Kid(h, x, 1) = Nil,
           \A n \in T \ {x} : h.rank[n] = Len(Without(I[Kid(h, n, -1)], x)) + 1,
           NEW w, w = Detached(h, x)
    PROVE  \E J, K : /\ w.h.key = h.key /\ J[Top(w.h)] = Without(I[Top(h)], x)
                     /\ IF w.p = Root THEN Whole(w.h, N, T \ {x}, J, K)
                        ELSE Deficient(w.h, N, T \ {x}, J, K, w.p, w.d)
<1> DEFINE c == IF h.left[x] # Nil THEN h.left[x] ELSE h.right[x]
           p == h.parent[x]
           d == IF h.left[p] = x THEN -1 ELSE 1
           g == Hang(h, p, d, c)
           R == T \ {x}
           J == [n \in R \cup {Nil} |-> Without(I[n], x)]
           K == [n \in R \cup {Nil} |-> H[n]]
           o == IF p = Root THEN Nil ELSE p
<1>1. /\ Linked(h, T) /\ Root \notin T /\ Nil \notin N /\ T \subseteq N
      /\ Root \in N /\ h \in Heaps(N) /\ h.parent[Root] = Nil /\ Kid(h, Root, -1) = Nil
      /\ H \in [T \cup {Nil} -> Nat] /\ H[Nil] = 0
      /\ Kid(h, Root, 1) \in T \cup {Nil}
      /\ Kid(h, Root, 1) # Nil => h.parent[Kid(h, Root, 1)] = Root
      /\ I \in [T \cup {Nil} -> Seq(T)] /\ I[Nil] = << >>
  BY RootedLinks DEF Rooted, Tall, Ordered
<1>2. ASSUME NEW n \in T \cup {Root}, NEW e \in Sides
      PROVE  /\ Kid(h, n, e) \in T \cup {Nil}
             /\ Kid(h, n, e) # Nil => h.parent[Kid(h, n, e)] = n
  <2>1. CASE n = Root
    BY <1>1, <2>1 DEF Sides
  <2>2. CASE n # Root
    BY <1>1, <2>2 DEF Linked
  <2> QED
    BY <2>1, <2>2
<1>3. ASSUME NEW n \in T, NEW e \in Sides
      PROVE  H[Kid(h, n, e)] < H[n] /\ H[Kid(h, n, e)] \in Nat
  <2>1. H[Kid(h, n, -1)] \in Nat /\ H[Kid(h, n, 1)] \in Nat
    BY <1>1, <1>2 DEF Sides
  <2>2. H[n] = 1 + Larger(H[Kid(h, n, -1)], H[Kid(h, n, 1)])
    BY DEF Tall
  <2>3. H[Kid(h, n, -1)] < H[n] /\ H[Kid(h, n, 1)] < H[n]
    BY <2>1, <2>2 DEF Larger
  <2> QED
    BY <2>1, <2>3 DEF Sides
\* x hangs from p, and nowhere else; c is its only kid.
<1>4. /\ p \in T \cup {Root} /\ d \in Sides /\ Kid(h, p, d) = x
      /\ \A n \in T \cup {Root}, e \in Sides : Kid(h, n, e) = x => n = p /\ e = d
  <2>1. p \in T \cup {Root} /\ Known(h, x) /\ d \in Sides
    BY DEF Rooted, Sides
  <2>2. PICK e \in Sides : Kid(h, p, e) = x
    BY <2>1 DEF Known
  <2>3. Kid(h, p, d) = x
    BY <2>2 DEF Kid, Sides
  <2>4. Kid(h, p, -1) = Kid(h, p, 1) => Kid(h, p, 1) = Nil
    BY <2>1 DEF Rooted, Linked
  <2>5. \A y \in Sides : Kid(h, p, y) = x => y = d
    BY <1>1, <2>1, <2>3, <2>4 DEF Sides
  <2> HIDE DEF d
  <2>6. \A n \in T \cup {Root}, y \in Sides : Kid(h, n, y) = x => n = p
    BY <1>1, <1>2
  <2> QED
    BY <2>1, <2>3, <2>5, <2>6
<1>5. /\ c \in T \cup {Nil} /\ (c # Nil => h.parent[c] = x)
      /\ \A e \in Sides : Kid(h, x, e) \in {c, Nil}
      /\ H[x] = 1 + H[c]
      /\ Without(I[x], x) = Without(I[c], x)
  <2>1. \/ c = Kid(h, x, -1) /\ Kid(h, x, 1) = Nil
        \/ c = Kid(h, x, 1) /\ Kid(h, x, -1) = Nil
    BY DEF Kid
  <2> HIDE DEF c
  <2>2. c \in T \cup {Nil} /\ (c # Nil => h.parent[c] = x) /\ \A e \in Sides : Kid(h, x, e) \in {c, Nil}
    BY <1>2, <2>1 DEF Sides
  <2>3. H[x] = 1 + H[c]
    BY <1>1, <2>1, <2>2 DEF Tall, Larger
  <2>4. I[x] = I[Kid(h, x, -1)] \o <<x>> \o I[Kid(h, x, 1)]
    BY DEF Ordered
  <2>5. I[Kid(h, x, -1)] \in Seq(T) /\ I[Kid(h, x, 1)] \in Seq(T)
    BY <1>1, <1>2 DEF Sides
  <2>6. Without(I[x], x) = Without(I[Kid(h, x, -1)], x) \o Without(I[Kid(h, x, 1)], x)
    <3>1. Flanked(I[Kid(h, x, -1)], x, I[Kid(h, x, 1)], x)
      BY <2>5, WithoutFlanked
    <3> QED
      BY <2>4, <3>1, Zenon DEF Flanked
  <2>7. Without(I[c], x) \in Seq(T \ {x}) /\ Without(I[Nil], x) = << >>
    BY <1>1, <2>2, WithoutParts, WithoutEmpty
  <2>8. << >> \o Without(I[c], x) = Without(I[c], x) /\ Without(I[c], x) \o << >> = Without(I[c], x)
    BY <2>7, ConcatEmptySeq
  <2>9. Without(I[x], x) = Without(I[c], x)
    BY <2>1, <2>6, <2>7, <2>8, Zenon
  <2> QED
    BY <2>2, <2>3, <2>9
<1>6. /\ p # x /\ c # x /\ c # Root /\ (c # Nil => c # p)
      /\ p \in R \cup {Root} /\ c \in R \cup {Nil}
  <2>1. H[c] < H[x] /\ H[c] \in Nat
    BY <1>1, <1>5
  <2>2. p \in T => H[x] < H[p] /\ H[p] \in Nat
    BY <1>1, <1>3, <1>4
  <2> HIDE DEF p, c
  <2>3. p # x /\ c # x /\ (p \in T => c # p) /\ H[x] \in Nat
    BY <1>1, <2>1, <2>2
  <2> QED
    BY <1>1, <1>4, <1>5, <2>3
<1>7. w.h = g /\ w.p = p /\ w.d = d
  BY DEF Detached
<1> HIDE DEF c, p, d
<1>8. Hung(h, g, N, p, d, c)
  BY <1>1, <1>4, <1>5, HangWrites
<1>9. /\ g \in Heaps(N) /\ g.key = h.key /\ g.balance = h.balance /\ g.rank = h.rank
      /\ \A n \in N : g.parent[n] = IF n = c THEN p ELSE h.parent[n]
      /\ \A n \in N, e \in Sides : Kid(g, n, e) = IF n = p /\ e = d THEN c ELSE Kid(h, n, e)
  BY <1>8 DEF Hung
<1> HIDE DEF g
<1>10. /\ J \in [R \cup {Nil} -> Seq(R)] /\ J[Nil] = << >>
       /\ \A n \in R \cup {Nil} : J[n] = Without(I[n], x)
       /\ K \in [R \cup {Nil} -> Nat] /\ K[Nil] = 0
       /\ \A n \in R \cup {Nil} : K[n] = H[n]
  <2>1. ASSUME NEW n \in R \cup {Nil} PROVE Without(I[n], x) \in Seq(R)
    <3>1. I[n] \in Seq(T)
      BY <1>1
    <3> QED
      BY <3>1, WithoutParts
  <2>2. Without(I[Nil], x) = << >>
    BY <1>1, WithoutEmpty
  <2> QED
    BY <1>1, <2>1, <2>2
<1> HIDE DEF J, K
\* What is below the nodes that are left.
<1>11. ASSUME NEW n \in R \cup {Root}, NEW e \in Sides
       PROVE  /\ Kid(g, n, e) = IF n = p /\ e = d THEN c ELSE Kid(h, n, e)
              /\ Kid(g, n, e) \in R \cup {Nil}
              /\ Kid(g, n, e) # Nil => g.parent[Kid(g, n, e)] = n
              /\ J[Kid(g, n, e)] = Without(I[Kid(h, n, e)], x)
              /\ H[Kid(h, n, e)] = K[Kid(g, n, e)] + IF n = p /\ e = d THEN 1 ELSE 0
              /\ ~(n = p /\ e = d) /\ c # Nil => Kid(h, n, e) # c
  <2>1. n \in N /\ n \in T \cup {Root}
    BY <1>1
  <2>2. CASE n = p /\ e = d
    <3>1. Kid(g, n, e) = c /\ Kid(h, n, e) = x
      BY <1>4, <1>9, <2>1, <2>2
    <3>2. c # Nil => g.parent[c] = p
      BY <1>1, <1>6, <1>9
    <3>3. H[c] \in Nat /\ K[c] = H[c] /\ J[c] = Without(I[c], x)
      BY <1>1, <1>6, <1>10
    <3> QED
      BY <1>5, <1>6, <2>2, <3>1, <3>2, <3>3
  <2>3. CASE ~(n = p /\ e = d)
    <3> DEFINE m == Kid(h, n, e)
    <3>1. Kid(g, n, e) = m
      BY <1>9, <2>1, <2>3
    <3>2. m \in T \cup {Nil} /\ (m # Nil => h.parent[m] = n) /\ m # x
      BY <1>2, <1>4, <2>1, <2>3
    <3> HIDE DEF m
    <3>3. m # Nil => m # c
      BY <1>1, <1>5, <3>2
    <3>4. m # Nil => g.parent[m] = n
      BY <1>1, <1>9, <3>2, <3>3
    <3>5. m \in R \cup {Nil} /\ H[m] \in Nat /\ K[m] = H[m] /\ J[m] = Without(I[m], x)
      BY <1>1, <1>10, <3>2
    <3> QED
      BY <2>3, <3>1, <3>3, <3>4, <3>5 DEF m
  <2> QED
    BY <2>2, <2>3
<1>12. Linked(g, R \cup {Root})
  <2>1. ASSUME NEW n \in R \cup {Root}
        PROVE  Kid(g, n, -1) = Kid(g, n, 1) => Kid(g, n, 1) = Nil
    <3>1. Kid(h, n, -1) = Kid(h, n, 1) => Kid(h, n, 1) = Nil
      BY DEF Rooted, Linked
    <3>2. CASE n = p
      <4>1. \A e \in Sides : /\ e = d => Kid(g, n, e) = c
                             /\ e # d /\ c # Nil => Kid(g, n, e) # c
        BY <1>11, <3>2
      <4>2. ASSUME Kid(g, n, -1) = Kid(g, n, 1) PROVE c = Nil
        BY <1>4, <4>1, <4>2 DEF Sides
      <4>3. ASSUME Kid(g, n, -1) = Kid(g, n, 1) PROVE Kid(g, n, 1) = c
        BY <1>4, <4>1, <4>3 DEF Sides
      <4> QED
        BY <4>2, <4>3
    <3>3. CASE n # p
      BY <1>11, <3>1, <3>3 DEF Sides
    <3> QED
      BY <3>2, <3>3
  <2> QED
    BY <1>11, <2>1 DEF Linked
<1>13. ASSUME NEW n \in R
       PROVE  g.parent[n] \in R \cup {Root} /\ Known(g, n)
  <2>1. h.parent[n] \in T \cup {Root} /\ Known(h, n) /\ n \in N /\ n # x /\ n # Nil
    BY <1>1 DEF Rooted
  <2>2. CASE n = c
    <3>1. g.parent[n] = p /\ Kid(g, p, d) = c
      BY <1>4, <1>6, <1>9, <1>11, <2>1, <2>2
    <3> QED
      BY <1>4, <1>6, <2>2, <3>1 DEF Known
  <2>3. CASE n # c
    <3>1. g.parent[n] = h.parent[n]
      BY <1>9, <2>1, <2>3
    <3>2. PICK e \in Sides : Kid(h, h.parent[n], e) = n
      BY <2>1 DEF Known
    <3>3. h.parent[n] # x
      BY <1>5, <2>1, <2>3, <3>2
    <3>4. h.parent[n] \in R \cup {Root} /\ ~(h.parent[n] = p /\ e = d)
      BY <1>4, <2>1, <3>2, <3>3
    <3>5. Kid(g, h.parent[n], e) = n
      BY <1>11, <3>2, <3>4
    <3> QED
      BY <3>1, <3>2, <3>4, <3>5 DEF Known
  <2> QED
    BY <2>2, <2>3
<1>14. Rooted(g, N, R)
  <2>1. g.parent[Root] = Nil
    BY <1>1, <1>6, <1>9
  <2>2. Kid(g, Root, -1) = Nil
    <3>1. ~(Root = p /\ -1 = d)
      BY <1>1, <1>4
    <3> QED
      BY <1>1, <1>11, <3>1 DEF Sides
  <2> QED
    BY <1>1, <1>9, <1>12, <1>13, <2>1, <2>2 DEF Rooted
<1>15. Ordered(g, R, J) /\ Ranked(g, R, J)
  <2>1. ASSUME NEW n \in R
        PROVE  /\ J[n] = J[Kid(g, n, -1)] \o <<n>> \o J[Kid(g, n, 1)]
               /\ g.rank[n] = Len(J[Kid(g, n, -1)]) + 1
    <3>1. /\ J[Kid(g, n, -1)] = Without(I[Kid(h, n, -1)], x)
          /\ J[Kid(g, n, 1)] = Without(I[Kid(h, n, 1)], x)
          /\ J[n] = Without(I[n], x)
      BY <1>10, <1>11 DEF Sides
    <3>2. I[n] = I[Kid(h, n, -1)] \o <<n>> \o I[Kid(h, n, 1)]
      BY DEF Ordered
    <3>3. I[Kid(h, n, -1)] \in Seq(T) /\ I[Kid(h, n, 1)] \in Seq(T) /\ n \in T /\ n # x
      BY <1>1, <1>2 DEF Sides
    <3>4. Without(I[Kid(h, n, -1)] \o <<n>> \o I[Kid(h, n, 1)], x) =
             Without(I[Kid(h, n, -1)], x) \o <<n>> \o Without(I[Kid(h, n, 1)], x)
      <4>1. Flanked(I[Kid(h, n, -1)], n, I[Kid(h, n, 1)], x)
        BY <3>3, WithoutFlanked
      <4> QED
        BY <3>3, <4>1, Zenon DEF Flanked
    <3>5. h.rank[n] = Len(Without(I[Kid(h, n, -1)], x)) + 1 /\ g.rank[n] = h.rank[n]
      BY <1>9
    <3> QED
      BY <3>1, <3>2, <3>4, <3>5, Zenon
  <2> QED
    BY <1>10, <2>1 DEF Ordered, Ranked
<1>16. Reckoned(g, R, K, o, d)
  <2>1. ASSUME NEW n \in R
        PROVE  /\ K[n] = 1 + Larger(Seen(g, K, o, d, n, -1), Seen(g, K, o, d, n, 1))
               /\ g.balance[n] = Seen(g, K, o, d, n, 1) - Seen(g, K, o, d, n, -1)
               /\ g.balance[n] \in -1 .. 1
    <3>1. n = o <=> n = p
      BY <1>1
    <3> HIDE DEF o
    <3>2. ASSUME NEW e \in Sides PROVE Seen(g, K, o, d, n, e) = H[Kid(h, n, e)]
      BY <1>11, <3>1 DEF Seen
    <3>3. /\ Seen(g, K, o, d, n, -1) = H[Kid(h, n, -1)]
          /\ Seen(g, K, o, d, n, 1) = H[Kid(h, n, 1)]
          /\ K[n] = H[n] /\ g.balance[n] = h.balance[n]
      BY <1>9, <1>10, <3>2 DEF Sides
    <3>4. /\ H[n] = 1 + Larger(H[Kid(h, n, -1)], H[Kid(h, n, 1)])
          /\ h.balance[n] = H[Kid(h, n, 1)] - H[Kid(h, n, -1)]
          /\ h.balance[n] \in -1 .. 1
      BY DEF Tall, Balanced
    <3> QED
      BY <3>3, <3>4
  <2> HIDE DEF o
  <2> QED
    BY <1>10, <2>1 DEF Reckoned
<1>17. J[Top(g)] = Without(I[Top(h)], x)
  <2>1. Top(g) = Kid(g, Root, 1) /\ Top(h) = Kid(h, Root, 1)
    BY DEF Top, Kid
  <2> QED
    BY <1>11, <2>1 DEF Sides
<1> HIDE DEF R
<1>18. CASE p = Root
  <2>1. o = Nil /\ Linked(g, R) /\ Nil \notin N /\ R \subseteq N
    BY <1>14, <1>18, RootedLinks DEF Rooted
  <2> HIDE DEF o
  <2>2. Tall(g, R, K) /\ Balanced(g, R, K)
    BY <1>16, <2>1, ReckonedWhole
  <2>3. Whole(g, N, R, J, K)
    BY <1>14, <1>15, <2>1, <2>2 DEF Whole, Subtree
  <2> QED
    BY <1>7, <1>9, <1>17, <1>18, <2>3 DEF R
<1>19. CASE p # Root
  <2>1. o = p /\ p \in R
    BY <1>6, <1>19
  <2> HIDE DEF o
  <2>2. Deficient(g, N, R, J, K, p, d)
    BY <1>4, <1>14, <1>15, <1>16, <2>1 DEF Deficient
  <2> QED
    BY <1>7, <1>9, <1>17, <1>19, <2>2 DEF R
<1> QED
  BY <1>18, <1>19

-----------------------------------------------------------------------------
(* The whole climb                                                         *)

\* What a turn of the climb leaves for the next: the heap, and the node and the
\* side of it that got shorter.
Turn(y) == Shrink(y.h, y.p, y.d)
After(y) == LET w == Turn(y)
                u == w.h.parent[w.top]
            IN  [h |-> w.h, p |-> u, d |-> IF w.h.left[u] = w.top THEN -1 ELSE 1]

\* The loop "while (shorter && p->parent)" is left after k turns: v[m] is what turn
\* m + 1 finds, and what turn m has left.
Climbed(v, k) ==
    /\ \A m \in 0 .. k - 1 : /\ v[m].h.parent[v[m].p] # Nil /\ v[m + 1] = After(v[m])
                             /\ m > 0 => Turn(v[m - 1]).shorter
    /\ v[k].h.parent[v[k].p] = Nil \/ (k > 0 /\ ~Turn(v[k - 1]).shorter)

\* What holds before turn m + 1, s being the order of the nodes.
Climbing(v, m, N, T, key, s) ==
    \E I, H : /\ v[m].h.key = key /\ I[Top(v[m].h)] = s
              /\ IF v[m].p = Root \/ (m > 0 /\ ~Turn(v[m - 1]).shorter)
                 THEN Whole(v[m].h, N, T, I, H)
                 ELSE Deficient(v[m].h, N, T, I, H, v[m].p, v[m].d)

\* avl_delete restores the tree ("climb back up the tree", avl.c:454 to 621).  Let T
\* be a tree in order and balanced, and let x be a node of it with at most one
\* child that has been counted out of the ranks of the others.  When x has been
\* detached and the loop been left, the tree is whole: the other nodes stand in
\* the same order with the same keys, and each has the right links, rank and
\* balance factor.
THEOREM DeletionRestores ==
    ASSUME NEW h, NEW N, NEW T, NEW I, NEW H, Rooted(h, N, T), Ordered(h, T, I), Tall(h, T, H),
           Balanced(h, T, H), NEW x \in T, Kid(h, x, -1) = Nil \/ Kid(h, x, 1) = Nil,
           \A n \in T \ {x} : h.rank[n] = Len(Without(I[Kid(h, n, -1)], x)) + 1,
           NEW v, v[0] = Detached(h, x), NEW k \in Nat, Climbed(v, k)
    PROVE  \E J, K : /\ v[k].h.key = h.key /\ J[Top(v[k].h)] = Without(I[Top(h)], x)
                     /\ Whole(v[k].h, N, T \ {x}, J, K)
<1> DEFINE R == T \ {x}
           s == Without(I[Top(h)], x)
           P == {m \in Nat : m <= k => Climbing(v, m, N, R, h.key, s)}
<1>1. 0 \in P
  <2>1. \E J, K : /\ v[0].h.key = h.key /\ J[Top(v[0].h)] = s
                  /\ IF v[0].p = Root THEN Whole(v[0].h, N, R, J, K)
                     ELSE Deficient(v[0].h, N, R, J, K, v[0].p, v[0].d)
    BY DetachedIsDeficient, SMTT(40)
  <2> HIDE DEF R, s
  <2> QED
    BY <2>1 DEF Climbing
<1> HIDE DEF R, s
<1>2. ASSUME NEW m \in P \cap Nat PROVE m + 1 \in P
  <2> SUFFICES ASSUME m + 1 <= k PROVE Climbing(v, m + 1, N, R, h.key, s)
    OBVIOUS
  <2>1. /\ m \in 0 .. k - 1 /\ m + 1 > 0 /\ (m + 1) - 1 = m
        /\ Climbing(v, m, N, R, h.key, s)
    OBVIOUS
  <2> HIDE DEF P
  <2>2. PICK J, K : /\ v[m].h.key = h.key /\ J[Top(v[m].h)] = s
                    /\ IF v[m].p = Root \/ (m > 0 /\ ~Turn(v[m - 1]).shorter)
                       THEN Whole(v[m].h, N, R, J, K)
                       ELSE Deficient(v[m].h, N, R, J, K, v[m].p, v[m].d)
    BY <2>1 DEF Climbing
  <2>3. /\ v[m].h.parent[v[m].p] # Nil /\ v[m + 1] = After(v[m])
        /\ m > 0 => Turn(v[m - 1]).shorter
    BY <2>1 DEF Climbed
  <2>4. v[m].p # Root
    <3>1. CASE v[m].p = Root
      BY <2>2, <2>3, <3>1 DEF Whole, Rooted
    <3> QED
      BY <3>1
  <2>5. Deficient(v[m].h, N, R, J, K, v[m].p, v[m].d)
    BY <2>2, <2>3, <2>4
  <2> DEFINE w == Turn(v[m])
             u == w.h.parent[w.top]
             e == IF w.h.left[u] = w.top THEN -1 ELSE 1
  <2>6. v[m + 1].h = w.h /\ v[m + 1].p = u /\ v[m + 1].d = e
    BY <2>3 DEF After
  <2>7. \E I2, H2 : /\ w.h.key = v[m].h.key /\ I2[Top(w.h)] = J[Top(v[m].h)]
                    /\ IF w.shorter /\ u # Root THEN Deficient(w.h, N, R, I2, H2, u, e)
                       ELSE Whole(w.h, N, R, I2, H2)
    <3>1. /\ w = Shrink(v[m].h, v[m].p, v[m].d) /\ u = w.h.parent[w.top]
          /\ e = IF w.h.left[u] = w.top THEN -1 ELSE 1
      BY DEF Turn
    <3> HIDE DEF w, u, e
    <3>2. TurnLeaves(v[m].h, N, R, J, w, u, e)
      BY <2>5, <3>1, ClimbTurn
    <3> QED
      BY <3>2 DEF TurnLeaves
  <2>8. w = Turn(v[(m + 1) - 1])
    BY <2>1
  <2> HIDE DEF w, u, e
  <2> QED
    BY <2>1, <2>2, <2>6, <2>7, <2>8 DEF Climbing
<1>3. k \in P
  <2> HIDE DEF P
  <2> QED
    BY <1>1, <1>2, NatSetInduction
<1>4. Climbing(v, k, N, R, h.key, s)
  BY <1>3
<1> HIDE DEF P
<1>5. PICK J, K : /\ v[k].h.key = h.key /\ J[Top(v[k].h)] = s
                  /\ IF v[k].p = Root \/ (k > 0 /\ ~Turn(v[k - 1]).shorter)
                     THEN Whole(v[k].h, N, R, J, K)
                     ELSE Deficient(v[k].h, N, R, J, K, v[k].p, v[k].d)
  BY <1>4 DEF Climbing
<1>6. Whole(v[k].h, N, R, J, K)
  <2>1. CASE Deficient(v[k].h, N, R, J, K, v[k].p, v[k].d)
    <3>1. v[k].h.parent[v[k].p] \in R \cup {Root} /\ R \subseteq N /\ Nil \notin N /\ Root \in N
      BY <2>1 DEF Deficient, Rooted
    <3>2. k > 0 /\ ~Turn(v[k - 1]).shorter
      BY <3>1 DEF Climbed
    <3> QED
      BY <1>5, <3>2
  <2> QED
    BY <1>5, <2>1
<1> QED
  BY <1>5, <1>6 DEF R, s
=============================================================================
