----------------------- MODULE ChunkExtensionsProofs -----------------------
(***************************************************************************)
(* Proofs about the text of chunk extensions.  Both properties come from   *)
(* one fact about in_quote: wherever a scan begins, reading one extension  *)
(* that the writer made leaves it 0 again, and while it is 0 the scan      *)
(* meets no character that could be taken for something else.              *)
(***************************************************************************)
EXTENDS ChunkExtensions, SequenceFacts

\* The characters of headers.
Letters == Chars \cup Special \cup {"1", "x"}

-----------------------------------------------------------------------------
(* in_quote                                                                *)

\* What a character makes of in_quote.
Turn(q, c) == IF q > 0 THEN Quote(q, c) ELSE IF c = "Q" THEN 1 ELSE 0

LEMMA TurnType == ASSUME NEW q \in Nat, NEW c PROVE Turn(q, c) \in Nat
BY DEF Turn, Quote

LEMMA Turns ==
    /\ Turn(0, "Q") = 1 /\ Turn(1, "BS") = 2 /\ Turn(2, "Q") = 1 /\ Turn(1, "Q") = 0
    /\ \A c : c # "Q" => Turn(0, c) = 0
    /\ \A c : c \notin {"Q", "BS"} => Turn(1, c) = 1
BY DEF Turn, Quote

\* The equations of InQuote.
LEMMA InQuoteValues ==
    ASSUME NEW p, NEW L \in Nat, Len(p) = L, NEW i \in 1 .. L + 1
    PROVE  /\ InQuote(p, i) \in [i .. L + 1 -> Nat] /\ InQuote(p, i)[i] = 0
           /\ \A j \in i .. L : InQuote(p, i)[j + 1] = Turn(InQuote(p, i)[j], p[j])
<1> DEFINE Good(m, g) == /\ g \in [i .. m -> Nat] /\ g[i] = 0
                         /\ \A j \in i + 1 .. m : g[j] = Turn(g[j - 1], p[j - 1])
           S == {n \in Nat : i + n <= L + 1 => \E g : Good(i + n, g)}
<1>1. 0 \in S
  <2>1. Good(i, [j \in i .. i |-> 0])
    OBVIOUS
  <2>2. i + 0 = i
    OBVIOUS
  <2> HIDE DEF Good
  <2> QED
    BY <2>1, <2>2
<1>2. ASSUME NEW n \in S \cap Nat PROVE n + 1 \in S
  <2> SUFFICES ASSUME i + (n + 1) <= L + 1 PROVE \E g : Good(i + (n + 1), g)
    <3> HIDE DEF Good
    <3> QED
      OBVIOUS
  <2>m. PICK m \in Nat : m = i + n /\ m + 1 = i + (n + 1) /\ m >= i /\ m <= L + 1
    OBVIOUS
  <2>1. PICK g : Good(m, g)
    <3> HIDE DEF Good
    <3> QED
      BY <2>m
  <2> HIDE DEF S
  <2>2. g[m] \in Nat /\ Turn(g[m], p[m]) \in Nat
    BY <2>m, <2>1, TurnType
  <2> DEFINE h == [j \in i .. m + 1 |-> IF j = m + 1 THEN Turn(g[m], p[m]) ELSE g[j]]
  <2>3. h \in [i .. m + 1 -> Nat]
    BY <2>m, <2>1, <2>2
  <2>4. (\A j \in i .. m : h[j] = g[j]) /\ h[m + 1] = Turn(g[m], p[m])
    BY <2>m
  <2> HIDE DEF h
  <2>5. ASSUME NEW j \in i + 1 .. m + 1 PROVE h[j] = Turn(h[j - 1], p[j - 1])
    <3>1. CASE j = m + 1
      <4>1. j - 1 = m /\ m \in i .. m
        BY <2>m, <3>1
      <4> QED
        BY <2>4, <3>1, <4>1
    <3>2. CASE j # m + 1
      <4>1. j \in i + 1 .. m /\ j \in i .. m /\ j - 1 \in i .. m
        BY <2>m, <3>2
      <4>2. g[j] = Turn(g[j - 1], p[j - 1])
        BY <2>1, <4>1
      <4> QED
        BY <2>4, <4>1, <4>2
    <3> QED
      BY <3>1, <3>2
  <2>6. h[i] = 0
    BY <2>m, <2>1, <2>4
  <2>7. Good(m + 1, h)
    BY <2>3, <2>5, <2>6
  <2> HIDE DEF Good
  <2> QED
    BY <2>m, <2>7
<1>3. L + 1 - i \in S
  <2>1. L + 1 - i \in Nat
    OBVIOUS
  <2> HIDE DEF S
  <2> QED
    BY <1>1, <1>2, <2>1, NatSetInduction
<1>4. PICK g : Good(L + 1, g)
  <2>1. L + 1 - i \in Nat /\ i + (L + 1 - i) = L + 1
    OBVIOUS
  <2>2. PICK x \in S : x = L + 1 - i
    BY <1>3
  <2>3. i + x <= L + 1 /\ i + x = L + 1
    BY <2>1, <2>2
  <2> HIDE DEF Good
  <2> QED
    BY <2>3
<1> HIDE DEF S
<1> DEFINE Step(f0, j) == IF j = i THEN 0
                          ELSE IF f0[j - 1] > 0 THEN Quote(f0[j - 1], p[j - 1])
                          ELSE IF p[j - 1] = "Q" THEN 1 ELSE 0
           F(f0) == [j \in i .. L + 1 |-> Step(f0, j)]
<1>5. g = F(g)
  <2>1. ASSUME NEW j \in i .. L + 1 PROVE g[j] = Step(g, j)
    <3>1. CASE j = i
      BY <1>4, <3>1
    <3>2. CASE j # i
      <4>1. j \in i + 1 .. L + 1
        BY <3>2
      <4>2. g[j] = Turn(g[j - 1], p[j - 1])
        BY <1>4, <4>1
      <4> QED
        BY <3>2, <4>2 DEF Turn
    <3> QED
      BY <3>1, <3>2
  <2>2. g = [j \in i .. L + 1 |-> g[j]]
    BY <1>4
  <2> HIDE DEF Step
  <2> QED
    BY <2>1, <2>2
<1>6. PICK f : f = CHOOSE f0 : f0 = F(f0)
  OBVIOUS
<1>7. f = F(f)
  <2> HIDE DEF F
  <2> QED
    BY <1>5, <1>6
<1>8. InQuote(p, i) = f
  BY <1>6 DEF InQuote
<1>9. f[i] = 0
  BY <1>7
<1>10. ASSUME NEW j \in i .. L PROVE f[j + 1] = Turn(f[j], p[j])
  <2>1. j + 1 \in i .. L + 1 /\ j + 1 # i /\ (j + 1) - 1 = j
    OBVIOUS
  <2>2. f[j + 1] = Step(f, j + 1)
    BY <1>7, <2>1
  <2> QED
    BY <2>1, <2>2 DEF Turn
<1> DEFINE R == {n \in Nat : i + n <= L + 1 => f[i + n] \in Nat}
<1>11. 0 \in R
  BY <1>9
<1>12. ASSUME NEW n \in R \cap Nat PROVE n + 1 \in R
  <2> SUFFICES ASSUME i + (n + 1) <= L + 1 PROVE f[i + (n + 1)] \in Nat
    OBVIOUS
  <2>1. i + n \in i .. L /\ i + (n + 1) = (i + n) + 1 /\ i + n <= L + 1
    OBVIOUS
  <2>2. f[i + n] \in Nat
    BY <2>1
  <2>3. Turn(f[i + n], p[i + n]) \in Nat
    BY <2>2, TurnType
  <2> QED
    BY <1>10, <2>1, <2>3
<1>13. ASSUME NEW j \in i .. L + 1 PROVE f[j] \in Nat
  <2>1. j - i \in Nat /\ i + (j - i) = j
    OBVIOUS
  <2>2. Nat \subseteq R
    <3> HIDE DEF R
    <3> QED
      BY <1>11, <1>12, NatSetInduction
  <2>3. j - i \in R
    BY <2>1, <2>2
  <2> QED
    BY <2>1, <2>3
<1>14. f \in [i .. L + 1 -> Nat]
  <2>1. f = [j \in i .. L + 1 |-> f[j]]
    <3> HIDE DEF Step
    <3> QED
      BY <1>7
  <2> QED
    BY <1>13, <2>1
<1> HIDE DEF F
<1> QED
  BY <1>8, <1>9, <1>10, <1>14

-----------------------------------------------------------------------------
(* Quoted values                                                           *)

\* E is the text v with its quotes escaped: off[k] is how much of E stands for the
\* first k characters.
Escapes(v, E, off) ==
    /\ off[0] = 0 /\ Len(E) = off[Len(v)]
    /\ \A k \in 0 .. Len(v) : off[k] \in 0 .. Len(E)
    /\ \A k \in 1 .. Len(v) :
          \/ v[k] # "Q" /\ off[k] = off[k - 1] + 1 /\ E[off[k - 1] + 1] = v[k]
          \/ v[k] = "Q" /\ off[k] = off[k - 1] + 2
             /\ E[off[k - 1] + 1] = "BS" /\ E[off[k - 1] + 2] = "Q"

\* Sums of natural numbers grow.
LEMMA Growing ==
    ASSUME NEW N \in Nat, NEW off \in [0 .. N -> Nat], \A k \in 1 .. N : off[k - 1] <= off[k]
    PROVE  \A k \in 0 .. N : off[k] <= off[N]
<1> DEFINE S == {n \in Nat : n <= N => off[N - n] <= off[N]}
<1>1. 0 \in S
  OBVIOUS
<1>2. ASSUME NEW n \in S \cap Nat PROVE n + 1 \in S
  <2> SUFFICES ASSUME n + 1 <= N PROVE off[N - (n + 1)] <= off[N]
    OBVIOUS
  <2>1. N - n \in 1 .. N /\ (N - n) - 1 = N - (n + 1) /\ N - (n + 1) \in 0 .. N
    OBVIOUS
  <2>2. off[N - (n + 1)] <= off[N - n] /\ off[N - n] <= off[N]
    BY <2>1
  <2>3. off[N - (n + 1)] \in Nat /\ off[N - n] \in Nat /\ off[N] \in Nat
    BY <2>1
  <2> QED
    BY <2>2, <2>3
<1>3. ASSUME NEW k \in 0 .. N PROVE off[k] <= off[N]
  <2>1. N - k \in Nat /\ N - (N - k) = k /\ N - k <= N
    OBVIOUS
  <2>2. N - k \in S
    <3> HIDE DEF S
    <3> QED
      BY <1>1, <1>2, <2>1, NatSetInduction
  <2> QED
    BY <2>1, <2>2
<1> QED
  BY <1>3

LEMMA EscapedText ==
    ASSUME NEW v \in Seq(Letters)
    PROVE  /\ Escaped(v) \in Seq(Letters)
           /\ \E off \in [0 .. Len(v) -> Nat] : Escapes(v, Escaped(v), off)
<1> DEFINE N == Len(v)
           Piece(c) == IF c = "Q" THEN <<"BS", "Q">> ELSE <<c>>
           ss == [k \in 1 .. N |-> Piece(v[k])]
<1>1. N \in Nat /\ DOMAIN v = 1 .. N /\ \A k \in 1 .. N : v[k] \in Letters
  BY LenProperties
<1> HIDE DEF N
<1>2. ASSUME NEW c \in Letters PROVE Piece(c) \in Seq(Letters)
  <2>2. "BS" \in Letters /\ "Q" \in Letters
    BY DEF Letters, Special
  <2>1. <<"BS", "Q">> \in Seq(Letters) /\ <<c>> \in Seq(Letters)
    BY <2>2
  <2> QED
    BY <2>1
<1> HIDE DEF Piece
<1>3. Len(ss) = N /\ ss = [k \in 1 .. N |-> ss[k]] /\ \A k \in 1 .. N : ss[k] = Piece(v[k])
  BY <1>1
<1>4. \A k \in 1 .. N : ss[k] \in Seq(Letters)
  BY <1>1, <1>2, <1>3
<1>5. Escaped(v) = FlattenSeq(ss)
  BY <1>1 DEF Escaped, Piece
<1> HIDE DEF ss
<1>6. FlattenSeq(ss) \in Seq(Letters) /\ \E off \in [0 .. N -> Nat] : Joins(ss, FlattenSeq(ss), off)
  BY <1>1, <1>3, <1>4, Pieces
<1>o. PICK off \in [0 .. N -> Nat] : Joins(ss, FlattenSeq(ss), off)
  BY <1>6
<1>7. /\ off[0] = 0 /\ Len(Escaped(v)) = off[N]
      /\ \A k \in 1 .. N : off[k] = off[k - 1] + Len(ss[k])
      /\ \A k \in 1 .. N : \A m \in 1 .. Len(ss[k]) : Escaped(v)[off[k - 1] + m] = ss[k][m]
  BY <1>3, <1>5, <1>o DEF Joins
<1>8. ASSUME NEW k \in 1 .. N
      PROVE  \/ v[k] # "Q" /\ off[k] = off[k - 1] + 1 /\ Escaped(v)[off[k - 1] + 1] = v[k]
             \/ v[k] = "Q" /\ off[k] = off[k - 1] + 2
                /\ Escaped(v)[off[k - 1] + 1] = "BS" /\ Escaped(v)[off[k - 1] + 2] = "Q"
  <2>1. CASE v[k] = "Q"
    <3>1. ss[k] = <<"BS", "Q">>
      BY <1>3, <2>1 DEF Piece
    <3>2. Len(ss[k]) = 2 /\ ss[k][1] = "BS" /\ ss[k][2] = "Q" /\ 1 \in 1 .. 2 /\ 2 \in 1 .. 2
      BY <3>1
    <3> QED
      BY <1>7, <2>1, <3>2
  <2>2. CASE v[k] # "Q"
    <3>1. ss[k] = <<v[k]>>
      BY <1>3, <2>2 DEF Piece
    <3>2. Len(ss[k]) = 1 /\ ss[k][1] = v[k] /\ 1 \in 1 .. 1
      BY <3>1
    <3> QED
      BY <1>7, <2>2, <3>2
  <2> QED
    BY <2>1, <2>2
<1>9. ASSUME NEW k \in 1 .. N PROVE off[k - 1] <= off[k]
  <2>1. k - 1 \in 0 .. N
    BY <1>1
  <2>2. off[k - 1] \in Nat
    BY <2>1
  <2> QED
    BY <1>8, <2>2
<1>10. \A k \in 0 .. N : off[k] <= off[N]
  BY <1>1, <1>9, Growing
<1>11. \A k \in 0 .. N : off[k] \in 0 .. Len(Escaped(v))
  BY <1>1, <1>7, <1>10
<1>12. Escapes(v, Escaped(v), off)
  BY <1>7, <1>8, <1>11 DEF Escapes, N
<1> QED
  BY <1>5, <1>6, <1>12 DEF N

\* p holds the text t behind position o; it holds E in quotes from position a on.
Holds(p, o, t)  == \A k \in 1 .. Len(t) : p[o + k] = t[k]
Quoted(p, a, E) == p[a] = "Q" /\ Holds(p, a, E) /\ p[a + Len(E) + 1] = "Q"

\* q is in_quote for p on positions i .. L.
Scanned(p, q, i, L) == \A j \in i .. L : q[j + 1] = Turn(q[j], p[j])

\* No backslash in v.
Plain(v) == \A k \in 1 .. Len(v) : v[k] # "BS"

\* in_quote on the way through a quoted value: it goes up at the first quote, comes
\* back to 1 after each character and down to 0 at the last quote.
InQuotes(q, a, v, E, off) ==
    /\ \A k \in 0 .. Len(v) : q[a + off[k] + 1] = 1
    /\ \A k \in 1 .. Len(v) : v[k] = "Q" => q[a + off[k - 1] + 2] = 2
    /\ \A j \in a + 1 .. a + Len(E) + 1 : q[j] > 0
    /\ q[a + Len(E) + 2] = 0

LEMMA QuotedScan ==
    ASSUME NEW p, NEW q, NEW i \in Nat, NEW L \in Nat, Scanned(p, q, i, L),
           NEW T, NEW v \in Seq(T), Plain(v), NEW E \in Seq(T),
           NEW off \in [0 .. Len(v) -> Nat], Escapes(v, E, off),
           NEW a \in i .. L, a + Len(E) + 1 <= L, q[a] = 0, Quoted(p, a, E)
    PROVE  InQuotes(q, a, v, E, off)
<1>n. Len(v) \in Nat
  BY LenProperties
<1>e. PICK M \in Nat : M = Len(E)
  BY LenProperties
<1>t. p[a] = "Q" /\ (\A k \in 1 .. M : p[a + k] = E[k]) /\ p[a + M + 1] = "Q" /\ a + M + 1 <= L
  BY <1>e DEF Quoted, Holds
<1>s. ASSUME NEW j \in i .. L PROVE q[j + 1] = Turn(q[j], p[j])
  BY DEF Scanned
<1>o. ASSUME NEW k \in Nat, k + 1 <= Len(v)
      PROVE  /\ k + 1 \in 1 .. Len(v) /\ k \in 0 .. Len(v) /\ k + 1 \in 0 .. Len(v)
             /\ off[k] \in 0 .. M /\ off[k + 1] \in 0 .. M /\ v[k + 1] # "BS"
             /\ \/ v[k + 1] # "Q" /\ off[k + 1] = off[k] + 1 /\ E[off[k] + 1] = v[k + 1]
                \/ v[k + 1] = "Q" /\ off[k + 1] = off[k] + 2
                   /\ E[off[k] + 1] = "BS" /\ E[off[k] + 2] = "Q"
  <2>1. k + 1 \in 1 .. Len(v) /\ k \in 0 .. Len(v) /\ k + 1 \in 0 .. Len(v) /\ (k + 1) - 1 = k
    BY <1>n, <1>o
  <2>2. \/ v[k + 1] # "Q" /\ off[k + 1] = off[(k + 1) - 1] + 1 /\ E[off[(k + 1) - 1] + 1] = v[k + 1]
        \/ v[k + 1] = "Q" /\ off[k + 1] = off[(k + 1) - 1] + 2
           /\ E[off[(k + 1) - 1] + 1] = "BS" /\ E[off[(k + 1) - 1] + 2] = "Q"
    BY <2>1, Zenon DEF Escapes
  <2>3. off[k] \in 0 .. M /\ off[k + 1] \in 0 .. M
    BY <1>e, <2>1 DEF Escapes
  <2>4. v[k + 1] # "BS"
    BY <2>1 DEF Plain
  <2> QED
    BY <2>1, <2>2, <2>3, <2>4
<1>2. ASSUME NEW k \in Nat, k + 1 <= Len(v), q[a + off[k] + 1] = 1
      PROVE  q[a + off[k + 1] + 1] = 1 /\ (v[k + 1] = "Q" => q[a + off[k] + 2] = 2)
  <2>0. k + 1 <= Len(v) /\ q[a + off[k] + 1] = 1
    BY <1>2
  <2>2. off[k] \in 0 .. M /\ off[k + 1] \in 0 .. M /\ v[k + 1] # "BS"
    BY <1>o, <2>0
  <2>3. PICK x \in 0 .. M, y \in 0 .. M, b \in Nat : x = off[k] /\ y = off[k + 1] /\ b = a + x + 1
    BY <2>2
  <2>b. b = a + x + 1
    BY <2>3
  <2>4. q[b] = 1 /\ b >= a + 1
    BY <2>0, <2>3, SMTT(30)
  <2>5. a + M + 1 <= L /\ a \in i .. L /\ a >= i /\ i \in Nat
    BY <1>t
  <2>6. CASE v[k + 1] # "Q" /\ y = x + 1 /\ E[x + 1] = v[k + 1]
    <3>1. y = x + 1 /\ x \in Nat
      BY <2>6
    <3>2. x + 1 \in 1 .. M /\ a + (x + 1) = b /\ b \in i .. L
      BY <2>b, <2>5, <3>1
    <3>3. p[b] = v[k + 1]
      BY <1>t, <2>6, <3>2
    <3>4. q[b + 1] = Turn(1, v[k + 1])
      BY <1>s, <2>4, <3>2, <3>3
    <3>5. Turn(1, v[k + 1]) = 1
      BY <2>2, <2>6, Turns
    <3>6. a + y + 1 = b + 1
      BY <2>b, <3>1
    <3> QED
      BY <2>3, <2>6, <3>4, <3>5, <3>6
  <2>7. CASE v[k + 1] = "Q" /\ y = x + 2 /\ E[x + 1] = "BS" /\ E[x + 2] = "Q"
    <3>1. y = x + 2 /\ x \in Nat
      BY <2>7
    <3>2. /\ x + 1 \in 1 .. M /\ a + (x + 1) = b /\ b \in i .. L
          /\ x + 2 \in 1 .. M /\ a + (x + 2) = b + 1 /\ b + 1 \in i .. L
      BY <2>b, <2>5, <3>1
    <3>3. p[b] = "BS" /\ p[b + 1] = "Q"
      BY <1>t, <2>7, <3>2
    <3>4. q[b + 1] = 2
      BY <1>s, <2>4, <3>2, <3>3, Turns
    <3>5. q[(b + 1) + 1] = 1
      BY <1>s, <3>2, <3>3, <3>4, Turns
    <3>6. a + y + 1 = (b + 1) + 1 /\ a + x + 2 = b + 1
      BY <2>b, <3>1
    <3> QED
      BY <2>3, <3>4, <3>5, <3>6
  <2>8. \/ v[k + 1] # "Q" /\ y = x + 1 /\ E[x + 1] = v[k + 1]
        \/ v[k + 1] = "Q" /\ y = x + 2 /\ E[x + 1] = "BS" /\ E[x + 2] = "Q"
    BY <1>o, <2>0, <2>3, SMTT(30)
  <2> QED
    BY <2>6, <2>7, <2>8
<1> DEFINE Up(k) == q[a + off[k] + 1] = 1
           Open(k) == \A j \in a + 1 .. a + off[k] + 1 : q[j] > 0
           S == {k \in Nat : k <= Len(v) => Up(k) /\ Open(k)}
<1>1. 0 \in S
  <2>1. off[0] = 0 /\ a + 0 + 1 = a + 1
    BY DEF Escapes
  <2>2. q[a + 1] = 1
    BY <1>s, <1>t DEF Turn
  <2>3. \A j \in a + 1 .. a + 0 + 1 : j = a + 1
    OBVIOUS
  <2> QED
    BY <2>1, <2>2, <2>3
<1>3. ASSUME NEW k \in S \cap Nat PROVE k + 1 \in S
  <2> SUFFICES ASSUME k + 1 <= Len(v) PROVE Up(k + 1) /\ Open(k + 1)
    <3> HIDE DEF Up, Open
    <3> QED
      OBVIOUS
  <2>2. k \in Nat /\ k <= Len(v) /\ Up(k) /\ Open(k)
    <3> HIDE DEF Up, Open
    <3> QED
      BY <1>n
  <2>3. Up(k + 1) /\ (v[k + 1] = "Q" => q[a + off[k] + 2] = 2)
    BY <1>2, <2>2
  <2>4. off[k] \in 0 .. M /\ off[k + 1] \in 0 .. M
    BY <1>o, <2>2
  <2>5. \/ v[k + 1] # "Q" /\ off[k + 1] = off[k] + 1
        \/ v[k + 1] = "Q" /\ off[k + 1] = off[k] + 2
    BY <1>o, <2>2
  <2>6. ASSUME NEW j \in a + 1 .. a + off[k + 1] + 1 PROVE q[j] > 0
    <3>1. CASE j \in a + 1 .. a + off[k] + 1
      BY <2>2, <3>1
    <3>2. CASE j = a + off[k + 1] + 1
      BY <2>3, <3>2
    <3>3. CASE v[k + 1] = "Q" /\ j = a + off[k] + 2
      BY <2>3, <3>3
    <3>4. PICK x \in 0 .. M, y \in 0 .. M : x = off[k] /\ y = off[k + 1]
      BY <2>4
    <3>5. y = x + 1 \/ (v[k + 1] = "Q" /\ y = x + 2)
      <4>1. CASE v[k + 1] # "Q" /\ off[k + 1] = off[k] + 1
        BY <3>4, <4>1
      <4>2. CASE v[k + 1] = "Q" /\ off[k + 1] = off[k] + 2
        BY <3>4, <4>2
      <4> QED
        BY <2>5, <4>1, <4>2
    <3>6. j \in a + 1 .. a + y + 1
      BY <3>4
    <3>7. j \in a + 1 .. a + x + 1 \/ j = a + y + 1 \/ (v[k + 1] = "Q" /\ j = a + x + 2)
      BY <3>5, <3>6
    <3> HIDE DEF Up, Open
    <3> QED
      BY <3>1, <3>2, <3>3, <3>4, <3>7
  <2> HIDE DEF Up
  <2> QED
    BY <2>3, <2>6
<1>4. ASSUME NEW k \in 0 .. Len(v) PROVE Up(k) /\ Open(k)
  <2>1. Nat \subseteq S
    <3> HIDE DEF S
    <3> QED
      BY <1>1, <1>3, NatSetInduction
  <2> HIDE DEF Up, Open
  <2>2. k \in Nat /\ k <= Len(v)
    BY <1>n
  <2>3. k \in S
    BY <2>1, <2>2
  <2> QED
    BY <2>2, <2>3
<1>5. ASSUME NEW k \in 1 .. Len(v), v[k] = "Q" PROVE q[a + off[k - 1] + 2] = 2
  <2>1. k - 1 \in Nat /\ (k - 1) + 1 = k /\ k - 1 \in 0 .. Len(v) /\ k <= Len(v)
    BY <1>n
  <2>2. Up(k - 1)
    <3> HIDE DEF Up
    <3> QED
      BY <1>4, <2>1
  <2>3. v[(k - 1) + 1] = "Q" => q[a + off[k - 1] + 2] = 2
    BY <1>2, <2>1, <2>2
  <2> QED
    BY <1>5, <2>1, <2>3
<1>6. off[Len(v)] = M /\ Len(v) \in 0 .. Len(v)
  BY <1>n, <1>e DEF Escapes
<1>7. q[a + M + 1] = 1 /\ \A j \in a + 1 .. a + M + 1 : q[j] > 0
  BY <1>4, <1>6
<1>8. q[a + M + 2] = 0
  <2>1. a + M + 1 \in i .. L /\ (a + M + 1) + 1 = a + M + 2
    BY <1>t
  <2>2. q[(a + M + 1) + 1] = Turn(1, "Q")
    BY <1>s, <1>t, <1>7, <2>1
  <2> QED
    BY <2>1, <2>2, Turns
<1> HIDE DEF S, Open
<1> QED
  BY <1>4, <1>5, <1>7, <1>8, <1>e DEF InQuotes

\* Whether Decode keeps the character at position j.
Kept(p, q, j) == \/ p[j] = "Q" /\ q[j] > 0 /\ q[j + 1] > 0
                 \/ p[j] = "BS" /\ q[j] = 0
                 \/ p[j] \notin {"Q", "BS"}

\* d[j] is what Decode has when it is at position j, until e.
Decoding(p, q, d, i, e) ==
    d[i] = <<>> /\ \A j \in i .. e - 1 : d[j + 1] = IF Kept(p, q, j) THEN Append(d[j], p[j]) ELSE d[j]

\* Decode on a value that is in quotes from its first to its last character.
LEMMA DecodeValues ==
    ASSUME NEW p, NEW L \in Nat, Len(p) = L, NEW i \in 1 .. L + 1, NEW e \in i .. L + 1,
           \A j \in i .. e - 1 : InQuote(p, i)[j] = 0 => p[j] = "Q"
    PROVE  \E d : Decoding(p, InQuote(p, i), d, i, e) /\ Decode(p, i, e) = d[e]
<1>q. PICK q : q = InQuote(p, i)
  OBVIOUS
<1> DEFINE K(j) == \/ p[j] = "Q" /\ q[j] > 0 /\ q[j + 1] > 0
                   \/ p[j] = "BS" /\ q[j] = 0
                   \/ p[j] \notin {"Q", "BS"}
           Good(m, g) == /\ g = [j \in i .. m |-> g[j]] /\ g[i] = <<>>
                         /\ \A j \in i + 1 .. m :
                               g[j] = IF K(j - 1) THEN Append(g[j - 1], p[j - 1]) ELSE g[j - 1]
           S == {n \in Nat : \E g : Good(i + n, g)}
<1> HIDE DEF K
<1>1. 0 \in S
  <2>1. Good(i, [j \in i .. i |-> <<>>])
    <3>1. i \in i .. i /\ i + 1 .. i = {}
      OBVIOUS
    <3> QED
      BY <3>1
  <2>2. i + 0 = i
    OBVIOUS
  <2> HIDE DEF Good
  <2> QED
    BY <2>1, <2>2
<1>2. ASSUME NEW n \in S \cap Nat PROVE n + 1 \in S
  <2>n. PICK k \in Nat : k = n
    OBVIOUS
  <2>m. PICK m \in Nat : m = i + n /\ m + 1 = i + (n + 1) /\ m >= i
    <3> HIDE DEF S
    <3> QED
      BY <2>n
  <2>1. PICK g : Good(m, g)
    <3> HIDE DEF Good
    <3> QED
      BY <2>m
  <2> HIDE DEF S
  <2> DEFINE new == IF K(m) THEN Append(g[m], p[m]) ELSE g[m]
             h == [j \in i .. m + 1 |-> IF j = m + 1 THEN new ELSE g[j]]
  <2> HIDE DEF new
  <2>3. h = [j \in i .. m + 1 |-> h[j]]
    OBVIOUS
  <2>4. (\A j \in i .. m : h[j] = g[j]) /\ h[m + 1] = new
    BY <2>m
  <2> HIDE DEF h
  <2>5. ASSUME NEW j \in i + 1 .. m + 1
        PROVE  h[j] = IF K(j - 1) THEN Append(h[j - 1], p[j - 1]) ELSE h[j - 1]
    <3>1. CASE j = m + 1
      <4>1. j - 1 = m /\ m \in i .. m
        BY <2>m, <3>1
      <4>2. h[j - 1] = g[m]
        BY <2>4, <4>1
      <4> QED
        BY <2>4, <3>1, <4>1, <4>2 DEF new
    <3>2. CASE j # m + 1
      <4>1. j \in i + 1 .. m /\ j \in i .. m /\ j - 1 \in i .. m
        BY <2>m, <3>2
      <4>2. g[j] = IF K(j - 1) THEN Append(g[j - 1], p[j - 1]) ELSE g[j - 1]
        BY <2>1, <4>1
      <4>3. h[j] = g[j] /\ h[j - 1] = g[j - 1]
        BY <2>4, <4>1
      <4> QED
        BY <4>2, <4>3
    <3> QED
      BY <3>1, <3>2
  <2>6. h[i] = <<>>
    BY <2>m, <2>1, <2>4
  <2>7. Good(m + 1, h)
    BY <2>3, <2>5, <2>6
  <2> HIDE DEF Good
  <2> QED
    BY <2>m, <2>7 DEF S
<1>3. e - i \in S
  <2>1. e - i \in Nat
    OBVIOUS
  <2> HIDE DEF S
  <2> QED
    BY <1>1, <1>2, <2>1, NatSetInduction
<1>4. PICK g : Good(e, g)
  <2>1. i + (e - i) = e
    OBVIOUS
  <2>2. PICK x \in S : x = e - i
    BY <1>3
  <2> HIDE DEF Good
  <2> QED
    BY <2>1, <2>2
<1> HIDE DEF S
<1> DEFINE Step(f0, j) == IF j = i THEN <<>>
                          ELSE IF K(j - 1) THEN Append(f0[j - 1], p[j - 1])
                          ELSE f0[j - 1]
           F(f0) == [j \in i .. e |-> Step(f0, j)]
<1>5. g = F(g)
  <2>1. ASSUME NEW j \in i .. e PROVE g[j] = Step(g, j)
    <3>1. CASE j = i
      BY <1>4, <3>1
    <3>2. CASE j # i
      <4>1. j \in i + 1 .. e
        BY <3>2
      <4> QED
        BY <1>4, <3>2, <4>1
    <3> QED
      BY <3>1, <3>2
  <2>2. g = [j \in i .. e |-> g[j]]
    BY <1>4
  <2> HIDE DEF Step
  <2> QED
    BY <2>1, <2>2
<1>6. PICK d : d = CHOOSE f0 : f0 = F(f0)
  OBVIOUS
<1>7. d = F(d)
  <2> HIDE DEF F
  <2> QED
    BY <1>5, <1>6
<1> DEFINE stops == {j \in i .. e - 1 : /\ q[j] = 0 /\ p[j] # "Q"
                                       /\ e + (e - j) <= Len(p) /\ p[e + (e - j)] = "SEMI"}
<1>8. Min({e} \cup stops) = e
  <2>1. stops = {}
    BY <1>q
  <2>2. {e} \cup stops = {e}
    BY <2>1
  <2> HIDE DEF stops
  <2>3. Min({e}) = e
    BY DEF Min
  <2> QED
    BY <2>2, <2>3
<1>9. Decode(p, i, e) = d[Min({e} \cup stops)]
  BY <1>6, <1>q DEF Decode, K
<1>10. d[i] = <<>>
  BY <1>7
<1>11. ASSUME NEW j \in i .. e - 1
       PROVE  d[j + 1] = IF Kept(p, q, j) THEN Append(d[j], p[j]) ELSE d[j]
  <2>1. j + 1 \in i .. e /\ j + 1 # i /\ (j + 1) - 1 = j
    OBVIOUS
  <2>2. d[j + 1] = Step(d, j + 1)
    BY <1>7, <2>1
  <2>3. K(j) = Kept(p, q, j)
    BY DEF K, Kept
  <2> QED
    BY <2>1, <2>2, <2>3
<1> HIDE DEF F, Good, stops
<1>12. Decoding(p, q, d, i, e)
  BY <1>10, <1>11 DEF Decoding
<1> QED
  BY <1>q, <1>8, <1>9, <1>12

\* A value ends where in_quote goes back to 0.
LEMMA QuoteEnds ==
    ASSUME NEW p, NEW L \in Nat, Len(p) = L, NEW a \in 1 .. L, NEW e \in a + 1 .. L + 1, e > a + 1,
           p[a] # "SEMI", \A j \in a + 1 .. e - 1 : InQuote(p, a)[j] > 0, InQuote(p, a)[e] = 0
    PROVE  ValueEnd(p, a) = e
<1>q. PICK q : q = InQuote(p, a)
  OBVIOUS
<1>r. a \in Nat /\ e \in Nat /\ a + 1 < e /\ e <= L + 1 /\ L \in Nat
  OBVIOUS
<1>p. (\A j \in a + 1 .. e - 1 : q[j] > 0) /\ q[e] = 0
  BY <1>q
<1> DEFINE Is(x) == x = L + 1 \/ (q[x] = 0 /\ p[x] = "SEMI") \/ (x > a /\ q[x - 1] > 0 /\ q[x] = 0)
           S == {x \in a .. L + 1 : Is(x)}
<1>1. e \in S
  <2>1. e - 1 \in a + 1 .. e - 1 /\ e \in a .. L + 1 /\ e > a
    BY <1>r
  <2>2. Is(e)
    BY <1>p, <2>1
  <2> HIDE DEF Is
  <2> QED
    BY <2>1, <2>2
<1>2. ASSUME NEW x \in a .. L + 1, x < e PROVE ~Is(x)
  <2>1. x # L + 1
    BY <1>r, <1>2
  <2>2. CASE x = a
    BY <1>r, <2>1, <2>2
  <2>3. CASE x # a
    <3>1. x \in a + 1 .. e - 1
      BY <1>r, <1>2, <2>3
    <3>2. q[x] > 0
      BY <1>p, <3>1
    <3>3. q[x] # 0
      BY <3>2
    <3> QED
      BY <2>1, <3>3
  <2> QED
    BY <2>2, <2>3
<1> HIDE DEF Is
<1>3. \A x \in S : e <= x
  BY <1>r, <1>2
<1>4. S \subseteq Int
  BY <1>r
<1> HIDE DEF S
<1>5. Min(S) = e
  BY <1>1, <1>3, <1>4, MinIsLeast
<1> QED
  BY <1>5, <1>q DEF ValueEnd, S, Is

\* A value in quotes ends at its last quote and is decoded to what was escaped.
ReadsBack(p, a, v, E) == ValueEnd(p, a) = a + Len(E) + 2 /\ Decode(p, a, a + Len(E) + 2) = v

LEMMA QuotedValue ==
    ASSUME NEW p, NEW L \in Nat, Len(p) = L, NEW T, NEW v \in Seq(T), Plain(v), NEW E \in Seq(T),
           NEW off \in [0 .. Len(v) -> Nat], Escapes(v, E, off),
           NEW a \in 1 .. L, a + Len(E) + 1 <= L, Quoted(p, a, E)
    PROVE  ReadsBack(p, a, v, E)
<1>n. Len(v) \in Nat /\ \A k \in 1 .. Len(v) : v[k] \in T
  BY LenProperties
<1>e. PICK M \in Nat : M = Len(E)
  BY LenProperties
<1>m. PICK e \in a + 1 .. L + 1 : e = a + M + 2
  BY <1>e
<1>r. a \in Nat /\ e \in Nat /\ a < e /\ e <= L + 1 /\ L \in Nat
  OBVIOUS
<1>q. PICK q : q = InQuote(p, a)
  OBVIOUS
<1>1. q[a] = 0 /\ Scanned(p, q, a, L) /\ \A j \in a .. L + 1 : q[j] \in Nat
  <2>1. a \in 1 .. L + 1
    OBVIOUS
  <2>2. /\ InQuote(p, a) \in [a .. L + 1 -> Nat] /\ InQuote(p, a)[a] = 0
        /\ \A j \in a .. L : InQuote(p, a)[j + 1] = Turn(InQuote(p, a)[j], p[j])
    BY <2>1, InQuoteValues
  <2>3. q \in [a .. L + 1 -> Nat] /\ q[a] = 0 /\ \A j \in a .. L : q[j + 1] = Turn(q[j], p[j])
    BY <1>q, <2>2
  <2> QED
    BY <2>3 DEF Scanned
<1>2. /\ \A k \in 0 .. Len(v) : q[a + off[k] + 1] = 1
      /\ \A k \in 1 .. Len(v) : v[k] = "Q" => q[a + off[k - 1] + 2] = 2
      /\ \A j \in a + 1 .. e - 1 : q[j] > 0
      /\ q[e] = 0
  <2>1. a \in a .. L /\ a \in Nat
    OBVIOUS
  <2>2. InQuotes(q, a, v, E, off)
    BY <1>1, <2>1, QuotedScan
  <2>3. a + Len(E) + 1 = e - 1 /\ a + Len(E) + 2 = e
    BY <1>e, <1>m
  <2> QED
    BY <2>2, <2>3 DEF InQuotes
<1>3. p[a] = "Q" /\ (\A k \in 1 .. M : p[a + k] = E[k]) /\ p[e - 1] = "Q"
  <2>1. a + Len(E) + 1 = e - 1
    BY <1>e, <1>m
  <2> QED
    BY <1>e, <2>1 DEF Quoted, Holds
<1>4. ValueEnd(p, a) = e
  <2>1. \A j \in a + 1 .. e - 1 : InQuote(p, a)[j] > 0
    BY <1>2, <1>q
  <2>2. InQuote(p, a)[e] = 0 /\ p[a] # "SEMI" /\ e > a + 1
    BY <1>e, <1>m, <1>2, <1>3, <1>q
  <2> QED
    BY <2>1, <2>2, QuoteEnds
<1>5. PICK d : Decoding(p, q, d, a, e) /\ Decode(p, a, e) = d[e]
  <2>1. ASSUME NEW j \in a .. e - 1, q[j] = 0 PROVE p[j] = "Q"
    <3>1. j \notin a + 1 .. e - 1
      BY <1>2, <2>1
    <3>2. j = a
      BY <3>1
    <3> QED
      BY <1>3, <3>2
  <2>2. a \in 1 .. L + 1 /\ e \in a .. L + 1
    OBVIOUS
  <2> QED
    BY <1>q, <2>1, <2>2, DecodeValues, SMTT(30)
<1>6. d[a] = <<>>
  BY <1>5 DEF Decoding
<1>7. ASSUME NEW j \in a .. e - 1 PROVE d[j + 1] = IF Kept(p, q, j) THEN Append(d[j], p[j]) ELSE d[j]
  BY <1>5 DEF Decoding
<1>8. d[a + 1] = <<>>
  <2>1. ~Kept(p, q, a)
    BY <1>1, <1>3 DEF Kept
  <2>2. a \in a .. e - 1
    OBVIOUS
  <2> QED
    BY <1>6, <1>7, <2>1, <2>2
<1> DEFINE Got(k) == d[a + off[k] + 1] = SubSeq(v, 1, k)
           S == {k \in Nat : k <= Len(v) => Got(k)}
<1>9. 0 \in S
  <2>1. off[0] = 0 /\ a + 0 + 1 = a + 1
    BY DEF Escapes
  <2>2. SubSeq(v, 1, 0) = <<>>
    OBVIOUS
  <2> QED
    BY <1>8, <2>1, <2>2
<1>10. ASSUME NEW k \in S \cap Nat PROVE k + 1 \in S
  <2> SUFFICES ASSUME k + 1 <= Len(v) PROVE Got(k + 1)
    <3> HIDE DEF Got
    <3> QED
      OBVIOUS
  <2>k. k \in Nat /\ k + 1 <= Len(v) /\ Got(k)
    <3> HIDE DEF Got
    <3> QED
      BY <1>n
  <2> HIDE DEF S
  <2>1. k + 1 \in 1 .. Len(v) /\ k \in 0 .. Len(v) /\ k + 1 \in 0 .. Len(v) /\ (k + 1) - 1 = k
    BY <1>n, <2>k
  <2>2. \/ v[k + 1] # "Q" /\ off[k + 1] = off[(k + 1) - 1] + 1 /\ E[off[(k + 1) - 1] + 1] = v[k + 1]
        \/ v[k + 1] = "Q" /\ off[k + 1] = off[(k + 1) - 1] + 2
           /\ E[off[(k + 1) - 1] + 1] = "BS" /\ E[off[(k + 1) - 1] + 2] = "Q"
    BY <2>1, Zenon DEF Escapes
  <2>3. off[k] \in 0 .. M /\ off[k + 1] \in 0 .. M
    BY <1>e, <2>1 DEF Escapes
  <2>4. v[k + 1] # "BS"
    BY <2>1 DEF Plain
  <2>5. PICK x \in 0 .. M, y \in 0 .. M, b \in Nat : x = off[k] /\ y = off[k + 1] /\ b = a + x + 1
    BY <2>3
  <2>b. b = a + x + 1
    BY <2>5
  <2>6. SubSeq(v, 1, k + 1) = Append(SubSeq(v, 1, k), v[k + 1])
    BY <2>k, NextPart
  <2>7. d[b] = SubSeq(v, 1, k) /\ q[b] = 1
    BY <1>2, <2>k, <2>1, <2>5
  <2>8. CASE v[k + 1] # "Q" /\ y = x + 1 /\ E[x + 1] = v[k + 1]
    <3>1. y = x + 1 /\ x \in Nat
      BY <2>8
    <3>2. x + 1 \in 1 .. M /\ a + (x + 1) = b /\ b \in a .. e - 1 /\ a + y + 1 = b + 1
      BY <1>m, <2>b, <3>1
    <3>3. p[b] = v[k + 1]
      BY <1>3, <2>8, <3>2
    <3>4. Kept(p, q, b)
      BY <2>4, <2>8, <3>3 DEF Kept
    <3>5. d[b + 1] = Append(d[b], p[b])
      BY <1>7, <3>2, <3>4
    <3> QED
      BY <2>5, <2>6, <2>7, <3>2, <3>3, <3>5
  <2>9. CASE v[k + 1] = "Q" /\ y = x + 2 /\ E[x + 1] = "BS" /\ E[x + 2] = "Q"
    <3>1. y = x + 2 /\ x \in Nat
      BY <2>9
    <3>2. /\ x + 1 \in 1 .. M /\ a + (x + 1) = b /\ b \in a .. e - 1
          /\ x + 2 \in 1 .. M /\ a + (x + 2) = b + 1 /\ b + 1 \in a .. e - 1
          /\ a + y + 1 = (b + 1) + 1
      BY <1>m, <2>b, <3>1
    <3>3. p[b] = "BS" /\ p[b + 1] = "Q"
      BY <1>3, <2>9, <3>2
    <3>4. ~Kept(p, q, b)
      BY <2>7, <3>3 DEF Kept
    <3>5. d[b + 1] = d[b]
      BY <1>7, <3>2, <3>4
    <3>6. q[b + 1] = 2 /\ q[(b + 1) + 1] = 1
      <4>1. a + x + 2 = b + 1 /\ a + y + 1 = (b + 1) + 1
        BY <2>b, <3>2
      <4>2. q[a + off[(k + 1) - 1] + 2] = 2 /\ q[a + off[k + 1] + 1] = 1
        BY <1>2, <2>1, <2>9
      <4> QED
        BY <2>1, <2>5, <4>1, <4>2
    <3>7. Kept(p, q, b + 1)
      BY <3>3, <3>6 DEF Kept
    <3>8. d[(b + 1) + 1] = Append(d[b + 1], p[b + 1])
      BY <1>7, <3>2, <3>7
    <3> QED
      BY <2>5, <2>6, <2>7, <2>9, <3>2, <3>3, <3>5, <3>8
  <2>10. \/ v[k + 1] # "Q" /\ y = x + 1 /\ E[x + 1] = v[k + 1]
         \/ v[k + 1] = "Q" /\ y = x + 2 /\ E[x + 1] = "BS" /\ E[x + 2] = "Q"
    BY <2>1, <2>2, <2>5
  <2> HIDE DEF Got
  <2> QED
    BY <2>8, <2>9, <2>10
<1>11. Got(Len(v))
  <2>1. Len(v) \in S
    <3> HIDE DEF S
    <3> QED
      BY <1>n, <1>9, <1>10, NatSetInduction
  <2> HIDE DEF Got
  <2> QED
    BY <1>n, <2>1
<1>12. d[e - 1] = v
  <2>1. off[Len(v)] = M /\ a + M + 1 = e - 1
    BY <1>e, <1>m DEF Escapes
  <2>2. SubSeq(v, 1, Len(v)) = v
    BY WholePart
  <2> QED
    BY <1>11, <2>1, <2>2
<1>13. d[e] = v
  <2>1. e - 1 \in a .. e - 1 /\ (e - 1) + 1 = e
    OBVIOUS
  <2>2. ~Kept(p, q, e - 1)
    BY <1>2, <1>3, <2>1 DEF Kept
  <2> QED
    BY <1>7, <1>12, <2>1, <2>2
<1> HIDE DEF S, Got
<1> QED
  BY <1>e, <1>m, <1>4, <1>5, <1>13 DEF ReadsBack

-----------------------------------------------------------------------------
(* One extension                                                           *)

LEMMA HoldsParts ==
    ASSUME NEW T, NEW s \in Seq(T), NEW t \in Seq(T), NEW p, NEW o \in Nat, Holds(p, o, s \o t)
    PROVE  Holds(p, o, s) /\ Holds(p, o + Len(s), t)
<1>1. Len(s) \in Nat /\ Len(t) \in Nat
  BY LenProperties
<1>2. /\ Len(s \o t) = Len(s) + Len(t)
      /\ \A k \in 1 .. Len(s) + Len(t) : (s \o t)[k] = IF k <= Len(s) THEN s[k] ELSE t[k - Len(s)]
  BY ConcatProperties
<1>3. PICK u : u = s \o t
  OBVIOUS
<1>4. \A k \in 1 .. Len(s) + Len(t) : p[o + k] = u[k]
  BY <1>2, <1>3 DEF Holds
<1>5. ASSUME NEW k \in 1 .. Len(s) PROVE p[o + k] = s[k]
  <2>1. k \in 1 .. Len(s) + Len(t) /\ k <= Len(s)
    BY <1>1
  <2> QED
    BY <1>2, <1>3, <1>4, <2>1
<1>6. ASSUME NEW k \in 1 .. Len(t) PROVE p[(o + Len(s)) + k] = t[k]
  <2>1. PICK n \in Nat : n = Len(s)
    BY <1>1
  <2>2. n + k \in 1 .. n + Len(t) /\ ~(n + k <= n) /\ (n + k) - n = k /\ (o + n) + k = o + (n + k)
    BY <1>1
  <2>3. u[n + k] = t[k]
    BY <1>2, <1>3, <2>1, <2>2
  <2> QED
    BY <1>4, <2>1, <2>2, <2>3
<1> QED
  BY <1>5, <1>6 DEF Holds

\* Text without quotes leaves in_quote 0.
NoQuote(t) == \A k \in 1 .. Len(t) : t[k] # "Q"
Outside(q, from, to) == \A j \in from .. to : q[j] = 0

LEMMA PlainScan ==
    ASSUME NEW p, NEW q, NEW i \in Nat, NEW L \in Nat, Scanned(p, q, i, L),
           NEW T, NEW t \in Seq(T), NoQuote(t),
           NEW o \in Nat, i <= o + 1, o + Len(t) <= L, q[o + 1] = 0, Holds(p, o, t)
    PROVE  Outside(q, o + 1, o + Len(t) + 1)
<1>1. Len(t) \in Nat
  BY LenProperties
<1> DEFINE S == {n \in Nat : n <= Len(t) => q[o + n + 1] = 0}
<1>2. 0 \in S
  OBVIOUS
<1>3. ASSUME NEW n \in S \cap Nat PROVE n + 1 \in S
  <2> SUFFICES ASSUME n + 1 <= Len(t) PROVE q[o + (n + 1) + 1] = 0
    OBVIOUS
  <2>1. n + 1 \in 1 .. Len(t) /\ n <= Len(t) /\ n \in Nat
    BY <1>1
  <2>2. q[o + n + 1] = 0
    BY <2>1
  <2>3. PICK j \in i .. L : j = o + n + 1 /\ j + 1 = o + (n + 1) + 1 /\ j = o + (n + 1)
    BY <1>1, <2>1
  <2>4. q[j + 1] = Turn(q[j], p[j])
    BY DEF Scanned
  <2>5. p[j] = t[n + 1] /\ t[n + 1] # "Q"
    BY <2>1, <2>3 DEF Holds, NoQuote
  <2> QED
    BY <2>2, <2>3, <2>4, <2>5, Turns
<1>4. ASSUME NEW j \in o + 1 .. o + Len(t) + 1 PROVE q[j] = 0
  <2>1. j - o - 1 \in Nat /\ j - (o + 1) \in Nat /\ j - (o + 1) <= Len(t) /\ o + (j - (o + 1)) + 1 = j
    BY <1>1
  <2>2. j - (o + 1) \in S
    <3> HIDE DEF S
    <3> QED
      BY <1>2, <1>3, <2>1, NatSetInduction
  <2> QED
    BY <2>1, <2>2
<1> QED
  BY <1>4 DEF Outside

\* What httpp_encoding_append_meta is given.
Metas == {m \in [key : Keys, value : Values, form : Forms] :
              m.form = "token" => m.value # <<>> /\ \A i \in DOMAIN m.value : m.value[i] \notin Special}

LEMMA MetaTexts ==
    ASSUME NEW m \in Metas
    PROVE  /\ m.key \in Seq(Letters) /\ Len(m.key) >= 1 /\ m.key \in Seq(Chars \ Special)
           /\ \A k \in 1 .. Len(m.key) : m.key[k] \notin Special
           /\ m.value \in Seq(Letters) /\ DOMAIN m.value = 1 .. Len(m.value)
           /\ \A k \in 1 .. Len(m.value) : m.value[k] \in Chars
           /\ m.form \in Forms
<1>1. m.key \in Keys /\ m.value \in Values /\ m.form \in Forms
  BY DEF Metas
<1>2. m.key \in Seq(Chars \ Special) /\ m.key # <<>>
  BY <1>1, ExtensionsAssumption
<1>3. PICK n \in Nat : m.value \in [1 .. n -> Chars]
  BY <1>1, ExtensionsAssumption DEF Values
<1>4. m.value \in Seq(Chars) /\ Len(m.value) = n
  BY <1>3
<1>5. Chars \subseteq Letters /\ Chars \ Special \subseteq Letters
  BY DEF Letters
<1>6. /\ Len(m.key) \in Nat /\ Len(m.key) # 0
      /\ \A k \in 1 .. Len(m.key) : m.key[k] \in Chars \ Special
  BY <1>2, LenProperties, EmptySeq
<1>7. m.key \in Seq(Letters) /\ m.value \in Seq(Letters)
  <2>1. PICK x : x = m.key
    OBVIOUS
  <2>2. PICK y : y = m.value
    OBVIOUS
  <2>3. x \in Seq(Chars \ Special) /\ y \in Seq(Chars)
    BY <1>2, <1>4, <2>1, <2>2
  <2>4. x \in Seq(Letters) /\ y \in Seq(Letters)
    BY <1>5, <2>3
  <2> QED
    BY <2>1, <2>2, <2>4
<1> QED
  BY <1>1, <1>2, <1>3, <1>4, <1>6, <1>7

\* Where the parts of an extension are: its key behind a ";", and behind the "=" its
\* value, as it is or in quotes.
ExtensionAt(p, o, m) ==
    /\ p[o + 1] = "SEMI" /\ Holds(p, o + 1, m.key)
    /\ m.value = <<>> => Len(Extension(m)) = Len(m.key) + 1
    /\ m.value # <<>> => p[o + Len(m.key) + 2] = "EQ"
    /\ m.value # <<>> /\ m.form = "token" =>
          /\ Holds(p, o + Len(m.key) + 2, m.value)
          /\ Len(Extension(m)) = Len(m.key) + 2 + Len(m.value)
    /\ m.value # <<>> /\ m.form # "token" =>
          /\ Quoted(p, o + Len(m.key) + 3, Escaped(m.value))
          /\ Len(Extension(m)) = Len(m.key) + 4 + Len(Escaped(m.value))

LEMMA ExtensionType == ASSUME NEW m \in Metas PROVE Extension(m) \in Seq(Letters)
<1>1. PICK x \in Seq(Letters), y \in Seq(Letters), E \in Seq(Letters) :
          x = m.key /\ y = m.value /\ E = Escaped(m.value)
  BY MetaTexts, EscapedText
<1>2. "SEMI" \in Letters /\ "EQ" \in Letters /\ "Q" \in Letters
  BY DEF Letters, Special
<1>3. <<"SEMI">> \in Seq(Letters) /\ <<"EQ">> \in Seq(Letters) /\ <<"Q">> \in Seq(Letters)
      /\ <<>> \in Seq(Letters)
  BY <1>2
<1>4. <<"SEMI">> \o x \in Seq(Letters) /\ <<"Q">> \o E \in Seq(Letters)
  BY <1>3, ConcatProperties
<1>5. (<<"Q">> \o E) \o <<"Q">> \in Seq(Letters)
  BY <1>3, <1>4, ConcatProperties
<1>6. <<"EQ">> \o y \in Seq(Letters) /\ <<"EQ">> \o ((<<"Q">> \o E) \o <<"Q">>) \in Seq(Letters)
  BY <1>3, <1>5, ConcatProperties
<1>7. /\ (<<"SEMI">> \o x) \o <<>> \in Seq(Letters)
      /\ (<<"SEMI">> \o x) \o (<<"EQ">> \o y) \in Seq(Letters)
      /\ (<<"SEMI">> \o x) \o (<<"EQ">> \o ((<<"Q">> \o E) \o <<"Q">>)) \in Seq(Letters)
  BY <1>3, <1>4, <1>6, ConcatProperties
<1> QED
  BY <1>1, <1>7 DEF Extension

LEMMA ExtensionHeld ==
    ASSUME NEW m \in Metas, NEW p, NEW o \in Nat, Holds(p, o, Extension(m))
    PROVE  ExtensionAt(p, o, m)
<1>1. PICK x \in Seq(Letters), y \in Seq(Letters), E \in Seq(Letters) :
          x = m.key /\ y = m.value /\ E = Escaped(m.value)
  BY MetaTexts, EscapedText
<1>2. "SEMI" \in Letters /\ "EQ" \in Letters /\ "Q" \in Letters
  BY DEF Letters, Special
<1>3. PICK s \in Seq(Letters), e \in Seq(Letters), qu \in Seq(Letters), n \in Seq(Letters) :
          s = <<"SEMI">> /\ e = <<"EQ">> /\ qu = <<"Q">> /\ n = <<>>
  <2>1. <<"SEMI">> \in Seq(Letters) /\ <<"EQ">> \in Seq(Letters) /\ <<"Q">> \in Seq(Letters)
        /\ <<>> \in Seq(Letters)
    BY <1>2
  <2> QED
    BY <2>1, Zenon
<1>4. /\ Len(s) = 1 /\ Len(e) = 1 /\ Len(qu) = 1 /\ Len(n) = 0
      /\ s[1] = "SEMI" /\ e[1] = "EQ" /\ qu[1] = "Q"
  BY <1>3
<1>c. ASSUME NEW u \in Seq(Letters), NEW w \in Seq(Letters)
      PROVE  u \o w \in Seq(Letters) /\ Len(u \o w) = Len(u) + Len(w)
  BY ConcatProperties
<1>5. PICK k \in Nat, l \in Nat, M \in Nat : k = Len(x) /\ l = Len(y) /\ M = Len(E)
  BY LenProperties
<1>6. s \o x \in Seq(Letters) /\ Len(s \o x) = 1 + k
  BY <1>4, <1>5, <1>c
<1>7. PICK sx \in Seq(Letters) : sx = s \o x /\ Len(sx) = 1 + k
  BY <1>6
<1>8. ASSUME NEW r \in Seq(Letters), Extension(m) = sx \o r
      PROVE  /\ p[o + 1] = "SEMI" /\ Holds(p, o + 1, x) /\ Holds(p, o + (1 + k), r)
             /\ Len(Extension(m)) = 1 + k + Len(r)
  <2>1. Holds(p, o, sx) /\ Holds(p, o + (1 + k), r)
    BY <1>7, <1>8, HoldsParts, ZenonT(40)
  <2>2. Holds(p, o, s) /\ Holds(p, o + 1, x)
    BY <1>4, <1>7, <2>1, HoldsParts
  <2>3. p[o + 1] = "SEMI"
    BY <1>4, <2>2 DEF Holds
  <2>4. Len(sx \o r) = (1 + k) + Len(r) /\ Len(r) \in Nat
    BY <1>7, ConcatProperties, LenProperties
  <2>5. Len(Extension(m)) = 1 + k + Len(r)
    BY <1>8, <2>4
  <2> QED
    BY <2>1, <2>2, <2>3, <2>5
<1>9. CASE m.value = <<>>
  <2>1. Extension(m) = sx \o n
    BY <1>1, <1>3, <1>7, <1>9 DEF Extension
  <2>2. /\ p[o + 1] = "SEMI" /\ Holds(p, o + 1, x)
        /\ Len(Extension(m)) = 1 + k + 0
    BY <1>4, <1>8, <2>1
  <2>3. 1 + k + 0 = k + 1
    OBVIOUS
  <2> QED
    BY <1>1, <1>5, <1>9, <2>2, <2>3 DEF ExtensionAt
<1>10. CASE m.value # <<>> /\ m.form = "token"
  <2>1. e \o y \in Seq(Letters) /\ Len(e \o y) = 1 + l
    BY <1>4, <1>5, <1>c
  <2>2. PICK r \in Seq(Letters) : r = e \o y /\ Len(r) = 1 + l
    BY <2>1
  <2>3. Extension(m) = sx \o r
    BY <1>1, <1>3, <1>7, <1>10, <2>2 DEF Extension
  <2>4. /\ p[o + 1] = "SEMI" /\ Holds(p, o + 1, x) /\ Holds(p, o + (1 + k), r)
        /\ Len(Extension(m)) = 1 + k + (1 + l)
    BY <1>8, <2>2, <2>3
  <2>5. Holds(p, o + (1 + k), e) /\ Holds(p, (o + (1 + k)) + 1, y)
    <3>1. o + (1 + k) \in Nat
      OBVIOUS
    <3> QED
      BY <1>4, <2>2, <2>4, <3>1, HoldsParts
  <2>6. p[(o + (1 + k)) + 1] = "EQ"
    BY <1>4, <2>5 DEF Holds
  <2>7. (o + (1 + k)) + 1 = o + k + 2 /\ 1 + k + (1 + l) = k + 2 + l
    OBVIOUS
  <2> QED
    BY <1>1, <1>5, <1>10, <2>4, <2>5, <2>6, <2>7 DEF ExtensionAt
<1>11. CASE m.value # <<>> /\ m.form # "token"
  <2>1. qu \o E \in Seq(Letters) /\ Len(qu \o E) = 1 + M
    BY <1>4, <1>5, <1>c
  <2>2. PICK r1 \in Seq(Letters) : r1 = qu \o E /\ Len(r1) = 1 + M
    BY <2>1
  <2>3. r1 \o qu \in Seq(Letters) /\ Len(r1 \o qu) = (1 + M) + 1
    BY <1>4, <1>c, <2>2
  <2>4. PICK r2 \in Seq(Letters) : r2 = r1 \o qu /\ Len(r2) = (1 + M) + 1
    BY <2>3
  <2>5. e \o r2 \in Seq(Letters) /\ Len(e \o r2) = 1 + ((1 + M) + 1)
    <3>1. e \o r2 \in Seq(Letters) /\ Len(e \o r2) = Len(e) + Len(r2)
      BY <1>c
    <3>2. Len(r2) = (1 + M) + 1 /\ Len(e) = 1
      BY <1>4, <2>4
    <3> QED
      BY <3>1, <3>2
  <2>6. PICK r \in Seq(Letters) : r = e \o r2 /\ Len(r) = 1 + ((1 + M) + 1)
    BY <2>5
  <2>7. Extension(m) = sx \o r
    BY <1>1, <1>3, <1>7, <1>11, <2>2, <2>4, <2>6 DEF Extension
  <2>8. /\ p[o + 1] = "SEMI" /\ Holds(p, o + 1, x) /\ Holds(p, o + (1 + k), r)
        /\ Len(Extension(m)) = 1 + k + (1 + ((1 + M) + 1))
    BY <1>8, <2>6, <2>7
  <2>9. Holds(p, o + (1 + k), e) /\ Holds(p, (o + (1 + k)) + 1, r2)
    <3>1. o + (1 + k) \in Nat
      OBVIOUS
    <3> QED
      BY <1>4, <2>6, <2>8, <3>1, HoldsParts, ZenonT(40)
  <2>10. p[(o + (1 + k)) + 1] = "EQ"
    BY <1>4, <2>9 DEF Holds
  <2>11. PICK w \in Nat : w = (o + (1 + k)) + 1 /\ w = o + k + 2 /\ w + 1 = o + k + 3
    OBVIOUS
  <2>12. Holds(p, w, r1) /\ Holds(p, w + (1 + M), qu)
    BY <2>2, <2>4, <2>9, <2>11, HoldsParts, ZenonT(40)
  <2>13. Holds(p, w, qu) /\ Holds(p, w + 1, E)
    BY <1>4, <2>2, <2>12, HoldsParts
  <2>14. p[w + 1] = "Q" /\ p[w + (1 + M) + 1] = "Q"
    BY <1>4, <2>12, <2>13 DEF Holds
  <2>15. w + (1 + M) + 1 = (w + 1) + M + 1
    OBVIOUS
  <2>16. Quoted(p, w + 1, E)
    BY <1>5, <2>13, <2>14, <2>15 DEF Quoted
  <2>17. 1 + k + (1 + ((1 + M) + 1)) = k + 4 + M
    OBVIOUS
  <2> QED
    BY <1>1, <1>5, <1>11, <2>8, <2>10, <2>11, <2>16, <2>17 DEF ExtensionAt
<1> QED
  BY <1>9, <1>10, <1>11

\* Reading an extension from its first character on leaves in_quote 0; where it is 0
\* on the way there is no line end, and no ";" but the first.
Skipped(p, q, o, n) ==
    /\ q[o + n + 1] = 0
    /\ \A j \in o + 1 .. o + n :
          q[j] = 0 => p[j] \notin {"CR", "LF"} /\ (p[j] = "SEMI" => j = o + 1)

LEMMA ExtensionScan ==
    ASSUME NEW p, NEW q, NEW i \in Nat, NEW L \in Nat, Scanned(p, q, i, L),
           NEW m \in Metas, Plain(m.value), NEW o \in Nat, i <= o + 1,
           o + Len(Extension(m)) <= L, q[o + 1] = 0, Holds(p, o, Extension(m))
    PROVE  Skipped(p, q, o, Len(Extension(m)))
<1>1. PICK x \in Seq(Letters), y \in Seq(Letters), E \in Seq(Letters) :
          x = m.key /\ y = m.value /\ E = Escaped(m.value)
  BY MetaTexts, EscapedText
<1>2. PICK k \in Nat, l \in Nat, M \in Nat, N \in Nat :
          k = Len(x) /\ l = Len(y) /\ M = Len(E) /\ N = Len(Extension(m))
  BY LenProperties, ExtensionType
<1>3. \A n \in 1 .. k : x[n] \notin Special
  BY <1>1, <1>2, MetaTexts
<1>4. ExtensionAt(p, o, m)
  BY ExtensionHeld
<1>5. p[o + 1] = "SEMI" /\ Holds(p, o + 1, x)
  BY <1>1, <1>4 DEF ExtensionAt
<1>6. N >= k + 1 /\ o + N <= L
  <2>1. N = k + 1 \/ N = k + 2 + l \/ N = k + 4 + M
    BY <1>1, <1>2, <1>4, Zenon DEF ExtensionAt
  <2>2. k + 1 >= k + 1 /\ k + 2 + l >= k + 1 /\ k + 4 + M >= k + 1
    OBVIOUS
  <2> QED
    BY <1>2, <2>1, <2>2
<1>s. ASSUME NEW j \in i .. L PROVE q[j + 1] = Turn(q[j], p[j])
  BY DEF Scanned
<1>7. q[(o + 1) + 1] = 0
  <2>1. o + 1 \in i .. L
    BY <1>6
  <2> QED
    BY <1>5, <1>s, <2>1, Turns
<1>8. \A j \in (o + 1) + 1 .. (o + 1) + k + 1 : q[j] = 0
  <2>1. NoQuote(x)
    BY <1>2, <1>3 DEF Special, NoQuote
  <2>2. o + 1 \in Nat /\ i <= (o + 1) + 1 /\ (o + 1) + Len(x) <= L
    BY <1>2, <1>6
  <2>3. Outside(q, (o + 1) + 1, (o + 1) + Len(x) + 1)
    BY <1>5, <1>7, <2>1, <2>2, PlainScan
  <2> QED
    BY <1>2, <2>3 DEF Outside
<1> DEFINE Fine(j) == q[j] = 0 => p[j] \notin {"CR", "LF"} /\ (p[j] = "SEMI" => j = o + 1)
<1>9. ASSUME NEW j \in o + 1 .. o + k + 1 PROVE Fine(j)
  <2>1. CASE j = o + 1
    BY <1>5, <2>1
  <2>2. CASE j # o + 1
    <3>1. PICK n \in 1 .. k : n = j - (o + 1) /\ (o + 1) + n = j
      BY <2>2
    <3>2. p[j] = x[n]
      BY <1>2, <1>5, <3>1 DEF Holds
    <3> QED
      BY <1>3, <3>2 DEF Special
  <2> QED
    BY <2>1, <2>2
<1> HIDE DEF Fine
<1>10. CASE m.value = <<>>
  <2>1. N = k + 1
    BY <1>1, <1>2, <1>4, <1>10 DEF ExtensionAt
  <2>2. o + N + 1 = (o + 1) + k + 1 /\ (o + 1) + k + 1 \in (o + 1) + 1 .. (o + 1) + k + 1 /\ o + N = o + k + 1
    BY <2>1
  <2>3. q[o + N + 1] = 0 /\ \A j \in o + 1 .. o + N : Fine(j)
    BY <1>8, <1>9, <2>2
  <2> QED
    BY <1>2, <2>3 DEF Fine, Skipped
<1>v. CASE m.value # <<>>
  <2>1. PICK w \in Nat : w = o + k + 2 /\ w = (o + 1) + k + 1 /\ w + 1 = o + k + 3
    OBVIOUS
  <2>2. p[w] = "EQ" /\ q[w] = 0
    <3>1. p[w] = "EQ"
      BY <1>1, <1>2, <1>4, <1>v, <2>1 DEF ExtensionAt
    <3>2. w \in (o + 1) + 1 .. (o + 1) + k + 1
      BY <2>1
    <3> QED
      BY <1>8, <3>1, <3>2
  <2>3. Fine(w)
    BY <2>2 DEF Fine
  <2>4. CASE m.form = "token"
    <3>1. Holds(p, w, y) /\ N = k + 2 + l
      BY <1>1, <1>2, <1>4, <1>v, <2>1, <2>4 DEF ExtensionAt
    <3>2. \A n \in 1 .. l : y[n] \notin Special
      BY <1>1, <1>2, <2>4, MetaTexts DEF Metas
    <3>3. w \in i .. L /\ i <= w + 1 /\ w + Len(y) <= L
      BY <1>2, <1>6, <2>1, <3>1
    <3>4. q[w + 1] = 0
      BY <1>s, <2>2, <3>3, Turns
    <3>5. \A j \in w + 1 .. w + l + 1 : q[j] = 0
      <4>1. NoQuote(y)
        BY <1>2, <3>2 DEF Special, NoQuote
      <4>2. Outside(q, w + 1, w + Len(y) + 1)
        BY <3>1, <3>3, <3>4, <4>1, PlainScan
      <4> QED
        BY <1>2, <4>2 DEF Outside
    <3>6. ASSUME NEW j \in w + 1 .. w + l PROVE Fine(j)
      <4>1. PICK n \in 1 .. l : n = j - w /\ w + n = j
        OBVIOUS
      <4>2. p[j] = y[n]
        BY <1>2, <3>1, <4>1 DEF Holds
      <4> QED
        BY <3>2, <4>2 DEF Special, Fine
    <3>7. o + N + 1 = w + l + 1 /\ o + N = w + l /\ w + l + 1 \in w + 1 .. w + l + 1
      BY <2>1, <3>1
    <3>8. ASSUME NEW j \in o + 1 .. o + N PROVE Fine(j)
      <4>1. j \in o + 1 .. o + k + 1 \/ j = w \/ j \in w + 1 .. w + l
        BY <2>1, <3>7
      <4> QED
        BY <1>9, <2>3, <3>6, <4>1
    <3>9. q[o + N + 1] = 0
      BY <3>5, <3>7
    <3> QED
      BY <1>2, <3>8, <3>9 DEF Fine, Skipped
  <2>5. CASE m.form # "token"
    <3>1. Quoted(p, w + 1, E) /\ N = k + 4 + M
      BY <1>1, <1>2, <1>4, <1>v, <2>1, <2>5 DEF ExtensionAt
    <3>2. w \in i .. L /\ w + 1 \in i .. L /\ (w + 1) + Len(E) + 1 <= L /\ w + 1 \in Nat
      BY <1>2, <1>6, <2>1, <3>1
    <3>3. q[w + 1] = 0
      BY <1>s, <2>2, <3>2, Turns
    <3>4. PICK off \in [0 .. Len(y) -> Nat] : Escapes(y, E, off)
      BY <1>1, EscapedText
    <3>5. InQuotes(q, w + 1, y, E, off)
      <4>1. Plain(y)
        BY <1>1
      <4> QED
        BY <3>1, <3>2, <3>3, <3>4, <4>1, QuotedScan
    <3>6. (\A j \in (w + 1) + 1 .. (w + 1) + M + 1 : q[j] > 0) /\ q[(w + 1) + M + 2] = 0
      BY <1>2, <3>5 DEF InQuotes
    <3>7. Fine(w + 1)
      BY <3>1 DEF Fine, Quoted
    <3>8. ASSUME NEW j \in (w + 1) + 1 .. (w + 1) + M + 1 PROVE Fine(j)
      <4>1. q[j] > 0
        BY <3>6
      <4>2. q[j] # 0
        BY <4>1
      <4> QED
        BY <4>2 DEF Fine
    <3>9. o + N + 1 = (w + 1) + M + 2 /\ o + N = (w + 1) + M + 1
      BY <2>1, <3>1
    <3>10. ASSUME NEW j \in o + 1 .. o + N PROVE Fine(j)
      <4>1. j \in o + 1 .. o + k + 1 \/ j = w \/ j = w + 1 \/ j \in (w + 1) + 1 .. (w + 1) + M + 1
        BY <2>1, <3>9
      <4> QED
        BY <1>9, <2>3, <3>7, <3>8, <4>1
    <3>11. q[o + N + 1] = 0
      BY <3>6, <3>9
    <3> QED
      BY <1>2, <3>10, <3>11 DEF Fine, Skipped
  <2> QED
    BY <2>4, <2>5
<1> QED
  BY <1>10, <1>v

-----------------------------------------------------------------------------
(* The header                                                              *)

\* off[n] is the length of the first n of the extensions of ms; p holds them behind
\* its first character.
Offsets(ms, off) ==
    /\ off \in [0 .. Len(ms) -> Nat] /\ off[0] = 0
    /\ \A n \in 1 .. Len(ms) : off[n] = off[n - 1] + Len(Extension(ms[n]))
Layout(p, ms, off) ==
    \A n \in 1 .. Len(ms) : Holds(p, off[n - 1] + 1, Extension(ms[n]))

\* The header and the body of __enc_chunked_write_extensions' caller.
HeaderAt(raw, ms, off) ==
    /\ Offsets(ms, off) /\ Layout(raw, ms, off)
    /\ raw[1] = "1" /\ raw[off[Len(ms)] + 2] = "CR" /\ raw[off[Len(ms)] + 3] = "LF"

LEMMA OffsetsGrow ==
    ASSUME NEW ms \in Seq(Metas), NEW off, Offsets(ms, off)
    PROVE  \A n \in 0 .. Len(ms) : off[n] \in Nat /\ off[n] <= off[Len(ms)]
<1>1. PICK N \in Nat : N = Len(ms)
  BY LenProperties
<1>2. /\ off \in [0 .. N -> Nat]
      /\ \A n \in 1 .. N : off[n] = off[n - 1] + Len(Extension(ms[n]))
  BY <1>1 DEF Offsets
<1>3. ASSUME NEW n \in 1 .. N PROVE off[n - 1] <= off[n]
  <2>1. ms[n] \in Metas
    BY <1>1, LenProperties
  <2>2. PICK l \in Nat : l = Len(Extension(ms[n]))
    BY <2>1, ExtensionType, LenProperties
  <2>3. n \in 0 .. N /\ n - 1 \in 0 .. N
    OBVIOUS
  <2>4. PICK u \in Nat, v \in Nat : u = off[n - 1] /\ v = off[n]
    BY <1>2, <2>3
  <2>5. v = u + l
    BY <1>2, <2>2, <2>4
  <2> QED
    BY <2>4, <2>5
<1> QED
  BY <1>1, <1>2, <1>3, Growing

LEMMA HeaderText ==
    ASSUME metas \in Seq(Metas)
    PROVE  /\ Header \o Body \in Seq(Letters)
           /\ \E off : /\ HeaderAt(Header \o Body, metas, off)
                       /\ Len(Header) = off[Len(metas)] + 3
                       /\ Len(Header \o Body) = off[Len(metas)] + 6
<1>1. PICK N \in Nat : N = Len(metas)
  BY LenProperties
<1>2. DOMAIN metas = 1 .. N /\ \A n \in 1 .. N : metas[n] \in Metas
  BY <1>1, LenProperties
<1> DEFINE ss == [n \in 1 .. N |-> Extension(metas[n])]
<1>3. \A n \in 1 .. N : ss[n] = Extension(metas[n]) /\ ss[n] \in Seq(Letters)
  BY <1>2, ExtensionType
<1>4. ss = [n \in 1 .. N |-> ss[n]] /\ Len(ss) = N
  OBVIOUS
<1>5. __enc_chunked_write_extensions = FlattenSeq(ss)
  BY <1>2 DEF __enc_chunked_write_extensions
<1> HIDE DEF ss
<1>6. PICK W \in Seq(Letters), off \in [0 .. N -> Nat] :
          W = __enc_chunked_write_extensions /\ Joins(ss, W, off)
  BY <1>3, <1>4, <1>5, Pieces
<1>7. /\ off[0] = 0 /\ Len(W) = off[N]
      /\ \A n \in 1 .. N : off[n] = off[n - 1] + Len(ss[n])
      /\ \A n \in 1 .. N : \A k \in 1 .. Len(ss[n]) : W[off[n - 1] + k] = ss[n][k]
  BY <1>4, <1>6 DEF Joins
<1>8. PICK M \in Nat : M = off[N] /\ M = Len(W)
  BY <1>7
<1>9. PICK a \in Seq(Letters), b \in Seq(Letters), c \in Seq(Letters) :
          a = <<"1">> /\ b = <<"CR", "LF">> /\ c = Body
  <2>1. "1" \in Letters /\ "CR" \in Letters /\ "LF" \in Letters /\ "x" \in Letters
    BY DEF Letters, Special
  <2>2. <<"1">> \in Seq(Letters) /\ <<"CR", "LF">> \in Seq(Letters) /\ Body \in Seq(Letters)
    BY <2>1 DEF Body
  <2> QED
    BY <2>2, Zenon
<1>10. Len(a) = 1 /\ a[1] = "1" /\ Len(b) = 2 /\ b[1] = "CR" /\ b[2] = "LF" /\ Len(c) = 3
  BY <1>9 DEF Body
<1>11. PICK d \in Seq(Letters) : d = a \o W
  BY ConcatProperties
<1>12. Len(d) = M + 1 /\ d[1] = "1" /\ \A x \in 1 .. M : d[x + 1] = W[x]
  <2>1. Len(a \o W) = Len(a) + Len(W)
        /\ \A x \in 1 .. Len(a) + Len(W) : (a \o W)[x] = IF x <= Len(a) THEN a[x] ELSE W[x - Len(a)]
    BY ConcatProperties
  <2>2. Len(d) = 1 + M /\ \A x \in 1 .. 1 + M : d[x] = IF x <= 1 THEN a[x] ELSE W[x - 1]
    BY <1>8, <1>10, <1>11, <2>1
  <2>3. d[1] = a[1]
    BY <2>2, SMTT(30)
  <2>4. ASSUME NEW x \in 1 .. M PROVE d[x + 1] = W[x]
    <3>1. x + 1 \in 1 .. 1 + M /\ ~(x + 1 <= 1) /\ (x + 1) - 1 = x
      OBVIOUS
    <3> QED
      BY <2>2, <3>1
  <2> QED
    BY <1>10, <2>2, <2>3, <2>4
<1>13. PICK e \in Seq(Letters) : e = d \o b
  BY ConcatProperties
<1>14. Len(e) = M + 3 /\ (\A x \in 1 .. M + 1 : e[x] = d[x]) /\ e[M + 2] = "CR" /\ e[M + 3] = "LF"
  <2>1. Len(d \o b) = Len(d) + Len(b)
        /\ \A x \in 1 .. Len(d) + Len(b) : (d \o b)[x] = IF x <= Len(d) THEN d[x] ELSE b[x - Len(d)]
    BY ConcatProperties
  <2>2. (M + 1) + 2 = M + 3
    OBVIOUS
  <2>3. Len(e) = M + 3 /\ \A x \in 1 .. M + 3 : e[x] = IF x <= M + 1 THEN d[x] ELSE b[x - (M + 1)]
    BY <1>10, <1>12, <1>13, <2>1, <2>2
  <2>4. \A x \in 1 .. M + 1 : e[x] = d[x]
    BY <2>3, SMTT(30)
  <2>5. e[M + 2] = b[1]
    <3>1. M + 2 \in 1 .. M + 3 /\ ~(M + 2 <= M + 1) /\ M + 2 - (M + 1) = 1
      OBVIOUS
    <3> QED
      BY <2>3, <3>1
  <2>6. e[M + 3] = b[2]
    <3>1. M + 3 \in 1 .. M + 3 /\ ~(M + 3 <= M + 1) /\ M + 3 - (M + 1) = 2
      OBVIOUS
    <3> QED
      BY <2>3, <3>1
  <2> QED
    BY <1>10, <2>3, <2>4, <2>5, <2>6
<1>15. PICK raw \in Seq(Letters) : raw = e \o c
  BY ConcatProperties
<1>16. Len(raw) = M + 6 /\ \A x \in 1 .. M + 3 : raw[x] = e[x]
  <2>1. Len(e \o c) = Len(e) + Len(c)
        /\ \A x \in 1 .. Len(e) + Len(c) : (e \o c)[x] = IF x <= Len(e) THEN e[x] ELSE c[x - Len(e)]
    BY ConcatProperties
  <2>2. (M + 3) + 3 = M + 6
    OBVIOUS
  <2>3. Len(raw) = M + 6 /\ \A x \in 1 .. M + 6 : raw[x] = IF x <= M + 3 THEN e[x] ELSE c[x - (M + 3)]
    BY <1>10, <1>14, <1>15, <2>1, <2>2
  <2> QED
    BY <2>3
<1>17. Header = e /\ Header \o Body = raw
  <2>1. Header = (<<"1">> \o W) \o <<"CR", "LF">>
    BY <1>6 DEF Header
  <2>2. Header = e
    BY <1>9, <1>11, <1>13, <2>1
  <2> QED
    BY <1>9, <1>15, <2>2
<1>18. raw[1] = "1" /\ raw[M + 2] = "CR" /\ raw[M + 3] = "LF"
  <2>1. 1 \in 1 .. M + 3 /\ 1 \in 1 .. M + 1 /\ M + 2 \in 1 .. M + 3 /\ M + 3 \in 1 .. M + 3
    OBVIOUS
  <2> QED
    BY <1>12, <1>14, <1>16, <2>1
<1>19. \A k \in 1 .. M : raw[k + 1] = W[k]
  <2> TAKE k \in 1 .. M
  <2>1. k + 1 \in 1 .. M + 3 /\ k + 1 \in 1 .. M + 1
    OBVIOUS
  <2> QED
    BY <1>12, <1>14, <1>16, <2>1
<1>20. Offsets(metas, off)
  BY <1>1, <1>3, <1>7 DEF Offsets
<1>21. ASSUME NEW n \in 1 .. N PROVE Holds(raw, off[n - 1] + 1, Extension(metas[n]))
  <2>1. PICK E \in Seq(Letters) : E = Extension(metas[n])
    BY <1>3
  <2>2. PICK l \in Nat : l = Len(E)
    BY LenProperties
  <2>3. n \in 0 .. N /\ n - 1 \in 0 .. N
    OBVIOUS
  <2>4. PICK u \in Nat, v \in Nat : u = off[n - 1] /\ v = off[n]
    BY <2>3
  <2>5. v = u + l /\ \A k \in 1 .. l : W[u + k] = E[k]
    BY <1>3, <1>7, <2>1, <2>2, <2>4
  <2>6. v <= M
    BY <1>1, <1>8, <1>20, <2>3, <2>4, OffsetsGrow
  <2>7. ASSUME NEW k \in 1 .. l PROVE raw[(u + 1) + k] = E[k]
    <3>1. PICK x \in 1 .. M : x = u + k /\ x + 1 = (u + 1) + k
      BY <2>5, <2>6
    <3> QED
      BY <1>19, <2>5, <3>1
  <2> QED
    BY <2>1, <2>2, <2>4, <2>7 DEF Holds
<1>22. HeaderAt(raw, metas, off)
  BY <1>1, <1>8, <1>18, <1>20, <1>21 DEF HeaderAt, Layout
<1> QED
  BY <1>1, <1>8, <1>14, <1>16, <1>17, <1>22, ZenonT(40)

\* Each position of the extensions lies in one of them.
LEMMA Covered ==
    ASSUME NEW ms \in Seq(Metas), NEW off, Offsets(ms, off), NEW x \in 1 .. off[Len(ms)]
    PROVE  \E n \in 1 .. Len(ms) : off[n - 1] + 1 <= x /\ x <= off[n]
<1>1. PICK N \in Nat : N = Len(ms)
  BY LenProperties
<1>2. off \in [0 .. N -> Nat] /\ off[0] = 0
  BY <1>1 DEF Offsets
<1> DEFINE I == {n \in 0 .. N : x <= off[n]}
<1>3. N \in I /\ I \subseteq Nat
  BY <1>1, <1>2
<1>4. PICK n \in I : \A m \in I : n <= m
  <2> HIDE DEF I
  <2> QED
    BY <1>3, FirstPosition
<1>5. n \in 1 .. N
  BY <1>2, <1>4
<1>6. n - 1 \in 0 .. N /\ n - 1 \notin I
  BY <1>4, <1>5
<1>7. ~(x <= off[n - 1]) /\ off[n - 1] \in Nat
  BY <1>2, <1>6
<1>8. off[n - 1] + 1 <= x /\ x <= off[n]
  BY <1>4, <1>7
<1> QED
  BY <1>1, <1>5, <1>8

PlainMetas(ms) == \A n \in 1 .. Len(ms) : Plain(ms[n].value)

\* The scan of a header is outside of quotes where an extension begins.
HeaderSkipped(p, q, ms, off) ==
    /\ \A n \in 0 .. Len(ms) : q[off[n] + 2] = 0
    /\ \A n \in 1 .. Len(ms) : Skipped(p, q, off[n - 1] + 1, Len(Extension(ms[n])))

LEMMA HeaderScan ==
    ASSUME NEW ms \in Seq(Metas), PlainMetas(ms), NEW off, Offsets(ms, off),
           NEW p, NEW L \in Nat, Len(p) = L, off[Len(ms)] + 1 <= L,
           Layout(p, ms, off), p[1] = "1"
    PROVE  HeaderSkipped(p, InQuote(p, 1), ms, off)
<1>1. PICK N \in Nat : N = Len(ms)
  BY LenProperties
<1>2. PICK q : q = InQuote(p, 1)
  OBVIOUS
<1>3. /\ off \in [0 .. N -> Nat] /\ off[0] = 0
      /\ \A n \in 1 .. N : off[n] = off[n - 1] + Len(Extension(ms[n]))
  BY <1>1 DEF Offsets
<1>4. L >= 1
  <2>1. off[N] \in Nat
    BY <1>3
  <2> QED
    BY <1>1, <2>1
<1>5. q[1] = 0 /\ \A j \in 1 .. L : q[j + 1] = Turn(q[j], p[j])
  <2>1. 1 \in 1 .. L + 1
    OBVIOUS
  <2>2. InQuote(p, 1)[1] = 0 /\ \A j \in 1 .. L : InQuote(p, 1)[j + 1] = Turn(InQuote(p, 1)[j], p[j])
    BY <2>1, InQuoteValues
  <2> QED
    BY <1>2, <2>2, Zenon
<1>6. Scanned(p, q, 1, L)
  BY <1>5 DEF Scanned
<1>7. ASSUME NEW n \in 1 .. N, q[off[n - 1] + 2] = 0
      PROVE  Skipped(p, q, off[n - 1] + 1, Len(Extension(ms[n])))
  <2>1. PICK m \in Metas : m = ms[n] /\ Plain(m.value)
    BY <1>1, LenProperties DEF PlainMetas
  <2>2. PICK l \in Nat : l = Len(Extension(m))
    BY ExtensionType, LenProperties
  <2>3. n \in 0 .. N /\ n - 1 \in 0 .. N
    OBVIOUS
  <2>4. PICK u \in Nat, v \in Nat, M \in Nat : u = off[n - 1] /\ v = off[n] /\ M = off[N]
    <3>1. off[n - 1] \in Nat /\ off[n] \in Nat /\ off[N] \in Nat
      BY <1>3, <2>3
    <3> QED
      BY <3>1, Zenon
  <2>5. v = u + l
    BY <1>3, <2>1, <2>2, <2>4
  <2>6. v <= M /\ M + 1 <= L
    BY <1>1, <2>3, <2>4, OffsetsGrow
  <2>7. PICK o \in Nat : o = u + 1 /\ o + 1 = u + 2 /\ 1 <= o + 1 /\ o + l <= L
    BY <2>5, <2>6
  <2>8. q[o + 1] = 0 /\ Holds(p, o, Extension(m))
    BY <1>1, <1>7, <2>1, <2>4, <2>7 DEF Layout
  <2>9. Skipped(p, q, o, Len(Extension(m)))
    BY <1>6, <2>1, <2>2, <2>7, <2>8, ExtensionScan
  <2> QED
    BY <2>1, <2>4, <2>7, <2>9
<1> DEFINE S == {n \in Nat : n <= N => q[off[n] + 2] = 0}
<1>8. 0 \in S
  <2>1. 1 \in 1 .. L /\ 1 + 1 = 0 + 2
    BY <1>4
  <2>2. q[1 + 1] = Turn(0, "1")
    BY <1>5, <2>1
  <2>3. "1" # "Q"
    OBVIOUS
  <2>4. q[0 + 2] = 0
    BY <2>1, <2>2, <2>3, Turns
  <2> QED
    BY <1>3, <2>4
<1>9. ASSUME NEW n \in S \cap Nat PROVE n + 1 \in S
  <2> SUFFICES ASSUME n + 1 <= N PROVE q[off[n + 1] + 2] = 0
    OBVIOUS
  <2>1. n + 1 \in 1 .. N /\ n <= N /\ (n + 1) - 1 = n /\ n \in 0 .. N /\ n + 1 \in 0 .. N
    OBVIOUS
  <2>2. q[off[n] + 2] = 0
    BY <2>1
  <2>3. Skipped(p, q, off[n] + 1, Len(Extension(ms[n + 1])))
    BY <1>7, <2>1, <2>2
  <2>4. q[(off[n] + 1) + Len(Extension(ms[n + 1])) + 1] = 0
    BY <2>3 DEF Skipped
  <2>5. ms[n + 1] \in Metas
    BY <1>1, <2>1, LenProperties
  <2>6. PICK l \in Nat, u \in Nat, v \in Nat : l = Len(Extension(ms[n + 1])) /\ u = off[n] /\ v = off[n + 1]
    BY <1>3, <2>1, <2>5, ExtensionType, LenProperties
  <2>7. v = u + l
    BY <1>3, <2>1, <2>6
  <2>8. (u + 1) + l + 1 = v + 2
    BY <2>7
  <2> QED
    BY <2>4, <2>6, <2>8
<1>10. ASSUME NEW n \in 0 .. N PROVE q[off[n] + 2] = 0
  <2>1. n \in S
    <3> HIDE DEF S
    <3> QED
      BY <1>8, <1>9, NatSetInduction
  <2> QED
    BY <2>1
<1> HIDE DEF S
<1>11. ASSUME NEW n \in 1 .. N PROVE Skipped(p, q, off[n - 1] + 1, Len(Extension(ms[n])))
  <2>1. n - 1 \in 0 .. N
    OBVIOUS
  <2> QED
    BY <1>7, <1>10, <2>1
<1> QED
  BY <1>1, <1>2, <1>10, <1>11 DEF HeaderSkipped

\* The end of the header and the beginning of its extensions, as the scan finds them.
LEMMA ScanFindsEnd ==
    ASSUME NEW ms \in Seq(Metas), PlainMetas(ms), NEW off,
           NEW raw, NEW L \in Nat, Len(raw) = L, raw \in Seq(Letters), HeaderAt(raw, ms, off),
           off[Len(ms)] + 3 <= L
    PROVE  Scan(raw).end = off[Len(ms)] + 3 /\ Scan(raw).ext = IF ms = <<>> THEN 0 ELSE 2
<1>1. PICK N \in Nat : N = Len(ms)
  BY LenProperties
<1>2. PICK q : q = InQuote(raw, 1)
  OBVIOUS
<1>3. /\ Offsets(ms, off) /\ Layout(raw, ms, off)
      /\ raw[1] = "1" /\ raw[off[N] + 2] = "CR" /\ raw[off[N] + 3] = "LF"
  BY <1>1 DEF HeaderAt
<1>4. off \in [0 .. N -> Nat] /\ off[0] = 0
  BY <1>1, <1>3 DEF Offsets
<1>5. PICK M \in Nat : M = off[N] /\ M + 3 <= L
  BY <1>1, <1>4
<1>6. off[Len(ms)] + 1 <= L
  BY <1>1, <1>5
<1>7. HeaderSkipped(raw, q, ms, off)
  BY <1>2, <1>3, <1>6, HeaderScan
<1>8. (\A n \in 0 .. N : q[off[n] + 2] = 0)
      /\ \A n \in 1 .. N : Skipped(raw, q, off[n - 1] + 1, Len(Extension(ms[n])))
  BY <1>1, <1>7 DEF HeaderSkipped
<1>9. q[M + 2] = 0
  BY <1>5, <1>8
<1>10. q[M + 3] = 0
  <2>1. /\ 1 \in 1 .. L + 1 /\ M + 2 \in 1 .. L /\ (M + 2) + 1 = M + 3
    BY <1>5
  <2>2. q[(M + 2) + 1] = Turn(q[M + 2], raw[M + 2])
    BY <1>2, <2>1, InQuoteValues
  <2>3. "CR" # "Q"
    OBVIOUS
  <2> QED
    BY <1>3, <1>5, <1>9, <2>1, <2>2, <2>3, Turns
<1>11. DOMAIN raw = 1 .. L
  BY LenProperties
<1> DEFINE outside(c) == {x \in DOMAIN raw : q[x] = 0 /\ raw[x] = c}
           ends == {x \in outside("LF") : x = 1 \/ x - 1 \in outside("CR")}
           exts == {x \in outside("SEMI") : \A e \in ends : x < e}
<1>12. /\ Scan(raw).end = IF ends = {} THEN 0 ELSE Min(ends)
       /\ Scan(raw).ext = IF exts = {} THEN 0 ELSE Min(exts)
  BY <1>2 DEF Scan
<1>13. M + 3 \in ends
  <2>1. M + 2 \in 1 .. L /\ M + 3 \in 1 .. L /\ M + 3 - 1 = M + 2
    BY <1>5
  <2>2. M + 2 \in outside("CR") /\ M + 3 \in outside("LF")
    BY <1>3, <1>5, <1>9, <1>10, <1>11, <2>1
  <2> HIDE DEF outside
  <2> QED
    BY <2>1, <2>2
<1>14. ASSUME NEW x \in 1 .. M + 2, q[x] = 0 PROVE raw[x] # "LF" /\ (raw[x] = "SEMI" => N # 0)
  <2>1. CASE x = 1
    <3>1. "1" # "LF" /\ "1" # "SEMI"
      OBVIOUS
    <3> QED
      BY <1>3, <2>1, <3>1
  <2>2. CASE x = M + 2
    <3>1. "CR" # "LF" /\ "CR" # "SEMI"
      OBVIOUS
    <3> QED
      BY <1>3, <1>5, <2>2, <3>1
  <2>3. CASE x # 1 /\ x # M + 2
    <3>1. PICK y \in 1 .. M : y = x - 1 /\ x = y + 1
      BY <2>3
    <3>2. PICK n \in 1 .. N : off[n - 1] + 1 <= y /\ y <= off[n]
      BY <1>1, <1>3, <1>5, Covered
    <3>3. n - 1 \in 0 .. N /\ n \in 0 .. N
      OBVIOUS
    <3>4. ms[n] \in Metas
      BY <1>1, LenProperties
    <3>5. PICK l \in Nat, u \in Nat, v \in Nat : l = Len(Extension(ms[n])) /\ u = off[n - 1] /\ v = off[n]
      BY <1>4, <3>3, <3>4, ExtensionType, LenProperties
    <3>6. v = u + l
      BY <1>1, <1>3, <3>5 DEF Offsets
    <3>7. x \in (u + 1) + 1 .. (u + 1) + l
      BY <3>1, <3>2, <3>5, <3>6, SMTT(30)
    <3>8. Skipped(raw, q, u + 1, l)
      BY <1>8, <3>5
    <3>9. raw[x] # "LF"
      BY <1>14, <3>7, <3>8 DEF Skipped
    <3> QED
      BY <3>9
  <2> QED
    BY <2>1, <2>2, <2>3
<1>15. ASSUME NEW e \in ends PROVE M + 3 <= e
  <2>1. e \in 1 .. L /\ q[e] = 0 /\ raw[e] = "LF"
    BY <1>11
  <2>2. ~(e \in 1 .. M + 2)
    BY <1>14, <2>1
  <2> QED
    BY <2>1, <2>2
<1>16. ends \subseteq Int
  BY <1>11
<1>17. Min(ends) = M + 3
  <2> HIDE DEF ends
  <2> QED
    BY <1>13, <1>15, <1>16, MinIsLeast
<1>18. exts \subseteq Int
  BY <1>11
<1>19. CASE ms = <<>>
  <2>1. N = 0
    BY <1>1, <1>19
  <2>2. ASSUME NEW x \in exts PROVE FALSE
    <3>1. x \in 1 .. L /\ q[x] = 0 /\ raw[x] = "SEMI" /\ x < M + 3
      BY <1>11, <1>13
    <3>2. x \in 1 .. M + 2
      BY <3>1
    <3> QED
      BY <1>14, <2>1, <3>1, <3>2
  <2> HIDE DEF ends, exts
  <2>3. exts = {}
    BY <2>2
  <2> QED
    BY <1>1, <1>5, <1>12, <1>13, <1>17, <1>19, <2>3
<1>20. CASE ms # <<>>
  <2>1. 1 \in 1 .. N /\ 0 \in 0 .. N /\ 1 - 1 = 0
    <3>1. N # 0
      BY <1>1, <1>20, EmptySeq
    <3> QED
      BY <3>1
  <2>2. ms[1] \in Metas /\ Holds(raw, 1, Extension(ms[1]))
    <3>1. off[0] + 1 = 1
      BY <1>4
    <3> QED
      BY <1>1, <1>3, <2>1, <3>1, LenProperties DEF Layout
  <2>3. ExtensionAt(raw, 1, ms[1])
    BY <2>2, ExtensionHeld
  <2>4. raw[2] = "SEMI" /\ q[2] = 0
    <3>1. off[0] + 2 = 2 /\ 1 + 1 = 2
      BY <1>4
    <3> QED
      BY <1>8, <2>1, <2>3, <3>1 DEF ExtensionAt
  <2>5. 2 \in exts
    <3>1. 2 \in 1 .. L /\ \A e \in ends : 2 < e
      <4> HIDE DEF ends
      <4>1. ends \subseteq Int /\ 2 \in 1 .. L
        BY <1>5, <1>16
      <4> QED
        BY <1>15, <4>1
    <3> HIDE DEF ends
    <3> QED
      BY <1>11, <2>4, <3>1
  <2>6. ASSUME NEW x \in exts PROVE 2 <= x
    <3>1. x \in 1 .. L /\ raw[x] = "SEMI"
      BY <1>11
    <3>2. x # 1
      BY <1>3, <3>1
    <3> QED
      BY <3>1, <3>2
  <2> HIDE DEF ends, exts
  <2>7. Min(exts) = 2
    BY <1>18, <2>5, <2>6, MinIsLeast
  <2> QED
    BY <1>1, <1>5, <1>12, <1>13, <1>17, <1>20, <2>5, <2>7
<1> QED
  BY <1>19, <1>20

\* The list holds what httpp_encoding_append_meta was given.
ExtensionsTypeOK == metas \in Seq(Metas)

\* The list of meta data keeps its type.
THEOREM ExtensionsType == Spec => []ExtensionsTypeOK
<1>1. Init => ExtensionsTypeOK
  BY DEF Init, ExtensionsTypeOK
<1>2. ExtensionsTypeOK /\ [Next]_metas => ExtensionsTypeOK'
  <2> SUFFICES ASSUME ExtensionsTypeOK, [Next]_metas PROVE ExtensionsTypeOK'
    OBVIOUS
  <2>1. ASSUME NEW k \in Keys, NEW v \in Values, NEW f \in Forms, httpp_encoding_meta_append(k, v, f)
        PROVE  ExtensionsTypeOK'
    <3>1. [key |-> k, value |-> v, form |-> f] \in Metas
      BY <2>1 DEF Metas, httpp_encoding_meta_append
    <3>2. PICK m \in Metas : metas' = Append(metas, m)
      BY <2>1, <3>1, Zenon DEF httpp_encoding_meta_append
    <3> QED
      BY <3>2 DEF ExtensionsTypeOK
  <2>2. CASE Written
    BY <2>2 DEF Written, ExtensionsTypeOK
  <2>3. CASE UNCHANGED metas
    BY <2>3 DEF ExtensionsTypeOK
  <2> QED
    BY <2>1, <2>2, <2>3 DEF Next
<1> QED
  BY <1>1, <1>2, PTL DEF Spec

LEMMA PlainValues ==
    ASSUME "BS" \notin Chars, NEW ms \in Seq(Metas)
    PROVE  PlainMetas(ms)
<1> SUFFICES ASSUME NEW n \in 1 .. Len(ms), NEW k \in 1 .. Len(ms[n].value)
             PROVE  ms[n].value[k] # "BS"
  BY DEF PlainMetas, Plain
<1>1. ms[n] \in Metas
  BY LenProperties
<1>2. ms[n].value[k] \in Chars
  BY <1>1, MetaTexts
<1> QED
  BY <1>2

LEMMA EndOfHeader ==
    ASSUME "BS" \notin Chars, ExtensionsTypeOK
    PROVE  HeaderEndFound
<1>1. metas \in Seq(Metas)
  BY DEF ExtensionsTypeOK
<1>2. PICK N \in Nat : N = Len(metas)
  BY <1>1, LenProperties
<1>h. PICK raw \in Seq(Letters) : raw = Header \o Body
  BY <1>1, HeaderText
<1>3. PICK off : /\ raw = Header \o Body /\ HeaderAt(raw, metas, off)
                 /\ Len(Header) = off[Len(metas)] + 3 /\ Len(raw) = off[Len(metas)] + 6
  BY <1>1, <1>h, HeaderText
<1>4. PICK M \in Nat, L \in Nat : M = off[Len(metas)] /\ L = Len(raw)
  BY <1>2, <1>3, LenProperties, SMTT(30) DEF HeaderAt, Offsets
<1>5. off[Len(metas)] + 3 <= L
  BY <1>3, <1>4
<1>6. PlainMetas(metas)
  BY <1>1, PlainValues
<1>7. Scan(raw).end = off[Len(metas)] + 3
  BY <1>1, <1>3, <1>4, <1>5, <1>6, ScanFindsEnd
<1> QED
  BY <1>3, <1>7 DEF HeaderEndFound

\* The reader finds the end of the header where the writer put it, for every list of
\* meta data whose values have no backslash.
THEOREM HeaderEnds ==
    ASSUME "BS" \notin Chars
    PROVE  Spec => []HeaderEndFound
<1>1. ExtensionsTypeOK => HeaderEndFound
  BY EndOfHeader
<1> QED
  BY <1>1, ExtensionsType, PTL

-----------------------------------------------------------------------------
(* The reader                                                              *)

\* Where the reader goes on behind the extension at position j.
Behind(p, j) == ValueEnd(p, KeyEnd(p, j + 1) + 1)

\* One round of the reader's loop at position j, with f what it finds further on.
ReadStep(p, f, j) ==
    IF j > Len(p) \/ p[j] # "SEMI" THEN <<>>
    ELSE IF KeyEnd(p, j + 1) >= Len(p)
         THEN <<[key |-> SubSeq(p, j + 1, KeyEnd(p, j + 1) - 1), value |-> <<>>]>>
    ELSE <<[key |-> SubSeq(p, j + 1, KeyEnd(p, j + 1) - 1),
            value |-> Decode(p, KeyEnd(p, j + 1) + 1, Behind(p, j))]>> \o f[Behind(p, j)]

Reading(p, f, i) == \A j \in i .. Len(p) + 1 : f[j] = ReadStep(p, f, j)

\* The reader goes on further behind.
LEMMA Onward ==
    ASSUME NEW p, NEW L \in Nat, Len(p) = L, NEW j \in 1 .. L, ~(KeyEnd(p, j + 1) >= L)
    PROVE  Behind(p, j) \in j + 1 .. L + 1
<1> DEFINE S == {e \in j + 1 .. L + 1 : e = L + 1 \/ p[e] = "EQ"}
<1>1. S \subseteq Nat /\ L + 1 \in S
  OBVIOUS
<1>2. KeyEnd(p, j + 1) = Min(S)
  BY DEF KeyEnd
<1> HIDE DEF S
<1>3. Min(S) \in S
  BY <1>1, LeastIsIn
<1>4. PICK a \in j + 1 .. L + 1 : a = KeyEnd(p, j + 1) + 1
  <2>1. PICK e \in j + 1 .. L + 1 : e = KeyEnd(p, j + 1)
    BY <1>2, <1>3 DEF S
  <2>2. e < L
    BY <2>1
  <2> QED
    BY <2>1, <2>2
<1> DEFINE V == {e \in a .. L + 1 : \/ e = L + 1
                                   \/ (InQuote(p, a)[e] = 0 /\ p[e] = "SEMI")
                                   \/ (e > a /\ InQuote(p, a)[e - 1] > 0 /\ InQuote(p, a)[e] = 0)}
<1>5. V \subseteq Nat /\ L + 1 \in V
  OBVIOUS
<1>6. ValueEnd(p, a) = Min(V)
  BY DEF ValueEnd
<1>7. V \subseteq a .. L + 1
  OBVIOUS
<1> HIDE DEF V
<1>8. Min(V) \in a .. L + 1
  BY <1>5, <1>7, LeastIsIn
<1>9. Behind(p, j) = Min(V)
  BY <1>4, <1>6 DEF Behind
<1>10. PICK x \in a .. L + 1 : x = Min(V)
  BY <1>8
<1>11. x \in j + 1 .. L + 1
  OBVIOUS
<1> QED
  BY <1>9, <1>10, <1>11

\* The equations of the reader's loop.
LEMMA ReadValues ==
    ASSUME NEW p, NEW L \in Nat, Len(p) = L, NEW i \in 1 .. L + 1
    PROVE  \E f : Reading(p, f, i) /\ __enc_chunked_read_extentions(p, i) = f[i]
<1> DEFINE Good(m, g) == /\ g = [j \in m .. L + 1 |-> g[j]]
                         /\ \A j \in m .. L + 1 : g[j] = ReadStep(p, g, j)
           S == {n \in Nat : n <= L + 1 - i => \E g : Good(L + 1 - n, g)}
<1>1. ASSUME NEW m \in 1 .. L + 1, NEW g, NEW h, \A j \in m + 1 .. L + 1 : h[j] = g[j],
             NEW j \in m .. L + 1
      PROVE  ReadStep(p, h, j) = ReadStep(p, g, j)
  <2>1. CASE j > L \/ p[j] # "SEMI"
    BY <2>1 DEF ReadStep
  <2>2. CASE j <= L /\ KeyEnd(p, j + 1) >= L
    BY <2>2 DEF ReadStep
  <2>3. CASE j <= L /\ ~(KeyEnd(p, j + 1) >= L)
    <3>1. j \in 1 .. L
      BY <2>3
    <3>2. Behind(p, j) \in j + 1 .. L + 1
      BY <2>3, <3>1, Onward
    <3>3. Behind(p, j) \in m + 1 .. L + 1
      BY <3>2
    <3>4. h[Behind(p, j)] = g[Behind(p, j)]
      BY <1>1, <3>3
    <3> QED
      BY <3>4 DEF ReadStep
  <2> QED
    BY <2>1, <2>2, <2>3
<1>2. 0 \in S
  <2>1. PICK z : z = [j \in L + 1 .. L + 1 |-> <<>>]
    OBVIOUS
  <2>2. ReadStep(p, z, L + 1) = <<>>
    BY DEF ReadStep
  <2>3. Good(L + 1, z)
    BY <2>1, <2>2
  <2>4. L + 1 - 0 = L + 1
    OBVIOUS
  <2> HIDE DEF Good
  <2> QED
    BY <2>3, <2>4
<1>3. ASSUME NEW n \in S \cap Nat PROVE n + 1 \in S
  <2> SUFFICES ASSUME n + 1 <= L + 1 - i PROVE \E g : Good(L + 1 - (n + 1), g)
    <3> HIDE DEF Good
    <3> QED
      OBVIOUS
  <2>0. n \in Nat /\ i \in Nat /\ i >= 1
    OBVIOUS
  <2>1. PICK m \in 1 .. L + 1 : m = L + 1 - (n + 1) /\ m + 1 = L + 1 - n /\ m >= i
    <3> HIDE DEF S
    <3>1. L - n \in 1 .. L + 1 /\ L - n >= i
      BY <2>0
    <3>2. L - n = L + 1 - (n + 1) /\ (L - n) + 1 = L + 1 - n
      BY <2>0
    <3> QED
      BY <3>1, <3>2
  <2>2. n <= L + 1 - i
    OBVIOUS
  <2>3. PICK g : Good(m + 1, g)
    <3> HIDE DEF Good
    <3> QED
      BY <2>1, <2>2
  <2> HIDE DEF S
  <2> DEFINE h == [j \in m .. L + 1 |-> IF j = m THEN ReadStep(p, g, m) ELSE g[j]]
  <2>4. h = [j \in m .. L + 1 |-> h[j]]
    OBVIOUS
  <2>5. \A j \in m + 1 .. L + 1 : h[j] = g[j]
    OBVIOUS
  <2>6. h[m] = ReadStep(p, g, m)
    OBVIOUS
  <2> HIDE DEF h
  <2>7. ASSUME NEW j \in m .. L + 1 PROVE h[j] = ReadStep(p, h, j)
    <3>1. ReadStep(p, h, j) = ReadStep(p, g, j)
      BY <1>1, <2>5
    <3>2. CASE j = m
      BY <2>6, <3>1, <3>2
    <3>3. CASE j # m
      <4>1. j \in m + 1 .. L + 1
        BY <3>3
      <4> QED
        BY <2>3, <2>5, <3>1, <4>1
    <3> QED
      BY <3>2, <3>3
  <2>8. Good(m, h)
    BY <2>4, <2>7
  <2> HIDE DEF Good
  <2> QED
    BY <2>1, <2>8
<1>4. PICK g : Good(i, g)
  <2>1. L + 1 - i \in Nat /\ L + 1 - (L + 1 - i) = i
    OBVIOUS
  <2>2. L + 1 - i \in S
    <3> HIDE DEF S
    <3> QED
      BY <1>2, <1>3, <2>1, NatSetInduction
  <2>3. PICK x \in S : x = L + 1 - i
    BY <2>2
  <2>4. L + 1 - x = i /\ x <= L + 1 - i
    BY <2>1, <2>3
  <2> HIDE DEF Good
  <2> QED
    BY <2>4
<1> HIDE DEF S
<1> DEFINE Round(f0, j) ==
               IF j > Len(p) \/ p[j] # "SEMI" THEN <<>>
               ELSE LET eq  == KeyEnd(p, j + 1)
                        key == SubSeq(p, j + 1, eq - 1)
                        end == ValueEnd(p, eq + 1)
                    IN  IF eq >= Len(p) THEN <<[key |-> key, value |-> <<>>]>>
                        ELSE <<[key |-> key, value |-> Decode(p, eq + 1, end)]>> \o f0[end]
           F(f0) == [j \in i .. Len(p) + 1 |-> Round(f0, j)]
<1>5. ASSUME NEW f0, NEW j PROVE Round(f0, j) = ReadStep(p, f0, j)
  BY DEF ReadStep, Behind
<1>6. g = F(g)
  <2>1. \A j \in i .. L + 1 : g[j] = Round(g, j)
    <3> HIDE DEF Round
    <3> QED
      BY <1>4, <1>5
  <2>2. g = [j \in i .. L + 1 |-> g[j]]
    BY <1>4
  <2> HIDE DEF Round
  <2> QED
    BY <2>1, <2>2
<1>7. PICK f : f = CHOOSE f0 : f0 = F(f0)
  OBVIOUS
<1>8. f = F(f)
  <2> HIDE DEF F
  <2> QED
    BY <1>6, <1>7
<1>9. __enc_chunked_read_extentions(p, i) = f[i]
  BY <1>7, Zenon DEF __enc_chunked_read_extentions
<1>10. ASSUME NEW j \in i .. Len(p) + 1 PROVE f[j] = ReadStep(p, f, j)
  <2>1. f[j] = Round(f, j)
    <3> HIDE DEF Round
    <3> QED
      BY <1>8
  <2> HIDE DEF Round
  <2> QED
    BY <1>5, <2>1
<1> QED
  BY <1>9, <1>10 DEF Reading

\* The text that s holds behind position a, cut out.
LEMMA HeldText ==
    ASSUME NEW T, NEW s \in Seq(T), NEW t \in Seq(T), NEW a \in Nat, a + Len(t) <= Len(s), Holds(s, a, t)
    PROVE  SubSeq(s, a + 1, a + Len(t)) = t
<1>1. PICK l \in Nat, L \in Nat : l = Len(t) /\ L = Len(s)
  BY LenProperties
<1>2. \A k \in 1 .. L : s[k] \in T
  BY <1>1, LenProperties
<1>3. \A k \in a + 1 .. a + l : s[k] \in T
  BY <1>1, <1>2
<1>4. /\ SubSeq(s, a + 1, a + l) \in Seq(T)
      /\ Len(SubSeq(s, a + 1, a + l)) = IF a + 1 <= a + l THEN (a + l) - (a + 1) + 1 ELSE 0
      /\ \A k \in 1 .. (a + l) - (a + 1) + 1 : SubSeq(s, a + 1, a + l)[k] = s[a + 1 + k - 1]
  BY <1>1, <1>3, SubSeqProperties, Z3
<1>5. PICK u \in Seq(T) : u = SubSeq(s, a + 1, a + l)
  BY <1>4
<1>6. Len(u) = l
  BY <1>4, <1>5
<1>7. ASSUME NEW k \in 1 .. l PROVE u[k] = t[k]
  <2>1. k \in 1 .. (a + l) - (a + 1) + 1 /\ a + 1 + k - 1 = a + k
    OBVIOUS
  <2>2. u[k] = s[a + k]
    BY <1>4, <1>5, <2>1
  <2> QED
    BY <1>1, <2>2 DEF Holds
<1>8. u = t
  BY <1>1, <1>6, <1>7, SeqEqual
<1> QED
  BY <1>1, <1>5, <1>8

\* What the reader gets from one piece of meta data.
Pair(m) == [key |-> m.key, value |-> m.value]

\* The reader takes one extension with a value in quotes apart, and goes on behind it.
LEMMA ReadExtension ==
    ASSUME NEW p \in Seq(Letters), NEW f, NEW m \in Metas, m.form # "token", m.value # <<>>,
           Plain(m.value), NEW o \in Nat, o + Len(Extension(m)) <= Len(p), Holds(p, o, Extension(m))
    PROVE  ReadStep(p, f, o + 1) = <<Pair(m)>> \o f[o + Len(Extension(m)) + 1]
<1>1. PICK x \in Seq(Letters), y \in Seq(Letters), E \in Seq(Letters) :
          x = m.key /\ y = m.value /\ E = Escaped(m.value)
  BY MetaTexts, EscapedText
<1>2. PICK k \in Nat, M \in Nat, N \in Nat, L \in Nat :
          k = Len(x) /\ M = Len(E) /\ N = Len(Extension(m)) /\ L = Len(p)
  BY LenProperties, ExtensionType
<1>3. \A n \in 1 .. k : x[n] \notin Special
  BY <1>1, <1>2, MetaTexts
<1>4. ExtensionAt(p, o, m)
  BY ExtensionHeld
<1>5. PICK j \in Nat, a \in Nat : j = o + 1 /\ a = o + k + 3 /\ a = (j + k + 1) + 1
  BY SMTT(30)
<1>6. /\ p[j] = "SEMI" /\ Holds(p, j, x) /\ p[o + k + 2] = "EQ"
      /\ Quoted(p, a, E) /\ N = k + 4 + M
  BY <1>1, <1>2, <1>4, <1>5, Zenon DEF ExtensionAt
<1>7. o + k + 2 = j + k + 1 /\ o + N <= L /\ o + N + 1 = a + M + 2
  <2>1. N = k + 4 + M /\ o + N <= L
    BY <1>2, <1>6
  <2> QED
    BY <1>5, <2>1
<1>8. p[j + k + 1] = "EQ"
  BY <1>6, <1>7
<1>9. /\ a \in 1 .. L /\ a + M + 1 <= L /\ j \in 1 .. L /\ j + k <= L
      /\ j + k + 1 \in j + 1 .. L + 1 /\ ~(j + k + 1 >= L)
  BY <1>2, <1>5, <1>6, <1>7
<1>10. KeyEnd(p, j + 1) = j + k + 1
  <2> DEFINE S == {e \in j + 1 .. L + 1 : e = L + 1 \/ p[e] = "EQ"}
  <2>1. j + k + 1 \in S /\ S \subseteq Int
    BY <1>8, <1>9
  <2>2. ASSUME NEW e \in S PROVE j + k + 1 <= e
    <3> SUFFICES ASSUME e < j + k + 1 PROVE FALSE
      BY <2>1
    <3>1. e \in j + 1 .. L + 1 /\ (e = L + 1 \/ p[e] = "EQ")
      OBVIOUS
    <3>2. PICK n \in 1 .. k : n = e - j /\ e = j + n
      BY <3>1
    <3>3. p[e] = x[n]
      BY <1>2, <1>6, <3>2 DEF Holds
    <3>4. p[e] = "EQ"
      BY <1>9, <3>1
    <3> QED
      BY <1>3, <3>3, <3>4 DEF Special
  <2>3. KeyEnd(p, j + 1) = Min(S)
    BY <1>2 DEF KeyEnd
  <2> HIDE DEF S
  <2>4. Min(S) = j + k + 1
    BY <2>1, <2>2, MinIsLeast
  <2> QED
    BY <2>3, <2>4
<1>11. SubSeq(p, j + 1, j + k) = x
  BY <1>2, <1>6, <1>9, HeldText
<1>12. ValueEnd(p, a) = a + M + 2 /\ Decode(p, a, a + M + 2) = y
  <2>1. PICK off \in [0 .. Len(y) -> Nat] : Escapes(y, E, off)
    BY <1>1, EscapedText
  <2>2. Plain(y) /\ a + Len(E) + 1 <= L /\ Len(p) = L
    BY <1>1, <1>2, <1>9
  <2>3. ReadsBack(p, a, y, E)
    <3>1. Quoted(p, a, E) /\ a \in 1 .. L
      BY <1>6, <1>9
    <3> QED
      BY <2>1, <2>2, <3>1, QuotedValue
  <2> QED
    BY <1>2, <2>3 DEF ReadsBack
<1>13. (j + k + 1) - 1 = j + k
  OBVIOUS
<1>14. Behind(p, j) = a + M + 2
  BY <1>5, <1>10, <1>12 DEF Behind
<1>15. ~(j > Len(p) \/ p[j] # "SEMI") /\ ~(KeyEnd(p, j + 1) >= Len(p))
  BY <1>2, <1>6, <1>9, <1>10
<1>16. ReadStep(p, f, j) = <<[key |-> x, value |-> y]>> \o f[a + M + 2]
  <2>1. SubSeq(p, j + 1, KeyEnd(p, j + 1) - 1) = x
    BY <1>10, <1>11, <1>13
  <2>2. Decode(p, KeyEnd(p, j + 1) + 1, Behind(p, j)) = y
    BY <1>5, <1>10, <1>12, <1>14
  <2> QED
    BY <1>14, <1>15, <2>1, <2>2, Zenon DEF ReadStep
<1> QED
  BY <1>1, <1>2, <1>5, <1>7, <1>16 DEF Pair

\* Pieces of meta data that this library's writer wrote with a value.
Quotable(ms) == \A n \in 1 .. Len(ms) :
    ms[n].form # "token" /\ ms[n].value # <<>> /\ Plain(ms[n].value)

\* The reader gets all of the pieces from a text that ends with the last of them.
LEMMA ReadAll ==
    ASSUME NEW ms \in Seq(Metas), Quotable(ms), NEW off, Offsets(ms, off),
           NEW p \in Seq(Letters), Len(p) = off[Len(ms)] + 1, Layout(p, ms, off)
    PROVE  __enc_chunked_read_extentions(p, 2) = [n \in 1 .. Len(ms) |-> Pair(ms[n])]
<1>1. PICK N \in Nat : N = Len(ms)
  BY LenProperties
<1>2. /\ off \in [0 .. N -> Nat] /\ off[0] = 0
      /\ \A n \in 1 .. N : off[n] = off[n - 1] + Len(Extension(ms[n]))
  BY <1>1 DEF Offsets
<1>3. PICK L \in Nat : L = Len(p) /\ L = off[N] + 1 /\ 2 \in 1 .. L + 1
  BY <1>1, <1>2
<1>4. PICK f : Reading(p, f, 2) /\ __enc_chunked_read_extentions(p, 2) = f[2]
  BY <1>3, ReadValues
<1>5. \A j \in 2 .. L + 1 : f[j] = ReadStep(p, f, j)
  BY <1>3, <1>4 DEF Reading
<1> DEFINE T == {Pair(ms[n]) : n \in 1 .. N}
           Rest(n) == [d \in 1 .. N - n |-> Pair(ms[n + d])]
<1>6. ASSUME NEW n \in 0 .. N PROVE Rest(n) \in Seq(T) /\ Len(Rest(n)) = N - n
  <2>1. N - n \in Nat
    OBVIOUS
  <2>2. ASSUME NEW d \in 1 .. N - n PROVE Pair(ms[n + d]) \in T
    <3>1. n + d \in 1 .. N
      OBVIOUS
    <3> QED
      BY <3>1
  <2> HIDE DEF T
  <2> QED
    BY <2>1, <2>2
<1>7. ASSUME NEW n \in 1 .. N PROVE Rest(n - 1) = <<Pair(ms[n])>> \o Rest(n)
  <2>1. n - 1 \in 0 .. N /\ n \in 0 .. N /\ N - (n - 1) = 1 + (N - n) /\ N - n \in Nat
    OBVIOUS
  <2>2. Pair(ms[n]) \in T
    OBVIOUS
  <2>3. PICK u \in Seq(T), v \in Seq(T), w \in Seq(T) :
            u = <<Pair(ms[n])>> /\ v = Rest(n) /\ w = Rest(n - 1)
    <3>1. <<Pair(ms[n])>> \in Seq(T) /\ Rest(n) \in Seq(T) /\ Rest(n - 1) \in Seq(T)
      <4> HIDE DEF T, Rest
      <4> QED
        BY <1>6, <2>1, <2>2
    <3> HIDE DEF T, Rest
    <3> QED
      BY <3>1, Zenon
  <2>4. Len(u) = 1 /\ u[1] = Pair(ms[n])
    BY <2>3
  <2>5. Len(v) = N - n /\ Len(w) = 1 + (N - n)
    <3> HIDE DEF T, Rest
    <3> QED
      BY <1>6, <2>1, <2>3
  <2>6. \A d \in 1 .. N - n : v[d] = Pair(ms[n + d])
    BY <2>3
  <2>7. \A d \in 1 .. 1 + (N - n) : w[d] = Pair(ms[(n - 1) + d])
    BY <2>1, <2>3
  <2> HIDE DEF T, Rest
  <2>8. /\ u \o v \in Seq(T) /\ Len(u \o v) = 1 + (N - n)
        /\ \A d \in 1 .. 1 + (N - n) : (u \o v)[d] = IF d <= 1 THEN u[d] ELSE v[d - 1]
    <3>1. /\ u \o v \in Seq(T) /\ Len(u \o v) = Len(u) + Len(v)
          /\ \A d \in 1 .. Len(u) + Len(v) : (u \o v)[d] = IF d <= Len(u) THEN u[d] ELSE v[d - Len(u)]
      BY ConcatProperties
    <3> QED
      BY <2>4, <2>5, <3>1, Zenon
  <2>9. PICK uv \in Seq(T) : uv = u \o v
    BY <2>8
  <2>10. ASSUME NEW d \in 1 .. 1 + (N - n) PROVE uv[d] = w[d]
    <3>1. CASE d = 1
      <4>1. (n - 1) + 1 = n /\ 1 <= 1 /\ 1 \in 1 .. 1 + (N - n)
        BY <2>1
      <4>2. uv[1] = u[1]
        BY <2>8, <2>9, <4>1, ZenonT(40)
      <4>3. w[1] = Pair(ms[n])
        BY <2>7, <4>1
      <4> QED
        BY <2>4, <3>1, <4>2, <4>3
    <3>2. CASE d # 1
      <4>1. PICK e \in 1 .. N - n : e = d - 1 /\ n + e = (n - 1) + d
        BY <3>2
      <4>2. uv[d] = v[e]
        <5>1. d \in 1 .. 1 + (N - n) /\ ~(d <= 1) /\ d - 1 = e
          BY <2>1, <3>2, <4>1
        <5>2. uv[d] = v[d - 1]
          BY <2>8, <2>9, <5>1, Zenon
        <5> QED
          BY <5>1, <5>2
      <4>3. v[e] = Pair(ms[n + e])
        BY <2>6
      <4>4. w[d] = Pair(ms[(n - 1) + d])
        BY <2>7
      <4> QED
        BY <4>1, <4>2, <4>3, <4>4
    <3> QED
      BY <3>1, <3>2
  <2>11. uv = w
    <3>1. Len(uv) = 1 + (N - n)
      BY <2>8, <2>9
    <3> QED
      BY <2>5, <2>10, <3>1, SeqEqual
  <2> QED
    BY <2>3, <2>9, <2>11
<1> DEFINE S == {d \in Nat : d <= N => f[off[N - d] + 2] = Rest(N - d)}
<1>8. 0 \in S
  <2>1. N - 0 = N /\ off[N] + 2 = L + 1 /\ L + 1 \in 2 .. L + 1 /\ L + 1 > L
    <3>1. off[N] \in Nat
      BY <1>2
    <3> QED
      BY <1>3, <3>1, SMTT(30)
  <2>2. f[L + 1] = ReadStep(p, f, L + 1)
    BY <1>5, <2>1
  <2>3. ReadStep(p, f, L + 1) = <<>>
    BY <1>3, <2>1 DEF ReadStep
  <2>4. Rest(N) = <<>>
    <3>1. PICK r \in Seq(T) : r = Rest(N) /\ Len(r) = 0
      <4>1. N \in 0 .. N /\ N - N = 0
        OBVIOUS
      <4> HIDE DEF T, Rest
      <4> QED
        BY <1>6, <4>1
    <3> HIDE DEF T, Rest
    <3> QED
      BY <3>1, EmptySeq
  <2> HIDE DEF T, Rest
  <2> QED
    BY <2>1, <2>2, <2>3, <2>4
<1>9. ASSUME NEW d \in S \cap Nat PROVE d + 1 \in S
  <2> SUFFICES ASSUME d + 1 <= N PROVE f[off[N - (d + 1)] + 2] = Rest(N - (d + 1))
    OBVIOUS
  <2>0. d \in Nat /\ f[off[N - d] + 2] = Rest(N - d)
    <3> HIDE DEF Rest
    <3>1. d \in Nat /\ d <= N
      OBVIOUS
    <3> QED
      BY <3>1
  <2> HIDE DEF S, T, Rest
  <2>1. PICK n \in 1 .. N : n = N - d /\ n - 1 = N - (d + 1)
    <3>1. N - d \in 1 .. N /\ (N - d) - 1 = N - (d + 1)
      BY <2>0
    <3> QED
      BY <3>1
  <2>2. f[off[n] + 2] = Rest(n)
    BY <2>0, <2>1
  <2>3. PICK m \in Metas : m = ms[n] /\ m.form # "token" /\ m.value # <<>> /\ Plain(m.value)
    BY <1>1, LenProperties DEF Quotable
  <2>4. n \in 0 .. N /\ n - 1 \in 0 .. N
    OBVIOUS
  <2>5. PICK l \in Nat, u \in Nat, v \in Nat : l = Len(Extension(m)) /\ u = off[n - 1] /\ v = off[n]
    BY <1>2, <2>4, ExtensionType, LenProperties
  <2>6. v = u + l
    BY <1>2, <2>3, <2>5
  <2>7. v + 1 <= L
    <3>1. off[n] <= off[N] /\ off[N] \in Nat
      BY <1>1, <2>4, OffsetsGrow
    <3>2. PICK z \in Nat : z = off[N]
      BY <3>1
    <3>3. v <= z /\ L = z + 1
      BY <1>3, <2>5, <3>1, <3>2
    <3> QED
      BY <3>3
  <2>8. PICK o \in Nat : o = u + 1 /\ o + l <= L /\ o + 1 = u + 2 /\ o + l + 1 = v + 2
    BY <2>6, <2>7
  <2>9. Holds(p, o, Extension(m))
    BY <1>1, <2>3, <2>5, <2>8 DEF Layout
  <2>10. ReadStep(p, f, o + 1) = <<Pair(m)>> \o f[o + Len(Extension(m)) + 1]
    BY <1>3, <2>3, <2>5, <2>8, <2>9, ReadExtension, ZenonT(40)
  <2>11. f[o + 1] = ReadStep(p, f, o + 1)
    <3>1. o + 1 \in 2 .. L + 1
      BY <2>6, <2>7, <2>8
    <3> QED
      BY <1>5, <3>1
  <2>12. f[u + 2] = <<Pair(ms[n])>> \o Rest(n)
    BY <2>2, <2>3, <2>5, <2>8, <2>10, <2>11
  <2> QED
    BY <1>7, <2>1, <2>5, <2>12
<1>10. f[2] = Rest(0)
  <2>1. N \in S
    <3> HIDE DEF S
    <3> QED
      BY <1>8, <1>9, NatSetInduction
  <2>2. f[off[N - N] + 2] = Rest(N - N)
    <3> HIDE DEF Rest
    <3> QED
      BY <2>1
  <2>3. N - N = 0 /\ 0 + 2 = 2
    OBVIOUS
  <2> HIDE DEF Rest, S
  <2> QED
    BY <1>2, <2>2, <2>3
<1>11. Rest(0) = [n \in 1 .. N |-> Pair(ms[n])]
  <2>1. N - 0 = N /\ \A n \in 1 .. N : 0 + n = n
    OBVIOUS
  <2> QED
    BY <2>1
<1> HIDE DEF S, T, Rest
<1> QED
  BY <1>1, <1>4, <1>10, <1>11

LEMMA QuotableMetas ==
    ASSUME "BS" \notin Chars, "token" \notin Forms, 0 \notin ValueLens, NEW ms \in Seq(Metas)
    PROVE  Quotable(ms)
<1> SUFFICES ASSUME NEW n \in 1 .. Len(ms)
             PROVE  ms[n].form # "token" /\ ms[n].value # <<>> /\ Plain(ms[n].value)
  BY DEF Quotable
<1>1. PICK m \in Metas : m = ms[n]
  BY LenProperties
<1>2. m.form # "token"
  BY MetaTexts
<1>3. Plain(m.value)
  BY <1>1, PlainValues DEF PlainMetas
<1>4. m.value # <<>>
  <2>1. PICK l \in ValueLens : m.value \in [1 .. l -> Chars]
    BY DEF Metas, Values
  <2>2. l \in Nat /\ l # 0
    BY ExtensionsAssumption
  <2>3. PICK v \in Seq(Chars) : v = m.value /\ Len(v) = l
    BY <2>1, <2>2
  <2>4. v # <<>>
    BY <2>2, <2>3
  <2> QED
    BY <2>3, <2>4
<1> QED
  BY <1>1, <1>2, <1>3, <1>4

\* Holds only looks at the characters that it is about.
LEMMA HeldInPart ==
    ASSUME NEW ms \in Seq(Metas), NEW off, Offsets(ms, off), NEW raw, NEW p,
           \A x \in 1 .. off[Len(ms)] + 1 : p[x] = raw[x], Layout(raw, ms, off)
    PROVE  Layout(p, ms, off)
<1>1. PICK N \in Nat : N = Len(ms)
  BY LenProperties
<1>2. /\ off \in [0 .. N -> Nat]
      /\ \A n \in 1 .. N : off[n] = off[n - 1] + Len(Extension(ms[n]))
  BY <1>1 DEF Offsets
<1>3. PICK M \in Nat : M = off[N]
  BY <1>2
<1>4. \A x \in 1 .. M + 1 : p[x] = raw[x]
  BY <1>1, <1>3
<1> SUFFICES ASSUME NEW n \in 1 .. N, NEW k \in 1 .. Len(Extension(ms[n]))
             PROVE  p[(off[n - 1] + 1) + k] = Extension(ms[n])[k]
  BY <1>1 DEF Layout, Holds
<1>5. n \in 0 .. N /\ n - 1 \in 0 .. N
  OBVIOUS
<1>6. PICK m \in Metas : m = ms[n]
  BY <1>1, LenProperties
<1>7. PICK l \in Nat, u \in Nat, v \in Nat : l = Len(Extension(m)) /\ u = off[n - 1] /\ v = off[n]
  BY <1>2, <1>5, ExtensionType, LenProperties
<1>8. v = u + l
  BY <1>2, <1>6, <1>7
<1>9. v <= M
  BY <1>1, <1>3, <1>5, <1>7, OffsetsGrow
<1>10. k \in 1 .. l
  BY <1>6, <1>7
<1>11. PICK x \in 1 .. M + 1 : x = (u + 1) + k
  BY <1>8, <1>9, <1>10
<1>12. raw[x] = Extension(ms[n])[k]
  BY <1>1, <1>7, <1>11 DEF Layout, Holds
<1> QED
  BY <1>4, <1>7, <1>11, <1>12

LEMMA WhatIsRead ==
    ASSUME "BS" \notin Chars, "token" \notin Forms, 0 \notin ValueLens, ExtensionsTypeOK
    PROVE  RoundTrip
<1>1. PICK ms \in Seq(Metas) : ms = metas
  BY DEF ExtensionsTypeOK
<1>2. PICK N \in Nat : N = Len(ms) /\ DOMAIN ms = 1 .. N
  BY LenProperties
<1>h. PICK raw \in Seq(Letters) : raw = Header \o Body
  BY <1>1, HeaderText
<1>3. PICK off : raw = Header \o Body /\ HeaderAt(raw, ms, off) /\ Len(raw) = off[Len(ms)] + 6
  BY <1>1, <1>h, HeaderText
<1>4. Offsets(ms, off) /\ Layout(raw, ms, off)
  BY <1>3 DEF HeaderAt
<1>5. PICK M \in Nat, L \in Nat : M = off[N] /\ L = Len(raw)
  BY <1>2, <1>4, LenProperties, SMTT(30) DEF Offsets
<1>6. L = M + 6
  BY <1>2, <1>3, <1>5
<1>7. Scan(raw).end = M + 3 /\ Scan(raw).ext = IF ms = <<>> THEN 0 ELSE 2
  <2>1. PlainMetas(ms)
    BY PlainValues
  <2>2. off[Len(ms)] + 3 <= L
    BY <1>2, <1>5, <1>6
  <2> QED
    BY <1>2, <1>3, <1>5, <2>1, <2>2, ScanFindsEnd
<1>8. PICK p \in Seq(Letters) : p = SubSeq(raw, 1, M + 1) /\ Len(p) = M + 1 /\ \A x \in 1 .. M + 1 : p[x] = raw[x]
  <2>1. M + 1 \in 0 .. Len(raw)
    BY <1>5, <1>6
  <2> QED
    BY <2>1, FirstPart
<1>9. __enc_chunked_read_extentions(p, 2) = [n \in 1 .. N |-> Pair(ms[n])]
  <2>1. Layout(p, ms, off)
    <3>1. \A x \in 1 .. off[Len(ms)] + 1 : p[x] = raw[x]
      BY <1>2, <1>5, <1>8
    <3> QED
      BY <1>4, <3>1, HeldInPart
  <2>2. Quotable(ms)
    BY QuotableMetas
  <2>3. Len(p) = off[Len(ms)] + 1
    BY <1>2, <1>5, <1>8
  <2> QED
    BY <1>2, <1>4, <2>1, <2>2, <2>3, ReadAll
<1>10. M + 3 - 2 = M + 1
  OBVIOUS
<1> DEFINE got == IF Scan(raw).ext = 0 THEN <<>>
                  ELSE __enc_chunked_read_extentions(SubSeq(raw, 1, Scan(raw).end - 2), Scan(raw).ext)
<1>11. got = [n \in 1 .. N |-> Pair(ms[n])]
  <2>1. CASE ms = <<>>
    <3>1. N = 0 /\ 1 .. N = {}
      BY <1>2, <2>1
    <3> QED
      BY <1>7, <2>1, <3>1
  <2>2. CASE ms # <<>>
    <3>1. Scan(raw).ext = 2 /\ 2 # 0 /\ Scan(raw).end - 2 = M + 1
      BY <1>7, <1>10, <2>2
    <3> QED
      BY <1>8, <1>9, <3>1
  <2> QED
    BY <2>1, <2>2
<1> HIDE DEF got
<1>12. RoundTrip <=> got = [i \in DOMAIN metas |-> [key |-> metas[i].key, value |-> metas[i].value]]
  BY <1>3, Zenon DEF RoundTrip, got
<1>13. [i \in DOMAIN metas |-> [key |-> metas[i].key, value |-> metas[i].value]] = [n \in 1 .. N |-> Pair(ms[n])]
  BY <1>1, <1>2 DEF Pair
<1> QED
  BY <1>11, <1>12, <1>13

\* The reader gets the keys and values the writer was given, for every list of meta data
\* with values that are not empty, in quotes and without a backslash.
THEOREM ReaderGetsMetas ==
    ASSUME "BS" \notin Chars, "token" \notin Forms, 0 \notin ValueLens
    PROVE  Spec => []RoundTrip
<1>1. ExtensionsTypeOK => RoundTrip
  BY WhatIsRead
<1> QED
  BY <1>1, ExtensionsType, PTL
=============================================================================
