--------------------------- MODULE SequenceFacts ---------------------------
(***************************************************************************)
(* Facts that the proofs about more than one component need: induction     *)
(* over the natural numbers, and the parts of a sequence.                  *)
(***************************************************************************)
EXTENDS Integers, Sequences, SequencesExt, SequenceTheorems, WellFoundedInduction, TLAPS

\* What holds of 0 and of the successor of each number holds of all numbers.
LEMMA NatSetInduction ==
    ASSUME NEW S, 0 \in S, \A n \in S \cap Nat : n + 1 \in S
    PROVE  Nat \subseteq S
<1> DEFINE T == Nat \ S
<1> SUFFICES ASSUME T # {} PROVE FALSE
  OBVIOUS
<1>1. PICK x \in T : \A y \in T : ~(<<y, x>> \in OpToRel(<, Nat))
  BY NatLessThanWellFounded, WFMin
<1>2. \A y \in T : ~(y < x)
  BY <1>1 DEF OpToRel
<1>3. x # 0 /\ x - 1 \in Nat /\ x - 1 \in S
  BY <1>2
<1>4. (x - 1) + 1 \in S
  BY <1>3
<1>5. (x - 1) + 1 = x
  BY <1>3
<1> QED
  BY <1>4, <1>5

\* A set of positions has a first one.
LEMMA FirstPosition ==
    ASSUME NEW I, NEW k \in I, I \subseteq Nat
    PROVE  \E i \in I : \A j \in I : i <= j
<1> SUFFICES ASSUME \A i \in I : \E j \in I : j < i PROVE FALSE
  OBVIOUS
<1> DEFINE S == {n \in Nat : \A j \in I : n <= j}
<1>1. 0 \in S
  OBVIOUS
<1>2. ASSUME NEW n \in S \cap Nat PROVE n + 1 \in S
  <2>1. \A j \in I : n <= j /\ j # n
    OBVIOUS
  <2> QED
    BY <2>1
<1> HIDE DEF S
<1>3. k + 1 \in S
  BY <1>1, <1>2, NatSetInduction
<1> QED
  BY <1>3 DEF S

\* The first k elements.
LEMMA FirstPart ==
    ASSUME NEW T, NEW s \in Seq(T), NEW k \in 0 .. Len(s)
    PROVE  /\ SubSeq(s, 1, k) \in Seq(T) /\ Len(SubSeq(s, 1, k)) = k
           /\ \A i \in 1 .. k : SubSeq(s, 1, k)[i] = s[i]
<1>1. Len(s) \in Nat /\ \A i \in 1 .. Len(s) : s[i] \in T
  BY LenProperties
<1>2. \A i \in 1 .. k : s[i] \in T
  BY <1>1
<1>3. /\ SubSeq(s, 1, k) \in Seq(T)
      /\ Len(SubSeq(s, 1, k)) = IF 1 <= k THEN k - 1 + 1 ELSE 0
      /\ \A i \in 1 .. k - 1 + 1 : SubSeq(s, 1, k)[i] = s[1 + i - 1]
  BY <1>2, SubSeqProperties, Z3
<1> QED
  BY <1>3

\* What is left without the first k elements.
LEMMA LastPart ==
    ASSUME NEW T, NEW s \in Seq(T), NEW k \in 0 .. Len(s)
    PROVE  /\ SubSeq(s, k + 1, Len(s)) \in Seq(T)
           /\ Len(SubSeq(s, k + 1, Len(s))) = Len(s) - k
           /\ \A i \in 1 .. Len(s) - k : SubSeq(s, k + 1, Len(s))[i] = s[k + i]
<1>1. Len(s) \in Nat /\ \A i \in 1 .. Len(s) : s[i] \in T
  BY LenProperties
<1>2. \A i \in k + 1 .. Len(s) : s[i] \in T
  BY <1>1
<1>3. /\ SubSeq(s, k + 1, Len(s)) \in Seq(T)
      /\ Len(SubSeq(s, k + 1, Len(s))) = IF k + 1 <= Len(s) THEN Len(s) - (k + 1) + 1 ELSE 0
      /\ \A i \in 1 .. Len(s) - (k + 1) + 1 : SubSeq(s, k + 1, Len(s))[i] = s[k + 1 + i - 1]
  BY <1>1, <1>2, SubSeqProperties, Z3
<1> QED
  BY <1>1, <1>3

\* The text t is the sequences of ss one behind the other; off says where each begins.
Joins(ss, t, off) ==
    /\ off[0] = 0 /\ Len(t) = off[Len(ss)]
    /\ \A i \in 1 .. Len(ss) : off[i] = off[i - 1] + Len(ss[i])
    /\ \A i \in 1 .. Len(ss) : \A k \in 1 .. Len(ss[i]) : t[off[i - 1] + k] = ss[i][k]

\* FlattenSeq joins sequences over one set.
LEMMA Pieces ==
    ASSUME NEW T, NEW N \in Nat, NEW ss, Len(ss) = N, ss = [i \in 1 .. N |-> ss[i]],
           \A i \in 1 .. N : ss[i] \in Seq(T)
    PROVE  /\ FlattenSeq(ss) \in Seq(T)
           /\ \E off \in [0 .. N -> Nat] : Joins(ss, FlattenSeq(ss), off)
<1> DEFINE Base(n, g) == /\ g = [i \in 1 .. n |-> g[i]]
                         /\ \A i \in 1 .. n :
                               /\ g[i] = IF i = 1 THEN ss[i] ELSE g[i - 1] \o ss[i]
                               /\ g[i] \in Seq(T)
           Placed(n, t, off) ==
                /\ off \in [0 .. n -> Nat] /\ off[0] = 0 /\ Len(t) = off[n]
                /\ \A i \in 1 .. n : off[i] = off[i - 1] + Len(ss[i]) /\ off[i] <= off[n]
                /\ \A j \in 1 .. n : \A k \in 1 .. Len(ss[j]) : t[off[j - 1] + k] = ss[j][k]
           Text(n, g) == IF n = 0 THEN <<>> ELSE g[n]
           Done(n) == \E g, off : Base(n, g) /\ Placed(n, Text(n, g), off)
           S == {n \in Nat : n <= N => Done(n)}
<1>1. 0 \in S
  <2>1. Base(0, <<>>)
    OBVIOUS
  <2>2. Placed(0, <<>>, [i \in 0 .. 0 |-> 0])
    OBVIOUS
  <2>3. Text(0, <<>>) = <<>>
    OBVIOUS
  <2> HIDE DEF Base, Placed, Text
  <2> QED
    BY <2>1, <2>2, <2>3
<1>2. ASSUME NEW n \in S \cap Nat PROVE n + 1 \in S
  <2> SUFFICES ASSUME n + 1 <= N PROVE Done(n + 1)
    <3> HIDE DEF Done
    <3> QED
      OBVIOUS
  <2>0. n \in Nat /\ n <= N /\ n + 1 \in 1 .. N /\ n + 1 # 0 /\ Done(n)
    <3> HIDE DEF Done
    <3> QED
      OBVIOUS
  <2> HIDE DEF S
  <2>1. PICK g, off : Base(n, g) /\ Placed(n, Text(n, g), off)
    <3> HIDE DEF Base, Placed, Text
    <3> QED
      BY <2>0
  <2>2. ss[n + 1] \in Seq(T) /\ Len(ss[n + 1]) \in Nat
    BY <2>0, LenProperties
  <2>t. PICK t \in Seq(T) : t = Text(n, g) /\ (n # 0 => t = g[n])
    <3>1. CASE n = 0
      <4>1. Text(n, g) = <<>> /\ <<>> \in Seq(T)
        BY <3>1
      <4> HIDE DEF Text, Base, Placed
      <4> QED
        BY <3>1, <4>1
    <3>2. CASE n # 0
      <4>1. n \in 1 .. n
        BY <2>0, <3>2
      <4> QED
        BY <2>1, <3>2, <4>1
    <3> QED
      BY <3>1, <3>2
  <2>3. PICK next \in Seq(T) :
            /\ next = IF n + 1 = 1 THEN ss[n + 1] ELSE g[n] \o ss[n + 1]
            /\ Len(next) = Len(t) + Len(ss[n + 1])
            /\ \A k \in 1 .. Len(t) : next[k] = t[k]
            /\ \A k \in 1 .. Len(ss[n + 1]) : next[Len(t) + k] = ss[n + 1][k]
    <3>1. CASE n = 0
      <4>1. t = <<>> /\ Len(t) = 0
        BY <2>t, <3>1
      <4> HIDE DEF Base, Placed, Text
      <4>2. n + 1 = 1 /\ 1 .. Len(t) = {}
        BY <3>1, <4>1
      <4>3. \A k \in 1 .. Len(ss[n + 1]) : Len(t) + k = k
        BY <4>1
      <4>4. \A k \in 1 .. Len(ss[n + 1]) : ss[n + 1][Len(t) + k] = ss[n + 1][k]
        BY <4>3
      <4>5. Len(ss[n + 1]) = Len(t) + Len(ss[n + 1])
        BY <2>2, <4>1
      <4>6. \A k \in 1 .. Len(t) : ss[n + 1][k] = t[k]
        BY <4>2
      <4> QED
        BY <2>2, <4>2, <4>4, <4>5, <4>6
    <3>2. CASE n # 0
      <4>1. t = g[n] /\ n + 1 # 1 /\ Len(t) \in Nat
        BY <2>0, <2>t, <3>2, LenProperties
      <4>3. PICK u : u = ss[n + 1] /\ u \in Seq(T) /\ Len(u) \in Nat
        BY <2>2
      <4> HIDE DEF Base, Placed, Text
      <4>n. Len(t) \in Nat /\ Len(u) \in Nat
        BY <4>1, <4>3
      <4>4. t \o u \in Seq(T) /\ Len(t \o u) = Len(t) + Len(u)
        BY <4>1, <4>3, ConcatProperties
      <4>c. \A k \in 1 .. Len(t) + Len(u) :
                (t \o u)[k] = IF k <= Len(t) THEN t[k] ELSE u[k - Len(t)]
        BY <4>1, <4>3, ConcatProperties
      <4>5. ASSUME NEW k \in 1 .. Len(t) PROVE (t \o u)[k] = t[k]
        <5>1. k \in 1 .. Len(t) + Len(u) /\ k <= Len(t)
          BY <4>n
        <5> QED
          BY <4>c, <5>1
      <4>6. ASSUME NEW k \in 1 .. Len(u) PROVE (t \o u)[Len(t) + k] = u[k]
        <5>1. Len(t) + k \in 1 .. Len(t) + Len(u) /\ ~(Len(t) + k <= Len(t))
          BY <4>n
        <5>2. (Len(t) + k) - Len(t) = k
          BY <4>n
        <5> QED
          BY <4>c, <5>1, <5>2
      <4> QED
        BY <4>1, <4>3, <4>4, <4>5, <4>6
    <3> QED
      BY <3>1, <3>2
  <2> DEFINE h == [i \in 1 .. (n + 1) |-> IF i = n + 1 THEN next ELSE g[i]]
             q == [i \in 0 .. (n + 1) |-> IF i = n + 1 THEN Len(next) ELSE off[i]]
  <2>4. h = [i \in 1 .. (n + 1) |-> h[i]] /\ (\A i \in 1 .. n : h[i] = g[i]) /\ h[n + 1] = next
    BY <2>0
  <2>5. q = [i \in 0 .. (n + 1) |-> q[i]] /\ (\A i \in 0 .. n : q[i] = off[i])
        /\ q[n + 1] = Len(next)
    BY <2>0
  <2> HIDE DEF h, q
  <2>6. ASSUME NEW i \in 1 .. (n + 1)
        PROVE  h[i] = (IF i = 1 THEN ss[i] ELSE h[i - 1] \o ss[i]) /\ h[i] \in Seq(T)
    <3>1. CASE i = n + 1
      <4>1. i # 1 => i - 1 = n /\ n \in 1 .. n
        BY <2>0, <3>1
      <4> HIDE DEF Base, Placed, Text
      <4> QED
        BY <2>3, <2>4, <3>1, <4>1
    <3>2. CASE i \in 1 .. n
      <4>1. i # 1 => i - 1 \in 1 .. n
        BY <2>0, <3>2
      <4> HIDE DEF Placed, Text
      <4> QED
        BY <2>1, <2>4, <3>2, <4>1
    <3> QED
      BY <2>0, <3>1, <3>2
  <2>7. Base(n + 1, h)
    <3> HIDE DEF Placed, Text
    <3> QED
      BY <2>4, <2>6
  <2>8. /\ off[n] = Len(t) /\ Len(t) \in Nat /\ Len(next) = off[n] + Len(ss[n + 1])
        /\ off \in [0 .. n -> Nat] /\ off[0] = 0
        /\ \A i \in 1 .. n : off[i] = off[i - 1] + Len(ss[i]) /\ off[i] <= off[n]
        /\ \A i \in 1 .. n : \A k \in 1 .. Len(ss[i]) : t[off[i - 1] + k] = ss[i][k]
    <3>1. t \in Seq(T) /\ Len(t) \in Nat
      BY <2>t, LenProperties
    <3> HIDE DEF Base, Text
    <3> QED
      BY <2>1, <2>t, <2>3, <3>1
  <2> HIDE DEF Base
  <2>9. Placed(n + 1, next, q)
    <3>1. q \in [0 .. n + 1 -> Nat] /\ q[0] = 0 /\ Len(next) = q[n + 1]
      <4>1. Len(next) \in Nat
        BY <2>2, <2>8
      <4>2. ASSUME NEW i \in 0 .. n + 1 PROVE q[i] \in Nat
        <5>1. CASE i = n + 1
          BY <2>5, <4>1, <5>1
        <5>2. CASE i \in 0 .. n
          BY <2>5, <2>8, <5>2
        <5> QED
          BY <2>0, <5>1, <5>2
      <4>3. 0 \in 0 .. n
        BY <2>0
      <4> QED
        BY <2>5, <2>8, <4>1, <4>2, <4>3
    <3>2. ASSUME NEW i \in 1 .. n + 1 PROVE q[i] = q[i - 1] + Len(ss[i]) /\ q[i] <= q[n + 1]
      <4>1. CASE i = n + 1
        <5>1. i - 1 = n /\ n \in 0 .. n
          BY <2>0, <4>1
        <5>2. q[n] = off[n] /\ q[n + 1] = off[n] + Len(ss[n + 1])
          BY <2>5, <2>8, <5>1
        <5> QED
          BY <2>2, <2>8, <4>1, <5>1, <5>2
      <4>2. CASE i \in 1 .. n
        <5>1. i - 1 \in 0 .. n /\ i \in 0 .. n /\ n \in 0 .. n
          BY <2>0, <4>2
        <5>2. off[i] = off[i - 1] + Len(ss[i]) /\ off[i] <= off[n] /\ off[i] \in Nat /\ off[n] \in Nat
          BY <2>8, <4>2, <5>1
        <5>3. q[i] = off[i] /\ q[i - 1] = off[i - 1] /\ q[n + 1] = off[n] + Len(ss[n + 1])
          BY <2>5, <2>8, <5>1
        <5> QED
          BY <2>2, <5>2, <5>3
      <4> QED
        BY <2>0, <4>1, <4>2
    <3>3. ASSUME NEW i \in 1 .. n + 1, NEW k \in 1 .. Len(ss[i])
          PROVE  next[q[i - 1] + k] = ss[i][k]
      <4>1. CASE i = n + 1
        <5>1. i - 1 = n /\ n \in 0 .. n
          BY <2>0, <4>1
        <5>2. q[i - 1] = Len(t)
          BY <2>5, <2>8, <5>1
        <5> QED
          BY <2>3, <4>1, <5>2
      <4>2. CASE i \in 1 .. n
        <5>1. i - 1 \in 0 .. n /\ i \in 0 .. n /\ n \in 0 .. n
          BY <2>0, <4>2
        <5>2. ss[i] \in Seq(T) /\ Len(ss[i]) \in Nat
          BY <2>0, <4>2, LenProperties
        <5>3. off[i] = off[i - 1] + Len(ss[i]) /\ off[i] <= Len(t) /\ off[i - 1] \in Nat
          BY <2>8, <4>2, <5>1
        <5>4. off[i - 1] + k \in 1 .. Len(t)
          BY <2>8, <5>2, <5>3, SMTT(30)
        <5>5. t[off[i - 1] + k] = ss[i][k]
          BY <2>8, <4>2
        <5>6. next[off[i - 1] + k] = t[off[i - 1] + k]
          BY <2>3, <5>4
        <5>7. q[i - 1] = off[i - 1]
          BY <2>5, <5>1
        <5> QED
          BY <5>5, <5>6, <5>7
      <4> QED
        BY <2>0, <4>1, <4>2
    <3> QED
      BY <3>1, <3>2, <3>3
  <2>10. Text(n + 1, h) = next
    BY <2>0, <2>4
  <2> HIDE DEF Placed, Text
  <2> QED
    BY <2>7, <2>9, <2>10
<1>3. N \in S
  <2> HIDE DEF S
  <2> QED
    BY <1>1, <1>2, NatSetInduction
<1>4. PICK g, off : Base(N, g) /\ Placed(N, Text(N, g), off)
  <2> HIDE DEF Base, Placed, Text
  <2> QED
    BY <1>3
<1>5. FlattenSeq(ss) = Text(N, g) /\ Text(N, g) \in Seq(T)
  <2>1. CASE N = 0
    <3>1. ss = <<>>
      BY <2>1
    <3>2. FlattenSeq(ss) = ss
      BY <2>1 DEF FlattenSeq
    <3>3. Text(N, g) = <<>>
      BY <2>1
    <3>4. <<>> \in Seq(T)
      OBVIOUS
    <3> HIDE DEF Text
    <3> QED
      BY <3>1, <3>2, <3>3, <3>4
  <2>2. CASE N # 0
    <3> DEFINE Step(g0, i) == IF i = 1 THEN ss[i] ELSE g0[i - 1] \o ss[i]
               F(g0) == [i \in 1 .. N |-> Step(g0, i)]
    <3>1. g = F(g)
      <4>1. \A i \in 1 .. N : g[i] = Step(g, i)
        BY <1>4
      <4>2. g = [i \in 1 .. N |-> g[i]]
        BY <1>4
      <4> HIDE DEF Step
      <4> QED
        BY <4>1, <4>2
    <3>2. PICK f : f = CHOOSE f0 : f0 = F(f0)
      OBVIOUS
    <3>3. f = F(f)
      <4> HIDE DEF F
      <4> QED
        BY <3>1, <3>2
    <3>4. FlattenSeq(ss) = f[N]
      BY <2>2, <3>2 DEF FlattenSeq
    <3> DEFINE R == {n \in Nat : n \in 1 .. N => f[n] = g[n]}
    <3>5. 0 \in R
      OBVIOUS
    <3>6. ASSUME NEW n \in R \cap Nat PROVE n + 1 \in R
      <4> SUFFICES ASSUME n + 1 \in 1 .. N PROVE f[n + 1] = g[n + 1]
        OBVIOUS
      <4>1. f[n + 1] = Step(f, n + 1) /\ g[n + 1] = Step(g, n + 1)
        BY <3>1, <3>3
      <4>2. n # 0 => n \in 1 .. N /\ (n + 1) - 1 = n
        OBVIOUS
      <4>3. n = 0 => n + 1 = 1
        OBVIOUS
      <4>4. n # 0 => f[n] = g[n]
        BY <4>2
      <4> QED
        BY <4>1, <4>2, <4>3, <4>4
    <3>7. N \in R
      <4> HIDE DEF R
      <4> QED
        BY <3>5, <3>6, NatSetInduction
    <3>8. N \in 1 .. N
      BY <2>2
    <3>9. g[N] \in Seq(T)
      BY <1>4, <3>8
    <3>10. Text(N, g) = g[N]
      BY <2>2
    <3>11. f[N] = g[N]
      BY <3>7, <3>8
    <3> QED
      BY <3>4, <3>9, <3>10, <3>11
  <2> QED
    BY <2>1, <2>2
<1> HIDE DEF Base, Text
<1>6. PICK t \in Seq(T) : t = FlattenSeq(ss) /\ Placed(N, t, off)
  <2> HIDE DEF Placed
  <2> QED
    BY <1>4, <1>5
<1>7. /\ off \in [0 .. N -> Nat] /\ off[0] = 0 /\ Len(t) = off[N]
      /\ \A i \in 1 .. N : off[i] = off[i - 1] + Len(ss[i])
      /\ \A i \in 1 .. N : \A k \in 1 .. Len(ss[i]) : t[off[i - 1] + k] = ss[i][k]
  BY <1>6
<1>8. t = FlattenSeq(ss) /\ t \in Seq(T)
  BY <1>6
<1>9. Joins(ss, t, off)
  <2> HIDE DEF Placed
  <2> QED
    BY <1>7, Zenon DEF Joins
<1> HIDE DEF Placed
<1> QED
  BY <1>7, <1>8, <1>9

\* The first k + 1 elements are the first k and one more.
LEMMA NextPart ==
    ASSUME NEW T, NEW s \in Seq(T), NEW k \in Nat, k + 1 <= Len(s)
    PROVE  SubSeq(s, 1, k + 1) = Append(SubSeq(s, 1, k), s[k + 1])
<1>1. Len(s) \in Nat /\ (\A i \in 1 .. Len(s) : s[i] \in T) /\ k \in 0 .. Len(s)
      /\ k + 1 \in 0 .. Len(s) /\ k + 1 \in 1 .. Len(s)
  BY LenProperties
<1>2. /\ SubSeq(s, 1, k) \in Seq(T) /\ Len(SubSeq(s, 1, k)) = k
      /\ \A i \in 1 .. k : SubSeq(s, 1, k)[i] = s[i]
  BY <1>1, FirstPart
<1>3. /\ SubSeq(s, 1, k + 1) \in Seq(T) /\ Len(SubSeq(s, 1, k + 1)) = k + 1
      /\ \A i \in 1 .. k + 1 : SubSeq(s, 1, k + 1)[i] = s[i]
  BY <1>1, FirstPart
<1>4. PICK a \in Seq(T), b \in Seq(T), x \in T : a = SubSeq(s, 1, k) /\ b = SubSeq(s, 1, k + 1) /\ x = s[k + 1]
  BY <1>1, <1>2, <1>3
<1>5. Len(a) = k /\ Len(b) = k + 1 /\ b[k + 1] = x /\ \A i \in 1 .. k : b[i] = a[i]
  BY <1>2, <1>3, <1>4
<1>6. b = Append(a, x)
  <2>1. Append(a, x) \in Seq(T) /\ Len(Append(a, x)) = k + 1
    BY <1>5, AppendProperties
  <2>2. ASSUME NEW i \in 1 .. k + 1 PROVE b[i] = Append(a, x)[i]
    BY <1>5, AppendProperties
  <2> QED
    BY <1>5, <2>1, <2>2, SeqEqual
<1> QED
  BY <1>4, <1>6

\* All elements are the sequence.
LEMMA WholePart == ASSUME NEW T, NEW s \in Seq(T) PROVE SubSeq(s, 1, Len(s)) = s
<1>1. Len(s) \in Nat /\ Len(s) \in 0 .. Len(s)
  BY LenProperties
<1>2. /\ SubSeq(s, 1, Len(s)) \in Seq(T) /\ Len(SubSeq(s, 1, Len(s))) = Len(s)
      /\ \A i \in 1 .. Len(s) : SubSeq(s, 1, Len(s))[i] = s[i]
  BY <1>1, FirstPart
<1> QED
  BY <1>2, SeqEqual

\* The least element of a set.
LEMMA MinIsLeast ==
    ASSUME NEW S, S \subseteq Int, NEW x \in S, \A y \in S : x <= y
    PROVE  Min(S) = x
<1>1. PICK m \in S : m = Min(S) /\ \A y \in S : m <= y
  BY DEF Min
<1>2. x \in Int /\ m \in Int
  OBVIOUS
<1>3. m <= x /\ x <= m
  BY <1>1
<1>4. m = x
  BY <1>2, <1>3
<1> QED
  BY <1>1, <1>4

\* Min of a set of positions is one of them.
LEMMA LeastIsIn == ASSUME NEW S, S \subseteq Nat, NEW k \in S PROVE Min(S) \in S
BY FirstPosition DEF Min
=============================================================================
