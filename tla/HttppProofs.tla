----------------------------- MODULE HttppProofs ----------------------------
(***************************************************************************)
(* Proofs about Httpp, for any number of clients and any messages: the     *)
(* reference count; a name leads to one variable; httpp_get_any_key lists  *)
(* each name once and leaves room for the NULL; the trees are the tables   *)
(* of HttpVars.                                                            *)
(*                                                                         *)
(* All but the first rest on one invariant, that each tree is a table. Its *)
(* steps need that what the scanners cut out of a text are finite lists.   *)
(* The last one is step by step: each call on a tree is one on its table.  *)
(***************************************************************************)
EXTENDS FiniteSetTheorems, TLAPS, Httpp, SequenceFacts

-----------------------------------------------------------------------------
(* The reference count                                                     *)

\* The count is the number of clients that have a reference.
Counted == /\ holders \subseteq Clients /\ IsFiniteSet(holders)
           /\ refc = Cardinality(holders)
           /\ Lifetime

\* httpp_create_parser leaves one reference, with its caller.
LEMMA InitCounted == Init => Counted
<1> SUFFICES ASSUME Init PROVE Counted
  OBVIOUS
<1>1. live = TRUE /\ refc = 1 /\ holders = {Creator} /\ Creator \in Clients
  BY HttppAssumption DEF Init
<1>2. IsFiniteSet({Creator}) /\ Cardinality({Creator}) = 1
  BY FS_Singleton
<1> QED
  BY <1>1, <1>2 DEF Counted, Lifetime

\* The parser is created again when nobody has the old one.
LEMMA CreateCounted ==
    ASSUME Counted, httpp_create_parser PROVE Counted'
BY HttppAssumption, FS_Singleton DEF Counted, Lifetime, httpp_create_parser, Fresh

\* httpp_addref keeps the count.
LEMMA AddrefCounted ==
    ASSUME Counted, NEW c \in Clients, NEW d \in Clients, httpp_addref(c, d)
    PROVE  Counted'
<1>1. IsFiniteSet(holders') /\ Cardinality(holders') = Cardinality(holders) + 1
  BY FS_AddElement DEF Counted, httpp_addref
<1> QED
  BY <1>1 DEF Counted, Lifetime, httpp_addref

\* The last one to go is the one who finds the count at 0.
LEMMA ReleaseCounted ==
    ASSUME Counted, NEW c \in Clients, httpp_release(c)
    PROVE  Counted'
<1>1. /\ IsFiniteSet(holders') /\ Cardinality(holders') = Cardinality(holders) - 1
      /\ holders' \subseteq Clients
  BY FS_RemoveElement DEF Counted, httpp_release
<1>2. refc' = Cardinality(holders')
  BY <1>1 DEF Counted, httpp_release
<1>3. refc' = 0 <=> holders' = {}
  BY <1>1, <1>2, FS_EmptySet
<1>4. live' <=> refc' # 0
  BY DEF Counted, Lifetime, httpp_release, Fresh
<1> QED
  BY <1>1, <1>2, <1>3, <1>4 DEF Counted, Lifetime

\* Every call keeps the count.
LEMMA NextCounted == Counted /\ [Next]_state => Counted'
<1> SUFFICES ASSUME Counted, [Next]_state PROVE Counted'
  OBVIOUS
<1>1. ASSUME UNCHANGED <<live, refc, holders>> PROVE Counted'
  BY <1>1 DEF Counted, Lifetime
<1>2. CASE httpp_create_parser
  BY <1>2, CreateCounted
<1>3. ASSUME NEW c \in Clients, NEW d \in Clients, httpp_addref(c, d) PROVE Counted'
  BY <1>3, AddrefCounted
<1>4. ASSUME NEW c \in Clients, httpp_release(c) PROVE Counted'
  BY <1>4, ReleaseCounted
<1>5. ASSUME Parse \/ ParseResponse \/ ParsePostdata \/ httpp_initialize \/ SetVar
             \/ httpp_deletevar \/ SetParam
      PROVE  Counted'
  BY <1>1, <1>5 DEF Parse, ParseResponse, ParsePostdata, httpp_initialize, SetVar,
                    httpp_deletevar, SetParam, Call
<1>6. CASE UNCHANGED state
  BY <1>1, <1>6 DEF state, parser
<1> QED
  BY <1>2, <1>3, <1>4, <1>5, <1>6 DEF Next, Idle

\* However many clients hand the parser on and give it back in whatever order, it
\* is freed by the last one, and not before.
THEOREM FreedByTheLast == Spec => []Lifetime
<1>1. Counted => Lifetime
  BY DEF Counted
<1> QED
  BY <1>1, InitCounted, NextCounted, PTL DEF Spec

-----------------------------------------------------------------------------
(* Texts                                                                   *)

\* Whatever is cut out of a text has a length.
LEMMA CutLength ==
    ASSUME NEW s, NEW m \in Int, NEW n \in Int
    PROVE  /\ Len(SubSeq(s, m, n)) \in Nat
           /\ DOMAIN SubSeq(s, m, n) = 1 .. Len(SubSeq(s, m, n))
<1> DEFINE T == {s[i] : i \in m .. n}
<1>1. \A i \in m .. n : s[i] \in T
  OBVIOUS
<1> HIDE DEF T
<1>2. SubSeq(s, m, n) \in Seq(T)
  BY <1>1, SubSeqProperties
<1> QED
  BY <1>2, LenProperties

\* Next1 gives a position, or the one behind the text.
LEMMA Next1Position ==
    ASSUME NEW text, NEW c, NEW from \in Nat, Len(text) \in Nat
    PROVE  Next1(text, c, from) \in Nat
<1> DEFINE I == {i \in from .. Len(text) : text[i] = c}
<1>1. CASE I = {}
  BY <1>1 DEF Next1, SelectInSubSeq
<1>2. CASE I # {}
  <2>0. PICK k \in I : I \subseteq Nat
    BY <1>2
  <2>1. PICK i \in I : i \in Nat /\ \A j \in I : i <= j
    <3> HIDE DEF I
    <3> QED
      BY <2>0, FirstPosition
  <2>2. (CHOOSE x \in I : \A y \in I : x <= y) \in Nat
    BY <2>1
  <2> QED
    BY <1>2, <2>2 DEF Next1, SelectInSubSeq, Min
<1> QED
  BY <1>1, <1>2

\* The parts of a text around a symbol are texts.
LEMMA Parts ==
    ASSUME NEW text, Len(text) \in Nat
    PROVE  /\ \A c : Len(Before(text, c)) \in Nat /\ Len(After(text, c)) \in Nat
           /\ \A i \in Int : Len(From(text, i)) \in Nat
           /\ \A c : DOMAIN After(text, c) = 1 .. Len(After(text, c))
<1>1. ASSUME NEW i \in Int
      PROVE  Len(From(text, i)) \in Nat /\ DOMAIN From(text, i) = 1 .. Len(From(text, i))
  BY CutLength DEF From
<1>2. ASSUME NEW c PROVE Next1(text, c, 1) - 1 \in Int /\ Next1(text, c, 1) + 1 \in Int
  <2>1. Next1(text, c, 1) \in Nat
    BY Next1Position
  <2> QED
    BY <2>1
<1>3. ASSUME NEW c PROVE Len(Before(text, c)) \in Nat
  BY <1>2, CutLength DEF Before
<1>4. ASSUME NEW c
      PROVE  /\ Len(After(text, c)) \in Nat
             /\ DOMAIN After(text, c) = 1 .. Len(After(text, c))
  BY <1>1, <1>2 DEF After
<1> QED
  BY <1>1, <1>3, <1>4

\* The string that begins at a position.
LEMMA StringLength ==
    ASSUME NEW data, NEW k \in Nat, Len(data) \in Nat
    PROVE  Len(CString(data, k)) \in Nat
<1> DEFINE I == {i \in k .. Len(data) : IsEol(data[i])}
           end == SelectInSubSeq(data, k, Len(data), IsEol)
<1>1. end \in Nat
  <2>1. CASE I = {}
    BY <2>1 DEF SelectInSubSeq
  <2>2. CASE I # {}
    <3>0. PICK m \in I : I \subseteq Nat
      BY <2>2
    <3>1. PICK i \in I : i \in Nat /\ \A j \in I : i <= j
      <4> HIDE DEF I
      <4> QED
        BY <3>0, FirstPosition
    <3>2. (CHOOSE x \in I : \A y \in I : x <= y) \in Nat
      BY <3>1
    <3> QED
      BY <2>2, <3>2 DEF SelectInSubSeq, Min
  <2> QED
    BY <2>1, <2>2
<1> HIDE DEF end
<1>2. (IF end = 0 THEN Len(data) ELSE end - 1) \in Int
  BY <1>1
<1> QED
  BY <1>2, CutLength DEF CString, end

\* Ascending lists the members of a set.
LEMMA AscendingList ==
    ASSUME NEW S, S \subseteq Nat, IsFiniteSet(S)
    PROVE  /\ Cardinality(S) \in Nat
           /\ DOMAIN Ascending(S) = 1 .. Cardinality(S)
           /\ Len(Ascending(S)) = Cardinality(S)
           /\ \A n \in 1 .. Cardinality(S) : Ascending(S)[n] \in S
<1> DEFINE below(i) == {j \in S : j < i}
           N == Cardinality(S)
           rank == [i \in S |-> Cardinality(below(i))]
<1>1. N \in Nat
  BY FS_CardinalityType
<1>2. ASSUME NEW i \in S PROVE rank[i] \in 0 .. N - 1 /\ IsFiniteSet(below(i))
  <2>1. below(i) \subseteq S /\ i \notin below(i)
    OBVIOUS
  <2>2. IsFiniteSet(below(i)) /\ Cardinality(below(i)) <= N /\ Cardinality(below(i)) # N
    BY <2>1, FS_Subset
  <2>3. Cardinality(below(i)) \in Nat
    BY <2>2, FS_CardinalityType
  <2> QED
    BY <1>1, <2>2, <2>3
<1>3. ASSUME NEW i \in S, NEW k \in S, i < k PROVE rank[i] # rank[k]
  <2>0. i \in Nat /\ k \in Nat /\ \A j \in S : j \in Nat
    OBVIOUS
  <2>a. \A j \in S : j < i => j < k
    BY <1>3, <2>0
  <2>b. i < k /\ ~(i < i)
    BY <1>3, <2>0
  <2>1. below(i) \subseteq below(k) /\ i \in below(k) /\ i \notin below(i)
    BY <2>a, <2>b, Zenon
  <2>2. Cardinality(below(i)) # Cardinality(below(k))
    BY <1>2, <2>1, FS_Subset
  <2> QED
    BY <2>2
<1>4. rank \in [S -> 0 .. N - 1]
  BY <1>2
<1>5. rank \in Injection(S, 0 .. N - 1)
  <2>1. \A i, k \in S : rank[i] = rank[k] => i = k
    <3> SUFFICES ASSUME NEW i \in S, NEW k \in S, i # k PROVE rank[i] # rank[k]
      OBVIOUS
    <3>1. i < k \/ k < i
      OBVIOUS
    <3> HIDE DEF rank
    <3> QED
      BY <1>3, <3>1
  <2> HIDE DEF rank
  <2> QED
    BY <1>4, <2>1 DEF Injection, IsInjective
<1>6. IsFiniteSet(0 .. N - 1) /\ Cardinality(0 .. N - 1) = N
  <2>1. PICK m \in Int : m = N - 1
    BY <1>1
  <2>2. IsFiniteSet(0 .. m) /\ Cardinality(0 .. m) = IF 0 > m THEN 0 ELSE m - 0 + 1
    BY FS_Interval
  <2>3. (IF 0 > m THEN 0 ELSE m - 0 + 1) = N
    BY <1>1, <2>1
  <2> QED
    BY <2>1, <2>2, <2>3
<1>7. rank \in Surjection(S, 0 .. N - 1)
  <2> HIDE DEF rank
  <2> QED
    BY <1>5, <1>6, FS_Injection
<1>8. ASSUME NEW n \in 1 .. N PROVE Ascending(S)[n] \in S
  <2>1. n - 1 \in 0 .. N - 1
    BY <1>1
  <2>2. PICK i \in S : rank[i] = n - 1
    <3> HIDE DEF rank
    <3> QED
      BY <1>7, <2>1 DEF Surjection
  <2>3. Cardinality({j \in S : j < i}) = n - 1
    BY <2>2
  <2>4. Ascending(S)[n] = CHOOSE k \in S : Cardinality({j \in S : j < k}) = n - 1
    BY DEF Ascending
  <2> QED
    BY <2>3, <2>4
<1>9. DOMAIN Ascending(S) = 1 .. N /\ Len(Ascending(S)) = N
  BY <1>1 DEF Ascending
<1> QED
  BY <1>1, <1>8, <1>9

\* Where the words of a line begin.
LEMMA WordPositions ==
    ASSUME NEW line, Len(line) \in Nat
    PROVE  /\ Len(WordStarts(line)) \in Nat
           /\ \A w \in 1 .. Len(WordStarts(line)) : WordStarts(line)[w] \in Nat
<1> DEFINE S == {i \in 2 .. Len(line) : line[i] # " " /\ line[i - 1] = " "}
<1>1. S \subseteq Nat /\ IsFiniteSet(S)
  <2>0. PICK n \in Int : n = Len(line)
    OBVIOUS
  <2>1. IsFiniteSet(2 .. n)
    BY FS_Interval
  <2>2. S \subseteq 2 .. Len(line)
    OBVIOUS
  <2>3. 2 .. n \subseteq Nat
    OBVIOUS
  <2> HIDE DEF S
  <2> QED
    BY <2>0, <2>1, <2>2, <2>3, FS_Subset
<1>2. WordStarts(line) = Ascending(S)
  BY DEF WordStarts
<1> HIDE DEF S
<1> QED
  BY <1>1, <1>2, AscendingList

\* The words of a line are texts.
LEMMA WordsOfLine ==
    ASSUME NEW line, Len(line) \in Nat
    PROVE  /\ Len(Words(line)) \in Nat
           /\ \A w \in 1 .. Len(Words(line)) : Len(Words(line)[w]) \in Nat
<1>1. PICK n \in Nat : n = Len(WordStarts(line))
  BY WordPositions
<1> DEFINE word(w) == Before(From(line, WordStarts(line)[w]), " ")
           T == {Before(line, " ")} \cup {word(w) : w \in 1 .. n}
<1>2. \A t \in T : Len(t) \in Nat
  <2>1. Len(Before(line, " ")) \in Nat
    BY Parts
  <2>2. ASSUME NEW w \in 1 .. n PROVE Len(word(w)) \in Nat
    <3>1. WordStarts(line)[w] \in Int
      BY <1>1, WordPositions
    <3>2. Len(From(line, WordStarts(line)[w])) \in Nat
      BY <3>1, Parts
    <3> QED
      BY <3>2, Parts
  <2> QED
    BY <2>1, <2>2
<1>3. PICK s \in Seq(T) : s = [w \in 1 .. n |-> word(w)]
  <2>1. \A w \in 1 .. n : word(w) \in T
    OBVIOUS
  <2> HIDE DEF T, word
  <2>2. [w \in 1 .. n |-> word(w)] \in Seq(T)
    BY <2>1, IsASeq
  <2> QED
    BY <2>2
<1>4. PICK t \in Seq(T) : t = <<Before(line, " ")>>
  <2>1. PICK b \in T : b = Before(line, " ")
    OBVIOUS
  <2> HIDE DEF T
  <2>2. <<b>> \in Seq(T)
    OBVIOUS
  <2> QED
    BY <2>1, <2>2
<1>5. Words(line) = t \o s
  BY <1>1, <1>3, <1>4 DEF Words
<1> HIDE DEF T
<1>6. Words(line) \in Seq(T)
  BY <1>5, ConcatProperties
<1> QED
  BY <1>2, <1>6, LenProperties, ElementOfSeq

-----------------------------------------------------------------------------
(* Lists of variables                                                      *)

\* A sequence, over some set or other.
IsList(s) == \E T : s \in Seq(T)

LEMMA ListLength == ASSUME NEW s, IsList(s) PROVE Len(s) \in Nat
BY LenProperties DEF IsList

\* Lists can be joined.
LEMMA JoinedLists ==
    ASSUME NEW s, NEW t, IsList(s), IsList(t) PROVE IsList(s \o t)
<1>1. PICK S : s \in Seq(S)
  BY DEF IsList
<1>2. PICK T : t \in Seq(T)
  BY DEF IsList
<1>3. PICK U : U = S \cup T
  OBVIOUS
<1>4. s \in Seq(U) /\ t \in Seq(U)
  BY <1>1, <1>2, <1>3, SeqMonotonic
<1> QED
  BY <1>4, ConcatProperties DEF IsList

\* The empty list, and lists of one.
LEMMA ShortLists == IsList(<<>>) /\ (\A x : IsList(<<x>>)) /\ (\A x, y : IsList(<<x, y>>))
<1>1. IsList(<<>>)
  BY EmptySeq DEF IsList
<1>2. ASSUME NEW x PROVE IsList(<<x>>)
  <2>1. <<x>> \in Seq({x})
    OBVIOUS
  <2> QED
    BY <2>1 DEF IsList
<1>3. ASSUME NEW x, NEW y PROVE IsList(<<x, y>>)
  <2>1. <<x, y>> \in Seq({x, y})
    OBVIOUS
  <2> QED
    BY <2>1 DEF IsList
<1> QED
  BY <1>1, <1>2, <1>3

\* parse_headers makes a list, whatever the lines are.
LEMMA HeaderList ==
    ASSUME NEW lines, Len(lines) \in Nat
    PROVE  IsList(parse_headers(lines))
<1>1. PICK rest : rest = From(lines, 2)
  OBVIOUS
<1>2. PICK n \in Nat : n = Len(rest) /\ DOMAIN rest = 1 .. n
  BY <1>1, CutLength DEF From
<1> DEFINE found(l) == Header(rest[l])
           T == {found(l)[1] : l \in 1 .. n}
<1>3. PICK ss : ss = [l \in 1 .. n |-> found(l)]
  OBVIOUS
<1>4. Len(ss) = n /\ ss = [l \in 1 .. n |-> ss[l]]
  <2> HIDE DEF found
  <2> QED
    BY <1>3
<1>5. ASSUME NEW l \in 1 .. n PROVE ss[l] \in Seq(T)
  <2>1. found(l) = <<>> \/ \E x : found(l) = <<x>>
    BY DEF Header
  <2>2. found(l)[1] \in T
    OBVIOUS
  <2> HIDE DEF found, T
  <2>3. ss[l] = found(l)
    BY <1>3
  <2>4. CASE found(l) = <<>>
    BY <2>3, <2>4
  <2>5. CASE \E x : found(l) = <<x>>
    <3>1. PICK x : found(l) = <<x>>
      BY <2>5
    <3>2. x \in T
      BY <2>2, <3>1
    <3>3. <<x>> \in Seq(T)
      BY <3>2
    <3> QED
      BY <2>3, <3>1, <3>3
  <2> QED
    BY <2>1, <2>4, <2>5
<1>6. parse_headers(lines) = FlattenSeq(ss)
  BY <1>1, <1>2, <1>3 DEF parse_headers
<1>7. FlattenSeq(ss) \in Seq(T)
  <2> HIDE DEF T
  <2> QED
    BY <1>4, <1>5, Pieces
<1> QED
  BY <1>6, <1>7 DEF IsList

\* split_headers counts the lines.
LEMMA LinesOfText ==
    ASSUME NEW data, Len(data) \in Nat
    PROVE  Len(split_headers(data)) \in Nat
<1> DEFINE blank == {i \in 1 .. Len(data) - 1 : data[i] = "LF" /\ IsEol(data[i + 1])}
           last  == IF blank = {} THEN Len(data)
                    ELSE CHOOSE i \in blank : \A j \in blank : i <= j
           S == {i \in 1 .. last : data[i] = "LF"}
<1>1. last \in Nat
  <2>1. CASE blank = {}
    BY <2>1
  <2>2. CASE blank # {}
    <3>1. PICK k \in blank : blank \subseteq Nat
      BY <2>2
    <3>2. PICK i \in blank : i \in Nat /\ \A j \in blank : i <= j
      <4> HIDE DEF blank
      <4> QED
        BY <3>1, FirstPosition
    <3>3. (CHOOSE x \in blank : \A y \in blank : x <= y) \in Nat
      <4> HIDE DEF blank
      <4> QED
        BY <3>1, <3>2
    <3> HIDE DEF blank
    <3> QED
      BY <2>2, <3>3
  <2> QED
    BY <2>1, <2>2
<1>2. S \subseteq Nat /\ IsFiniteSet(S)
  <2>1. PICK n \in Nat : n = last
    <3> HIDE DEF last
    <3> QED
      BY <1>1
  <2>2. IsFiniteSet(1 .. n) /\ 1 .. n \subseteq Nat
    <3>1. IsFiniteSet(1 .. n)
      BY FS_Interval
    <3> QED
      BY <3>1
  <2>3. S \subseteq 1 .. n
    <3> HIDE DEF last
    <3> QED
      BY <2>1
  <2> HIDE DEF S
  <2> QED
    BY <2>2, <2>3, FS_Subset
<1>3. PICK ends : ends = Ascending(S)
  OBVIOUS
<1>4. Len(ends) \in Nat
  <2> HIDE DEF S
  <2> QED
    BY <1>2, <1>3, AscendingList
<1>5. PICK n \in Nat : n = IF Len(ends) < MaxHeaders THEN Len(ends) ELSE MaxHeaders
  BY <1>4, TextAssumption
<1>6. split_headers(data) =
          [l \in 1 .. n |-> CString(data, IF l = 1 THEN 1 ELSE ends[l - 1] + 1)]
  BY <1>3, <1>5 DEF split_headers
<1> QED
  BY <1>6

\* parse_query makes a list, whatever the text is.
LEMMA QueryList ==
    ASSUME NEW query, Len(query) \in Nat, DOMAIN query = 1 .. Len(query)
    PROVE  IsList(parse_query(query))
<1> DEFINE S == {i \in DOMAIN query : query[i] = "&"}
<1>1. S \subseteq Nat /\ IsFiniteSet(S)
  <2>1. PICK n \in Nat : n = Len(query)
    OBVIOUS
  <2>2. IsFiniteSet(1 .. n) /\ 1 .. n \subseteq Nat
    <3>1. IsFiniteSet(1 .. n)
      BY FS_Interval
    <3> QED
      BY <3>1
  <2>3. S \subseteq 1 .. n
    BY <2>1
  <2> HIDE DEF S
  <2> QED
    BY <2>2, <2>3, FS_Subset
<1>2. PICK amps : amps = Ascending(S)
  OBVIOUS
<1>3. PICK k \in Nat : Len(amps) = k /\ DOMAIN amps = 1 .. k
  <2> HIDE DEF S
  <2> QED
    BY <1>1, <1>2, AscendingList
<1>4. PICK starts : starts = <<1>> \o [a \in DOMAIN amps |-> amps[a] + 1]
  OBVIOUS
<1>5. PICK n \in Nat : DOMAIN starts = 1 .. n
  <2> DEFINE T == {1} \cup {amps[a] + 1 : a \in 1 .. k}
  <2>1. 1 \in T /\ \A a \in 1 .. k : amps[a] + 1 \in T
    OBVIOUS
  <2> HIDE DEF T
  <2>2. [a \in 1 .. k |-> amps[a] + 1] \in Seq(T) /\ <<1>> \in Seq(T)
    BY <2>1
  <2>3. starts \in Seq(T)
    BY <1>3, <1>4, <2>2, ConcatProperties
  <2> QED
    BY <2>3, LenProperties
<1> DEFINE found(e) == parse_query_element(Before(From(query, starts[e]), "&"))
           T == {found(e)[1] : e \in 1 .. n}
<1>6. PICK ss : ss = [e \in 1 .. n |-> found(e)]
  OBVIOUS
<1>7. Len(ss) = n /\ ss = [e \in 1 .. n |-> ss[e]]
  <2> HIDE DEF found
  <2> QED
    BY <1>6
<1>8. ASSUME NEW e \in 1 .. n PROVE ss[e] \in Seq(T)
  <2>1. found(e) = <<>> \/ \E x : found(e) = <<x>>
    BY DEF parse_query_element
  <2>2. found(e)[1] \in T
    OBVIOUS
  <2> HIDE DEF found, T
  <2>3. ss[e] = found(e)
    BY <1>6
  <2>4. CASE found(e) = <<>>
    BY <2>3, <2>4
  <2>5. CASE \E x : found(e) = <<x>>
    <3>1. PICK x : found(e) = <<x>>
      BY <2>5
    <3>2. x \in T
      BY <2>2, <3>1
    <3>3. <<x>> \in Seq(T)
      BY <3>2
    <3> QED
      BY <2>3, <3>1, <3>3
  <2> QED
    BY <2>1, <2>4, <2>5
<1>9. parse_query(query) = FlattenSeq(ss)
  BY <1>2, <1>4, <1>5, <1>6 DEF parse_query
<1>10. FlattenSeq(ss) \in Seq(T)
  <2> HIDE DEF T
  <2> QED
    BY <1>7, <1>8, Pieces
<1> QED
  BY <1>9, <1>10 DEF IsList

-----------------------------------------------------------------------------
(* The trees                                                               *)

\* A finite set of variables, each there once, and a name leads to one.
Table(tree) ==
    /\ IsFiniteSet(Vars(tree))
    /\ tree = [v \in Vars(tree) |-> 1]
    /\ \A v \in Vars(tree) : v = [name |-> v.name, values |-> v.values]
    /\ \A v, w \in Vars(tree) : v.name = w.name => v = w

\* httpp_create_parser.
LEMMA NoVars == Table(EmptyBag) /\ Vars(EmptyBag) = {}
BY FS_EmptySet DEF EmptyBag, SetToBag, Table, Vars, BagToSet

\* avl_insert of a variable whose name is not there.
LEMMA InsertOne ==
    ASSUME NEW tree, Table(tree), NEW name, NEW values, Found(tree, name) = {}
    PROVE  Table(Inserted(tree, name, values))
<1> DEFINE x == [name |-> name, values |-> values]
           new == Inserted(tree, name, values)
<1>1. x \notin DOMAIN tree
  BY DEF Found, Vars, BagToSet
<1>2. DOMAIN new = DOMAIN tree \cup {x} /\ new = [v \in DOMAIN tree \cup {x} |-> 1]
  BY <1>1 DEF (+), SetToBag, Inserted, Table, Vars, BagToSet
<1>3. IsFiniteSet(DOMAIN tree \cup {x})
  BY FS_AddElement DEF Table, Vars, BagToSet
<1>4. \A v \in DOMAIN tree \cup {x} : v = [name |-> v.name, values |-> v.values]
  BY DEF Table, Vars, BagToSet
<1>5. \A v \in DOMAIN tree : v.name # x.name
  BY DEF Found, Vars, BagToSet
<1> HIDE DEF x, new
<1>6. Table(new)
  BY <1>2, <1>3, <1>4, <1>5 DEF Table, Vars, BagToSet
<1> QED
  BY <1>6 DEF new

\* One variable goes.
LEMMA DeleteOne ==
    ASSUME NEW tree, Table(tree), NEW x \in Vars(tree)
    PROVE  /\ Table(tree (-) SetToBag({x}))
           /\ Found(tree (-) SetToBag({x}), x.name) = {}
<1> DEFINE new == tree (-) SetToBag({x})
<1>1. DOMAIN new = DOMAIN tree \ {x} /\ new = [v \in DOMAIN tree \ {x} |-> 1]
  BY DEF (-), SetToBag, Table, Vars, BagToSet
<1>2. IsFiniteSet(DOMAIN tree \ {x})
  BY FS_Subset DEF Table, Vars, BagToSet
<1> HIDE DEF new
<1>3. Table(new) /\ Found(new, x.name) = {}
  BY <1>1, <1>2 DEF Table, Vars, BagToSet, Found
<1> QED
  BY <1>3 DEF new

\* httpp_deletevar: no variable of that name is left.
LEMMA DeleteName ==
    ASSUME NEW tree, Table(tree), NEW name
    PROVE  Table(Deleted(tree, name)) /\ Found(Deleted(tree, name), name) = {}
<1>1. CASE Found(tree, name) = {}
  BY <1>1 DEF Deleted
<1>2. CASE Found(tree, name) # {}
  <2>1. PICK x : x = CHOOSE v \in Found(tree, name) : TRUE
    OBVIOUS
  <2>2. x \in Vars(tree) /\ x.name = name
    BY <1>2, <2>1 DEF Found
  <2>3. Deleted(tree, name) = tree (-) SetToBag({x})
    BY <1>2, <2>1 DEF Deleted
  <2> QED
    BY <2>2, <2>3, DeleteOne
<1> QED
  BY <1>1, <1>2

\* httpp_setvar.
LEMMA SetOne ==
    ASSUME NEW tree, Table(tree), NEW h
    PROVE  Table(httpp_setvar(tree, h))
<1>1. httpp_getvar(tree, h.name) = <<>> <=> Found(tree, h.name) = {}
  BY DEF httpp_getvar
<1>2. CASE Found(tree, h.name) = {}
  BY <1>1, <1>2, InsertOne DEF httpp_setvar
<1>3. CASE Found(tree, h.name) # {}
  BY <1>1, <1>3, InsertOne, DeleteName DEF httpp_setvar
<1> QED
  BY <1>2, <1>3

\* _httpp_set_param_nocopy.
LEMMA AddOne ==
    ASSUME NEW tree, Table(tree), NEW h
    PROVE  Table(AddParam(tree, h))
<1>1. CASE Found(tree, h.name) = {}
  BY <1>1, InsertOne DEF AddParam
<1>2. CASE Found(tree, h.name) # {}
  <2>1. PICK x : x = CHOOSE v \in Found(tree, h.name) : TRUE
    OBVIOUS
  <2>2. x \in Vars(tree) /\ x.name = h.name
    BY <1>2, <2>1 DEF Found
  <2>3. PICK values : values = Append(x.values, h.value)
    OBVIOUS
  <2>4. PICK left : left = tree (-) SetToBag({x})
    OBVIOUS
  <2>5. [x EXCEPT !.values = values] = [name |-> h.name, values |-> values]
    BY <2>2 DEF Table
  <2>6. AddParam(tree, h) = left (+) SetToBag({[x EXCEPT !.values = values]})
    BY <1>2, <2>1, <2>3, <2>4 DEF AddParam
  <2>7. AddParam(tree, h) = Inserted(left, h.name, values)
    BY <2>5, <2>6 DEF Inserted
  <2>8. Table(left) /\ Found(left, h.name) = {}
    BY <2>2, <2>4, DeleteOne
  <2> QED
    BY <2>7, <2>8, InsertOne
<1> QED
  BY <1>1, <1>2

\* httpp_set_query_param and httpp_set_post_param.
LEMMA SetParamOne ==
    ASSUME NEW tree, Table(tree), NEW h
    PROVE  Table(_httpp_set_param(tree, h))
BY InsertOne, DeleteName DEF _httpp_set_param

\* What the recursive function SetUpto says of its values.
LEMMA SetUptoValues ==
    ASSUME NEW tree, NEW list, Len(list) \in Nat
    PROVE  /\ SetUpto(tree, list)[0] = tree
           /\ \A n \in 1 .. Len(list) :
                 SetUpto(tree, list)[n] = httpp_setvar(SetUpto(tree, list)[n - 1], list[n])
<1> DEFINE Trees(n, g) == /\ g = [i \in 0 .. n |-> g[i]] /\ g[0] = tree
                          /\ \A i \in 1 .. n : g[i] = httpp_setvar(g[i - 1], list[i])
           S == {n \in Nat : \E g : Trees(n, g)}
<1>1. 0 \in S
  <2>1. Trees(0, [i \in 0 .. 0 |-> tree])
    OBVIOUS
  <2> QED
    BY <2>1
<1>2. ASSUME NEW n \in S PROVE n + 1 \in S
  <2>1. PICK g : Trees(n, g)
    OBVIOUS
  <2>2. PICK next : next = httpp_setvar(g[n], list[n + 1])
    OBVIOUS
  <2> DEFINE h == [i \in 0 .. (n + 1) |-> IF i = n + 1 THEN next ELSE g[i]]
  <2>3. h = [i \in 0 .. (n + 1) |-> h[i]] /\ h[0] = tree
    BY <2>1
  <2>4. \A i \in 0 .. n : h[i] = g[i]
    OBVIOUS
  <2>5. h[n + 1] = next
    OBVIOUS
  <2> HIDE DEF h
  <2>6. ASSUME NEW i \in 1 .. (n + 1) PROVE h[i] = httpp_setvar(h[i - 1], list[i])
    <3>1. CASE i = n + 1
      BY <2>2, <2>4, <2>5, <3>1
    <3>2. CASE i \in 1 .. n
      <4>1. i - 1 \in 0 .. n /\ i \in 0 .. n
        BY <3>2
      <4> QED
        BY <2>1, <2>4, <3>2, <4>1
    <3> QED
      BY <3>1, <3>2
  <2>7. Trees(n + 1, h)
    BY <2>3, <2>6
  <2>8. n + 1 \in Nat
    OBVIOUS
  <2> HIDE DEF Trees
  <2>9. \E g0 : Trees(n + 1, g0)
    BY <2>7
  <2> QED
    BY <2>8, <2>9
<1> HIDE DEF S
<1>3. Len(list) \in S
  BY <1>1, <1>2, NatSetInduction
<1>4. PICK g : Trees(Len(list), g)
  BY <1>3 DEF S
<1> DEFINE f == SetUpto(tree, list)
           Step(g0, n) == IF n = 0 THEN tree ELSE httpp_setvar(g0[n - 1], list[n])
<1>5. g = [n \in 0 .. Len(list) |-> Step(g, n)]
  <2>1. \A n \in 0 .. Len(list) : g[n] = Step(g, n)
    BY <1>4
  <2> QED
    BY <1>4, <2>1
<1>6. f = CHOOSE f0 : f0 = [n \in 0 .. Len(list) |-> Step(f0, n)]
  BY DEF SetUpto
<1>7. f = [n \in 0 .. Len(list) |-> Step(f, n)]
  <2> HIDE DEF Step, f
  <2> QED
    BY <1>5, <1>6
<1> HIDE DEF f
<1>8. f[0] = tree /\ \A n \in 1 .. Len(list) : f[n] = httpp_setvar(f[n - 1], list[n])
  <2>1. \A n \in 0 .. Len(list) : f[n] = Step(f, n)
    BY <1>7
  <2> QED
    BY <2>1
<1> QED
  BY <1>8 DEF f

\* A list of variables is set.
LEMMA SetAllKeeps ==
    ASSUME NEW tree, Table(tree), NEW list, Len(list) \in Nat
    PROVE  Table(SetAll(tree, list))
<1> DEFINE f == SetUpto(tree, list)
           S == {n \in Nat : n <= Len(list) => Table(f[n])}
<1>1. f[0] = tree /\ \A n \in 1 .. Len(list) : f[n] = httpp_setvar(f[n - 1], list[n])
  BY SetUptoValues
<1> HIDE DEF f
<1>2. 0 \in S
  BY <1>1
<1>3. ASSUME NEW n \in S PROVE n + 1 \in S
  <2>1. ASSUME n + 1 <= Len(list) PROVE Table(f[n + 1])
    <3>1. Table(f[n]) /\ f[n + 1] = httpp_setvar(f[n], list[n + 1])
      BY <1>1, <2>1
    <3> QED
      BY <3>1, SetOne
  <2> QED
    BY <2>1
<1> HIDE DEF S
<1>4. Len(list) \in S
  BY <1>2, <1>3, NatSetInduction
<1>5. Table(f[Len(list)])
  BY <1>4 DEF S
<1> QED
  BY <1>5 DEF SetAll, f

\* What the recursive function AddUpto says of its values.
LEMMA AddUptoValues ==
    ASSUME NEW tree, NEW list, Len(list) \in Nat
    PROVE  /\ AddUpto(tree, list)[0] = tree
           /\ \A n \in 1 .. Len(list) :
                 AddUpto(tree, list)[n] = AddParam(AddUpto(tree, list)[n - 1], list[n])
<1> DEFINE Trees(n, g) == /\ g = [i \in 0 .. n |-> g[i]] /\ g[0] = tree
                          /\ \A i \in 1 .. n : g[i] = AddParam(g[i - 1], list[i])
           S == {n \in Nat : \E g : Trees(n, g)}
<1>1. 0 \in S
  <2>1. Trees(0, [i \in 0 .. 0 |-> tree])
    OBVIOUS
  <2> QED
    BY <2>1
<1>2. ASSUME NEW n \in S PROVE n + 1 \in S
  <2>1. PICK g : Trees(n, g)
    OBVIOUS
  <2>2. PICK next : next = AddParam(g[n], list[n + 1])
    OBVIOUS
  <2> DEFINE h == [i \in 0 .. (n + 1) |-> IF i = n + 1 THEN next ELSE g[i]]
  <2>3. h = [i \in 0 .. (n + 1) |-> h[i]] /\ h[0] = tree
    BY <2>1
  <2>4. \A i \in 0 .. n : h[i] = g[i]
    OBVIOUS
  <2>5. h[n + 1] = next
    OBVIOUS
  <2> HIDE DEF h
  <2>6. ASSUME NEW i \in 1 .. (n + 1) PROVE h[i] = AddParam(h[i - 1], list[i])
    <3>1. CASE i = n + 1
      BY <2>2, <2>4, <2>5, <3>1
    <3>2. CASE i \in 1 .. n
      <4>1. i - 1 \in 0 .. n /\ i \in 0 .. n
        BY <3>2
      <4> QED
        BY <2>1, <2>4, <3>2, <4>1
    <3> QED
      BY <3>1, <3>2
  <2>7. Trees(n + 1, h)
    BY <2>3, <2>6
  <2>8. n + 1 \in Nat
    OBVIOUS
  <2> HIDE DEF Trees
  <2>9. \E g0 : Trees(n + 1, g0)
    BY <2>7
  <2> QED
    BY <2>8, <2>9
<1> HIDE DEF S
<1>3. Len(list) \in S
  BY <1>1, <1>2, NatSetInduction
<1>4. PICK g : Trees(Len(list), g)
  BY <1>3 DEF S
<1> DEFINE f == AddUpto(tree, list)
           Step(g0, n) == IF n = 0 THEN tree ELSE AddParam(g0[n - 1], list[n])
<1>5. g = [n \in 0 .. Len(list) |-> Step(g, n)]
  <2>1. \A n \in 0 .. Len(list) : g[n] = Step(g, n)
    BY <1>4
  <2> QED
    BY <1>4, <2>1
<1>6. f = CHOOSE f0 : f0 = [n \in 0 .. Len(list) |-> Step(f0, n)]
  BY DEF AddUpto
<1>7. f = [n \in 0 .. Len(list) |-> Step(f, n)]
  <2> HIDE DEF Step, f
  <2> QED
    BY <1>5, <1>6
<1> HIDE DEF f
<1>8. f[0] = tree /\ \A n \in 1 .. Len(list) : f[n] = AddParam(f[n - 1], list[n])
  <2>1. \A n \in 0 .. Len(list) : f[n] = Step(f, n)
    BY <1>7
  <2> QED
    BY <2>1
<1> QED
  BY <1>8 DEF f

\* A list of parameters is added.
LEMMA AddAllKeeps ==
    ASSUME NEW tree, Table(tree), NEW list, Len(list) \in Nat
    PROVE  Table(AddAll(tree, list))
<1> DEFINE f == AddUpto(tree, list)
           S == {n \in Nat : n <= Len(list) => Table(f[n])}
<1>1. f[0] = tree /\ \A n \in 1 .. Len(list) : f[n] = AddParam(f[n - 1], list[n])
  BY AddUptoValues
<1> HIDE DEF f
<1>2. 0 \in S
  BY <1>1
<1>3. ASSUME NEW n \in S PROVE n + 1 \in S
  <2>1. ASSUME n + 1 <= Len(list) PROVE Table(f[n + 1])
    <3>1. Table(f[n]) /\ f[n + 1] = AddParam(f[n], list[n + 1])
      BY <1>1, <2>1
    <3> QED
      BY <3>1, AddOne
  <2> QED
    BY <2>1
<1> HIDE DEF S
<1>4. Len(list) \in S
  BY <1>2, <1>3, NatSetInduction
<1>5. Table(f[Len(list)])
  BY <1>4 DEF S
<1> QED
  BY <1>5 DEF AddAll, f

-----------------------------------------------------------------------------
(* One variable for each name                                              *)

\* Each of the three trees is a table.
TablesInv == Table(vars) /\ Table(queryvars) /\ Table(postvars)

\* The messages and lists of the clients.
LEMMA InputLengths ==
    /\ \A m \in Requests \cup Responses : Len(m.text) \in Nat
    /\ \A b \in Bodies : Len(b) \in Nat /\ DOMAIN b = 1 .. Len(b)
    /\ \A list \in DefaultLists : Len(list) \in Nat
BY ListsAssumption, LenProperties

\* What httpp_parse sets for the request line is a list.
LEMMA LineList == ASSUME NEW words PROVE IsList(LineVars(words))
<1>1. PICK a : a = IF "?" \in ToSet(words[2])
                   THEN <<Var("__rawuri", words[2]),
                          Var("__queryargs", From(words[2], Next1(words[2], "?", 1)))>>
                   ELSE <<>>
  OBVIOUS
<1>2. PICK b : b = IF Versioned(words)
                   THEN <<Var("__protocol", Before(words[3], "/")),
                          Var("__version", After(words[3], "/"))>>
                   ELSE <<>>
  OBVIOUS
<1>3. PICK c : c = IF RightLine(words)
                   THEN <<Var("__req_type", <<httpp_str_to_method(words[1])>>),
                          Var("__uri", Before(words[2], "?"))>>
                   ELSE <<>>
  OBVIOUS
<1>4. LineVars(words) = a \o b \o c
  BY <1>1, <1>2, <1>3 DEF LineVars
<1>5. IsList(a) /\ IsList(b) /\ IsList(c)
  BY <1>1, <1>2, <1>3, ShortLists, Zenon
<1>6. IsList(a \o b)
  BY <1>5, JoinedLists, Zenon
<1>7. IsList((a \o b) \o c)
  BY <1>5, <1>6, JoinedLists, Zenon
<1> QED
  BY <1>4, <1>7

\* With the header lines, it is one too.
LEMMA RequestList ==
    ASSUME NEW words, NEW lines, Len(lines) \in Nat
    PROVE  IsList(RequestVars(words, lines))
<1>1. PICK rest : rest = IF RightLine(words) THEN parse_headers(lines) ELSE <<>>
  OBVIOUS
<1>2. IsList(rest)
  BY <1>1, ShortLists, HeaderList, Zenon
<1> QED
  BY <1>1, <1>2, LineList, JoinedLists DEF RequestVars

\* What httpp_parse_response sets for the first line is a list.
LEMMA ResponseList == ASSUME NEW m PROVE IsList(ResponseLine(m))
<1>1. PICK line : line = CString(m.text, 1)
  OBVIOUS
<1>2. PICK words : words = Words(line)
  OBVIOUS
<1>3. PICK a : a = <<Var("__errorcode", words[2])>>
  OBVIOUS
<1>4. PICK b : b = IF words[2] = <<"200">> THEN <<>>
                   ELSE <<Var("__errormessage", From(line, WordStarts(line)[2]))>>
  OBVIOUS
<1>5. PICK c : c = <<Var("__uri", m.uri), Var("__req_type", <<"NONE">>)>>
  OBVIOUS
<1>6. ResponseLine(m) = a \o b \o c
  BY <1>1, <1>2, <1>3, <1>4, <1>5 DEF ResponseLine
<1>7. IsList(a) /\ IsList(b) /\ IsList(c)
  BY <1>3, <1>4, <1>5, ShortLists, Zenon
<1>8. IsList(a \o b)
  BY <1>7, JoinedLists, Zenon
<1>9. IsList((a \o b) \o c)
  BY <1>7, <1>8, JoinedLists, Zenon
<1> QED
  BY <1>6, <1>9

\* httpp_parse leaves tables, however far it comes with the request line.
LEMMA ParseKeeps ==
    ASSUME TablesInv, NEW m \in Requests, httpp_parse(m)
    PROVE  Table(vars') /\ Table(queryvars')
<1>1. Len(m.text) \in Nat
  BY InputLengths
<1>2. PICK words : words = Words(CString(m.text, 1))
  OBVIOUS
<1>3. Len(words) \in Nat /\ \A w \in 1 .. Len(words) : Len(words[w]) \in Nat
  BY <1>1, <1>2, StringLength, WordsOfLine
<1>4. CASE Len(words) > 3 \/ Len(words) < 2
  BY <1>2, <1>4 DEF httpp_parse, TablesInv
<1>5. CASE ~(Len(words) > 3) /\ ~(Len(words) < 2)
  <2>1. PICK list : list = RequestVars(words, split_headers(m.text))
    OBVIOUS
  <2>2. PICK query : query = parse_query(After(words[2], "?"))
    OBVIOUS
  <2>3. vars' = SetAll(vars, list) /\ queryvars' = AddAll(queryvars, query)
    BY <1>2, <1>5, <2>1, <2>2 DEF httpp_parse
  <2>4. Len(list) \in Nat
    BY <1>1, <2>1, LinesOfText, RequestList, ListLength
  <2>5. Len(query) \in Nat
    <3>1. Len(words[2]) \in Nat
      BY <1>3, <1>5
    <3>2. PICK text : text = After(words[2], "?")
      OBVIOUS
    <3>3. Len(text) \in Nat /\ DOMAIN text = 1 .. Len(text)
      BY <3>1, <3>2, Parts
    <3> QED
      BY <2>2, <3>2, <3>3, QueryList, ListLength
  <2> QED
    BY <2>3, <2>4, <2>5, SetAllKeeps, AddAllKeeps DEF TablesInv
<1> QED
  BY <1>4, <1>5

\* httpp_parse_response leaves a table.
LEMMA ResponseKeeps ==
    ASSUME TablesInv, NEW m \in Responses, httpp_parse_response(m)
    PROVE  Table(vars')
<1>1. PICK list : list = ResponseLine(m) \o parse_headers(split_headers(m.text))
  OBVIOUS
<1>2. vars' = vars \/ vars' = SetAll(vars, list)
  BY <1>1 DEF httpp_parse_response
<1>3. IsList(parse_headers(split_headers(m.text)))
  BY InputLengths, LinesOfText, HeaderList
<1>4. Len(list) \in Nat
  BY <1>1, <1>3, ResponseList, JoinedLists, ListLength
<1> QED
  BY <1>2, <1>4, SetAllKeeps DEF TablesInv

\* httpp_parse_postdata leaves a table.
LEMMA PostdataKeeps ==
    ASSUME TablesInv, NEW b \in Bodies, httpp_parse_postdata(b)
    PROVE  Table(postvars')
<1>1. PICK query : query = parse_query(b)
  OBVIOUS
<1>2. Len(query) \in Nat
  BY <1>1, InputLengths, QueryList, ListLength
<1>3. postvars' = postvars \/ postvars' = AddAll(postvars, query)
  BY <1>1 DEF httpp_parse_postdata
<1> QED
  BY <1>2, <1>3, AddAllKeeps DEF TablesInv

\* Every call leaves tables.
LEMMA NextTables == TablesInv /\ [Next]_state => TablesInv'
<1> SUFFICES ASSUME TablesInv, [Next]_state PROVE TablesInv'
  OBVIOUS
<1>1. ASSUME UNCHANGED <<vars, queryvars, postvars>> PROVE TablesInv'
  BY <1>1 DEF TablesInv
<1>2. ASSUME NEW create, Fresh(create) PROVE TablesInv'
  BY <1>2, NoVars DEF Fresh, TablesInv
<1>3. CASE httpp_create_parser
  BY <1>2, <1>3 DEF httpp_create_parser
<1>4. ASSUME NEW c \in Clients, NEW d \in Clients, httpp_addref(c, d) PROVE TablesInv'
  BY <1>1, <1>4 DEF httpp_addref
<1>5. ASSUME NEW c \in Clients, httpp_release(c) PROVE TablesInv'
  BY <1>1, <1>2, <1>5 DEF httpp_release
<1>6. CASE Parse
  BY <1>6, ParseKeeps DEF Parse, TablesInv
<1>7. CASE ParseResponse
  BY <1>7, ResponseKeeps DEF ParseResponse, TablesInv
<1>8. CASE ParsePostdata
  BY <1>8, PostdataKeeps DEF ParsePostdata, TablesInv
<1>9. CASE httpp_initialize
  <2>1. PICK list \in DefaultLists : vars' = SetAll(vars, list)
                                     /\ UNCHANGED <<queryvars, postvars>>
    BY <1>9 DEF httpp_initialize
  <2> QED
    BY <2>1, InputLengths, SetAllKeeps DEF TablesInv
<1>10. CASE SetVar
  BY <1>10, SetOne DEF SetVar, TablesInv
<1>11. CASE httpp_deletevar
  BY <1>11, DeleteName DEF httpp_deletevar, TablesInv
<1>12. CASE SetParam
  BY <1>12, SetParamOne DEF SetParam, TablesInv
<1>13. CASE UNCHANGED state
  BY <1>1, <1>13 DEF state, parser
<1> QED
  BY <1>3, <1>4, <1>5, <1>6, <1>7, <1>8, <1>9, <1>10, <1>11, <1>12, <1>13 DEF Next, Idle

\* Whatever is parsed and set, in whatever order: a name leads to one variable.
THEOREM NamesUnique == Spec => []OneVarPerName
<1>1. Init => TablesInv
  BY NoVars DEF Init, TablesInv
<1>2. TablesInv => OneVarPerName
  <2> SUFFICES ASSUME TablesInv, NEW tree \in {vars, queryvars, postvars},
                      NEW v \in Vars(tree), NEW w \in Vars(tree), v.name = w.name
               PROVE  v = w /\ tree[v] = 1
    BY DEF OneVarPerName
  <2>1. Table(tree)
    BY DEF TablesInv
  <2> QED
    BY <2>1 DEF Table
<1> QED
  BY <1>1, <1>2, NextTables, PTL DEF Spec

-----------------------------------------------------------------------------
(* The names that httpp_get_any_key lists                                  *)

\* What the recursive function ArrayUpto says of its values.
LEMMA ArrayValues ==
    ASSUME NEW count \in Nat
    PROVE  /\ ArrayUpto(count)[0] = KeyChunk
           /\ \A n \in 1 .. count :
                 ArrayUpto(count)[n] = Grown(ArrayUpto(count)[n - 1], n - 1)
<1> DEFINE Lengths(n, g) == /\ g = [i \in 0 .. n |-> g[i]] /\ g[0] = KeyChunk
                            /\ \A i \in 1 .. n : g[i] = Grown(g[i - 1], i - 1)
           S == {n \in Nat : \E g : Lengths(n, g)}
<1>1. 0 \in S
  <2>1. Lengths(0, [i \in 0 .. 0 |-> KeyChunk])
    OBVIOUS
  <2> QED
    BY <2>1
<1>2. ASSUME NEW n \in S PROVE n + 1 \in S
  <2>1. PICK g : Lengths(n, g)
    OBVIOUS
  <2>2. PICK next : next = Grown(g[n], n)
    OBVIOUS
  <2> DEFINE h == [i \in 0 .. (n + 1) |-> IF i = n + 1 THEN next ELSE g[i]]
  <2>3. h = [i \in 0 .. (n + 1) |-> h[i]] /\ h[0] = KeyChunk
    BY <2>1
  <2>4. \A i \in 0 .. n : h[i] = g[i]
    OBVIOUS
  <2>5. h[n + 1] = next
    OBVIOUS
  <2> HIDE DEF h
  <2>6. ASSUME NEW i \in 1 .. (n + 1) PROVE h[i] = Grown(h[i - 1], i - 1)
    <3>1. CASE i = n + 1
      <4>1. i - 1 = n /\ n \in 0 .. n
        BY <3>1
      <4> QED
        BY <2>2, <2>4, <2>5, <3>1, <4>1
    <3>2. CASE i \in 1 .. n
      <4>1. i - 1 \in 0 .. n /\ i \in 0 .. n
        BY <3>2
      <4> QED
        BY <2>1, <2>4, <3>2, <4>1
    <3> QED
      BY <3>1, <3>2
  <2>7. Lengths(n + 1, h)
    BY <2>3, <2>6
  <2>8. n + 1 \in Nat
    OBVIOUS
  <2> HIDE DEF Lengths
  <2> QED
    BY <2>7, <2>8
<1> HIDE DEF S
<1>3. count \in S
  BY <1>1, <1>2, NatSetInduction
<1>4. PICK g : Lengths(count, g)
  BY <1>3 DEF S
<1> DEFINE f == ArrayUpto(count)
           Step(g0, n) == IF n = 0 THEN KeyChunk ELSE Grown(g0[n - 1], n - 1)
<1>5. g = [n \in 0 .. count |-> Step(g, n)]
  <2>1. ASSUME NEW n \in 0 .. count PROVE g[n] = Step(g, n)
    <3>1. CASE n = 0
      BY <1>4, <3>1
    <3>2. CASE n \in 1 .. count
      BY <1>4, <3>2
    <3> QED
      BY <3>1, <3>2
  <2>2. g = [n \in 0 .. count |-> g[n]]
    BY <1>4
  <2> HIDE DEF Step
  <2> QED
    BY <2>1, <2>2
<1>6. f = CHOOSE f0 : f0 = [n \in 0 .. count |-> Step(f0, n)]
  BY DEF ArrayUpto
<1>7. f = [n \in 0 .. count |-> Step(f, n)]
  <2> HIDE DEF Step, f
  <2> QED
    BY <1>5, <1>6
<1> HIDE DEF f
<1>8. f[0] = KeyChunk /\ \A n \in 1 .. count : f[n] = Grown(f[n - 1], n - 1)
  <2>1. \A n \in 0 .. count : f[n] = Step(f, n)
    BY <1>7
  <2> QED
    BY <2>1
<1> QED
  BY <1>8 DEF f

\* An entry is left for the NULL, however many names there are.
LEMMA RoomForNull ==
    ASSUME NEW count \in Nat
    PROVE  count < ArrayUpto(count)[count]
<1> DEFINE f == ArrayUpto(count)
           S == {n \in Nat : n <= count => f[n] \in Nat /\ n < f[n]}
<1>1. f[0] = KeyChunk /\ \A n \in 1 .. count : f[n] = Grown(f[n - 1], n - 1)
  BY ArrayValues
<1> HIDE DEF f
<1>2. 0 \in S
  BY <1>1, HttppAssumption
<1>3. ASSUME NEW n \in S \cap Nat PROVE n + 1 \in S
  <2>1. ASSUME n + 1 <= count PROVE f[n + 1] \in Nat /\ n + 1 < f[n + 1]
    <3>1. PICK len \in Nat : len = f[n] /\ n < len
      BY <2>1
    <3>2. n + 1 \in 1 .. count /\ (n + 1) - 1 = n
      BY <2>1
    <3>3. f[n + 1] = Grown(len, n)
      BY <1>1, <3>1, <3>2
    <3>4. Grown(len, n) \in Nat /\ n + 1 < Grown(len, n)
      BY <3>1, HttppAssumption DEF Grown
    <3> QED
      BY <3>3, <3>4
  <2> QED
    BY <2>1
<1> HIDE DEF S
<1>4. count \in S
  BY <1>2, <1>3, NatSetInduction
<1>5. count < f[count]
  BY <1>4 DEF S
<1> QED
  BY <1>5 DEF f

\* The nodes of a table: one for each variable.
LEMMA TableNodes ==
    ASSUME NEW tree, Table(tree)
    PROVE  /\ IsFiniteSet(Nodes(tree))
           /\ \A e \in Nodes(tree) : e[1] \in Vars(tree) /\ e = <<e[1], 1>>
<1>1. \A e \in Nodes(tree) : e[1] \in Vars(tree) /\ e = <<e[1], 1>>
  BY DEF Nodes, Table
<1>2. \A v \in Vars(tree) : <<v, 1>> \in Nodes(tree)
  BY DEF Nodes, Table
<1> DEFINE f == [v \in Vars(tree) |-> <<v, 1>>]
<1>3. f \in Surjection(Vars(tree), Nodes(tree))
  BY <1>1, <1>2 DEF Surjection
<1>4. IsFiniteSet(Nodes(tree))
  <2> HIDE DEF f
  <2> QED
    BY <1>3, FS_Surjection DEF Table
<1> QED
  BY <1>1, <1>4

\* Each name of a table is listed once, and the array is longer than the list.
LEMMA ListOfTable ==
    ASSUME NEW tree, Table(tree), NEW ns, NEW list, list = httpp_get_any_key(tree, ns)
    PROVE  /\ list.count < list.len
           /\ \A n \in DOMAIN list.names : list.names[n] = 1
<1> DEFINE wanted(n) == ns \in {"query_string", "post_body"} \/ (ns = "var" <=> IsHidden(n))
<1>1. PICK listed : listed = {e \in Nodes(tree) : wanted(e[1].name)}
  OBVIOUS
<1>2. /\ list.names = [n \in {e[1].name : e \in listed} |->
                          Cardinality({e \in listed : e[1].name = n})]
      /\ list.count = Cardinality(listed)
      /\ list.len = ArrayUpto(Cardinality(listed))[Cardinality(listed)]
  BY <1>1 DEF httpp_get_any_key
<1>3. listed \subseteq Nodes(tree)
  <2> HIDE DEF wanted
  <2> QED
    BY <1>1
<1>4. IsFiniteSet(listed) /\ Cardinality(listed) \in Nat
  BY <1>3, TableNodes, FS_Subset, FS_CardinalityType
<1>5. list.count < list.len
  BY <1>2, <1>4, RoomForNull
<1>6. ASSUME NEW n \in DOMAIN list.names PROVE list.names[n] = 1
  <2>1. PICK d \in listed : d[1].name = n
    BY <1>2
  <2>2. {e \in listed : e[1].name = n} = {d}
    <3>1. ASSUME NEW e \in listed, e[1].name = n PROVE e = d
      <4>1. e[1] \in Vars(tree) /\ d[1] \in Vars(tree) /\ e = <<e[1], 1>> /\ d = <<d[1], 1>>
        BY <1>3, TableNodes
      <4>2. e[1] = d[1]
        BY <2>1, <3>1, <4>1 DEF Table
      <4> QED
        BY <4>1, <4>2
    <3> QED
      BY <2>1, <3>1
  <2>3. Cardinality({d}) = 1
    BY FS_Singleton
  <2>4. list.names[n] = Cardinality({e \in listed : e[1].name = n})
    BY <1>2, <2>1
  <2> QED
    BY <2>2, <2>3, <2>4
<1> QED
  BY <1>5, <1>6

\* httpp_get_any_key, in any state of the parser and for any growth of its array.
THEOREM KeysListed == Spec => []AnyKeyListed
<1>1. Init => TablesInv
  BY NoVars DEF Init, TablesInv
<1>2. TablesInv => AnyKeyListed
  <2> SUFFICES ASSUME TablesInv PROVE AnyKeyListed
    OBVIOUS
  <2>1. Table(vars) /\ Table(queryvars) /\ Table(postvars)
    BY DEF TablesInv
  <2> QED
    BY <2>1, ListOfTable DEF AnyKeyListed
<1> QED
  BY <1>1, <1>2, NextTables, PTL DEF Spec

-----------------------------------------------------------------------------
(* The tables that the trees stand for                                     *)

\* What is left of a table when a name is gone.
Without(table, name) == [n \in DOMAIN table \ {name} |-> table[n]]

\* A table that has every variable of a tree, and no more, is its table.
LEMMA ValuesAre ==
    ASSUME NEW tree, Table(tree), NEW V, V = [n \in DOMAIN V |-> V[n]],
           \A v \in Vars(tree) : v.name \in DOMAIN V /\ V[v.name] = v.values,
           \A n \in DOMAIN V : \E v \in Vars(tree) : v.name = n
    PROVE  Values(tree) = V
<1>1. PICK D : D = {v.name : v \in Vars(tree)}
  OBVIOUS
<1>2. D = DOMAIN V
  BY <1>1
<1>3. ASSUME NEW n \in D PROVE (CHOOSE v \in Found(tree, n) : TRUE).values = V[n]
  <2>1. PICK x : x = CHOOSE v \in Found(tree, n) : TRUE
    OBVIOUS
  <2>2. x \in Vars(tree) /\ x.name = n
    BY <1>1, <2>1 DEF Found
  <2> QED
    BY <2>1, <2>2
<1>4. Values(tree) = [n \in D |-> (CHOOSE v \in Found(tree, n) : TRUE).values]
  BY <1>1 DEF Values
<1> QED
  BY <1>2, <1>3, <1>4

\* The other way round.
LEMMA ValuesHas ==
    ASSUME NEW tree, Table(tree)
    PROVE  /\ Values(tree) = [n \in DOMAIN Values(tree) |-> Values(tree)[n]]
           /\ \A v \in Vars(tree) :
                 v.name \in DOMAIN Values(tree) /\ Values(tree)[v.name] = v.values
           /\ \A n \in DOMAIN Values(tree) : \E v \in Vars(tree) : v.name = n
<1>1. DOMAIN Values(tree) = {v.name : v \in Vars(tree)}
  BY DEF Values
<1>2. ASSUME NEW v \in Vars(tree) PROVE Values(tree)[v.name] = v.values
  <2>1. PICK x : x = CHOOSE w \in Found(tree, v.name) : TRUE
    OBVIOUS
  <2>2. x \in Vars(tree) /\ x.name = v.name
    BY <2>1 DEF Found
  <2>3. x = v
    BY <2>2 DEF Table
  <2> QED
    BY <2>1, <2>3 DEF Values
<1>3. Values(tree) = [n \in DOMAIN Values(tree) |-> Values(tree)[n]]
  BY DEF Values
<1> QED
  BY <1>1, <1>2, <1>3

\* A name is in the table when it is in the tree.
LEMMA ValuesName ==
    ASSUME NEW tree, Table(tree), NEW name
    PROVE  name \in DOMAIN Values(tree) <=> Found(tree, name) # {}
BY ValuesHas DEF Found

\* The variables after avl_insert.
LEMMA InsertedVars ==
    ASSUME NEW tree, Table(tree), NEW name, NEW values, Found(tree, name) = {}
    PROVE  Vars(Inserted(tree, name, values)) =
               Vars(tree) \cup {[name |-> name, values |-> values]}
<1> DEFINE x == [name |-> name, values |-> values]
<1>1. x \notin DOMAIN tree
  BY DEF Found, Vars, BagToSet
<1> QED
  BY <1>1 DEF (+), SetToBag, Inserted, Table, Vars, BagToSet
\* The variables when one is taken out.
LEMMA RemovedVars ==
    ASSUME NEW tree, Table(tree), NEW x \in Vars(tree)
    PROVE  Vars(tree (-) SetToBag({x})) = {v \in Vars(tree) : v.name # x.name}
<1>1. Vars(tree (-) SetToBag({x})) = Vars(tree) \ {x}
  BY DEF (-), SetToBag, Table, Vars, BagToSet
<1> QED
  BY <1>1 DEF Table
\* The variables after httpp_deletevar.
LEMMA DeletedVars ==
    ASSUME NEW tree, Table(tree), NEW name
    PROVE  Vars(Deleted(tree, name)) = {v \in Vars(tree) : v.name # name}
<1>1. CASE Found(tree, name) = {}
  BY <1>1 DEF Deleted, Found
<1>2. CASE Found(tree, name) # {}
  <2>1. PICK x : x = CHOOSE v \in Found(tree, name) : TRUE
    OBVIOUS
  <2>2. x \in Vars(tree) /\ x.name = name
    BY <1>2, <2>1 DEF Found
  <2>3. Deleted(tree, name) = tree (-) SetToBag({x})
    BY <1>2, <2>1 DEF Deleted
  <2> QED
    BY <2>2, <2>3, RemovedVars
<1> QED
  BY <1>1, <1>2

\* What a table is once it has an entry.
IsWith(W, table, name, value) ==
    /\ W = [n \in DOMAIN W |-> W[n]]
    /\ DOMAIN W = DOMAIN table \cup {name}
    /\ W[name] = value
    /\ \A n \in DOMAIN table : n # name => W[n] = table[n]
\* With makes such a table.
LEMMA WithEntry ==
    ASSUME NEW table, NEW name, NEW value
    PROVE  IsWith(Tables!With(table, name, value), table, name, value)
BY DEF Tables!With, Tables!Over, IsWith

\* A variable that was not there is an entry more.
LEMMA InsertValues ==
    ASSUME NEW tree, Table(tree), NEW name, NEW values, Found(tree, name) = {}
    PROVE  Values(Inserted(tree, name, values)) = Tables!With(Values(tree), name, values)
<1>1. PICK new : new = Inserted(tree, name, values)
  OBVIOUS
<1>2. PICK V : V = Values(tree)
  OBVIOUS
<1>3. PICK W : W = Tables!With(V, name, values)
  OBVIOUS
<1>4. Table(new)
  BY <1>1, InsertOne
<1>5. Vars(new) = Vars(tree) \cup {[name |-> name, values |-> values]}
  BY <1>1, InsertedVars
<1>6. IsWith(W, V, name, values)
  BY <1>3, WithEntry
<1>7. /\ \A v \in Vars(tree) : v.name \in DOMAIN V /\ V[v.name] = v.values
      /\ \A n \in DOMAIN V : \E v \in Vars(tree) : v.name = n
  BY <1>2, ValuesHas
<1>8. \A v \in Vars(tree) : v.name # name
  BY DEF Found
<1>9. \A v \in Vars(new) : v.name \in DOMAIN W /\ W[v.name] = v.values
  BY <1>5, <1>6, <1>7, <1>8 DEF IsWith
<1>10. \A n \in DOMAIN W : \E v \in Vars(new) : v.name = n
  <2> SUFFICES ASSUME NEW n \in DOMAIN W PROVE \E v \in Vars(new) : v.name = n
    OBVIOUS
  <2>1. CASE n = name
    <3>1. PICK x : x = [name |-> name, values |-> values]
      OBVIOUS
    <3>2. x \in Vars(new) /\ x.name = name
      BY <1>5, <3>1
    <3> QED
      BY <2>1, <3>2
  <2>2. CASE n # name
    BY <1>5, <1>6, <1>7, <2>2 DEF IsWith
  <2> QED
    BY <2>1, <2>2
<1>11. Values(new) = W
  BY <1>4, <1>6, <1>9, <1>10, ValuesAre DEF IsWith
<1> QED
  BY <1>1, <1>2, <1>3, <1>11

\* Without the variable of a name, the entry of that name is gone.
LEMMA LessValues ==
    ASSUME NEW tree, Table(tree), NEW less, Table(less), NEW name,
           Vars(less) = {v \in Vars(tree) : v.name # name}
    PROVE  Values(less) = Without(Values(tree), name)
<1>1. PICK V : V = Values(tree)
  OBVIOUS
<1>2. PICK W : W = Without(V, name)
  OBVIOUS
<1>3. /\ W = [n \in DOMAIN W |-> W[n]] /\ DOMAIN W = DOMAIN V \ {name}
      /\ \A n \in DOMAIN W : W[n] = V[n]
  BY <1>2 DEF Without
<1>4. /\ \A v \in Vars(tree) : v.name \in DOMAIN V /\ V[v.name] = v.values
      /\ \A n \in DOMAIN V : \E v \in Vars(tree) : v.name = n
  BY <1>1, ValuesHas
<1>5. \A v \in Vars(less) : v.name \in DOMAIN W /\ W[v.name] = v.values
  BY <1>3, <1>4
<1>6. \A n \in DOMAIN W : \E v \in Vars(less) : v.name = n
  BY <1>3, <1>4
<1>7. Values(less) = W
  BY <1>3, <1>5, <1>6, ValuesAre
<1> QED
  BY <1>1, <1>2, <1>7

\* What is put in anew is in it as if the old one had not been there.
LEMMA WithAnew ==
    ASSUME NEW table, NEW name, NEW value
    PROVE  Tables!With(Without(table, name), name, value) = Tables!With(table, name, value)
<1>1. PICK less : less = Without(table, name)
  OBVIOUS
<1>2. PICK V : V = Tables!With(less, name, value)
  OBVIOUS
<1>3. PICK W : W = Tables!With(table, name, value)
  OBVIOUS
<1>4. DOMAIN less = DOMAIN table \ {name} /\ \A n \in DOMAIN less : less[n] = table[n]
  BY <1>1 DEF Without
<1>5. IsWith(V, less, name, value) /\ IsWith(W, table, name, value)
  BY <1>2, <1>3, WithEntry
<1>6. DOMAIN V = DOMAIN W /\ \A n \in DOMAIN V : V[n] = W[n]
  BY <1>4, <1>5 DEF IsWith
<1>7. V = [n \in DOMAIN V |-> V[n]] /\ W = [n \in DOMAIN W |-> W[n]]
  BY <1>5 DEF IsWith
<1>8. V = W
  BY <1>6, <1>7
<1> QED
  BY <1>1, <1>2, <1>3, <1>8

\* httpp_deletevar.
LEMMA DeleteValues ==
    ASSUME NEW tree, Table(tree), NEW name
    PROVE  Values(Deleted(tree, name)) = Without(Values(tree), name)
BY DeleteName, DeletedVars, LessValues

\* A variable takes the place of the one with its name.
LEMMA ReplaceValues ==
    ASSUME NEW tree, Table(tree), NEW name, NEW values
    PROVE  Values(Inserted(Deleted(tree, name), name, values)) =
               Tables!With(Values(tree), name, values)
<1>1. PICK less : less = Deleted(tree, name)
  OBVIOUS
<1>2. Table(less) /\ Found(less, name) = {}
  BY <1>1, DeleteName
<1>3. Values(less) = Without(Values(tree), name)
  BY <1>1, DeleteValues
<1>4. Values(Inserted(less, name, values)) = Tables!With(Values(less), name, values)
  BY <1>2, InsertValues
<1> QED
  BY <1>1, <1>3, <1>4, WithAnew

\* httpp_setvar.
LEMMA SetValues ==
    ASSUME NEW tree, Table(tree), NEW h
    PROVE  Values(httpp_setvar(tree, h)) = Tables!With(Values(tree), h.name, <<h.value>>)
<1>1. httpp_getvar(tree, h.name) = <<>> <=> Found(tree, h.name) = {}
  BY DEF httpp_getvar
<1>2. CASE Found(tree, h.name) = {}
  BY <1>1, <1>2, InsertValues DEF httpp_setvar
<1>3. CASE Found(tree, h.name) # {}
  BY <1>1, <1>3, ReplaceValues DEF httpp_setvar
<1> QED
  BY <1>2, <1>3

\* The values that a table of parameters has for a name.
At(table, name) == IF name \in DOMAIN table THEN table[name] ELSE <<>>

\* _httpp_set_param_nocopy: one value more.
LEMMA AddValues ==
    ASSUME NEW tree, Table(tree), NEW h
    PROVE  Values(AddParam(tree, h)) =
               Tables!With(Values(tree), h.name, Append(At(Values(tree), h.name), h.value))
<1>1. CASE Found(tree, h.name) = {}
  <2>1. At(Values(tree), h.name) = <<>>
    BY <1>1, ValuesName DEF At
  <2>2. Append(<<>>, h.value) = <<h.value>>
    OBVIOUS
  <2>3. AddParam(tree, h) = Inserted(tree, h.name, <<h.value>>)
    BY <1>1 DEF AddParam
  <2>4. Values(Inserted(tree, h.name, <<h.value>>)) =
            Tables!With(Values(tree), h.name, <<h.value>>)
    BY <1>1, InsertValues
  <2> QED
    BY <2>1, <2>2, <2>3, <2>4
<1>2. CASE Found(tree, h.name) # {}
  <2>1. PICK x : x = CHOOSE v \in Found(tree, h.name) : TRUE
    OBVIOUS
  <2>2. x \in Vars(tree) /\ x.name = h.name
    BY <1>2, <2>1 DEF Found
  <2>3. PICK values : values = Append(x.values, h.value)
    OBVIOUS
  <2>4. PICK left : left = tree (-) SetToBag({x})
    OBVIOUS
  <2>5. [x EXCEPT !.values = values] = [name |-> h.name, values |-> values]
    BY <2>2 DEF Table
  <2>6. AddParam(tree, h) = left (+) SetToBag({[x EXCEPT !.values = values]})
    BY <1>2, <2>1, <2>3, <2>4 DEF AddParam
  <2>7. AddParam(tree, h) = Inserted(left, h.name, values)
    BY <2>5, <2>6 DEF Inserted
  <2>8. Table(left) /\ Found(left, h.name) = {}
    BY <2>2, <2>4, DeleteOne
  <2>9. Values(left) = Without(Values(tree), h.name)
    BY <2>2, <2>4, <2>8, RemovedVars, LessValues
  <2>10. Values(Inserted(left, h.name, values)) = Tables!With(Values(left), h.name, values)
    BY <2>8, InsertValues
  <2>11. At(Values(tree), h.name) = x.values
    BY <2>2, ValuesHas DEF At
  <2> QED
    BY <2>3, <2>7, <2>9, <2>10, <2>11, WithAnew
<1> QED
  BY <1>1, <1>2

\* url_unescape gives at most one text.
LEMMA OneText ==
    ASSUME NEW src PROVE url_unescape(src) = <<>> \/ \E t : url_unescape(src) = <<t>>
BY DEF url_unescape

\* The table of the first values.
LEMMA FirstsWith ==
    ASSUME NEW tree, NEW new, NEW name, NEW value,
           Values(new) = Tables!With(Values(tree), name, <<value>>)
    PROVE  Firsts(new) = Tables!With(Firsts(tree), name, value)
<1>1. PICK V : V = Values(tree)
  OBVIOUS
<1>2. PICK W : W = Values(new)
  OBVIOUS
<1>3. IsWith(W, V, name, <<value>>)
  BY <1>1, <1>2, WithEntry
<1>4. PICK F : F = Firsts(tree)
  OBVIOUS
<1>5. DOMAIN F = DOMAIN V /\ \A n \in DOMAIN V : F[n] = V[n][1]
  BY <1>1, <1>4 DEF Firsts
<1>6. PICK G : G = Tables!With(F, name, value)
  OBVIOUS
<1>7. IsWith(G, F, name, value)
  BY <1>6, WithEntry
<1>8. ASSUME NEW n \in DOMAIN W PROVE W[n][1] = G[n]
  <2>1. CASE n = name
    BY <1>3, <1>7, <2>1 DEF IsWith
  <2>2. CASE n # name
    BY <1>3, <1>5, <1>7, <2>2 DEF IsWith
  <2> QED
    BY <2>1, <2>2
<1>9. Firsts(new) = [n \in DOMAIN W |-> W[n][1]]
  BY <1>2 DEF Firsts
<1>10. DOMAIN W = DOMAIN G
  BY <1>3, <1>5, <1>7 DEF IsWith
<1>11. Firsts(new) = G
  BY <1>7, <1>8, <1>9, <1>10 DEF IsWith
<1> QED
  BY <1>4, <1>6, <1>11

-----------------------------------------------------------------------------
(* Lists of variables and the tables they make                             *)

\* A set of positions has a last one.
LEMMA LastPlace ==
    ASSUME NEW n \in Nat, NEW S, S \subseteq 1 .. n, NEW x \in S
    PROVE  Max(S) \in S /\ \A y \in S : y <= Max(S)
<1> DEFINE R == {r \in 0 .. n : n - r \in S}
<1>1. n - x \in R
  OBVIOUS
<1>2. R \subseteq Nat
  OBVIOUS
<1> HIDE DEF R
<1>3. PICK r \in R : r \in Nat /\ \A q \in R : r <= q
  BY <1>1, <1>2, FirstPosition
<1>4. PICK m : m = n - r
  OBVIOUS
<1>5. m \in S /\ m \in Int
  BY <1>3, <1>4 DEF R
<1>6. \A y \in S : m >= y
  <2> SUFFICES ASSUME NEW y \in S PROVE m >= y
    OBVIOUS
  <2>1. y \in 1 .. n /\ n - y \in R
    BY DEF R
  <2> QED
    BY <1>3, <1>4, <2>1
<1>7. PICK g : g = Max(S)
  OBVIOUS
<1>8. g \in S /\ \A y \in S : g >= y
  BY <1>5, <1>6, <1>7 DEF Max
<1>9. \A y \in S : y <= g
  BY <1>8
<1> QED
  BY <1>7, <1>8, <1>9

\* A table into which the first k of a list were put: for each name, the last
\* value counts.
LastIs(W, F, list, k) ==
    /\ W = [n \in DOMAIN W |-> W[n]]
    /\ DOMAIN W = DOMAIN F \cup {list[i].name : i \in 1 .. k}
    /\ \A i \in 1 .. k : (\A j \in 1 .. k : list[j].name = list[i].name => j <= i)
                            => W[list[i].name] = list[i].value
    /\ \A n \in DOMAIN F : (\A i \in 1 .. k : list[i].name # n) => W[n] = F[n]

\* One more.
LEMMA LastIsNext ==
    ASSUME NEW W, NEW F, NEW list, NEW k \in Nat, LastIs(W, F, list, k), NEW V,
           V = Tables!With(W, list[k + 1].name, list[k + 1].value)
    PROVE  LastIs(V, F, list, k + 1)
<1>1. PICK name, value : name = list[k + 1].name /\ value = list[k + 1].value
  OBVIOUS
<1>2. IsWith(V, W, name, value)
  BY <1>1, WithEntry
<1>3. \A i \in 1 .. k + 1 : i \in 1 .. k \/ i = k + 1
  OBVIOUS
<1>4. \A i \in 1 .. k : i \in 1 .. k + 1 /\ ~(k + 1 <= i)
  OBVIOUS
<1>5. k + 1 \in 1 .. k + 1
  OBVIOUS
<1>6. DOMAIN V = DOMAIN F \cup {list[i].name : i \in 1 .. k + 1}
  BY <1>1, <1>2, <1>3, <1>4, <1>5 DEF IsWith, LastIs
<1>7. ASSUME NEW i \in 1 .. k + 1,
             \A j \in 1 .. k + 1 : list[j].name = list[i].name => j <= i
      PROVE  V[list[i].name] = list[i].value
  <2>1. CASE i = k + 1
    BY <1>1, <1>2, <2>1 DEF IsWith
  <2>2. CASE i \in 1 .. k
    <3>1. list[i].name # name
      BY <1>1, <1>4, <1>5, <1>7, <2>2
    <3>2. W[list[i].name] = list[i].value
      BY <1>4, <1>7, <2>2 DEF LastIs
    <3>3. list[i].name \in DOMAIN W
      BY <2>2 DEF LastIs
    <3> QED
      BY <1>2, <3>1, <3>2, <3>3 DEF IsWith
  <2> QED
    BY <1>3, <2>1, <2>2
<1>8. ASSUME NEW n \in DOMAIN F, \A i \in 1 .. k + 1 : list[i].name # n
      PROVE  V[n] = F[n]
  <2>1. n # name /\ n \in DOMAIN W
    BY <1>1, <1>5, <1>8 DEF LastIs
  <2>2. W[n] = F[n]
    BY <1>4, <1>8 DEF LastIs
  <2> QED
    BY <1>2, <2>1, <2>2 DEF IsWith
<1> QED
  BY <1>2, <1>6, <1>7, <1>8 DEF LastIs, IsWith

\* A name's last place in a list.
LastAt(list, n, m) ==
    m \in DOMAIN list /\ list[m].name = n /\ \A i \in DOMAIN list : list[i].name = n => i <= m
LastTable(L, list, N) ==
    /\ L = [n \in N |-> L[n]]
    /\ \A n \in N : \E m : LastAt(list, n, m) /\ L[n] = list[m].value
\* LastValues gives each name the value at its last place.
LEMMA LastValuesAre ==
    ASSUME NEW list, NEW k \in Nat, DOMAIN list = 1 .. k
    PROVE  LastTable(Tables!LastValues(list), list, {list[i].name : i \in 1 .. k})
<1>1. PICK L : L = Tables!LastValues(list)
  OBVIOUS
<1>2. PICK N : N = {list[i].name : i \in 1 .. k}
  OBVIOUS
<1>3. L = [n \in N |-> list[Max(Tables!Places(list, n))].value]
  <2>1. Tables!NamesOf(list) = N
    BY <1>2 DEF Tables!NamesOf
  <2> QED
    BY <1>1, <2>1 DEF Tables!LastValues, Tables!Max, Max
<1>4. ASSUME NEW n \in N PROVE \E m : LastAt(list, n, m) /\ L[n] = list[m].value
  <2>1. PICK S : S = Tables!Places(list, n)
    OBVIOUS
  <2>2. S = {i \in 1 .. k : list[i].name = n}
    BY <2>1 DEF Tables!Places
  <2>3. PICK x \in S : TRUE
    BY <1>2, <2>2
  <2>4. PICK m : m = Max(S)
    OBVIOUS
  <2>5. m \in S /\ \A y \in S : y <= m
    BY <2>2, <2>3, <2>4, LastPlace
  <2>6. L[n] = list[m].value
    BY <1>3, <2>1, <2>4
  <2>7. LastAt(list, n, m)
    BY <2>2, <2>5 DEF LastAt
  <2> QED
    BY <2>6, <2>7
<1> QED
  BY <1>1, <1>2, <1>3, <1>4 DEF LastTable

\* All of them.
LEMMA LastIsOver ==
    ASSUME NEW W, NEW F, NEW list, NEW k \in Nat, DOMAIN list = 1 .. k, LastIs(W, F, list, k)
    PROVE  W = Tables!Over(F, Tables!LastValues(list))
<1>1. PICK L : L = Tables!LastValues(list)
  OBVIOUS
<1>2. PICK N : N = {list[i].name : i \in 1 .. k}
  OBVIOUS
<1>3. LastTable(L, list, N)
  BY <1>1, <1>2, LastValuesAre
<1>4. ASSUME NEW n \in N PROVE W[n] = L[n]
  <2>1. PICK m : LastAt(list, n, m) /\ L[n] = list[m].value
    BY <1>3 DEF LastTable
  <2>2. W[list[m].name] = list[m].value
    BY <2>1 DEF LastIs, LastAt
  <2> QED
    BY <2>1, <2>2 DEF LastAt
<1>5. \A n \in DOMAIN F : n \notin N => W[n] = F[n]
  BY <1>2 DEF LastIs
<1>6. DOMAIN W = DOMAIN F \cup N
  BY <1>2 DEF LastIs
<1>7. W = [n \in DOMAIN F \cup N |-> IF n \in N THEN L[n] ELSE F[n]]
  <2>1. W = [n \in DOMAIN W |-> W[n]]
    BY DEF LastIs
  <2> QED
    BY <1>4, <1>5, <1>6, <2>1
<1>8. DOMAIN L = N
  BY <1>3 DEF LastTable
<1> QED
  BY <1>1, <1>7, <1>8 DEF Tables!Over

\* A sequence of tables, each with one more entry.
LEMMA LastOnesCount ==
    ASSUME NEW list, NEW k \in Nat, DOMAIN list = 1 .. k, NEW g,
           g[0] = [n \in DOMAIN g[0] |-> g[0][n]],
           \A i \in 1 .. k : g[i] = Tables!With(g[i - 1], list[i].name, list[i].value)
    PROVE  g[k] = Tables!Over(g[0], Tables!LastValues(list))
<1> DEFINE S == {n \in Nat : n <= k => LastIs(g[n], g[0], list, n)}
<1>1. 0 \in S
  BY DEF LastIs
<1>2. ASSUME NEW n \in S PROVE n + 1 \in S
  <2>1. ASSUME n + 1 <= k PROVE LastIs(g[n + 1], g[0], list, n + 1)
    <3>1. LastIs(g[n], g[0], list, n) /\ n + 1 \in 1 .. k /\ (n + 1) - 1 = n
      BY <2>1
    <3>2. g[n + 1] = Tables!With(g[n], list[n + 1].name, list[n + 1].value)
      BY <3>1
    <3> QED
      BY <3>1, <3>2, LastIsNext
  <2> QED
    BY <2>1
<1> HIDE DEF S
<1>3. k \in S
  BY <1>1, <1>2, NatSetInduction
<1>4. LastIs(g[k], g[0], list, k)
  BY <1>3 DEF S
<1> QED
  BY <1>4, LastIsOver

\* httpp_setvar, for all of a list.
LEMMA SetAllFirsts ==
    ASSUME NEW tree, Table(tree), NEW list, IsList(list)
    PROVE  Firsts(SetAll(tree, list)) = Tables!Over(Firsts(tree), Tables!LastValues(list))
<1>1. PICK k \in Nat : k = Len(list) /\ DOMAIN list = 1 .. k
  BY LenProperties DEF IsList
<1>2. PICK f : f = SetUpto(tree, list)
  OBVIOUS
<1>3. f[0] = tree /\ \A n \in 1 .. k : f[n] = httpp_setvar(f[n - 1], list[n])
  BY <1>1, <1>2, SetUptoValues
<1> DEFINE S == {n \in Nat : n <= k => Table(f[n])}
<1>4. 0 \in S
  BY <1>3
<1>5. ASSUME NEW n \in S PROVE n + 1 \in S
  <2>1. ASSUME n + 1 <= k PROVE Table(f[n + 1])
    <3>1. Table(f[n]) /\ f[n + 1] = httpp_setvar(f[n], list[n + 1])
      BY <1>3, <2>1
    <3> QED
      BY <3>1, SetOne
  <2> QED
    BY <2>1
<1>6. \A n \in 0 .. k : Table(f[n])
  <2> HIDE DEF S
  <2>1. S = Nat \/ \A n \in Nat : n \in S
    BY <1>4, <1>5, NatSetInduction
  <2> QED
    BY <2>1 DEF S
<1> DEFINE g == [n \in 0 .. k |-> Firsts(f[n])]
<1>7. g[0] = Firsts(tree) /\ g[k] = Firsts(f[k])
  BY <1>3
<1>8. ASSUME NEW i \in 1 .. k
      PROVE  g[i] = Tables!With(g[i - 1], list[i].name, list[i].value)
  <2>1. i - 1 \in 0 .. k /\ i \in 0 .. k
    OBVIOUS
  <2>2. PICK old, h : old = f[i - 1] /\ h = list[i]
    OBVIOUS
  <2>3. f[i] = httpp_setvar(old, h) /\ Table(old)
    BY <1>3, <1>6, <2>1, <2>2
  <2>4. Values(f[i]) = Tables!With(Values(old), h.name, <<h.value>>)
    BY <2>3, SetValues
  <2>5. Firsts(f[i]) = Tables!With(Firsts(old), h.name, h.value)
    BY <2>4, FirstsWith
  <2>6. g[i] = Firsts(f[i]) /\ g[i - 1] = Firsts(old)
    BY <2>1, <2>2
  <2> QED
    BY <2>2, <2>5, <2>6
<1>9. g[0] = [n \in DOMAIN g[0] |-> g[0][n]]
  BY <1>7 DEF Firsts
<1> HIDE DEF g
<1>10. g[k] = Tables!Over(g[0], Tables!LastValues(list))
  BY <1>1, <1>8, <1>9, LastOnesCount
<1> QED
  BY <1>1, <1>2, <1>7, <1>10 DEF SetAll

\* What the recursive function ValuesUpto says of its values.
LEMMA ValuesUptoValues ==
    ASSUME NEW list, NEW name, Len(list) \in Nat
    PROVE  /\ Tables!ValuesUpto(list, name)[0] = <<>>
           /\ \A n \in 1 .. Len(list) :
                 Tables!ValuesUpto(list, name)[n] =
                     IF list[n].name = name
                     THEN Append(Tables!ValuesUpto(list, name)[n - 1], list[n].value)
                     ELSE Tables!ValuesUpto(list, name)[n - 1]
<1> DEFINE More(old, h) == IF h.name = name THEN Append(old, h.value) ELSE old
           Texts(n, g) == /\ g = [i \in 0 .. n |-> g[i]] /\ g[0] = <<>>
                          /\ \A i \in 1 .. n : g[i] = More(g[i - 1], list[i])
           S == {n \in Nat : \E g : Texts(n, g)}
<1>1. 0 \in S
  <2>1. Texts(0, [i \in 0 .. 0 |-> <<>>])
    OBVIOUS
  <2> QED
    BY <2>1
<1>2. ASSUME NEW n \in S PROVE n + 1 \in S
  <2> HIDE DEF More
  <2>1. PICK g : Texts(n, g)
    OBVIOUS
  <2>2. PICK next : next = More(g[n], list[n + 1])
    OBVIOUS
  <2> DEFINE h == [i \in 0 .. (n + 1) |-> IF i = n + 1 THEN next ELSE g[i]]
  <2>3. h = [i \in 0 .. (n + 1) |-> h[i]] /\ h[0] = <<>>
    BY <2>1
  <2>4. \A i \in 0 .. n : h[i] = g[i]
    OBVIOUS
  <2>5. h[n + 1] = next
    OBVIOUS
  <2> HIDE DEF h
  <2>6. ASSUME NEW i \in 1 .. (n + 1) PROVE h[i] = More(h[i - 1], list[i])
    <3>1. CASE i = n + 1
      BY <2>2, <2>4, <2>5, <3>1
    <3>2. CASE i \in 1 .. n
      <4>1. i - 1 \in 0 .. n /\ i \in 0 .. n
        BY <3>2
      <4> QED
        BY <2>1, <2>4, <3>2, <4>1
    <3> QED
      BY <3>1, <3>2
  <2>7. Texts(n + 1, h)
    BY <2>3, <2>6
  <2>8. n + 1 \in Nat
    OBVIOUS
  <2> HIDE DEF Texts
  <2>9. \E g0 : Texts(n + 1, g0)
    BY <2>7
  <2> QED
    BY <2>8, <2>9
<1> HIDE DEF S
<1>3. Len(list) \in S
  BY <1>1, <1>2, NatSetInduction
<1>4. PICK g : Texts(Len(list), g)
  BY <1>3 DEF S
<1> DEFINE f == Tables!ValuesUpto(list, name)
           Step(g0, n) == IF n = 0 THEN <<>>
                          ELSE IF list[n].name = name THEN Append(g0[n - 1], list[n].value)
                          ELSE g0[n - 1]
<1>5. g = [n \in 0 .. Len(list) |-> Step(g, n)]
  <2>1. \A n \in 0 .. Len(list) : g[n] = Step(g, n)
    BY <1>4
  <2> QED
    BY <1>4, <2>1
<1>6. f = CHOOSE f0 : f0 = [n \in 0 .. Len(list) |-> Step(f0, n)]
  BY DEF Tables!ValuesUpto
<1>7. f = [n \in 0 .. Len(list) |-> Step(f, n)]
  <2> HIDE DEF Step, f
  <2> QED
    BY <1>5, <1>6
<1> HIDE DEF f
<1>8. /\ f[0] = <<>>
      /\ \A n \in 1 .. Len(list) :
            f[n] = IF list[n].name = name THEN Append(f[n - 1], list[n].value) ELSE f[n - 1]
  <2>1. \A n \in 0 .. Len(list) : f[n] = Step(f, n)
    BY <1>7
  <2> QED
    BY <2>1
<1> QED
  BY <1>8 DEF f

\* A list with one more element, and behind another list.
LEMMA AppendedList ==
    ASSUME NEW s, IsList(s), NEW x
    PROVE  IsList(Append(s, x)) /\ \A r : IsList(r) => Append(r \o s, x) = r \o Append(s, x)
<1>1. PICK S : s \in Seq(S)
  BY DEF IsList
<1>2. PICK T : T = S \cup {x}
  OBVIOUS
<1>3. s \in Seq(T) /\ x \in T
  BY <1>1, <1>2, SeqMonotonic
<1>4. Append(s, x) \in Seq(T)
  BY <1>3, AppendProperties
<1>5. ASSUME NEW r, IsList(r) PROVE Append(r \o s, x) = r \o Append(s, x)
  <2>1. PICK R : r \in Seq(R)
    BY <1>5 DEF IsList
  <2>2. PICK U : U = R \cup T
    OBVIOUS
  <2>3. r \in Seq(U) /\ s \in Seq(U) /\ x \in U
    BY <1>3, <2>1, <2>2, SeqMonotonic
  <2> QED
    BY <2>3
<1> QED
  BY <1>4, <1>5 DEF IsList

\* The values of a name are a list.
LEMMA ValuesUptoList ==
    ASSUME NEW list, Len(list) \in Nat, NEW name, NEW k \in 0 .. Len(list)
    PROVE  IsList(Tables!ValuesUpto(list, name)[k])
<1>1. PICK f : f = Tables!ValuesUpto(list, name)
  OBVIOUS
<1>2. /\ f[0] = <<>>
      /\ \A n \in 1 .. Len(list) :
            f[n] = IF list[n].name = name THEN Append(f[n - 1], list[n].value) ELSE f[n - 1]
  BY <1>1, ValuesUptoValues
<1> DEFINE S == {n \in Nat : n <= Len(list) => IsList(f[n])}
<1>3. 0 \in S
  BY <1>2, ShortLists
<1>4. ASSUME NEW n \in S PROVE n + 1 \in S
  <2>1. ASSUME n + 1 <= Len(list) PROVE IsList(f[n + 1])
    <3>1. IsList(f[n]) /\ n + 1 \in 1 .. Len(list) /\ (n + 1) - 1 = n
      BY <2>1
    <3>2. f[n + 1] = f[n] \/ f[n + 1] = Append(f[n], list[n + 1].value)
      BY <1>2, <3>1
    <3> QED
      BY <3>1, <3>2, AppendedList
  <2> QED
    BY <2>1
<1> HIDE DEF S
<1>5. k \in S
  BY <1>3, <1>4, NatSetInduction
<1> QED
  BY <1>1, <1>5 DEF S

\* A table to which the first k of a list were added.
AllLists(table) == \A n \in DOMAIN table : IsList(table[n])
AddedIs(W, P, list, k) ==
    /\ W = [n \in DOMAIN W |-> W[n]]
    /\ DOMAIN W = DOMAIN P \cup {list[i].name : i \in 1 .. k}
    /\ \A n : At(W, n) = At(P, n) \o Tables!ValuesUpto(list, n)[k]

\* One more.
LEMMA AddedIsNext ==
    ASSUME NEW W, NEW P, AllLists(P), NEW list, Len(list) \in Nat,
           NEW k \in 0 .. Len(list) - 1, AddedIs(W, P, list, k), NEW V,
           V = Tables!With(W, list[k + 1].name,
                           Append(At(W, list[k + 1].name), list[k + 1].value))
    PROVE  AddedIs(V, P, list, k + 1)
<1>1. PICK name, value, next : /\ name = list[k + 1].name /\ value = list[k + 1].value
                               /\ next = Append(At(W, name), value)
  OBVIOUS
<1>2. IsWith(V, W, name, next)
  BY <1>1, WithEntry
<1>3. /\ \A i \in 1 .. k + 1 : i \in 1 .. k \/ i = k + 1
      /\ \A i \in 1 .. k : i \in 1 .. k + 1
      /\ k + 1 \in 1 .. k + 1 /\ k + 1 \in 1 .. Len(list) /\ (k + 1) - 1 = k
  OBVIOUS
<1>4. DOMAIN V = DOMAIN P \cup {list[i].name : i \in 1 .. k + 1}
  BY <1>1, <1>2, <1>3 DEF IsWith, AddedIs
<1>5. ASSUME NEW n PROVE At(V, n) = At(P, n) \o Tables!ValuesUpto(list, n)[k + 1]
  <2>1. PICK p, a, b : /\ p = At(P, n) /\ a = Tables!ValuesUpto(list, n)[k]
                       /\ b = Tables!ValuesUpto(list, n)[k + 1]
    OBVIOUS
  <2>2. b = IF n = name THEN Append(a, value) ELSE a
    BY <1>1, <1>3, <2>1, ValuesUptoValues
  <2>3. At(W, n) = p \o a
    BY <2>1 DEF AddedIs
  <2>4. IsList(p)
    BY <2>1, ShortLists DEF At, AllLists
  <2>5. IsList(a)
    BY <2>1, ValuesUptoList
  <2>6. CASE n = name
    <3>1. At(V, n) = Append(p \o a, value)
      BY <1>1, <1>2, <2>3, <2>6 DEF At, IsWith
    <3>2. Append(p \o a, value) = p \o Append(a, value)
      BY <2>4, <2>5, AppendedList
    <3> QED
      BY <2>1, <2>2, <2>6, <3>1, <3>2
  <2>7. CASE n # name
    <3>1. At(V, n) = At(W, n)
      BY <1>2, <2>7 DEF At, IsWith
    <3> QED
      BY <2>1, <2>2, <2>3, <2>7, <3>1
  <2> QED
    BY <2>6, <2>7
<1> QED
  BY <1>2, <1>4, <1>5 DEF AddedIs, IsWith

\* All of them.
LEMMA AddedIsAdded ==
    ASSUME NEW W, NEW P, AllLists(P), NEW list, Len(list) \in Nat,
           DOMAIN list = 1 .. Len(list), AddedIs(W, P, list, Len(list))
    PROVE  W = Tables!Added(P, list) /\ AllLists(W)
<1>1. PICK N : N = Tables!NamesOf(list)
  OBVIOUS
<1>2. DOMAIN W = DOMAIN P \cup N
  BY <1>1 DEF AddedIs, Tables!NamesOf
<1>3. ASSUME NEW n \in DOMAIN W
      PROVE  W[n] = At(P, n) \o Tables!ValuesOf(list, n) /\ IsList(W[n])
  <2>1. PICK p, a : p = At(P, n) /\ a = Tables!ValuesUpto(list, n)[Len(list)]
    OBVIOUS
  <2>2. W[n] = p \o a
    BY <2>1 DEF AddedIs, At
  <2>3. IsList(p)
    BY <2>1, ShortLists DEF At, AllLists
  <2>4. IsList(a)
    BY <2>1, ValuesUptoList
  <2> QED
    BY <2>1, <2>2, <2>3, <2>4, JoinedLists DEF Tables!ValuesOf
<1>4. W = [n \in DOMAIN P \cup N |-> At(P, n) \o Tables!ValuesOf(list, n)]
  <2>1. W = [n \in DOMAIN W |-> W[n]]
    BY DEF AddedIs
  <2> QED
    BY <1>2, <1>3, <2>1
<1> QED
  BY <1>1, <1>3, <1>4 DEF Tables!Added, At, AllLists

\* parse_query, for all of a query.
LEMMA AddAllValues ==
    ASSUME NEW tree, Table(tree), AllLists(Values(tree)), NEW list, IsList(list)
    PROVE  /\ Values(AddAll(tree, list)) = Tables!Added(Values(tree), list)
           /\ AllLists(Values(AddAll(tree, list)))
<1>1. PICK k \in Nat : k = Len(list) /\ DOMAIN list = 1 .. k
  BY LenProperties DEF IsList
<1>2. PICK f : f = AddUpto(tree, list)
  OBVIOUS
<1>3. f[0] = tree /\ \A n \in 1 .. k : f[n] = AddParam(f[n - 1], list[n])
  BY <1>1, <1>2, AddUptoValues
<1>4. PICK P : P = Values(tree)
  OBVIOUS
<1> DEFINE Good(n) == Table(f[n]) /\ AddedIs(Values(f[n]), P, list, n)
           S == {n \in Nat : n <= k => Good(n)}
<1>5. 0 \in S
  <2>1. P = [n \in DOMAIN P |-> P[n]] /\ DOMAIN P = DOMAIN P \cup {list[i].name : i \in 1 .. 0}
    <3>1. P = [n \in DOMAIN P |-> P[n]]
      BY <1>4, ValuesHas
    <3>2. {list[i].name : i \in 1 .. 0} = {}
      OBVIOUS
    <3> QED
      BY <3>1, <3>2
  <2>2. ASSUME NEW n PROVE At(P, n) = At(P, n) \o Tables!ValuesUpto(list, n)[0]
    <3>1. IsList(At(P, n))
      BY <1>4, ShortLists DEF At, AllLists
    <3>2. At(P, n) \o <<>> = At(P, n)
      BY <3>1 DEF IsList
    <3> QED
      BY <1>1, <3>2, ValuesUptoValues
  <2>3. AddedIs(P, P, list, 0)
    BY <2>1, <2>2 DEF AddedIs
  <2> QED
    BY <1>3, <1>4, <2>3
<1>6. ASSUME NEW n \in S PROVE n + 1 \in S
  <2>1. ASSUME n + 1 <= k PROVE Good(n + 1)
    <3>1. /\ Table(f[n]) /\ AddedIs(Values(f[n]), P, list, n)
          /\ n \in 0 .. Len(list) - 1 /\ n + 1 \in 1 .. k /\ (n + 1) - 1 = n
      BY <1>1, <2>1
    <3>2. PICK h : h = list[n + 1]
      OBVIOUS
    <3>3. PICK old : old = f[n]
      OBVIOUS
    <3>4. f[n + 1] = AddParam(old, h)
      BY <1>3, <3>1, <3>2, <3>3
    <3>5. Table(f[n + 1])
      BY <3>1, <3>3, <3>4, AddOne
    <3>6. Values(f[n + 1]) =
              Tables!With(Values(old), h.name, Append(At(Values(old), h.name), h.value))
      BY <3>1, <3>3, <3>4, AddValues
    <3>7. AddedIs(Values(f[n + 1]), P, list, n + 1)
      BY <1>1, <1>4, <3>1, <3>2, <3>3, <3>6, AddedIsNext
    <3> QED
      BY <3>5, <3>7
  <2> HIDE DEF Good
  <2> QED
    BY <2>1
<1> HIDE DEF S
<1>7. k \in S
  BY <1>5, <1>6, NatSetInduction
<1>8. AddedIs(Values(f[k]), P, list, k)
  BY <1>7 DEF S
<1> QED
  BY <1>1, <1>2, <1>4, <1>8, AddedIsAdded DEF AddAll

\* A list that is joined to another comes after it.
LEMMA LastOfJoined ==
    ASSUME NEW F, NEW a, NEW b, IsList(a), IsList(b)
    PROVE  Tables!Over(F, Tables!LastValues(a \o b)) =
               Tables!Over(Tables!Over(F, Tables!LastValues(a)), Tables!LastValues(b))
<1>1. PICK j \in Nat : j = Len(a) /\ DOMAIN a = 1 .. j
  BY LenProperties DEF IsList
<1>2. PICK k \in Nat : k = Len(b) /\ DOMAIN b = 1 .. k
  BY LenProperties DEF IsList
<1>3. PICK s : s = a \o b
  OBVIOUS
<1>4. /\ DOMAIN s = 1 .. j + k
      /\ \A i \in 1 .. j : s[i] = a[i]
      /\ \A i \in 1 .. k : s[j + i] = b[i]
  BY <1>1, <1>2, <1>3 DEF IsList
<1>5. PICK A, B, L : /\ A = Tables!LastValues(a) /\ B = Tables!LastValues(b)
                     /\ L = Tables!LastValues(s)
  OBVIOUS
<1>6. PICK M, N, R : /\ M = {a[i].name : i \in 1 .. j} /\ N = {b[i].name : i \in 1 .. k}
                     /\ R = {s[i].name : i \in 1 .. j + k}
  OBVIOUS
<1>7. LastTable(A, a, M)
  BY <1>1, <1>5, <1>6, LastValuesAre
<1>8. LastTable(B, b, N)
  BY <1>2, <1>5, <1>6, LastValuesAre
<1>9. LastTable(L, s, R)
  <2>1. j + k \in Nat
    OBVIOUS
  <2> QED
    BY <1>4, <1>5, <1>6, <2>1, LastValuesAre
<1>10. R = M \cup N
  <2>1. \A i \in 1 .. j + k : i \in 1 .. j \/ (i - j \in 1 .. k /\ j + (i - j) = i)
    OBVIOUS
  <2>2. /\ \A i \in 1 .. j : i \in 1 .. j + k
        /\ \A i \in 1 .. k : j + i \in 1 .. j + k
    OBVIOUS
  <2> QED
    <3>1. ASSUME NEW n \in R PROVE n \in M \cup N
      <4>1. PICK i \in 1 .. j + k : n = s[i].name
        BY <1>6
      <4>2. CASE i \in 1 .. j
        BY <1>4, <1>6, <4>1, <4>2
      <4>3. CASE i - j \in 1 .. k /\ j + (i - j) = i
        <5>1. PICK l \in 1 .. k : l = i - j /\ j + l = i
          BY <4>3
        <5>2. s[i] = b[l]
          BY <1>4, <5>1
        <5> QED
          BY <1>6, <4>1, <5>1, <5>2
      <4> QED
        BY <2>1, <4>2, <4>3
    <3>2. ASSUME NEW n \in M PROVE n \in R
      <4>1. PICK i \in 1 .. j : n = a[i].name
        BY <1>6
      <4> QED
        BY <1>4, <1>6, <2>2, <4>1
    <3>3. ASSUME NEW n \in N PROVE n \in R
      <4>1. PICK i \in 1 .. k : n = b[i].name
        BY <1>6
      <4>2. n = s[j + i].name /\ j + i \in 1 .. j + k
        BY <1>4, <2>2, <4>1
      <4> QED
        BY <1>6, <4>2
    <3> QED
      BY <3>1, <3>2, <3>3
<1>11. ASSUME NEW n \in N PROVE L[n] = B[n]
  <2>1. PICK m : LastAt(s, n, m) /\ L[n] = s[m].value
    BY <1>9, <1>10 DEF LastTable
  <2>2. PICK l : LastAt(b, n, l) /\ B[n] = b[l].value
    BY <1>8 DEF LastTable
  <2>3. m \in 1 .. j + k /\ l \in 1 .. k
    BY <1>2, <1>4, <2>1, <2>2 DEF LastAt
  <2>4. j + l <= m
    <3>1. PICK i : i = j + l
      OBVIOUS
    <3>2. i \in DOMAIN s /\ s[i] = b[l]
      BY <1>4, <2>3, <3>1
    <3>3. i <= m
      BY <2>1, <2>2, <3>2 DEF LastAt
    <3> QED
      BY <3>1, <3>3
  <2>5. m - j \in 1 .. k /\ j + (m - j) = m
    BY <2>3, <2>4
  <2>6. s[m] = b[m - j]
    BY <1>4, <2>5
  <2>7. m - j <= l
    BY <1>2, <2>1, <2>2, <2>5, <2>6 DEF LastAt
  <2>8. m - j = l
    BY <2>3, <2>4, <2>7
  <2> QED
    BY <2>1, <2>2, <2>6, <2>8
<1>12. ASSUME NEW n \in M, n \notin N PROVE L[n] = A[n]
  <2>1. PICK m : LastAt(s, n, m) /\ L[n] = s[m].value
    BY <1>9, <1>10 DEF LastTable
  <2>2. PICK l : LastAt(a, n, l) /\ A[n] = a[l].value
    BY <1>7 DEF LastTable
  <2>3. m \in 1 .. j + k /\ l \in 1 .. j /\ s[m].name = n
    BY <1>1, <1>4, <2>1, <2>2 DEF LastAt
  <2>4. m \in 1 .. j
    <3>1. SUFFICES ASSUME m \notin 1 .. j PROVE FALSE
      OBVIOUS
    <3>2. m - j \in 1 .. k /\ j + (m - j) = m
      BY <2>3, <3>1
    <3>3. b[m - j].name = n
      BY <1>4, <2>3, <3>2
    <3> QED
      BY <1>6, <1>12, <3>2, <3>3
  <2>5. s[m] = a[m] /\ s[l] = a[l]
    BY <1>4, <2>3, <2>4
  <2>6. m <= l
    BY <1>1, <2>2, <2>3, <2>4, <2>5 DEF LastAt
  <2>7. l <= m
    <3>1. l \in DOMAIN s /\ s[l].name = n
      BY <1>4, <2>2, <2>3, <2>5 DEF LastAt
    <3> QED
      BY <2>1, <3>1 DEF LastAt
  <2>8. l = m
    BY <2>3, <2>6, <2>7
  <2> QED
    BY <2>1, <2>2, <2>5, <2>8
<1>13. PICK D, V, W : /\ D = Tables!Over(F, A) /\ V = Tables!Over(D, B)
                      /\ W = Tables!Over(F, L)
  OBVIOUS
<1>14. DOMAIN A = M /\ DOMAIN B = N /\ DOMAIN L = R
  BY <1>7, <1>8, <1>9 DEF LastTable
<1>15. /\ D = [n \in DOMAIN F \cup M |-> IF n \in M THEN A[n] ELSE F[n]]
       /\ W = [n \in DOMAIN F \cup R |-> IF n \in R THEN L[n] ELSE F[n]]
  BY <1>13, <1>14 DEF Tables!Over
<1>16. V = [n \in DOMAIN D \cup N |-> IF n \in N THEN B[n] ELSE D[n]]
  BY <1>13, <1>14 DEF Tables!Over
<1>17. DOMAIN V = DOMAIN W
  BY <1>10, <1>15, <1>16
<1>18. \A n \in DOMAIN W : V[n] = W[n]
  BY <1>10, <1>11, <1>12, <1>15, <1>16
<1>19. V = W
  <2>1. V = [n \in DOMAIN V |-> V[n]] /\ W = [n \in DOMAIN W |-> W[n]]
    BY <1>15, <1>16
  <2> QED
    BY <1>17, <1>18, <2>1
<1> QED
  BY <1>3, <1>5, <1>13, <1>19

-----------------------------------------------------------------------------
(* The calls as steps of the tables                                        *)

\* Nothing put into a table leaves it as it is.
LEMMA OverNothing ==
    ASSUME NEW F, F = [n \in DOMAIN F |-> F[n]], NEW line
    PROVE  Tables!Over(F, [n \in {} |-> line[n]]) = F
BY DEF Tables!Over
\* And nothing added to a table of lists.
LEMMA AddedNothing ==
    ASSUME NEW P, P = [n \in DOMAIN P |-> P[n]], AllLists(P)
    PROVE  Tables!Added(P, <<>>) = P
<1>1. Tables!NamesOf(<<>>) = {}
  BY DEF Tables!NamesOf
<1>2. ASSUME NEW n PROVE Tables!ValuesOf(<<>>, n) = <<>>
  <2>1. PICK e : e = <<>>
    OBVIOUS
  <2>2. Len(e) = 0 /\ Len(e) \in Nat
    BY <2>1
  <2>3. Tables!ValuesUpto(e, n)[0] = <<>>
    BY <2>2, ValuesUptoValues
  <2> QED
    BY <2>1, <2>2, <2>3 DEF Tables!ValuesOf
<1>3. ASSUME NEW n \in DOMAIN P PROVE P[n] \o <<>> = P[n]
  <2>1. IsList(P[n])
    BY DEF AllLists
  <2> QED
    BY <2>1 DEF IsList
<1>4. PICK none : none = <<>>
  OBVIOUS
<1>5. Tables!Added(P, none) = [n \in DOMAIN P |-> P[n] \o none]
  <2>1. Tables!NamesOf(none) = {} /\ \A n : Tables!ValuesOf(none, n) = none
    BY <1>1, <1>2, <1>4
  <2> QED
    BY <2>1 DEF Tables!Added
<1>6. [n \in DOMAIN P |-> P[n] \o none] = [n \in DOMAIN P |-> P[n]]
  BY <1>3, <1>4
<1> QED
  BY <1>4, <1>5, <1>6

\* What a request asks for is a list.
LEMMA RequestQuery ==
    ASSUME NEW m \in Requests, NEW words, words = Words(CString(m.text, 1)), Len(words) >= 2
    PROVE  IsList(parse_query(After(words[2], "?")))
<1>1. Len(m.text) \in Nat
  BY InputLengths
<1>2. Len(words) \in Nat /\ \A w \in 1 .. Len(words) : Len(words[w]) \in Nat
  BY <1>1, StringLength, WordsOfLine
<1>3. Len(words[2]) \in Nat
  BY <1>2
<1>4. PICK text : text = After(words[2], "?")
  OBVIOUS
<1>5. Len(text) \in Nat /\ DOMAIN text = 1 .. Len(text)
  BY <1>3, <1>4, Parts
<1> QED
  BY <1>4, <1>5, QueryList

\* The tables of one that was accepted, and of one that was refused.
Accepted(m, head, query, head2, query2) ==
    /\ m.ok
    /\ head2 = Tables!Over(Tables!Over(head, m.line), Tables!LastValues(Tables!Kept(m)))
    /\ query2 = Tables!Added(query, m.pairs)
Refused(m, head, query, head2, query2) ==
    /\ ~m.ok
    /\ \E S \in SUBSET DOMAIN m.line : head2 = Tables!Over(head, [n \in S |-> m.line[n]])
    /\ query2 \in {query, Tables!Added(query, m.pairs)}

\* Nothing was touched.
LEMMA RefusedAtOnce ==
    ASSUME NEW m, ~m.ok, NEW head, head = [n \in DOMAIN head |-> head[n]], NEW query
    PROVE  Refused(m, head, query, head, query)
<1>1. {} \in SUBSET DOMAIN m.line
  OBVIOUS
<1>2. head = Tables!Over(head, [n \in {} |-> m.line[n]])
  BY OverNothing
<1> QED
  BY <1>1, <1>2 DEF Refused

\* Header lines come after the first line.
LEMMA SetMessage ==
    ASSUME NEW tree, Table(tree), NEW line, IsList(line), NEW lines, Len(lines) \in Nat
    PROVE  Firsts(SetAll(tree, line \o parse_headers(lines))) =
               Tables!Over(Tables!Over(Firsts(tree), Tables!LastValues(line)),
                           Tables!LastValues(parse_headers(lines)))
<1>1. PICK b : b = parse_headers(lines) /\ IsList(b)
  BY HeaderList
<1>2. IsList(line \o b)
  BY <1>1, JoinedLists
<1>3. PICK F : F = Firsts(tree)
  OBVIOUS
<1>4. Firsts(SetAll(tree, line \o b)) = Tables!Over(F, Tables!LastValues(line \o b))
  BY <1>2, <1>3, SetAllFirsts
<1> QED
  BY <1>1, <1>3, <1>4, LastOfJoined

\* httpp_parse.
LEMMA ParseTables ==
    ASSUME TablesInv, AllLists(Values(queryvars)), NEW m \in Requests, RequestMeans(m),
           httpp_parse(m)
    PROVE  /\ \/ /\ Accepted(m, Firsts(vars), Values(queryvars),
                             Firsts(vars'), Values(queryvars'))
                 /\ answer' = 1
              \/ /\ Refused(m, Firsts(vars), Values(queryvars),
                            Firsts(vars'), Values(queryvars'))
                 /\ answer' = 0
           /\ AllLists(Values(queryvars'))
<1>1. PICK words : words = Words(CString(m.text, 1))
  OBVIOUS
<1>2. Len(words) \in Nat /\ Len(m.text) \in Nat
  BY <1>1, InputLengths, StringLength, WordsOfLine
<1>3. PICK lines : lines = split_headers(m.text) /\ Len(lines) \in Nat
  BY <1>2, LinesOfText
<1>4. PICK head : head = Firsts(vars)
  OBVIOUS
<1>5. head = [n \in DOMAIN head |-> head[n]]
  BY <1>4 DEF Firsts
<1>6. m.ok <=> Len(words) = 3 /\ RightLine(words)
  BY <1>1 DEF RequestMeans
<1>7. CASE ~(Len(words) \in 2 .. 3)
  <2>1. Len(words) > 3 \/ Len(words) < 2
    <3>1. PICK n \in Nat : n = Len(words)
      BY <1>2
    <3>2. n > 3 \/ n < 2
      BY <1>7, <3>1
    <3> QED
      BY <3>1, <3>2
  <2>2. vars' = vars /\ queryvars' = queryvars /\ answer' = 0
    BY <1>1, <2>1 DEF httpp_parse
  <2>3. ~m.ok
    BY <1>6, <1>7
  <2>4. Refused(m, head, Values(queryvars), head, Values(queryvars))
    BY <1>5, <2>3, RefusedAtOnce
  <2> QED
    BY <1>4, <2>2, <2>4
<1>8. CASE Len(words) \in 2 .. 3
  <2>1. ~(Len(words) > 3) /\ ~(Len(words) < 2) /\ Len(words) >= 2
    <3>1. PICK n \in 2 .. 3 : n = Len(words)
      BY <1>8
    <3>2. ~(n > 3) /\ ~(n < 2) /\ n >= 2
      OBVIOUS
    <3> QED
      BY <3>1, <3>2
  <2>2. PICK query : query = parse_query(After(words[2], "?")) /\ IsList(query)
    BY <1>1, <2>1, RequestQuery
  <2>3. /\ vars' = SetAll(vars, RequestVars(words, lines))
        /\ queryvars' = AddAll(queryvars, query)
        /\ answer' = IF RightLine(words) THEN 1 ELSE 0
    BY <1>1, <1>3, <2>1, <2>2 DEF httpp_parse
  <2>4. PICK line : line = LineVars(words) /\ IsList(line)
    BY LineList
  <2>5. PICK L : L = Tables!LastValues(line)
    OBVIOUS
  <2>6. /\ query = m.pairs /\ DOMAIN L \subseteq DOMAIN m.line
        /\ L = [n \in DOMAIN L |-> m.line[n]]
        /\ m.ok => L = m.line /\ HeadersMean(m)
    BY <1>1, <1>8, <2>2, <2>4, <2>5 DEF RequestMeans
  <2>7. /\ Values(queryvars') = Tables!Added(Values(queryvars), m.pairs)
        /\ AllLists(Values(queryvars'))
    BY <2>2, <2>3, <2>6, AddAllValues DEF TablesInv
  <2>8. CASE RightLine(words)
    <3>1. m.ok
      <4>1. Len(words) > 2
        BY <2>8 DEF RightLine, Versioned
      <4>2. PICK n \in 2 .. 3 : n = Len(words)
        BY <1>8
      <4>3. Len(words) = 3
        BY <4>1, <4>2
      <4> QED
        BY <1>6, <2>8, <4>3
    <3>2. vars' = SetAll(vars, line \o parse_headers(lines))
      BY <2>3, <2>4, <2>8 DEF RequestVars
    <3>3. Firsts(vars') = Tables!Over(Tables!Over(head, L),
                                      Tables!LastValues(parse_headers(lines)))
      BY <1>3, <1>4, <2>4, <2>5, <3>2, SetMessage DEF TablesInv
    <3>4. Tables!LastValues(parse_headers(lines)) = Tables!LastValues(Tables!Kept(m))
      BY <1>3, <2>6, <3>1 DEF HeadersMean
    <3>5. Accepted(m, head, Values(queryvars), Firsts(vars'), Values(queryvars'))
      BY <2>6, <2>7, <3>1, <3>3, <3>4 DEF Accepted
    <3> QED
      BY <1>4, <2>3, <2>7, <2>8, <3>5
  <2>9. CASE ~RightLine(words)
    <3>1. ~m.ok
      BY <1>6, <2>9
    <3>2. line \o <<>> = line
      BY <2>4 DEF IsList
    <3>3. vars' = SetAll(vars, line)
      BY <2>3, <2>4, <2>9, <3>2 DEF RequestVars
    <3>4. Firsts(vars') = Tables!Over(head, L)
      BY <1>4, <2>4, <2>5, <3>3, SetAllFirsts DEF TablesInv
    <3>5. PICK S : S = DOMAIN L
      OBVIOUS
    <3>6. S \in SUBSET DOMAIN m.line
      BY <2>6, <3>5
    <3>7. Firsts(vars') = Tables!Over(head, [n \in S |-> m.line[n]])
      BY <2>6, <3>4, <3>5
    <3>8. Refused(m, head, Values(queryvars), Firsts(vars'), Values(queryvars'))
      BY <2>7, <3>1, <3>6, <3>7 DEF Refused
    <3> QED
      BY <1>4, <2>3, <2>7, <2>9, <3>8
  <2> QED
    BY <2>8, <2>9
<1> QED
  BY <1>7, <1>8

\* httpp_parse_response.
LEMMA ResponseTables ==
    ASSUME TablesInv, AllLists(Values(queryvars)), NEW m \in Responses, ResponseMeans(m),
           httpp_parse_response(m)
    PROVE  \/ /\ Accepted(m, Firsts(vars), Values(queryvars),
                          Firsts(vars'), Values(queryvars))
              /\ answer' = 1
           \/ /\ Refused(m, Firsts(vars), Values(queryvars),
                         Firsts(vars'), Values(queryvars))
              /\ answer' = 0
<1>1. PICK n : n = Len(Words(CString(m.text, 1)))
  OBVIOUS
<1>2. n \in Nat /\ Len(m.text) \in Nat
  BY <1>1, InputLengths, StringLength, WordsOfLine
<1>3. PICK head, query : head = Firsts(vars) /\ query = Values(queryvars)
  OBVIOUS
<1>4. m.ok <=> n >= 3
  BY <1>1 DEF ResponseMeans
<1>5. CASE n < 3
  <2>1. vars' = vars /\ answer' = 0
    BY <1>1, <1>5 DEF httpp_parse_response
  <2>2. ~m.ok
    BY <1>2, <1>4, <1>5
  <2>3. head = [x \in DOMAIN head |-> head[x]]
    BY <1>3 DEF Firsts
  <2>4. Refused(m, head, query, head, query)
    BY <2>2, <2>3, RefusedAtOnce
  <2> QED
    BY <1>3, <2>1, <2>4
<1>6. CASE ~(n < 3)
  <2>1. m.ok
    BY <1>2, <1>4, <1>6
  <2>2. PICK line : line = ResponseLine(m) /\ IsList(line)
    BY ResponseList
  <2>3. PICK lines : lines = split_headers(m.text) /\ Len(lines) \in Nat
    BY <1>2, LinesOfText
  <2>4. answer' = 1 /\ vars' = SetAll(vars, line \o parse_headers(lines))
    BY <1>1, <1>6, <2>2, <2>3 DEF httpp_parse_response
  <2>5. Firsts(vars') = Tables!Over(Tables!Over(head, Tables!LastValues(line)),
                                    Tables!LastValues(parse_headers(lines)))
    BY <1>3, <2>2, <2>3, <2>4, SetMessage DEF TablesInv
  <2>6. /\ m.pairs = <<>> /\ Tables!LastValues(line) = m.line
        /\ Tables!LastValues(parse_headers(lines)) = Tables!LastValues(Tables!Kept(m))
    BY <2>1, <2>2, <2>3 DEF ResponseMeans, HeadersMean
  <2>7. Tables!Added(query, m.pairs) = query
    <3>1. query = [x \in DOMAIN query |-> query[x]]
      BY <1>3, ValuesHas DEF TablesInv
    <3> QED
      BY <1>3, <2>6, <3>1, AddedNothing
  <2>8. Accepted(m, head, query, Firsts(vars'), query)
    BY <2>1, <2>5, <2>6, <2>7 DEF Accepted
  <2> QED
    BY <1>3, <2>4, <2>8
<1> QED
  BY <1>5, <1>6

\* What the steps need: the trees are tables of lists, and a parser that is gone
\* has nothing in them.
TablesIInv ==
    /\ Counted /\ TablesInv
    /\ AllLists(Values(queryvars)) /\ AllLists(Values(postvars))
    /\ ~live => /\ vars = EmptyBag /\ queryvars = EmptyBag /\ postvars = EmptyBag
                /\ answer = 0

\* A tree without variables stands for the empty table.
LEMMA NoValues == /\ Values(EmptyBag) = <<>> /\ Firsts(EmptyBag) = <<>>
                  /\ AllLists(Values(EmptyBag))
<1>1. Vars(EmptyBag) = {}
  BY NoVars
<1>2. DOMAIN Values(EmptyBag) = {}
  BY <1>1 DEF Values
<1>3. Values(EmptyBag) = <<>>
  BY <1>1 DEF Values
<1>4. Firsts(EmptyBag) = <<>>
  BY <1>2 DEF Firsts
<1> QED
  BY <1>2, <1>3, <1>4 DEF AllLists

\* httpp_create_parser.
LEMMA TablesInit == ASSUME Init PROVE TablesIInv /\ Tables!Init
<1>1. Counted
  BY InitCounted
<1>2. TablesInv
  BY NoVars DEF Init, TablesInv
<1>3. TablesIInv
  BY <1>1, <1>2, NoValues DEF Init, TablesIInv
<1>4. Tables!Init
  BY NoValues DEF Init, Tables!Init
<1> QED
  BY <1>3, <1>4

\* One parameter, decoded.
LEMMA ParamTables ==
    ASSUME NEW tree, Table(tree), AllLists(Values(tree)), NEW h, NEW new,
           new = _httpp_set_param(tree, h)
    PROVE  /\ new = tree \/ Tables!SetTo(Values(tree), Values(new), h.name)
           /\ AllLists(Values(new))
<1>1. PICK value : value = url_unescape(h.value)
  OBVIOUS
<1>2. CASE value = <<>>
  BY <1>1, <1>2 DEF _httpp_set_param
<1>3. CASE value # <<>>
  <2>1. PICK t : value = <<t>>
    BY <1>1, <1>3, OneText
  <2>2. new = Inserted(Deleted(tree, h.name), h.name, value)
    BY <1>1, <1>3 DEF _httpp_set_param
  <2>3. PICK V, W, name : V = Values(tree) /\ W = Values(new) /\ name = h.name
    OBVIOUS
  <2>4. W = Tables!With(V, name, <<t>>)
    BY <2>1, <2>2, <2>3, ReplaceValues
  <2>5. IsWith(W, V, name, <<t>>)
    BY <2>4, WithEntry
  <2>6. name \in DOMAIN W /\ <<W[name][1]>> = <<t>>
    BY <2>5 DEF IsWith
  <2>7. W = Tables!With(V, name, <<W[name][1]>>)
    BY <2>4, <2>6
  <2>8. Tables!SetTo(V, W, name)
    BY <2>6, <2>7 DEF Tables!SetTo
  <2>9. IsList(<<t>>)
    BY ShortLists
  <2>10. AllLists(W)
    BY <2>3, <2>5, <2>9 DEF AllLists, IsWith
  <2> QED
    BY <2>3, <2>8, <2>10
<1> QED
  BY <1>2, <1>3

\* Nothing that the tables show has changed.
LEMMA TablesStutter ==
    ASSUME UNCHANGED <<live, vars, queryvars, postvars, answer>>
    PROVE  UNCHANGED Tables!vars
BY DEF Tables!vars

\* The lists stay lists, and the step is one of the tables or shows nothing.
LEMMA TablesStep ==
    ASSUME ScansAsMeant, TablesIInv, [Next]_state
    PROVE  TablesIInv' /\ [Tables!Next]_(Tables!vars)
<1> DEFINE Lists == AllLists(Values(queryvars)) /\ AllLists(Values(postvars))
           Gone  == ~live => /\ vars = EmptyBag /\ queryvars = EmptyBag
                             /\ postvars = EmptyBag /\ answer = 0
           Shown == [Tables!Next]_(Tables!vars)
<1>1. Counted' /\ TablesInv'
  BY NextCounted, NextTables DEF TablesIInv
<1> SUFFICES Lists' /\ Gone' /\ Shown
  BY <1>1 DEF TablesIInv
<1>2. Counted /\ TablesInv /\ Lists /\ Gone
  BY DEF TablesIInv
<1>3. ASSUME UNCHANGED <<live, vars, queryvars, postvars, answer>>
      PROVE  Lists' /\ Gone' /\ Shown
  BY <1>2, <1>3, TablesStutter
<1>4. CASE httpp_create_parser
  <2>1. /\ ~live /\ live' = TRUE /\ answer' = 0
        /\ vars' = EmptyBag /\ queryvars' = EmptyBag /\ postvars' = EmptyBag
    BY <1>4 DEF httpp_create_parser, Fresh
  <2>2. UNCHANGED <<vars, queryvars, postvars, answer>>
    BY <1>2, <2>1
  <2>3. Tables!Create
    BY <2>1, <2>2 DEF Tables!Create
  <2> QED
    BY <1>2, <2>1, <2>2, <2>3 DEF Tables!Next
<1>5. ASSUME NEW c \in Clients, NEW d \in Clients, httpp_addref(c, d)
      PROVE  Lists' /\ Gone' /\ Shown
  BY <1>3, <1>5 DEF httpp_addref
<1>6. ASSUME NEW c \in Clients, httpp_release(c) PROVE Lists' /\ Gone' /\ Shown
  <2>1. CASE UNCHANGED <<live, vars, queryvars, postvars, answer>>
    BY <1>3, <2>1
  <2>2. CASE Fresh(FALSE)
    <3>1. live
      BY <1>2, <1>6 DEF httpp_release, Counted, Lifetime
    <3>2. /\ live' = FALSE /\ answer' = 0
          /\ vars' = EmptyBag /\ queryvars' = EmptyBag /\ postvars' = EmptyBag
      BY <2>2 DEF Fresh
    <3>3. Tables!Release
      BY <3>1, <3>2, NoValues DEF Tables!Release
    <3> QED
      BY <3>2, <3>3, NoValues DEF Tables!Next
  <2> QED
    BY <1>6, <2>1, <2>2 DEF httpp_release
<1>7. CASE Parse
  <2>1. PICK m \in Requests : Call /\ httpp_parse(m) /\ UNCHANGED postvars
    BY <1>7 DEF Parse
  <2>2. RequestMeans(m)
    BY DEF ScansAsMeant
  <2>3. /\ \/ /\ Accepted(m, Firsts(vars), Values(queryvars),
                          Firsts(vars'), Values(queryvars'))
              /\ answer' = 1
           \/ /\ Refused(m, Firsts(vars), Values(queryvars),
                         Firsts(vars'), Values(queryvars'))
              /\ answer' = 0
        /\ AllLists(Values(queryvars'))
    BY <1>2, <2>1, <2>2, ParseTables
  <2>4. live /\ live' = live /\ postvars' = postvars
    BY <2>1 DEF Call
  <2>5. Tables!Accept(m) \/ Tables!Refuse(m)
    BY <2>3, <2>4 DEF Tables!Accept, Tables!Refuse, Accepted, Refused
  <2>6. Tables!Next
    BY <2>4, <2>5 DEF Tables!Next
  <2> QED
    BY <1>2, <2>3, <2>4, <2>6
<1>8. CASE ParseResponse
  <2>1. PICK m \in Responses : /\ Call /\ httpp_parse_response(m)
                               /\ UNCHANGED <<queryvars, postvars>>
    BY <1>8 DEF ParseResponse
  <2>2. ResponseMeans(m)
    BY DEF ScansAsMeant
  <2>3. \/ /\ Accepted(m, Firsts(vars), Values(queryvars),
                       Firsts(vars'), Values(queryvars))
           /\ answer' = 1
        \/ /\ Refused(m, Firsts(vars), Values(queryvars),
                      Firsts(vars'), Values(queryvars))
           /\ answer' = 0
    BY <1>2, <2>1, <2>2, ResponseTables
  <2>4. live /\ live' = live /\ postvars' = postvars /\ queryvars' = queryvars
    BY <2>1 DEF Call
  <2>5. Tables!Accept(m) \/ Tables!Refuse(m)
    BY <2>3, <2>4 DEF Tables!Accept, Tables!Refuse, Accepted, Refused
  <2>6. Tables!Next
    BY <2>4, <2>5 DEF Tables!Next
  <2> QED
    BY <1>2, <2>4, <2>6
<1>9. CASE ParsePostdata
  <2>1. PICK b \in Bodies : /\ Call /\ httpp_parse_postdata(b)
                            /\ UNCHANGED <<vars, queryvars>>
    BY <1>9 DEF ParsePostdata
  <2>2. PICK query : query = parse_query(b) /\ IsList(query)
    BY InputLengths, QueryList
  <2>3. \/ answer' = 0 /\ postvars' = AddAll(postvars, query)
        \/ answer' = -1 /\ postvars' = postvars
    BY <2>1, <2>2 DEF httpp_parse_postdata
  <2>4. /\ AllLists(Values(postvars'))
        /\ \/ answer' = 0 /\ Values(postvars') = Tables!Added(Values(postvars), query)
           \/ answer' # 0 /\ Values(postvars') = Values(postvars)
    BY <1>2, <2>2, <2>3, AddAllValues DEF TablesInv
  <2>5. live /\ live' = live /\ vars' = vars /\ queryvars' = queryvars
    BY <2>1 DEF Call
  <2>6. Tables!PostData(query)
    BY <2>4, <2>5 DEF Tables!PostData
  <2>7. query \in {parse_query(x) : x \in Bodies}
    BY <2>2
  <2>8. Tables!Next
    BY <2>5, <2>6, <2>7 DEF Tables!Next
  <2> QED
    BY <1>2, <2>4, <2>5, <2>8
<1>10. CASE httpp_initialize
  <2>1. PICK list \in DefaultLists : /\ Call /\ vars' = SetAll(vars, list)
                                     /\ UNCHANGED <<queryvars, postvars, answer>>
    BY <1>10 DEF httpp_initialize
  <2>2. IsList(list)
    BY ListsAssumption DEF IsList
  <2>3. Firsts(vars') = Tables!Over(Firsts(vars), Tables!LastValues(list))
    BY <1>2, <2>1, <2>2, SetAllFirsts DEF TablesInv
  <2>4. live /\ live' = live /\ UNCHANGED <<queryvars, postvars, answer>>
    BY <2>1 DEF Call
  <2>5. Tables!Initialize
    BY <2>3, <2>4 DEF Tables!Initialize
  <2>6. Tables!Next
    BY <2>4, <2>5 DEF Tables!Next
  <2> QED
    BY <1>2, <2>4, <2>6
<1>11. CASE SetVar
  <2>1. PICK h \in Assigned : /\ Call /\ vars' = httpp_setvar(vars, h)
                              /\ UNCHANGED <<queryvars, postvars, answer>>
    BY <1>11 DEF SetVar
  <2>2. Firsts(vars') = Tables!With(Firsts(vars), h.name, h.value)
    <3>1. PICK new : new = httpp_setvar(vars, h)
      OBVIOUS
    <3>2. Values(new) = Tables!With(Values(vars), h.name, <<h.value>>)
      BY <1>2, <3>1, SetValues DEF TablesInv
    <3>3. Firsts(new) = Tables!With(Firsts(vars), h.name, h.value)
      BY <3>2, FirstsWith
    <3> QED
      BY <2>1, <3>1, <3>3
  <2>3. live /\ live' = live /\ UNCHANGED <<queryvars, postvars, answer>>
    BY <2>1 DEF Call
  <2>4. Tables!SetVar
    BY <2>2, <2>3 DEF Tables!SetVar
  <2>5. Tables!Next
    BY <2>3, <2>4 DEF Tables!Next
  <2> QED
    BY <1>2, <2>3, <2>5
<1>12. CASE httpp_deletevar
  <2>1. PICK h \in Assigned : /\ Call /\ vars' = Deleted(vars, h.name)
                              /\ UNCHANGED <<queryvars, postvars, answer>>
    BY <1>12 DEF httpp_deletevar
  <2>2. PICK name : name = h.name
    OBVIOUS
  <2>3. live /\ live' = live /\ UNCHANGED <<queryvars, postvars, answer>>
    BY <2>1 DEF Call
  <2>4. CASE Found(vars, name) = {}
    BY <1>3, <2>1, <2>2, <2>3, <2>4 DEF Deleted
  <2>5. CASE Found(vars, name) # {}
    <3>1. PICK V, F : V = Values(vars) /\ F = Firsts(vars)
      OBVIOUS
    <3>2. Values(vars') = Without(V, name)
      BY <1>2, <2>1, <2>2, <3>1, DeleteValues DEF TablesInv
    <3>3. name \in DOMAIN V
      BY <1>2, <2>5, <3>1, ValuesName DEF TablesInv
    <3>4. DOMAIN F = DOMAIN V /\ \A n \in DOMAIN V : F[n] = V[n][1]
      BY <3>1 DEF Firsts
    <3>5. Firsts(vars') = [n \in DOMAIN F \ {name} |-> F[n]]
      <4>1. PICK W : W = Without(V, name)
        OBVIOUS
      <4>2. DOMAIN W = DOMAIN V \ {name} /\ \A n \in DOMAIN W : W[n] = V[n]
        BY <4>1 DEF Without
      <4>3. Firsts(vars') = [n \in DOMAIN W |-> W[n][1]]
        BY <3>2, <4>1 DEF Firsts
      <4> QED
        BY <3>4, <4>2, <4>3
    <3>6. Tables!DeleteVar
      BY <2>2, <2>3, <3>1, <3>3, <3>4, <3>5 DEF Tables!DeleteVar
    <3>7. Tables!Next
      BY <2>3, <3>6 DEF Tables!Next
    <3> QED
      BY <1>2, <2>3, <3>7
  <2> QED
    BY <2>4, <2>5
<1>13. CASE SetParam
  <2>1. PICK h \in Assigned :
            /\ Call
            /\ \/ queryvars' = _httpp_set_param(queryvars, h) /\ postvars' = postvars
               \/ postvars' = _httpp_set_param(postvars, h) /\ queryvars' = queryvars
            /\ UNCHANGED <<vars, answer>>
    BY <1>13 DEF SetParam
  <2>2. live /\ live' = live /\ UNCHANGED <<vars, answer>>
    BY <2>1 DEF Call
  <2>3. ASSUME queryvars' = _httpp_set_param(queryvars, h), postvars' = postvars
        PROVE  Lists' /\ Shown
    <3>1. /\ \/ queryvars' = queryvars
             \/ Tables!SetTo(Values(queryvars), Values(queryvars'), h.name)
          /\ AllLists(Values(queryvars'))
      BY <1>2, <2>3, ParamTables DEF TablesInv
    <3>2. CASE queryvars' = queryvars
      BY <1>3, <2>2, <2>3, <3>2
    <3>3. CASE Tables!SetTo(Values(queryvars), Values(queryvars'), h.name)
      <4>1. Tables!SetParam
        BY <2>2, <2>3, <3>3 DEF Tables!SetParam
      <4>2. Tables!Next
        BY <2>2, <4>1 DEF Tables!Next
      <4> QED
        BY <1>2, <2>3, <3>1, <4>2
    <3> QED
      BY <3>1, <3>2, <3>3
  <2>4. ASSUME postvars' = _httpp_set_param(postvars, h), queryvars' = queryvars
        PROVE  Lists' /\ Shown
    <3>1. /\ \/ postvars' = postvars
             \/ Tables!SetTo(Values(postvars), Values(postvars'), h.name)
          /\ AllLists(Values(postvars'))
      BY <1>2, <2>4, ParamTables DEF TablesInv
    <3>2. CASE postvars' = postvars
      BY <1>3, <2>2, <2>4, <3>2
    <3>3. CASE Tables!SetTo(Values(postvars), Values(postvars'), h.name)
      <4>1. Tables!SetParam
        BY <2>2, <2>4, <3>3 DEF Tables!SetParam
      <4>2. Tables!Next
        BY <2>2, <4>1 DEF Tables!Next
      <4> QED
        BY <1>2, <2>4, <3>1, <4>2
    <3> QED
      BY <3>1, <3>2, <3>3
  <2> QED
    BY <2>1, <2>2, <2>3, <2>4
<1>14. CASE UNCHANGED state
  BY <1>3, <1>14 DEF state, parser
<1> HIDE DEF Lists, Gone, Shown
<1> QED
  BY <1>4, <1>5, <1>6, <1>7, <1>8, <1>9, <1>10, <1>11, <1>12, <1>13, <1>14 DEF Next, Idle

\* For any messages whose text says what they mean, and however the calls on a
\* parser follow each other: its trees are the three tables.
THEOREM TablesKept == ASSUME ScansAsMeant PROVE Spec => ImplementsTables
<1>1. Init => TablesIInv /\ Tables!Init
  BY TablesInit
<1>2. TablesIInv /\ [Next]_state => TablesIInv' /\ [Tables!Next]_(Tables!vars)
  BY TablesStep
<1> QED
  BY <1>1, <1>2, PTL DEF Spec, ImplementsTables, Tables!Spec
=============================================================================
