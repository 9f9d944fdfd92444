--------------------------- MODULE EncodingProofs ---------------------------
(***************************************************************************)
(* Proofs about Encoding, for any lengths of buffers and chunks and any    *)
(* cutting up on the way, as long as malloc does not fail in the reader    *)
(* and no empty buffer is written (that ends the stream).  The first part  *)
(* reads the chunked stream as the path of a small automaton: what a chunk *)
(* of the writer leads over, and what a call of __enc_chunked_read makes   *)
(* of the beginning of the stream.  The second part builds the inductive   *)
(* invariant on it.                                                        *)
(***************************************************************************)
EXTENDS Encoding, SequenceFacts

-----------------------------------------------------------------------------
(* Positions in the stream                                                 *)

Phases == {"header", "cr", "lf", "body", "bodylf", "endcr", "endlf"}

\* A position in the stream between two symbols: what comes next, how much of the
\* body is left, whether the last chunk began, and the data and the meta data that
\* came before.
Positions == [k : Phases, left : Nat, last : BOOLEAN, d : Nat, m : Nat]

At(k, left, last, d, m) == [k |-> k, left |-> left, last |-> last, d |-> d, m |-> m]

\* The positions that the stream can have: no data beyond what was written, the
\* last chunk after all of it, and no meta data after later data.
Good == {q \in Positions :
    /\ q.d + q.left <= written
    /\ q.last => ends > 0 /\ q.left = 0 /\ q.d = written
    /\ \/ MetaFails
       \/ /\ q.m <= Len(metas) - Len(meta_write)
          /\ \A i \in (q.m + 1) .. Len(metas) : metas[i].at >= q.d + q.left}

\* Symbol s stands between the positions p and q; ms is the meta data attached.
HeaderStep(ms, p, s, q) ==
    /\ p.k = "header" /\ s.c = "len"
    /\ q = At("cr", s.n, p.last \/ s.n = 0, p.d, p.m + Len(s.m))
    /\ MetaFails \/ \A i \in 1 .. Len(s.m) : s.m[i] = ms[p.m + i]

BodyStep(p, s, q) ==
    /\ p.k = "body" /\ p.left > 0 /\ s = Data(p.d + 1)
    /\ q = At("body", p.left - 1, p.last, p.d + 1, p.m)

LineStep(p, s, q) ==
    \/ p.k = "cr" /\ s = CR /\ q = [p EXCEPT !.k = "lf"]
    \/ p.k = "lf" /\ s = LF /\ q = [p EXCEPT !.k = "body"]
    \/ p.k = "body" /\ p.left = 0 /\ s = CR /\ q = [p EXCEPT !.k = "bodylf"]
    \/ p.k = "bodylf" /\ s = LF
       /\ q = [p EXCEPT !.k = IF p.last /\ ~LoneEnd THEN "endcr" ELSE "header"]
    \/ p.k = "endcr" /\ s = CR /\ q = [p EXCEPT !.k = "endlf"]
    \/ p.k = "endlf" /\ s = LF /\ q = [p EXCEPT !.k = "header"]

Step(ms, p, s, q) == HeaderStep(ms, p, s, q) \/ BodyStep(p, s, q) \/ LineStep(p, s, q)

\* The symbols of S lead from position p to position z, on positions in G.
Run(G, ms, p, S, z) ==
    \E st \in [1 .. (Len(S) + 1) -> G] :
        /\ st[1] = p /\ st[Len(S) + 1] = z
        /\ \A i \in 1 .. Len(S) : Step(ms, st[i], S[i], st[i + 1])

\* The counters of reader r tell of position q.
Counters(r, q) ==
    /\ q.last <=> r.bytes_till_eof # -1
    /\ r.read_bytes_till_header # 0 =>
          q.k = "body" /\ r.read_bytes_till_header = q.left + 2
    /\ r.read_bytes_till_header = 0 /\ r.bytes_till_eof = -1 => q.k = "header"
    /\ r.read_bytes_till_header = 0 /\ r.bytes_till_eof = 2 =>
          q.k = IF LoneEnd THEN "header" ELSE "endcr"

\* What a reader keeps in its buffer between two calls.
Kept(r) ==
    /\ r.read_bytes_till_header > 2 => r.raw = <<>>
    /\ r.read_bytes_till_header = 2 => Len(r.raw) < 2
    /\ r.read_bytes_till_header = 0 /\ r.bytes_till_eof = 2 => r.raw = <<>>
    /\ r.bytes_till_eof = 0 => r.read_bytes_till_header = 0

-----------------------------------------------------------------------------
(* Facts about sequences                                                   *)

\* The two parts of a sequence.
LEMMA TakeDrop ==
    ASSUME NEW T, NEW s \in Seq(T), NEW k \in 0 .. Len(s)
    PROVE  /\ Take(s, k) \in Seq(T) /\ Len(Take(s, k)) = k
           /\ Drop(s, k) \in Seq(T) /\ Len(Drop(s, k)) = Len(s) - k
           /\ \A i \in 1 .. k : Take(s, k)[i] = s[i]
           /\ \A i \in 1 .. Len(s) - k : Drop(s, k)[i] = s[k + i]
           /\ Take(s, k) \o Drop(s, k) = s
<1>1. Len(s) \in Nat /\ \A i \in 1 .. Len(s) : s[i] \in T
  BY LenProperties
<1>2. /\ Take(s, k) \in Seq(T) /\ Len(Take(s, k)) = k
      /\ \A i \in 1 .. k : Take(s, k)[i] = s[i]
  BY FirstPart DEF Take
<1>3. /\ Drop(s, k) \in Seq(T) /\ Len(Drop(s, k)) = Len(s) - k
      /\ \A i \in 1 .. Len(s) - k : Drop(s, k)[i] = s[k + i]
  BY LastPart DEF Drop
<1>4. Take(s, k) \o Drop(s, k) = s
  <2> DEFINE u == Take(s, k)
             v == Drop(s, k)
  <2>1. /\ u \o v \in Seq(T) /\ Len(u \o v) = Len(u) + Len(v)
        /\ \A i \in 1 .. Len(u) + Len(v) :
              (u \o v)[i] = IF i <= Len(u) THEN u[i] ELSE v[i - Len(u)]
    <3> HIDE DEF u, v
    <3> QED  BY <1>2, <1>3, ConcatProperties DEF u, v
  <2>2. Len(u \o v) = Len(s)
    BY <1>1, <1>2, <1>3, <2>1
  <2>3. \A i \in 1 .. Len(u \o v) : (u \o v)[i] = s[i]
    <3> HIDE DEF u, v
    <3> QED  BY <1>1, <1>2, <1>3, <2>1, <2>2 DEF u, v
  <2> QED
    BY <2>1, <2>2, <2>3, SeqEqual
<1> QED
  BY <1>2, <1>3, <1>4

-----------------------------------------------------------------------------
(* Facts about runs                                                        *)

\* A run begins and ends at positions of G.
LEMMA RunEnds ==
    ASSUME NEW G, NEW ms,
           NEW S \in Seq(Symbols), NEW p, NEW z, Run(G, ms, p, S, z)
    PROVE  p \in G /\ z \in G
<1>1. Len(S) \in Nat
  BY LenProperties
<1> QED
  BY <1>1 DEF Run

\* Without symbols a run stays where it is.
LEMMA RunEmpty ==
    ASSUME NEW G, NEW ms,
           NEW p, NEW z, Run(G, ms, p, <<>>, z)
    PROVE  p = z
<1>1. Len(<<>>) = 0
  OBVIOUS
<1> QED
  BY <1>1 DEF Run

\* Where no symbol comes, the position stays.
LEMMA RunStay ==
    ASSUME NEW G, NEW ms,
           NEW p \in G
    PROVE  Run(G, ms, p, <<>>, p)
<1> DEFINE st == [i \in 1 .. (Len(<<>>) + 1) |-> p]
<1>1. Len(<<>>) = 0
  OBVIOUS
<1>2. /\ st \in [1 .. (Len(<<>>) + 1) -> G]
      /\ st[1] = p /\ st[Len(<<>>) + 1] = p
  BY <1>1
<1>3. \A i \in 1 .. Len(<<>>) : Step(ms, st[i], <<>>[i], st[i + 1])
  BY <1>1
<1> QED
  BY <1>2, <1>3 DEF Run

\* Two runs, one after the other.
LEMMA RunConcat ==
    ASSUME NEW G, NEW ms,
           NEW S \in Seq(Symbols), NEW T \in Seq(Symbols), NEW p, NEW y, NEW z,
           Run(G, ms, p, S, y), Run(G, ms, y, T, z)
    PROVE  Run(G, ms, p, S \o T, z)
<1>1. PICK a \in [1 .. (Len(S) + 1) -> G] :
          /\ a[1] = p /\ a[Len(S) + 1] = y
          /\ \A i \in 1 .. Len(S) : Step(ms, a[i], S[i], a[i + 1])
  BY DEF Run
<1>2. PICK b \in [1 .. (Len(T) + 1) -> G] :
          /\ b[1] = y /\ b[Len(T) + 1] = z
          /\ \A i \in 1 .. Len(T) : Step(ms, b[i], T[i], b[i + 1])
  BY DEF Run
<1> DEFINE st == [i \in 1 .. (Len(S \o T) + 1) |->
                     IF i <= Len(S) + 1 THEN a[i] ELSE b[i - Len(S)]]
<1>3. Len(S) \in Nat /\ Len(T) \in Nat
  BY LenProperties
<1>4. /\ Len(S \o T) = Len(S) + Len(T)
      /\ \A i \in 1 .. Len(S) + Len(T) :
            (S \o T)[i] = IF i <= Len(S) THEN S[i] ELSE T[i - Len(S)]
  BY ConcatProperties
<1>5. st \in [1 .. (Len(S \o T) + 1) -> G]
  BY <1>1, <1>2, <1>3, <1>4
<1>6. st[1] = p /\ st[Len(S \o T) + 1] = z
  BY <1>1, <1>2, <1>3, <1>4
<1>7. ASSUME NEW i \in 1 .. Len(S \o T)
      PROVE  Step(ms, st[i], (S \o T)[i], st[i + 1])
  <2>1. CASE i <= Len(S)
    <3>1. i \in 1 .. Len(S) /\ st[i] = a[i] /\ st[i + 1] = a[i + 1] /\ (S \o T)[i] = S[i]
      BY <1>3, <1>4, <2>1
    <3> QED
      BY <1>1, <3>1
  <2>2. CASE ~(i <= Len(S))
    <3> DEFINE j == i - Len(S)
    <3>1. j \in 1 .. Len(T) /\ (S \o T)[i] = T[j] /\ st[i + 1] = b[j + 1]
      BY <1>3, <1>4, <2>2
    <3>2. st[i] = b[j]
      BY <1>1, <1>2, <1>3, <1>4, <2>2
    <3> QED
      BY <1>2, <3>1, <3>2
  <2> QED
    BY <2>1, <2>2
<1> QED
  <2> HIDE DEF st
  <2> QED  BY <1>5, <1>6, <1>7 DEF Run

\* The positions st that a run goes through, with what comes after each.
Path(G, ms, p, S, z, st) ==
    /\ st \in [1 .. (Len(S) + 1) -> G]
    /\ st[1] = p
    /\ \A i \in 1 .. Len(S) : Step(ms, st[i], S[i], st[i + 1])
    /\ \A k \in 0 .. Len(S) : Run(G, ms, st[k + 1], Drop(S, k), z)

\* A run goes through positions, and from each of them the rest leads on to z.
LEMMA RunStates ==
    ASSUME NEW G, NEW ms,
           NEW S \in Seq(Symbols), NEW p, NEW z, Run(G, ms, p, S, z)
    PROVE  \E st : Path(G, ms, p, S, z, st)
<1>1. PICK st \in [1 .. (Len(S) + 1) -> G] :
          /\ st[1] = p /\ st[Len(S) + 1] = z
          /\ \A i \in 1 .. Len(S) : Step(ms, st[i], S[i], st[i + 1])
  BY DEF Run
<1>2. Len(S) \in Nat
  BY LenProperties
<1>3. ASSUME NEW k \in 0 .. Len(S) PROVE Run(G, ms, st[k + 1], Drop(S, k), z)
  <2> DEFINE u == Drop(S, k)
             b == [i \in 1 .. (Len(u) + 1) |-> st[k + i]]
  <2>1. Len(u) = Len(S) - k /\ \A i \in 1 .. Len(S) - k : u[i] = S[k + i]
    BY TakeDrop
  <2> HIDE DEF u
  <2>2. k \in Nat /\ Len(u) \in Nat /\ Len(u) + k = Len(S)
    BY <1>2, <2>1
  <2>3. ASSUME NEW i \in 1 .. (Len(u) + 1) PROVE k + i \in 1 .. (Len(S) + 1)
    BY <1>2, <2>2
  <2>4. b \in [1 .. (Len(u) + 1) -> G]
    BY <1>1, <2>3
  <2>5. b[1] = st[k + 1]
    BY <2>2
  <2>6. b[Len(u) + 1] = st[k + (Len(u) + 1)] /\ k + (Len(u) + 1) = Len(S) + 1
    <3>1. Len(u) + 1 \in 1 .. (Len(u) + 1) /\ k + (Len(u) + 1) = Len(S) + 1
      BY <1>2, <2>2
    <3> QED
      BY <3>1
  <2>7. ASSUME NEW i \in 1 .. Len(u) PROVE Step(ms, b[i], u[i], b[i + 1])
    <3>1. i \in 1 .. (Len(u) + 1) /\ i + 1 \in 1 .. (Len(u) + 1)
          /\ k + (i + 1) = (k + i) + 1 /\ k + i \in 1 .. Len(S)
      BY <1>2, <2>2
    <3>2. b[i] = st[k + i] /\ b[i + 1] = st[k + (i + 1)]
      BY <3>1
    <3>3. u[i] = S[k + i]
      BY <2>1, <2>2
    <3> QED
      BY <1>1, <3>1, <3>2, <3>3
  <2>8. Run(G, ms, b[1], u, z)
    <3> HIDE DEF b
    <3> QED  BY <1>1, <2>4, <2>6, <2>7 DEF Run
  <2> QED
    BY <2>5, <2>8 DEF u
<1> QED
  BY <1>1, <1>3 DEF Path

-----------------------------------------------------------------------------
(* Facts about steps                                                       *)

\* "\r", "\n" and the bytes of the body are told apart.
LEMMA SymbolsDiffer ==
    /\ CR # LF /\ CR.c = "CR" /\ LF.c = "LF"
    /\ \A i : Data(i).c = "data" /\ Data(i).n = i /\ Data(i) # CR /\ Data(i) # LF
BY DEF CR, LF, Data, Symbol

\* Good positions are positions.
LEMMA GoodPositions == Good \subseteq Positions
BY DEF Good

\* What is known of a good position.
LEMMA GoodFields ==
    ASSUME NEW p \in Good
    PROVE  /\ p.k \in Phases /\ p.left \in Nat /\ p.last \in BOOLEAN
           /\ p.d \in Nat /\ p.m \in Nat
           /\ p = At(p.k, p.left, p.last, p.d, p.m)
           /\ p.d + p.left <= written
           /\ p.last => ends > 0 /\ p.left = 0 /\ p.d = written
           /\ \/ MetaFails
              \/ /\ p.m <= Len(metas) - Len(meta_write)
                 /\ \A i \in (p.m + 1) .. Len(metas) : metas[i].at >= p.d + p.left
BY DEF Good, Positions, At

\* Only the phase changes.
Same(p, q, k) == q.k = k /\ q.left = p.left /\ q.last = p.last /\ q.d = p.d /\ q.m = p.m

\* A header position is only left by a header, and leads into its chunk.
LEMMA StepFromHeader ==
    ASSUME NEW ms, NEW p, NEW q, NEW s, Step(ms, p, s, q), p.k = "header"
    PROVE  /\ s.c = "len" /\ q.k = "cr" /\ q.left = s.n /\ q.last = (p.last \/ s.n = 0)
           /\ q.d = p.d /\ q.m = p.m + Len(s.m)
           /\ MetaFails \/ \A i \in 1 .. Len(s.m) : s.m[i] = ms[p.m + i]
<1>1. HeaderStep(ms, p, s, q)
  BY DEF Step, BodyStep, LineStep
<1> QED
  BY <1>1 DEF HeaderStep, At

\* Inside a body comes the next byte, and nothing else.
LEMMA StepInBody ==
    ASSUME NEW ms, NEW p, NEW q, NEW s, Step(ms, p, s, q), p.k = "body", p.left > 0
    PROVE  /\ s = Data(p.d + 1) /\ q.k = "body" /\ q.left = p.left - 1
           /\ q.last = p.last /\ q.d = p.d + 1 /\ q.m = p.m
<1>1. BodyStep(p, s, q)
  BY DEF Step, HeaderStep, LineStep
<1> QED
  BY <1>1 DEF BodyStep, At

\* Everywhere else comes the "\r" or "\n" that is due.
LEMMA StepInLine ==
    ASSUME NEW ms, NEW p \in Positions, NEW q, NEW s, Step(ms, p, s, q)
    PROVE  /\ p.k = "cr" => s = CR /\ Same(p, q, "lf")
           /\ p.k = "lf" => s = LF /\ Same(p, q, "body")
           /\ p.k = "body" /\ p.left = 0 => s = CR /\ Same(p, q, "bodylf")
           /\ p.k = "bodylf" => 
                 s = LF /\ Same(p, q, IF p.last /\ ~LoneEnd THEN "endcr" ELSE "header")
           /\ p.k = "endcr" => s = CR /\ Same(p, q, "endlf")
           /\ p.k = "endlf" => s = LF /\ Same(p, q, "header")
<1>2. CASE HeaderStep(ms, p, s, q)
  BY <1>2 DEF HeaderStep
<1>3. CASE BodyStep(p, s, q)
  BY <1>3 DEF BodyStep
<1>4. CASE LineStep(p, s, q)
  <2>1. ASSUME NEW n PROVE LET r == [p EXCEPT !.k = n] IN Same(p, r, n)
    BY DEF Positions, Same
  <2>2. CASE p.k = "cr"
    BY <1>4, <2>1, <2>2 DEF LineStep
  <2>3. CASE p.k = "lf"
    BY <1>4, <2>1, <2>3 DEF LineStep
  <2>4. CASE p.k = "body"
    BY <1>4, <2>1, <2>4 DEF LineStep
  <2>5. CASE p.k = "bodylf"
    BY <1>4, <2>1, <2>5 DEF LineStep
  <2>6. CASE p.k = "endcr"
    BY <1>4, <2>1, <2>6 DEF LineStep
  <2>7. CASE p.k = "endlf"
    BY <1>4, <2>1, <2>7 DEF LineStep
  <2> QED
    BY <1>4, <2>2, <2>3, <2>4, <2>5, <2>6, <2>7 DEF LineStep
<1> QED
  BY <1>2, <1>3, <1>4 DEF Step

-----------------------------------------------------------------------------
(* What a run looks like to the reader                                     *)

\* At a header: its three symbols, and the body after it.
LEMMA HeaderRun ==
    ASSUME NEW S \in Seq(Symbols), NEW p, NEW z, Run(Good, metas, p, S, z), p.k = "header"
    PROVE  /\ Len(S) >= 1 => S[1].c = "len"
           /\ Len(S) >= 2 => S[2] = CR
           /\ Len(S) >= 3 =>
                 /\ S[3] = LF
                 /\ MetaFails \/ \A i \in 1 .. Len(S[1].m) : S[1].m[i] = metas[p.m + i]
                 /\ \E q \in Good :
                       /\ Run(Good, metas, q, Drop(S, 3), z)
                       /\ q.k = "body" /\ q.left = S[1].n /\ q.last = (p.last \/ S[1].n = 0)
                       /\ q.d = p.d /\ q.m = p.m + Len(S[1].m)
<1>0. PICK st : Path(Good, metas, p, S, z, st)
  BY RunStates
<1> USE GoodPositions
<1>1. /\ st \in [1 .. (Len(S) + 1) -> Good]
      /\ st[1] = p
      /\ \A i \in 1 .. Len(S) : Step(metas, st[i], S[i], st[i + 1])
      /\ \A k \in 0 .. Len(S) : Run(Good, metas, st[k + 1], Drop(S, k), z)
  BY <1>0 DEF Path
<1>2. Len(S) \in Nat
  BY LenProperties
<1>3. ASSUME Len(S) >= 1
      PROVE  /\ st[1] \in Good /\ st[2] \in Good /\ Step(metas, st[1], S[1], st[2])
             /\ S[1].c = "len" /\ st[2].k = "cr"
  <2>1. 1 \in 1 .. Len(S) /\ 1 \in 1 .. (Len(S) + 1) /\ 2 \in 1 .. (Len(S) + 1) /\ 1 + 1 = 2
    BY <1>2, <1>3
  <2>2. st[1] \in Good /\ st[2] \in Good /\ Step(metas, st[1], S[1], st[2])
    BY <1>1, <2>1
  <2> QED
    BY <1>1, <2>2, StepFromHeader
<1>4. ASSUME Len(S) >= 2
      PROVE  st[3] \in Good /\ S[2] = CR /\ Same(st[2], st[3], "lf")
  <2>1. 2 \in 1 .. Len(S) /\ 3 \in 1 .. (Len(S) + 1) /\ 2 + 1 = 3 /\ Len(S) >= 1
    BY <1>2, <1>4
  <2>2. st[3] \in Good /\ Step(metas, st[2], S[2], st[3])
    BY <1>1, <2>1
  <2> QED
    BY <1>3, <2>1, <2>2, StepInLine
<1>5. ASSUME Len(S) >= 3
      PROVE  /\ S[3] = LF /\ st[4] \in Good /\ Same(st[3], st[4], "body")
             /\ Run(Good, metas, st[4], Drop(S, 3), z)
  <2>1. /\ 3 \in 1 .. Len(S) /\ 3 \in 0 .. Len(S) /\ 4 \in 1 .. (Len(S) + 1)
        /\ 3 + 1 = 4 /\ Len(S) >= 2
    BY <1>2, <1>5
  <2>2. st[4] \in Good /\ Step(metas, st[3], S[3], st[4]) /\ Run(Good, metas, st[4], Drop(S, 3), z)
    BY <1>1, <2>1
  <2>3. st[3] \in Good /\ st[3].k = "lf"
    BY <1>4, <2>1 DEF Same
  <2> QED
    BY <2>2, <2>3, StepInLine
<1>6. ASSUME Len(S) >= 3
      PROVE  /\ MetaFails \/ \A i \in 1 .. Len(S[1].m) : S[1].m[i] = metas[p.m + i]
             /\ st[4].k = "body" /\ st[4].left = S[1].n
             /\ st[4].last = (p.last \/ S[1].n = 0)
             /\ st[4].d = p.d /\ st[4].m = p.m + Len(S[1].m)
  <2>1. Len(S) >= 1 /\ Len(S) >= 2
    BY <1>2, <1>6
  <2>2. /\ st[2].left = S[1].n /\ st[2].last = (p.last \/ S[1].n = 0)
        /\ st[2].d = p.d /\ st[2].m = p.m + Len(S[1].m)
        /\ MetaFails \/ \A i \in 1 .. Len(S[1].m) : S[1].m[i] = metas[p.m + i]
    BY <1>1, <1>3, <2>1, StepFromHeader
  <2>3. Same(st[2], st[3], "lf") /\ Same(st[3], st[4], "body")
    BY <1>4, <1>5, <1>6, <2>1
  <2> QED
    BY <2>2, <2>3 DEF Same
<1> QED
  BY <1>3, <1>4, <1>5, <1>6

\* In a body: data as far as it goes.
LEMMA BodyRun ==
    ASSUME NEW S \in Seq(Symbols), NEW p, NEW z, Run(Good, metas, p, S, z), p.k = "body",
           NEW n \in 0 .. Len(S), n <= p.left
    PROVE  /\ \A i \in 1 .. n : S[i] = Data(p.d + i)
           /\ \E q \in Good :
                 /\ Run(Good, metas, q, Drop(S, n), z)
                 /\ q.k = "body" /\ q.left = p.left - n /\ q.last = p.last
                 /\ q.d = p.d + n /\ q.m = p.m
<1>0. PICK st : Path(Good, metas, p, S, z, st)
  BY RunStates
<1> USE GoodPositions
<1>1. /\ st \in [1 .. (Len(S) + 1) -> Good]
      /\ st[1] = p
      /\ \A i \in 1 .. Len(S) : Step(metas, st[i], S[i], st[i + 1])
      /\ \A k \in 0 .. Len(S) : Run(Good, metas, st[k + 1], Drop(S, k), z)
  BY <1>0 DEF Path
<1>2. Len(S) \in Nat /\ n \in Nat
  BY LenProperties
<1>3. p \in Good /\ p.left \in Nat /\ p.d \in Nat
  BY RunEnds, GoodFields
<1> DEFINE in(j) == /\ st[j + 1].k = "body" /\ st[j + 1].left = p.left - j
                    /\ st[j + 1].last = p.last /\ st[j + 1].d = p.d + j
                    /\ st[j + 1].m = p.m
           I == {j \in Nat : j <= n => in(j)}
<1>4. 0 \in I
  BY <1>1, <1>3
<1>5. ASSUME NEW j \in Nat, j < n, in(j)
      PROVE  S[j + 1] = Data(p.d + j + 1) /\ in(j + 1)
  <2>1. /\ j + 1 \in 1 .. Len(S) /\ j + 1 \in 1 .. (Len(S) + 1)
        /\ (j + 1) + 1 \in 1 .. (Len(S) + 1)
    BY <1>2, <1>5
  <2>2. /\ st[j + 1] \in Good /\ st[(j + 1) + 1] \in Good
        /\ Step(metas, st[j + 1], S[j + 1], st[(j + 1) + 1])
    BY <1>1, <2>1
  <2>3. st[j + 1].left > 0
    BY <1>2, <1>3, <1>5
  <2>4. /\ S[j + 1] = Data(st[j + 1].d + 1) /\ st[(j + 1) + 1].k = "body"
        /\ st[(j + 1) + 1].left = st[j + 1].left - 1
        /\ st[(j + 1) + 1].last = st[j + 1].last
        /\ st[(j + 1) + 1].d = st[j + 1].d + 1 /\ st[(j + 1) + 1].m = st[j + 1].m
    BY <1>5, <2>2, <2>3, StepInBody
  <2>5. p.left - j - 1 = p.left - (j + 1) /\ p.d + j + 1 = p.d + (j + 1)
    BY <1>3, SMTT(20)
  <2> QED
    BY <1>5, <2>4, <2>5
<1>6. ASSUME NEW j \in I \cap Nat PROVE j + 1 \in I
  BY <1>2, <1>5
<1>7. \A j \in Nat : j <= n => in(j)
  <2> HIDE DEF in
  <2>1. Nat \subseteq I
    <3> HIDE DEF I
    <3> QED  BY <1>4, <1>6, NatSetInduction
  <2> QED
    BY <2>1
<1>8. ASSUME NEW i \in 1 .. n PROVE S[i] = Data(p.d + i)
  <2>1. i - 1 \in Nat /\ i - 1 < n /\ (i - 1) + 1 = i /\ p.d + (i - 1) + 1 = p.d + i
    BY <1>2, <1>3
  <2>2. in(i - 1)
    <3> HIDE DEF in
    <3> QED  BY <1>2, <1>7, <2>1
  <2>3. S[(i - 1) + 1] = Data(p.d + (i - 1) + 1)
    <3> HIDE DEF in
    <3> QED  BY <1>5, <2>1, <2>2
  <2> QED
    BY <2>1, <2>3
<1>9. st[n + 1] \in Good /\ Run(Good, metas, st[n + 1], Drop(S, n), z)
  BY <1>1, <1>2
<1>10. in(n)
  <2> HIDE DEF in
  <2> QED  BY <1>2, <1>7
<1> QED
  BY <1>8, <1>9, <1>10

\* After a body: the line end.
LEMMA LineRun ==
    ASSUME NEW S \in Seq(Symbols), NEW p, NEW z, Run(Good, metas, p, S, z), p.k = "body", p.left = 0
    PROVE  /\ Len(S) = 0 => z.k = "body"
           /\ Len(S) = 1 => z.k = "bodylf"
           /\ Len(S) >= 1 => S[1] = CR
           /\ Len(S) >= 2 =>
                 /\ S[2] = LF
                 /\ \E q \in Good :
                       /\ Run(Good, metas, q, Drop(S, 2), z)
                       /\ Same(p, q, IF p.last /\ ~LoneEnd THEN "endcr" ELSE "header")
<1>0. PICK st : Path(Good, metas, p, S, z, st)
  BY RunStates
<1> USE GoodPositions
<1>1. /\ st \in [1 .. (Len(S) + 1) -> Good]
      /\ st[1] = p
      /\ \A i \in 1 .. Len(S) : Step(metas, st[i], S[i], st[i + 1])
      /\ \A k \in 0 .. Len(S) : Run(Good, metas, st[k + 1], Drop(S, k), z)
  BY <1>0 DEF Path
<1>2. Len(S) \in Nat
  BY LenProperties
<1>3. ASSUME Len(S) >= 1
      PROVE  /\ st[2] \in Good /\ S[1] = CR /\ Same(p, st[2], "bodylf")
             /\ Run(Good, metas, st[2], Drop(S, 1), z)
  <2>1. /\ 1 \in 1 .. Len(S) /\ 1 \in 0 .. Len(S) /\ 2 \in 1 .. (Len(S) + 1)
        /\ 1 \in 1 .. (Len(S) + 1) /\ 1 + 1 = 2
    BY <1>2, <1>3
  <2>2. /\ p \in Good /\ st[2] \in Good /\ Step(metas, p, S[1], st[2])
        /\ Run(Good, metas, st[2], Drop(S, 1), z)
    BY <1>1, <2>1
  <2> QED
    BY <2>2, StepInLine
<1>4. ASSUME Len(S) >= 2
      PROVE  /\ st[3] \in Good /\ S[2] = LF /\ Run(Good, metas, st[3], Drop(S, 2), z)
             /\ Same(p, st[3], IF p.last /\ ~LoneEnd THEN "endcr" ELSE "header")
  <2>1. /\ 2 \in 1 .. Len(S) /\ 2 \in 0 .. Len(S) /\ 3 \in 1 .. (Len(S) + 1)
        /\ 2 + 1 = 3 /\ Len(S) >= 1
    BY <1>2, <1>4
  <2>2. st[3] \in Good /\ Step(metas, st[2], S[2], st[3]) /\ Run(Good, metas, st[3], Drop(S, 2), z)
    BY <1>1, <2>1
  <2>3. st[2] \in Good /\ st[2].k = "bodylf" /\ st[2].last = p.last
    BY <1>3, <2>1 DEF Same
  <2>4. S[2] = LF /\ Same(st[2], st[3], IF st[2].last /\ ~LoneEnd THEN "endcr" ELSE "header")
    BY <2>2, <2>3, StepInLine
  <2> QED
    BY <1>3, <2>1, <2>2, <2>3, <2>4 DEF Same
<1>5. ASSUME Len(S) = 0 PROVE z.k = "body"
  <2>1. S = <<>>
    BY <1>5, EmptySeq
  <2> QED
    BY <2>1, RunEmpty
<1>6. ASSUME Len(S) = 1 PROVE z.k = "bodylf"
  <2>1. Drop(S, 1) \in Seq(Symbols) /\ Len(Drop(S, 1)) = 0
    <3>1. 1 \in 0 .. Len(S)
      BY <1>6
    <3>2. Drop(S, 1) \in Seq(Symbols) /\ Len(Drop(S, 1)) = Len(S) - 1
      BY <3>1, TakeDrop
    <3> QED
      BY <1>6, <3>2
  <2>2. Drop(S, 1) = <<>>
    BY <2>1, EmptySeq
  <2> QED
    BY <1>3, <1>6, <2>2, RunEmpty DEF Same
<1> QED
  BY <1>3, <1>4, <1>5, <1>6

-----------------------------------------------------------------------------
(* What the writer adds to a run                                           *)

\* A run stays one when more positions are allowed and meta data is attached.
LEMMA RunGrows ==
    ASSUME NEW G, NEW H, NEW ms \in Seq(Metas), NEW ns, NEW S \in Seq(Symbols),
           NEW p, NEW z, Run(G, ms, p, S, z), G \subseteq Positions, G \subseteq H,
           MetaFails \/ \A q \in G : q.m <= Len(ms),
           \A i \in 1 .. Len(ms) : ns[i] = ms[i]
    PROVE  Run(H, ns, p, S, z)
<1>1. PICK st \in [1 .. (Len(S) + 1) -> G] :
          /\ st[1] = p /\ st[Len(S) + 1] = z
          /\ \A i \in 1 .. Len(S) : Step(ms, st[i], S[i], st[i + 1])
  BY DEF Run
<1>2. Len(S) \in Nat /\ Len(ms) \in Nat /\ \A i \in 1 .. Len(S) : S[i] \in Symbols
  BY LenProperties
<1>3. ASSUME NEW a \in G, NEW b \in G, NEW s \in Symbols, Step(ms, a, s, b)
      PROVE  Step(ns, a, s, b)
  <2>1. CASE HeaderStep(ms, a, s, b)
    <3>1. a.m \in Nat /\ b.m \in Nat
      BY DEF Positions
    <3>2. Len(s.m) \in Nat
      BY LenProperties DEF Symbols
    <3>3. b.m = a.m + Len(s.m)
      BY <2>1 DEF HeaderStep, At
    <3>4. ASSUME ~MetaFails, NEW i \in 1 .. Len(s.m) PROVE s.m[i] = ns[a.m + i]
      <4>1. a.m + i \in 1 .. Len(ms)
        BY <1>2, <3>1, <3>2, <3>3, <3>4
      <4>2. s.m[i] = ms[a.m + i]
        BY <2>1, <3>4 DEF HeaderStep
      <4> QED
        BY <4>1, <4>2
    <3> QED
      BY <2>1, <3>4 DEF Step, HeaderStep
  <2> QED
    BY <1>3, <2>1 DEF Step
<1>4. ASSUME NEW i \in 1 .. Len(S) PROVE Step(ns, st[i], S[i], st[i + 1])
  <2>1. i \in 1 .. (Len(S) + 1) /\ i + 1 \in 1 .. (Len(S) + 1)
    BY <1>2
  <2>2. st[i] \in G /\ st[i + 1] \in G /\ S[i] \in Symbols /\ Step(ms, st[i], S[i], st[i + 1])
    BY <1>1, <1>2, <2>1
  <2> QED
    BY <1>3, <2>2
<1>5. st \in [1 .. (Len(S) + 1) -> H]
  BY <1>1
<1> QED
  BY <1>1, <1>4, <1>5 DEF Run

\* One step is a run.
LEMMA RunOne ==
    ASSUME NEW G, NEW ms, NEW p \in G, NEW q \in G, NEW s \in Symbols, Step(ms, p, s, q)
    PROVE  Run(G, ms, p, <<s>>, q)
<1> DEFINE st == [i \in 1 .. 2 |-> IF i = 1 THEN p ELSE q]
<1>1. Len(<<s>>) = 1 /\ <<s>>[1] = s
  OBVIOUS
<1>2. st \in [1 .. (1 + 1) -> G] /\ st[1] = p /\ st[1 + 1] = q
  OBVIOUS
<1> HIDE DEF st
<1>3. \A i \in 1 .. 1 : Step(ms, st[i], <<s>>[i], st[i + 1])
  BY <1>1, <1>2
<1> QED
  BY <1>1, <1>2, <1>3 DEF Run

\* The steps over the parts of a line end.
LEMMA LineStepsAt ==
    ASSUME NEW ms, NEW left \in Nat, NEW last \in BOOLEAN, NEW d \in Nat, NEW m \in Nat
    PROVE  /\ Step(ms, At("cr", left, last, d, m), CR, At("lf", left, last, d, m))
           /\ Step(ms, At("lf", left, last, d, m), LF, At("body", left, last, d, m))
           /\ Step(ms, At("body", 0, last, d, m), CR, At("bodylf", 0, last, d, m))
           /\ Step(ms, At("bodylf", 0, last, d, m), LF,
                   At(IF last /\ ~LoneEnd THEN "endcr" ELSE "header", 0, last, d, m))
           /\ Step(ms, At("endcr", 0, last, d, m), CR, At("endlf", 0, last, d, m))
           /\ Step(ms, At("endlf", 0, last, d, m), LF, At("header", 0, last, d, m))
BY DEF Step, LineStep, At

\* A line end after a position with phase k.
LEMMA TwoSteps ==
    ASSUME NEW G, NEW ms, NEW p \in G, NEW q \in G, NEW r \in G,
           CR \in Symbols, LF \in Symbols, Step(ms, p, CR, q), Step(ms, q, LF, r)
    PROVE  Run(G, ms, p, <<CR, LF>>, r)
<1>1. Run(G, ms, p, <<CR>>, q) /\ Run(G, ms, q, <<LF>>, r)
  BY RunOne
<1>2. <<CR>> \in Seq(Symbols) /\ <<LF>> \in Seq(Symbols)
  OBVIOUS
<1>4. <<CR>> \o <<LF>> = <<CR, LF>>
  <2>1. Len(<<CR>> \o <<LF>>) = 2 /\ <<CR>> \o <<LF>> \in Seq(Symbols)
        /\ (<<CR>> \o <<LF>>)[1] = CR /\ (<<CR>> \o <<LF>>)[2] = LF
    BY <1>2, ConcatProperties
  <2>2. Len(<<CR, LF>>) = 2 /\ <<CR, LF>> \in Seq(Symbols)
        /\ <<CR, LF>>[1] = CR /\ <<CR, LF>>[2] = LF
    OBVIOUS
  <2>3. \A i \in 1 .. 2 : i = 1 \/ i = 2
    OBVIOUS
  <2> HIDE DEF CR, LF
  <2>4. \A i \in 1 .. 2 : (<<CR>> \o <<LF>>)[i] = <<CR, LF>>[i]
    BY <2>1, <2>2, <2>3, Zenon
  <2> QED
    BY <2>1, <2>2, <2>4, SeqEqual
<1>3. Run(G, ms, p, <<CR>> \o <<LF>>, r)
  BY <1>1, <1>2, RunConcat, Zenon
<1> QED
  BY <1>3, <1>4

\* The body of a chunk.
LEMMA DataRun ==
    ASSUME NEW G, NEW ms, NEW w \in Nat, NEW n \in Nat, NEW last \in BOOLEAN,
           NEW m \in Nat, w + n <= MaxBytes,
           \A j \in 0 .. n : At("body", n - j, last, w + j, m) \in G
    PROVE  Run(G, ms, At("body", n, last, w, m), [i \in 1 .. n |-> Data(w + i)],
               At("body", 0, last, w + n, m))
<1> DEFINE body == [i \in 1 .. n |-> Data(w + i)]
           st == [i \in 1 .. (n + 1) |-> At("body", n - (i - 1), last, w + (i - 1), m)]
<1>1. Len(body) = n
  OBVIOUS
<1>2. st \in [1 .. (n + 1) -> G]
  <2>1. ASSUME NEW i \in 1 .. (n + 1) PROVE st[i] \in G
    <3>1. i - 1 \in 0 .. n
      OBVIOUS
    <3> QED
      BY <3>1
  <2> QED
    BY <2>1
<1>3. st[1] = At("body", n, last, w, m) /\ st[n + 1] = At("body", 0, last, w + n, m)
  <2>1. n - (1 - 1) = n /\ w + (1 - 1) = w /\ n - ((n + 1) - 1) = 0
        /\ w + ((n + 1) - 1) = w + n /\ 1 \in 1 .. (n + 1) /\ n + 1 \in 1 .. (n + 1)
    OBVIOUS
  <2> QED
    BY <2>1
<1>4. ASSUME NEW i \in 1 .. n PROVE Step(ms, st[i], body[i], st[i + 1])
  <2> DEFINE left == n - (i - 1)
             d == w + (i - 1)
  <2>1. /\ i \in 1 .. (n + 1) /\ i + 1 \in 1 .. (n + 1)
        /\ left \in Nat /\ left > 0 /\ n - ((i + 1) - 1) = left - 1
        /\ d + 1 = w + i /\ w + ((i + 1) - 1) = d + 1
    OBVIOUS
  <2>2. st[i] = At("body", left, last, d, m) /\ body[i] = Data(d + 1)
    BY <2>1
  <2>3. st[i + 1] = At("body", left - 1, last, d + 1, m)
    BY <2>1
  <2>4. Step(ms, At("body", left, last, d, m), Data(d + 1),
             At("body", left - 1, last, d + 1, m))
    <3> HIDE DEF left, d
    <3> QED  BY <2>1 DEF Step, BodyStep, At
  <2> QED
    BY <2>2, <2>3, <2>4
<1> QED
  <2> HIDE DEF st
  <2> QED  BY <1>1, <1>2, <1>3, <1>4 DEF Run

\* A line end is made of symbols.
LEMMA CRLFSymbols == CR \in Symbols /\ LF \in Symbols /\ <<CR, LF>> \in Seq(Symbols)
<1>1. <<>> \in Seq(Metas)
  OBVIOUS
<1>2. CR \in Symbols /\ LF \in Symbols
  BY <1>1, EncodingAssumption DEF CR, LF, Symbol, Symbols
<1> QED
  BY <1>2

\* What __enc_chunked_write builds is made of symbols.
LEMMA ChunkSymbols ==
    ASSUME NEW n \in Nat, NEW null \in BOOLEAN,
           written \in Nat, written + n <= MaxBytes, meta_write \in Seq(Metas)
    PROVE  Chunk(n, null) \in Seq(Symbols)
<1> DEFINE h == Symbol("len", n, meta_write)
           data == [i \in 1 .. n |-> Data(written + i)]
           tail == IF null /\ ~LoneEnd THEN <<CR, LF>> ELSE <<>>
<1>1. h \in Symbols
  BY EncodingAssumption DEF Symbol, Symbols
<1>2. data \in Seq(Symbols)
  <2>1. <<>> \in Seq(Metas)
    OBVIOUS
  <2>2. ASSUME NEW i \in 1 .. n PROVE Data(written + i) \in Symbols
    BY <2>1, EncodingAssumption DEF Data, Symbol, Symbols
  <2> QED
    BY <2>2
<1>3. Chunk(n, null) = ((<<h, CR, LF>> \o data) \o <<CR, LF>>) \o tail
  BY DEF Chunk
<1>4. tail \in Seq(Symbols)
  BY CRLFSymbols
<1> HIDE DEF h, data, tail
<1>5. <<h, CR, LF>> \in Seq(Symbols)
  BY <1>1, CRLFSymbols
<1>6. <<h, CR, LF>> \o data \in Seq(Symbols)
  BY <1>2, <1>5, ConcatProperties
<1>7. (<<h, CR, LF>> \o data) \o <<CR, LF>> \in Seq(Symbols)
  BY <1>6, CRLFSymbols, ConcatProperties
<1> QED
  BY <1>3, <1>4, <1>7, ConcatProperties

\* A chunk leads from the writer's position to its next one.
LEMMA ChunkRun ==
    ASSUME NEW G, NEW ms, NEW n \in Nat, NEW m \in Nat,
           NEW null \in BOOLEAN, NEW last \in BOOLEAN,
           written \in Nat, written + n <= MaxBytes, meta_write \in Seq(Metas),
           last => null, null <=> n = 0,
           At("header", 0, last, written, m) \in G,
           \A k \in Phases, left \in 0 .. n :
               At(k, left, null, written + (n - left), m + Len(meta_write)) \in G,
           MetaFails \/ \A i \in 1 .. Len(meta_write) : meta_write[i] = ms[m + i]
    PROVE  Run(G, ms, At("header", 0, last, written, m), Chunk(n, null),
               At("header", 0, null, written + n, m + Len(meta_write)))
<1> DEFINE h == Symbol("len", n, meta_write)
           w == written
           data == [i \in 1 .. n |-> Data(w + i)]
           tail == IF null /\ ~LoneEnd THEN <<CR, LF>> ELSE <<>>
           to == IF null /\ ~LoneEnd THEN "endcr" ELSE "header"
<1>0. PICK m2 \in Nat : m2 = m + Len(meta_write)
  BY LenProperties
<1>1. h \in Symbols /\ h.c = "len" /\ h.n = n /\ h.m = meta_write
  BY EncodingAssumption DEF Symbol, Symbols
<1>2. \A k \in Phases, left \in 0 .. n : At(k, left, null, w + (n - left), m2) \in G
  BY <1>0
<1>3. /\ \A k \in Phases : At(k, n, null, w, m2) \in G
      /\ \A k \in Phases : At(k, 0, null, w + n, m2) \in G
      /\ \A j \in 0 .. n : At("body", n - j, null, w + j, m2) \in G
  <2>1. n \in 0 .. n /\ 0 \in 0 .. n /\ w + (n - n) = w /\ w + (n - 0) = w + n
    OBVIOUS
  <2>2. \A k \in Phases : At(k, n, null, w + (n - n), m2) \in G
    BY <1>2, <2>1
  <2>3. \A k \in Phases : At(k, 0, null, w + (n - 0), m2) \in G
    BY <1>2, <2>1
  <2>4. ASSUME NEW j \in 0 .. n PROVE At("body", n - j, null, w + j, m2) \in G
    <3>1. n - j \in 0 .. n /\ w + (n - (n - j)) = w + j /\ "body" \in Phases
      BY DEF Phases
    <3>2. At("body", n - j, null, w + (n - (n - j)), m2) \in G
      BY <1>2, <3>1
    <3> QED
      BY <3>1, <3>2
  <2> QED
    BY <2>1, <2>2, <2>3, <2>4
<1>4. /\ "cr" \in Phases /\ "lf" \in Phases /\ "body" \in Phases /\ "bodylf" \in Phases
      /\ "endcr" \in Phases /\ "endlf" \in Phases /\ "header" \in Phases /\ to \in Phases
  BY DEF Phases
<1>5. CR \in Symbols /\ LF \in Symbols /\ <<CR, LF>> \in Seq(Symbols)
  BY CRLFSymbols
<1>6. Step(ms, At("header", 0, last, w, m), h, At("cr", n, null, w, m2))
  <2>1. HeaderStep(ms, At("header", 0, last, w, m), h, At("cr", n, null, w, m2))
    <3>1. At("cr", n, null, w, m2) = At("cr", h.n, last \/ h.n = 0, w, m + Len(h.m))
      <4>1. null = (last \/ h.n = 0) /\ m + Len(h.m) = m2
        BY <1>0, <1>1
      <4> QED
        BY <1>1, <4>1
    <3> HIDE DEF h
    <3> QED  BY <1>1, <3>1 DEF HeaderStep, At
  <2> QED
    BY <2>1 DEF Step
<1>7. Run(G, ms, At("header", 0, last, w, m), <<h>>, At("cr", n, null, w, m2))
  <2> HIDE DEF h
  <2>1. At("cr", n, null, w, m2) \in G
    BY <1>3, <1>4
  <2> QED
    BY <1>1, <1>6, <2>1, RunOne
<1>8. Run(G, ms, At("cr", n, null, w, m2), <<CR, LF>>, At("body", n, null, w, m2))
  BY <1>3, <1>4, <1>5, LineStepsAt, TwoSteps
<1>9. Run(G, ms, At("body", n, null, w, m2), data, At("body", 0, null, w + n, m2))
  BY <1>3, DataRun
<1>10. Run(G, ms, At("body", 0, null, w + n, m2), <<CR, LF>>, At(to, 0, null, w + n, m2))
  <2>1. 0 \in Nat /\ w + n \in Nat
    OBVIOUS
  <2>2. Step(ms, At("body", 0, null, w + n, m2), CR, At("bodylf", 0, null, w + n, m2))
    BY <2>1, LineStepsAt
  <2>3. Step(ms, At("bodylf", 0, null, w + n, m2), LF, At(to, 0, null, w + n, m2))
    BY <2>1, LineStepsAt
  <2> HIDE DEF to
  <2> QED
    BY <1>3, <1>4, <1>5, <2>2, <2>3, TwoSteps
<1>11. Run(G, ms, At(to, 0, null, w + n, m2), tail, At("header", 0, null, w + n, m2))
  <2>1. CASE null /\ ~LoneEnd
    <3>1. Run(G, ms, At("endcr", 0, null, w + n, m2), <<CR, LF>>,
              At("header", 0, null, w + n, m2))
      <4>1. 0 \in Nat /\ w + n \in Nat
        OBVIOUS
      <4>2. Step(ms, At("endcr", 0, null, w + n, m2), CR, At("endlf", 0, null, w + n, m2))
        BY <4>1, LineStepsAt
      <4>3. Step(ms, At("endlf", 0, null, w + n, m2), LF, At("header", 0, null, w + n, m2))
        BY <4>1, LineStepsAt
      <4> QED
        BY <1>3, <1>4, <1>5, <4>2, <4>3, TwoSteps
    <3> QED
      BY <2>1, <3>1
  <2>2. CASE ~(null /\ ~LoneEnd)
    BY <1>3, <1>4, <2>2, RunStay
  <2> QED
    BY <2>1, <2>2
<1>12. /\ <<h>> \in Seq(Symbols) /\ data \in Seq(Symbols) /\ tail \in Seq(Symbols)
       /\ <<h, CR, LF>> \in Seq(Symbols)
  <2>1. <<>> \in Seq(Metas)
    OBVIOUS
  <2>2. ASSUME NEW i \in 1 .. n PROVE Data(w + i) \in Symbols
    BY <2>1, EncodingAssumption DEF Data, Symbol, Symbols
  <2>3. data \in Seq(Symbols)
    BY <2>2
  <2> HIDE DEF h
  <2> QED
    BY <1>1, <1>5, <2>3
<1>13. <<h>> \o <<CR, LF>> = <<h, CR, LF>>
  <2> HIDE DEF h
  <2>1. Len(<<h>> \o <<CR, LF>>) = 3 /\ <<h>> \o <<CR, LF>> \in Seq(Symbols)
        /\ (<<h>> \o <<CR, LF>>)[1] = h /\ (<<h>> \o <<CR, LF>>)[2] = CR
        /\ (<<h>> \o <<CR, LF>>)[3] = LF
    BY <1>5, <1>12, ConcatProperties
  <2>2. Len(<<h, CR, LF>>) = 3
        /\ <<h, CR, LF>>[1] = h /\ <<h, CR, LF>>[2] = CR /\ <<h, CR, LF>>[3] = LF
    OBVIOUS
  <2>3. \A i \in 1 .. 3 : i = 1 \/ i = 2 \/ i = 3
    OBVIOUS
  <2> HIDE DEF CR, LF
  <2>4. \A i \in 1 .. 3 : (<<h>> \o <<CR, LF>>)[i] = <<h, CR, LF>>[i]
    BY <2>1, <2>2, <2>3, Zenon
  <2> QED
    BY <1>12, <2>1, <2>2, <2>4, SeqEqual, ZenonT(40)
<1>14. /\ <<h, CR, LF>> \o data \in Seq(Symbols)
       /\ (<<h, CR, LF>> \o data) \o <<CR, LF>> \in Seq(Symbols)
       /\ Chunk(n, null) = ((<<h, CR, LF>> \o data) \o <<CR, LF>>) \o tail
  <2>1. Chunk(n, null) = ((<<h, CR, LF>> \o data) \o <<CR, LF>>) \o tail
    BY DEF Chunk
  <2> HIDE DEF h, data, tail
  <2>2. <<h, CR, LF>> \o data \in Seq(Symbols)
    BY <1>12, ConcatProperties
  <2>3. (<<h, CR, LF>> \o data) \o <<CR, LF>> \in Seq(Symbols)
    BY <1>5, <2>2, ConcatProperties
  <2> QED
    BY <2>1, <2>2, <2>3
<1> HIDE DEF h, data, tail, to, w
<1>15. Run(G, ms, At("header", 0, last, w, m), <<h, CR, LF>>, At("body", n, null, w, m2))
  <2>1. Run(G, ms, At("header", 0, last, w, m), <<h>> \o <<CR, LF>>,
            At("body", n, null, w, m2))
    BY <1>5, <1>7, <1>8, <1>12, RunConcat, Zenon
  <2> QED
    BY <1>13, <2>1, Zenon
<1>16. Run(G, ms, At("header", 0, last, w, m), <<h, CR, LF>> \o data,
           At("body", 0, null, w + n, m2))
  BY <1>9, <1>12, <1>15, RunConcat, Zenon
<1>17. Run(G, ms, At("header", 0, last, w, m), (<<h, CR, LF>> \o data) \o <<CR, LF>>,
           At(to, 0, null, w + n, m2))
  BY <1>5, <1>10, <1>14, <1>16, RunConcat, Zenon
<1>18. Run(G, ms, At("header", 0, last, w, m), ((<<h, CR, LF>> \o data) \o <<CR, LF>>) \o tail,
           At("header", 0, null, w + n, m2))
  BY <1>11, <1>12, <1>14, <1>17, RunConcat, Zenon
<1> QED
  BY <1>0, <1>14, <1>18 DEF w

-----------------------------------------------------------------------------
(* What a call of __enc_chunked_read does                                  *)

\* Answer a is right at position q, when rest is still to come and z is the
\* writer's position: it has the next data and meta data, and the reader goes on
\* at the position behind them.
Reads(q, a, rest, z) ==
    /\ a.r \in Reader /\ ~a.r.bad /\ Kept(a.r)
    /\ a.out \in Seq(Symbols) /\ a.meta \in Seq(Metas)
    /\ \A i \in 1 .. Len(a.out \o a.r.decoded) : (a.out \o a.r.decoded)[i] = Data(q.d + i)
    /\ MetaFails \/ \A i \in 1 .. Len(a.meta) : a.meta[i] = metas[q.m + i]
    /\ \E p \in Good :
          /\ Counters(a.r, p) /\ p.d = q.d + Len(a.out \o a.r.decoded)
          /\ p.m = q.m + Len(a.meta)
          /\ a.r.bytes_till_eof # 0 => Run(Good, metas, p, a.r.raw \o rest, z)

\* The symbols of two parts of the stream, joined.
LEMMA ConcatSymbols ==
    ASSUME NEW s \in Seq(Symbols), NEW t \in Seq(Symbols)
    PROVE  /\ s \o t \in Seq(Symbols) /\ Len(s \o t) = Len(s) + Len(t)
           /\ Len(s) \in Nat /\ Len(t) \in Nat
           /\ \A i \in 1 .. Len(s) : (s \o t)[i] = s[i]
           /\ \A i \in 1 .. Len(t) : (s \o t)[Len(s) + i] = t[i]
<1>1. Len(s) \in Nat /\ Len(t) \in Nat
  BY LenProperties
<1>2. /\ s \o t \in Seq(Symbols) /\ Len(s \o t) = Len(s) + Len(t)
      /\ \A i \in 1 .. Len(s) + Len(t) :
            (s \o t)[i] = IF i <= Len(s) THEN s[i] ELSE t[i - Len(s)]
  BY ConcatProperties
<1>3. ASSUME NEW i \in 1 .. Len(s) PROVE (s \o t)[i] = s[i]
  BY <1>1, <1>2
<1>4. ASSUME NEW i \in 1 .. Len(t) PROVE (s \o t)[Len(s) + i] = t[i]
  <2>1. Len(s) + i \in 1 .. Len(s) + Len(t) /\ ~(Len(s) + i <= Len(s))
        /\ (Len(s) + i) - Len(s) = i
    BY <1>1
  <2> QED
    BY <1>2, <2>1
<1> QED
  BY <1>1, <1>2, <1>3, <1>4

\* Taking symbols off the first part takes them off the whole.
LEMMA DropConcat ==
    ASSUME NEW s \in Seq(Symbols), NEW t \in Seq(Symbols), NEW k \in 0 .. Len(s)
    PROVE  Drop(s \o t, k) = Drop(s, k) \o t
<1> DEFINE u == s \o t
           d == Drop(s, k)
<1>1. /\ u \in Seq(Symbols) /\ Len(u) = Len(s) + Len(t)
      /\ \A i \in 1 .. Len(s) + Len(t) : u[i] = IF i <= Len(s) THEN s[i] ELSE t[i - Len(s)]
  BY ConcatProperties
<1>2. Len(s) \in Nat /\ Len(t) \in Nat
  BY LenProperties
<1>3. d \in Seq(Symbols) /\ Len(d) = Len(s) - k /\ \A i \in 1 .. Len(s) - k : d[i] = s[k + i]
  BY TakeDrop
<1>4. /\ d \o t \in Seq(Symbols) /\ Len(d \o t) = Len(d) + Len(t)
      /\ \A i \in 1 .. Len(d) + Len(t) : (d \o t)[i] = IF i <= Len(d) THEN d[i] ELSE t[i - Len(d)]
  <2> HIDE DEF d
  <2> QED  BY <1>3, ConcatProperties
<1>5. /\ Drop(u, k) \in Seq(Symbols) /\ Len(Drop(u, k)) = Len(u) - k
      /\ \A i \in 1 .. Len(u) - k : Drop(u, k)[i] = u[k + i]
  <2>1. k \in 0 .. Len(u)
    BY <1>1, <1>2
  <2> HIDE DEF u
  <2> QED  BY <1>1, <2>1, TakeDrop
<1> HIDE DEF u, d
<1>6. Len(Drop(u, k)) = Len(d \o t)
  BY <1>1, <1>2, <1>3, <1>4, <1>5
<1>7. ASSUME NEW i \in 1 .. Len(Drop(u, k)) PROVE Drop(u, k)[i] = (d \o t)[i]
  <2>1. k + i \in 1 .. Len(s) + Len(t) /\ i \in 1 .. Len(d) + Len(t) /\ i \in 1 .. Len(u) - k
    BY <1>1, <1>2, <1>3, <1>5
  <2>2. Drop(u, k)[i] = u[k + i]
    BY <1>5, <2>1
  <2>3. CASE i <= Len(d)
    <3>1. k + i <= Len(s) /\ i \in 1 .. Len(s) - k
      BY <1>2, <1>3, <2>3
    <3> QED
      BY <1>1, <1>3, <1>4, <2>1, <2>2, <2>3, <3>1
  <2>4. CASE ~(i <= Len(d))
    <3>1. ~(k + i <= Len(s)) /\ (k + i) - Len(s) = i - Len(d)
      BY <1>2, <1>3, <2>4
    <3> QED
      BY <1>1, <1>4, <2>1, <2>2, <2>4, <3>1
  <2> QED
    BY <2>3, <2>4
<1> QED
  BY <1>4, <1>5, <1>6, <1>7, SeqEqual DEF u, d

\* Taking off everything, and taking off nothing.
LEMMA DropAll ==
    ASSUME NEW s \in Seq(Symbols)
    PROVE  Drop(s, Len(s)) = <<>> /\ Drop(s, 0) = s
<1>1. Len(s) \in Nat
  BY LenProperties
<1>2. Drop(s, Len(s)) \in Seq(Symbols) /\ Len(Drop(s, Len(s))) = 0
  <2>1. Len(s) \in 0 .. Len(s) /\ Len(s) - Len(s) = 0
    BY <1>1
  <2> QED
    BY <2>1, TakeDrop
<1>3. Drop(s, 0) = s
  BY SubSeqFull DEF Drop
<1> QED
  BY <1>2, <1>3, EmptySeq

\* What a record of the reader becomes.
LEMMA ReaderTypes ==
    ASSUME NEW r \in Reader
    PROVE  /\ r.raw \in Seq(Symbols) /\ r.decoded \in Seq(Symbols)
           /\ r.bytes_till_eof \in {-1, 0, 2} /\ r.read_bytes_till_header \in Nat
           /\ r.bad \in BOOLEAN
           /\ r = [raw |-> r.raw, decoded |-> r.decoded, bytes_till_eof |-> r.bytes_till_eof,
                   read_bytes_till_header |-> r.read_bytes_till_header, bad |-> r.bad]
BY DEF Reader

\* An answer that changes nothing.
LEMMA SameReads ==
    ASSUME NEW r \in Reader, NEW q \in Good, NEW rest, NEW z,
           r.decoded = <<>>, ~r.bad, Kept(r), Counters(r, q),
           r.bytes_till_eof # 0 => Run(Good, metas, q, r.raw \o rest, z)
    PROVE  Reads(q, Answer(r, <<>>, <<>>), rest, z)
<1>0. PICK a : a = Answer(r, <<>>, <<>>)
  OBVIOUS
<1>1. a.r = r /\ a.out = <<>> /\ a.meta = <<>>
  BY <1>0 DEF Answer
<1>2. /\ a.out \o a.r.decoded = <<>> /\ Len(a.out \o a.r.decoded) = 0 /\ Len(a.meta) = 0
      /\ a.out \in Seq(Symbols) /\ a.meta \in Seq(Metas)
  BY <1>1, ConcatEmptySeq, EmptySeq
<1>3. q.d = q.d + Len(a.out \o a.r.decoded) /\ q.m = q.m + Len(a.meta)
  BY <1>2, GoodFields
<1>4. \E p \in Good :
          /\ Counters(a.r, p) /\ p.d = q.d + Len(a.out \o a.r.decoded)
          /\ p.m = q.m + Len(a.meta)
          /\ a.r.bytes_till_eof # 0 => Run(Good, metas, p, a.r.raw \o rest, z)
  BY <1>1, <1>3, Zenon
<1>5. /\ \A i \in 1 .. Len(a.out \o a.r.decoded) : (a.out \o a.r.decoded)[i] = Data(q.d + i)
      /\ \A i \in 1 .. Len(a.meta) : a.meta[i] = metas[q.m + i]
  BY <1>2
<1> QED
  BY <1>0, <1>1, <1>2, <1>4, <1>5, Zenon DEF Reads

\* An answer that returns no bytes but decodes some.
LEMMA DecodedReads ==
    ASSUME NEW r \in Reader, NEW meta \in Seq(Metas), NEW q \in Good, NEW p \in Good,
           NEW rest, NEW z, ~r.bad, Kept(r), Counters(r, p),
           \A i \in 1 .. Len(r.decoded) : r.decoded[i] = Data(q.d + i),
           MetaFails \/ \A i \in 1 .. Len(meta) : meta[i] = metas[q.m + i],
           p.d = q.d + Len(r.decoded), p.m = q.m + Len(meta),
           r.bytes_till_eof # 0 => Run(Good, metas, p, r.raw \o rest, z)
    PROVE  Reads(q, Answer(r, <<>>, meta), rest, z)
<1>0. PICK a : a = Answer(r, <<>>, meta)
  OBVIOUS
<1>1. a.r = r /\ a.out = <<>> /\ a.meta = meta
  BY <1>0 DEF Answer
<1>2. a.out \o a.r.decoded = r.decoded /\ a.out \in Seq(Symbols)
  BY <1>1, ReaderTypes, ConcatEmptySeq, EmptySeq
<1>3. \E x \in Good :
          /\ Counters(a.r, x) /\ x.d = q.d + Len(a.out \o a.r.decoded)
          /\ x.m = q.m + Len(a.meta)
          /\ a.r.bytes_till_eof # 0 => Run(Good, metas, x, a.r.raw \o rest, z)
  BY <1>1, <1>2, Zenon
<1> QED
  BY <1>0, <1>1, <1>2, <1>3, Zenon DEF Reads

\* Reader s is what becomes of r when the header before "body" was taken off.
AfterHeader(r, n, body, s) ==
    LET eof  == IF n = 0 THEN 2 ELSE -1
        tail == Drop(body, n)
    IN  /\ s \in Reader /\ s.bad = r.bad
        /\ body = <<>> =>
              /\ s.raw = <<>> /\ s.decoded = <<>> /\ s.bytes_till_eof = eof
              /\ s.read_bytes_till_header = n + 2
        /\ body # <<>> /\ Len(body) <= n =>
              /\ s.raw = <<>> /\ s.decoded = body /\ s.bytes_till_eof = eof
              /\ s.read_bytes_till_header = n + 2 - Len(body)
        /\ Len(body) > n /\ Len(tail) < 2 =>
              /\ s.raw = tail /\ s.decoded = Take(body, n) /\ s.bytes_till_eof = eof
              /\ s.read_bytes_till_header = 2
        /\ Len(body) > n /\ ~(Len(tail) < 2) =>
              /\ s.raw = Drop(tail, 2) /\ s.decoded = Take(body, n)
              /\ s.bytes_till_eof = (IF n = 0 THEN 0 ELSE -1)
              /\ s.read_bytes_till_header = 0

\* Body, case by case: what __enc_chunked_read leaves after a header.
LEMMA BodyResult ==
    ASSUME NEW r \in Reader, NEW n \in Nat, NEW body \in Seq(Symbols),
           r.decoded = <<>>, r.read_bytes_till_header = 0, r.bytes_till_eof = -1
    PROVE  AfterHeader(r, n, body, Body(r, n, body))
<1> SUFFICES
      LET s    == Body(r, n, body)
          eof  == IF n = 0 THEN 2 ELSE -1
          tail == Drop(body, n)
      IN  /\ s \in Reader /\ s.bad = r.bad
          /\ body = <<>> =>
                /\ s.raw = <<>> /\ s.decoded = <<>> /\ s.bytes_till_eof = eof
                /\ s.read_bytes_till_header = n + 2
          /\ body # <<>> /\ Len(body) <= n =>
                /\ s.raw = <<>> /\ s.decoded = body /\ s.bytes_till_eof = eof
                /\ s.read_bytes_till_header = n + 2 - Len(body)
          /\ Len(body) > n /\ Len(tail) < 2 =>
                /\ s.raw = tail /\ s.decoded = Take(body, n) /\ s.bytes_till_eof = eof
                /\ s.read_bytes_till_header = 2
          /\ Len(body) > n /\ ~(Len(tail) < 2) =>
                /\ s.raw = Drop(tail, 2) /\ s.decoded = Take(body, n)
                /\ s.bytes_till_eof = (IF n = 0 THEN 0 ELSE -1)
                /\ s.read_bytes_till_header = 0
  BY DEF AfterHeader
<1>0. PICK eof \in {-1, 2} : eof = IF n = 0 THEN 2 ELSE r.bytes_till_eof
  OBVIOUS
<1>1. PICK tail : tail = Drop(body, n)
  OBVIOUS
<1>2. Len(body) \in Nat /\ (body = <<>> <=> Len(body) = 0) /\ <<>> \in Seq(Symbols)
  BY LenProperties, EmptySeq
<1>3. ASSUME Len(body) > n
      PROVE  /\ Take(body, n) \in Seq(Symbols) /\ tail \in Seq(Symbols)
             /\ Len(tail) \in Nat
             /\ ~(Len(tail) < 2) => Drop(tail, 2) \in Seq(Symbols)
  <2>1. n \in 0 .. Len(body)
    BY <1>2, <1>3
  <2>2. Take(body, n) \in Seq(Symbols) /\ tail \in Seq(Symbols) /\ Len(tail) \in Nat
    BY <1>1, <2>1, TakeDrop, LenProperties
  <2>3. ~(Len(tail) < 2) => 2 \in 0 .. Len(tail)
    BY <2>2
  <2> QED
    BY <2>2, <2>3, TakeDrop
<1>4. CASE body = <<>>
  <2>1. Body(r, n, body) = [r EXCEPT !.raw = body, !.bytes_till_eof = eof,
                                     !.read_bytes_till_header = n + 2]
    BY <1>0, <1>4 DEF Body
  <2>2. PICK s : s = [r EXCEPT !.raw = body, !.bytes_till_eof = eof,
                               !.read_bytes_till_header = n + 2]
    OBVIOUS
  <2>3. /\ s \in Reader /\ s.bad = r.bad /\ s.raw = body /\ s.decoded = r.decoded
        /\ s.bytes_till_eof = eof /\ s.read_bytes_till_header = n + 2
    <3>1. n + 2 \in Nat
      OBVIOUS
    <3> QED
      BY <2>2, <3>1 DEF Reader
  <2>4. ~(Len(body) > n)
    BY <1>2, <1>4
  <2> QED
    BY <1>0, <1>4, <2>1, <2>2, <2>3, <2>4
<1>5. CASE body # <<>> /\ Len(body) <= n
  <2>1. Body(r, n, body) = [r EXCEPT !.raw = <<>>, !.decoded = body, !.bytes_till_eof = eof,
                                     !.read_bytes_till_header = n + 2 - Len(body)]
    BY <1>0, <1>5 DEF Body
  <2>2. PICK s : s = [r EXCEPT !.raw = <<>>, !.decoded = body, !.bytes_till_eof = eof,
                               !.read_bytes_till_header = n + 2 - Len(body)]
    OBVIOUS
  <2>3. n + 2 - Len(body) \in Nat /\ ~(Len(body) > n)
    BY <1>2, <1>5
  <2>4. /\ s \in Reader /\ s.bad = r.bad /\ s.raw = <<>> /\ s.decoded = body
        /\ s.bytes_till_eof = eof /\ s.read_bytes_till_header = n + 2 - Len(body)
    BY <1>2, <2>2, <2>3 DEF Reader
  <2> QED
    BY <1>0, <1>5, <2>1, <2>2, <2>3, <2>4
<1>6. CASE Len(body) > n /\ Len(tail) < 2
  <2>0. body # <<>> /\ ~(Len(body) <= n)
    BY <1>2, <1>6
  <2>1. Body(r, n, body) = [r EXCEPT !.raw = tail, !.decoded = Take(body, n),
                                     !.bytes_till_eof = eof, !.read_bytes_till_header = 2]
    BY <1>0, <1>1, <1>6, <2>0 DEF Body
  <2>2. PICK s : s = [r EXCEPT !.raw = tail, !.decoded = Take(body, n),
                               !.bytes_till_eof = eof, !.read_bytes_till_header = 2]
    OBVIOUS
  <2>3. /\ s \in Reader /\ s.bad = r.bad /\ s.raw = tail /\ s.decoded = Take(body, n)
        /\ s.bytes_till_eof = eof /\ s.read_bytes_till_header = 2
    BY <1>3, <1>6, <2>2 DEF Reader
  <2> QED
    BY <1>0, <1>1, <1>6, <2>0, <2>1, <2>2, <2>3
<1>7. CASE Len(body) > n /\ ~(Len(tail) < 2)
  <2>0. body # <<>> /\ ~(Len(body) <= n)
    BY <1>2, <1>7
  <2>1. PICK e \in {-1, 0} : e = IF eof # -1 THEN 0 ELSE eof
    BY <1>0
  <2>2. Body(r, n, body) = [r EXCEPT !.raw = Drop(tail, 2), !.decoded = Take(body, n),
                                     !.bytes_till_eof = e, !.read_bytes_till_header = 0]
    BY <1>0, <1>1, <1>7, <2>0, <2>1 DEF Body
  <2>3. PICK s : s = [r EXCEPT !.raw = Drop(tail, 2), !.decoded = Take(body, n),
                               !.bytes_till_eof = e, !.read_bytes_till_header = 0]
    OBVIOUS
  <2>4. /\ s \in Reader /\ s.bad = r.bad /\ s.raw = Drop(tail, 2)
        /\ s.decoded = Take(body, n)
        /\ s.bytes_till_eof = e /\ s.read_bytes_till_header = 0
    BY <1>3, <1>7, <2>3 DEF Reader
  <2>5. e = IF n = 0 THEN 0 ELSE -1
    BY <1>0, <2>1
  <2> QED
    BY <1>1, <1>7, <2>0, <2>2, <2>3, <2>4, <2>5
<1> QED
  BY <1>1, <1>2, <1>4, <1>5, <1>6, <1>7

\* The counters of a reader that is inside a body.
LEMMA CountersInBody ==
    ASSUME NEW r \in Reader, NEW q \in Good, q.k = "body",
           r.read_bytes_till_header = q.left + 2, q.last <=> r.bytes_till_eof # -1
    PROVE  Counters(r, q)
<1>1. q.left \in Nat
  BY GoodFields
<1>2. r.read_bytes_till_header # 0
  BY <1>1
<1> QED
  BY <1>2, Zenon DEF Counters

\* The counters of a reader that skipped the "\r\n" after a body.
LEMMA CountersAfterLine ==
    ASSUME NEW r \in Reader, NEW q \in Good, r.read_bytes_till_header = 0,
           q.last <=> r.bytes_till_eof # -1,
           q.k = IF q.last /\ ~LoneEnd THEN "endcr" ELSE "header"
    PROVE  Counters(r, q)
<1>1. ~q.last => q.k = "header"
  BY Zenon
<1>2. q.last => q.k = IF LoneEnd THEN "header" ELSE "endcr"
  BY Zenon
<1>3. r.bytes_till_eof = 2 => r.bytes_till_eof # -1
  OBVIOUS
<1> QED
  BY <1>1, <1>2, <1>3, Zenon DEF Counters

\* A header was taken off; q is the position before it and y the one after it.
LEMMA BodyReads ==
    ASSUME NEW r \in Reader, NEW meta \in Seq(Metas), NEW q \in Good, NEW y \in Good,
           NEW z, NEW n \in Nat, NEW body \in Seq(Symbols), NEW rest \in Seq(Symbols),
           r.decoded = <<>>, ~r.bad, r.read_bytes_till_header = 0, r.bytes_till_eof = -1,
           y.k = "body", y.left = n, y.last <=> n = 0, y.d = q.d, y.m = q.m + Len(meta),
           MetaFails \/ \A i \in 1 .. Len(meta) : meta[i] = metas[q.m + i],
           Run(Good, metas, y, body \o rest, z)
    PROVE  Reads(q, Answer(Body(r, n, body), <<>>, meta), rest, z)
<1>0. PICK eof \in {-1, 2} : eof = IF n = 0 THEN 2 ELSE -1
  OBVIOUS
<1>e. y.last <=> eof # -1
  <2>1. eof # -1 <=> n = 0
    BY <1>0
  <2> QED
    BY <2>1, Zenon
<1>1. /\ y.d \in Nat /\ y.m \in Nat /\ q.d \in Nat /\ Len(body) \in Nat /\ Len(rest) \in Nat
  BY GoodFields, LenProperties
<1>S. PICK S : S = body \o rest
  OBVIOUS
<1>2. body \o rest \in Seq(Symbols) /\ Len(body \o rest) = Len(body) + Len(rest)
      /\ \A i \in 1 .. Len(body) : (body \o rest)[i] = body[i]
  <2>1. /\ body \o rest \in Seq(Symbols) /\ Len(body \o rest) = Len(body) + Len(rest)
        /\ \A i \in 1 .. Len(body) + Len(rest) :
              (body \o rest)[i] = IF i <= Len(body) THEN body[i] ELSE rest[i - Len(body)]
    BY ConcatProperties
  <2> QED
    BY <1>1, <2>1
<1>3. PICK s : s = Body(r, n, body)
  OBVIOUS
<1>s. PICK tail : tail = Drop(body, n)
  OBVIOUS
<1>r. AfterHeader(r, n, body, s)
  BY <1>3, BodyResult
<1>b. s \in Reader /\ ~s.bad
  BY <1>r DEF AfterHeader
<1>4. CASE body = <<>>
  <2>1. s.raw = <<>> /\ s.decoded = body /\ s.bytes_till_eof = eof
        /\ s.read_bytes_till_header = y.left + 2
    BY <1>0, <1>4, <1>r DEF AfterHeader
  <2>2. eof # 0
    BY <1>0
  <2>3. Kept(s)
    BY <2>1, <2>2, <1>1, GoodFields DEF Kept
  <2>4. Counters(s, y)
    BY <1>e, <1>b, <2>1, CountersInBody, Zenon
  <2>5. Len(s.decoded) = 0
    BY <1>4, <2>1
  <2>6. y.d = q.d + Len(s.decoded)
        /\ \A i \in 1 .. Len(s.decoded) : s.decoded[i] = Data(q.d + i)
    BY <1>1, <2>5
  <2>7. Run(Good, metas, y, s.raw \o rest, z)
    BY <1>4, <2>1
  <2> QED
    BY <1>3, <1>b, <2>3, <2>4, <2>6, <2>7, DecodedReads, Zenon
<1>5. CASE body # <<>> /\ Len(body) <= n
  <2>1. s.raw = <<>> /\ s.decoded = body /\ s.bytes_till_eof = eof
        /\ s.read_bytes_till_header = n + 2 - Len(body)
    BY <1>0, <1>5, <1>r DEF AfterHeader
  <2>4. Len(body) \in 0 .. Len(body \o rest) /\ Len(body) <= y.left
    BY <1>1, <1>2, <1>5
  <2>5. /\ \A i \in 1 .. Len(body) : (body \o rest)[i] = Data(y.d + i)
        /\ \E p \in Good :
              /\ Run(Good, metas, p, Drop(body \o rest, Len(body)), z)
              /\ p.k = "body" /\ p.left = y.left - Len(body) /\ p.last = y.last
              /\ p.d = y.d + Len(body) /\ p.m = y.m
    <3>1. /\ S \in Seq(Symbols) /\ Len(body) \in 0 .. Len(S) /\ Len(body) <= y.left
          /\ Run(Good, metas, y, S, z)
      BY <1>S, <1>2, <2>4
    <3>2. /\ \A i \in 1 .. Len(body) : S[i] = Data(y.d + i)
          /\ \E p \in Good :
                /\ Run(Good, metas, p, Drop(S, Len(body)), z)
                /\ p.k = "body" /\ p.left = y.left - Len(body) /\ p.last = y.last
                /\ p.d = y.d + Len(body) /\ p.m = y.m
      BY <3>1, BodyRun
    <3> QED
      BY <1>S, <3>2
  <2>6. PICK p \in Good :
              /\ Run(Good, metas, p, Drop(body \o rest, Len(body)), z)
              /\ p.k = "body" /\ p.left = y.left - Len(body) /\ p.last = y.last
              /\ p.d = y.d + Len(body) /\ p.m = y.m
    BY <2>5
  <2>7. Drop(body \o rest, Len(body)) = s.raw \o rest
    <3>1. Drop(body \o rest, Len(body)) = Drop(body, Len(body)) \o rest
      <4>1. Len(body) \in 0 .. Len(body)
        BY <1>1
      <4> QED
        BY <4>1, DropConcat
    <3>2. Drop(body, Len(body)) = <<>>
      BY DropAll
    <3> QED
      BY <2>1, <3>1, <3>2
  <2>8. Kept(s) /\ Counters(s, p)
    <3>1. eof # 0 /\ p.left \in Nat /\ s.read_bytes_till_header = p.left + 2
      BY <1>0, <1>1, <2>1, <2>6, GoodFields
    <3>2. Kept(s)
      BY <2>1, <3>1 DEF Kept
    <3> QED
      BY <1>e, <1>b, <2>1, <2>6, <3>1, <3>2, CountersInBody, Zenon
  <2>9. \A i \in 1 .. Len(s.decoded) : s.decoded[i] = Data(q.d + i)
    BY <1>2, <2>1, <2>5
  <2>10. p.d = q.d + Len(s.decoded) /\ p.m = q.m + Len(meta)
    BY <2>1, <2>6
  <2> QED
    BY <1>3, <1>b, <2>6, <2>7, <2>8, <2>9, <2>10, DecodedReads, Zenon
<1>6. CASE Len(body) > n
  <2>0. /\ n \in 0 .. Len(body) /\ n \in 0 .. Len(body \o rest) /\ n <= y.left
    BY <1>1, <1>2, <1>6
  <2>1. /\ Take(body, n) \in Seq(Symbols) /\ Len(Take(body, n)) = n
        /\ tail \in Seq(Symbols) /\ Len(tail) = Len(body) - n /\ Len(tail) \in Nat
        /\ \A i \in 1 .. n : Take(body, n)[i] = body[i]
    <3>1. /\ Take(body, n) \in Seq(Symbols) /\ Len(Take(body, n)) = n
          /\ tail \in Seq(Symbols) /\ Len(tail) = Len(body) - n
          /\ \A i \in 1 .. n : Take(body, n)[i] = body[i]
      <4>1. /\ Take(body, n) \in Seq(Symbols) /\ Len(Take(body, n)) = n
            /\ Drop(body, n) \in Seq(Symbols) /\ Len(Drop(body, n)) = Len(body) - n
            /\ \A i \in 1 .. n : Take(body, n)[i] = body[i]
        BY <2>0, TakeDrop
      <4> QED
        BY <1>s, <4>1
    <3> QED
      BY <1>1, <1>6, <3>1
  <2>2. /\ \A i \in 1 .. n : (body \o rest)[i] = Data(y.d + i)
        /\ \E p \in Good :
              /\ Run(Good, metas, p, Drop(body \o rest, n), z)
              /\ p.k = "body" /\ p.left = y.left - n /\ p.last = y.last
              /\ p.d = y.d + n /\ p.m = y.m
    <3>1. /\ S \in Seq(Symbols) /\ n \in 0 .. Len(S) /\ n <= y.left
          /\ Run(Good, metas, y, S, z)
      BY <1>S, <1>2, <2>0
    <3>2. /\ \A i \in 1 .. n : S[i] = Data(y.d + i)
          /\ \E p \in Good :
                /\ Run(Good, metas, p, Drop(S, n), z)
                /\ p.k = "body" /\ p.left = y.left - n /\ p.last = y.last
                /\ p.d = y.d + n /\ p.m = y.m
      BY <3>1, BodyRun
    <3> QED
      BY <1>S, <3>2
  <2>3. PICK p \in Good :
              /\ Run(Good, metas, p, Drop(body \o rest, n), z)
              /\ p.k = "body" /\ p.left = 0 /\ p.last = y.last
              /\ p.d = y.d + n /\ p.m = y.m
    BY <2>2
  <2>4. Run(Good, metas, p, tail \o rest, z)
    BY <1>s, <2>0, <2>3, DropConcat
  <2>5. \A i \in 1 .. n : Take(body, n)[i] = Data(q.d + i)
    <3>1. \A i \in 1 .. n : i \in 1 .. Len(body)
      BY <2>0
    <3> QED
      BY <1>2, <2>1, <2>2, <3>1
  <2>6. CASE Len(tail) < 2
    <3>1. /\ s.raw = tail /\ s.decoded = Take(body, n)
          /\ s.bytes_till_eof = eof /\ s.read_bytes_till_header = p.left + 2
      BY <1>0, <1>s, <1>6, <1>r, <2>3, <2>6 DEF AfterHeader
    <3>2. eof # 0 /\ p.left = 0
      BY <1>0, <2>3
    <3>3. Kept(s)
      BY <2>6, <3>1, <3>2 DEF Kept
    <3>4. Counters(s, p)
      BY <1>e, <1>b, <2>3, <3>1, CountersInBody, Zenon
    <3>5. \A i \in 1 .. Len(s.decoded) : s.decoded[i] = Data(q.d + i)
      BY <2>1, <2>5, <3>1
    <3>6. p.d = q.d + Len(s.decoded) /\ p.m = q.m + Len(meta)
      BY <2>1, <2>3, <3>1
    <3>7. Run(Good, metas, p, s.raw \o rest, z)
      BY <2>4, <3>1
    <3> QED
      BY <1>3, <1>b, <3>3, <3>4, <3>5, <3>6, <3>7, DecodedReads, Zenon
  <2>7. CASE Len(tail) >= 2
    <3>1. /\ s.raw = Drop(tail, 2) /\ s.decoded = Take(body, n)
          /\ s.bytes_till_eof = (IF n = 0 THEN 0 ELSE -1) /\ s.read_bytes_till_header = 0
      BY <1>s, <1>6, <1>r, <2>1, <2>7 DEF AfterHeader
    <3>2. tail \o rest \in Seq(Symbols) /\ Len(tail \o rest) >= 2 /\ 2 \in 0 .. Len(tail)
      <4>1. tail \o rest \in Seq(Symbols) /\ Len(tail \o rest) = Len(tail) + Len(rest)
        BY <2>1, ConcatSymbols, ZenonT(40)
      <4> QED
        BY <1>1, <2>1, <2>7, <4>1
    <3>3. PICK x \in Good :
              /\ Run(Good, metas, x, Drop(tail \o rest, 2), z)
              /\ Same(p, x, IF p.last /\ ~LoneEnd THEN "endcr" ELSE "header")
      BY <2>3, <2>4, <3>2, LineRun, Zenon
    <3>4. x.last = y.last /\ x.d = y.d + n /\ x.m = y.m
          /\ x.k = IF x.last /\ ~LoneEnd THEN "endcr" ELSE "header"
      BY <2>3, <3>3, Zenon DEF Same
    <3>5. Run(Good, metas, x, s.raw \o rest, z)
      <4>1. Drop(tail \o rest, 2) = Drop(tail, 2) \o rest
        BY <2>1, <3>2, DropConcat
      <4> QED
        BY <3>1, <3>3, <4>1
    <3>6. s.bytes_till_eof # -1 <=> n = 0
      BY <3>1
    <3>7. x.last <=> s.bytes_till_eof # -1
      BY <3>4, <3>6, Zenon
    <3>8. Counters(s, x)
      BY <1>b, <3>1, <3>4, <3>7, CountersAfterLine, Zenon
    <3>9. Kept(s)
      BY <3>1 DEF Kept
    <3>10. \A i \in 1 .. Len(s.decoded) : s.decoded[i] = Data(q.d + i)
      BY <2>1, <2>5, <3>1
    <3>11. x.d = q.d + Len(s.decoded) /\ x.m = q.m + Len(meta)
      BY <2>1, <3>1, <3>4
    <3> QED
      BY <1>3, <1>b, <3>5, <3>8, <3>9, <3>10, <3>11, DecodedReads, Zenon
  <2> QED
    BY <2>1, <2>6, <2>7
<1> QED
  BY <1>1, <1>4, <1>5, <1>6

\* Fewer than three symbols at a header: nothing to take off.
LEMMA HeaderIncomplete ==
    ASSUME NEW r \in Reader, \A i \in 2 .. Len(r.raw) : ~(r.raw[i] = LF /\ r.raw[i - 1] = CR)
    PROVE  Header(r, TRUE) = Answer(r, <<>>, <<>>)
<1>1. HeaderEnds(r.raw) = {}
  BY DEF HeaderEnds
<1> QED
  BY <1>1 DEF Header

\* A header at the beginning of raw ends with symbol 3.
LEMMA HeaderComplete ==
    ASSUME NEW r \in Reader, Len(r.raw) >= 3, r.raw[1].c = "len", r.raw[2] = CR, r.raw[3] = LF
    PROVE  Header(r, TRUE) = Answer(Body(r, r.raw[1].n, Drop(r.raw, 3)), <<>>, r.raw[1].m)
<1>0. PICK raw \in Seq(Symbols) : raw = r.raw
  BY ReaderTypes
<1>1. Len(raw) \in Nat
  BY LenProperties
<1>2. 3 \in HeaderEnds(raw)
  <2>1. 3 \in 2 .. Len(raw) /\ 3 - 1 = 2
    BY <1>0, <1>1
  <2> QED
    BY <1>0, <2>1 DEF HeaderEnds
<1>3. \A i \in HeaderEnds(raw) : 3 <= i
  <2> SUFFICES ASSUME NEW i \in HeaderEnds(raw), ~(3 <= i) PROVE FALSE
    OBVIOUS
  <2>1. i \in 2 .. Len(raw) /\ raw[i] = LF
    BY DEF HeaderEnds
  <2>2. i = 2
    BY <1>1, <2>1
  <2> QED
    BY <1>0, <2>1, <2>2, SymbolsDiffer
<1>4. \A i \in HeaderEnds(raw) : i \in Nat
  BY DEF HeaderEnds
<1>5. 3 = CHOOSE i \in HeaderEnds(raw) : \A j \in HeaderEnds(raw) : i <= j
  <2>1. PICK c : c = CHOOSE i \in HeaderEnds(raw) : \A j \in HeaderEnds(raw) : i <= j
    OBVIOUS
  <2>2. c \in HeaderEnds(raw) /\ \A j \in HeaderEnds(raw) : c <= j
    BY <1>2, <1>3, <2>1
  <2>3. c <= 3 /\ 3 <= c /\ c \in Nat
    BY <1>2, <1>3, <1>4, <2>2
  <2>4. c = 3
    BY <2>3
  <2> QED
    BY <2>1, <2>4
<1>6. HeaderEnds(raw) # {}
  BY <1>2
<1> QED
  BY <1>0, <1>5, <1>6 DEF Header

\* The reader looks for a header where one is due.
LEMMA HeaderReads ==
    ASSUME NEW r \in Reader, NEW q \in Good, NEW z, NEW rest \in Seq(Symbols),
           r.decoded = <<>>, ~r.bad, r.read_bytes_till_header = 0, r.bytes_till_eof = -1,
           q.k = "header", ~q.last, Run(Good, metas, q, r.raw \o rest, z)
    PROVE  Reads(q, Header(r, TRUE), rest, z)
<1>0. PICK raw \in Seq(Symbols) : raw = r.raw
  BY ReaderTypes
<1>S. PICK S \in Seq(Symbols) : S = raw \o rest
  BY ConcatSymbols
<1>1. /\ Len(raw) \in Nat /\ Len(rest) \in Nat /\ Len(S) = Len(raw) + Len(rest)
      /\ \A i \in 1 .. Len(raw) : S[i] = raw[i]
  BY <1>S, ConcatSymbols
<1>2. /\ Len(S) >= 1 => S[1].c = "len"
      /\ Len(S) >= 2 => S[2] = CR
      /\ Len(S) >= 3 =>
            /\ S[3] = LF
            /\ MetaFails \/ \A i \in 1 .. Len(S[1].m) : S[1].m[i] = metas[q.m + i]
            /\ \E y \in Good :
                  /\ Run(Good, metas, y, Drop(S, 3), z)
                  /\ y.k = "body" /\ y.left = S[1].n /\ y.last = (q.last \/ S[1].n = 0)
                  /\ y.d = q.d /\ y.m = q.m + Len(S[1].m)
  <2>1. Run(Good, metas, q, S, z)
    BY <1>0, <1>S
  <2> QED
    BY <2>1, HeaderRun, SMTT(30)
<1>3. CASE Len(raw) >= 3
  <2>1. 1 \in 1 .. Len(raw) /\ 2 \in 1 .. Len(raw) /\ 3 \in 1 .. Len(raw) /\ Len(S) >= 3
        /\ Len(S) >= 1 /\ Len(S) >= 2 /\ 3 \in 0 .. Len(raw)
    BY <1>1, <1>3
  <2>2. raw[1] = S[1] /\ raw[1].c = "len" /\ raw[2] = CR /\ raw[3] = LF
    BY <1>1, <1>2, <2>1
  <2>3. PICK n : n = raw[1].n
    OBVIOUS
  <2>4. PICK m : m = raw[1].m
    OBVIOUS
  <2>5. PICK body : body = Drop(raw, 3)
    OBVIOUS
  <2>6. n \in Nat /\ m \in Seq(Metas) /\ body \in Seq(Symbols)
    <3>1. raw[1] \in Symbols
      BY <2>1, LenProperties
    <3>2. n \in Nat /\ m \in Seq(Metas)
      BY <2>3, <2>4, <3>1, EncodingAssumption DEF Symbols
    <3>3. Drop(raw, 3) \in Seq(Symbols)
      BY <2>1, TakeDrop
    <3> QED
      BY <2>5, <3>2, <3>3
  <2>7. Header(r, TRUE) = Answer(Body(r, n, body), <<>>, m)
    BY <1>0, <1>3, <2>2, <2>3, <2>4, <2>5, HeaderComplete
  <2>8. MetaFails \/ \A i \in 1 .. Len(m) : m[i] = metas[q.m + i]
    BY <1>2, <2>1, <2>2, <2>4
  <2>9. PICK y \in Good :
            /\ Run(Good, metas, y, Drop(S, 3), z)
            /\ y.k = "body" /\ y.left = n /\ y.last = (q.last \/ n = 0)
            /\ y.d = q.d /\ y.m = q.m + Len(m)
    BY <1>2, <2>1, <2>2, <2>3, <2>4, Zenon
  <2>10. y.last <=> n = 0
    BY <2>9, Zenon
  <2>11. Drop(S, 3) = body \o rest
    BY <1>S, <2>1, <2>5, DropConcat
  <2>12. Run(Good, metas, y, body \o rest, z)
    BY <2>9, <2>11
  <2> QED
    BY <2>6, <2>7, <2>8, <2>9, <2>10, <2>12, BodyReads, ZenonT(40)
<1>4. CASE ~(Len(raw) >= 3)
  <2>1. ASSUME NEW i \in 2 .. Len(raw), raw[i] = LF PROVE FALSE
    <3>1. i = 2 /\ i \in 1 .. Len(raw) /\ Len(S) >= 2
      BY <1>1, <1>4
    <3> QED
      BY <1>1, <1>2, <2>1, <3>1, SymbolsDiffer
  <2>2. Header(r, TRUE) = Answer(r, <<>>, <<>>)
    BY <1>0, <2>1, HeaderIncomplete
  <2>3. Kept(r)
    BY DEF Kept
  <2>4. Counters(r, q)
    <3>1. r.bytes_till_eof # 2
      OBVIOUS
    <3> QED
      BY <3>1, Zenon DEF Counters
  <2> QED
    BY <2>2, <2>3, <2>4, SameReads, Zenon
<1> QED
  BY <1>3, <1>4

\* The reader at its end: any position with everything behind it will do.
LEMMA EofReads ==
    ASSUME NEW r \in Reader, NEW s \in Reader, NEW q \in Good, NEW p \in Good, NEW z, NEW rest,
           s = [r EXCEPT !.bytes_till_eof = 0],
           r.decoded = <<>>, ~r.bad, r.read_bytes_till_header = 0,
           p.last, p.d = q.d, p.m = q.m
    PROVE  Reads(q, Answer(s, <<>>, <<>>), rest, z)
<1>1. /\ s.bytes_till_eof = 0 /\ s.decoded = <<>> /\ s.bad = r.bad
      /\ s.read_bytes_till_header = 0
  BY DEF Reader
<1>2. Kept(s)
  BY <1>1 DEF Kept
<1>3. s.bytes_till_eof # -1 /\ s.bytes_till_eof # 2
  BY <1>1
<1>4. Counters(s, p)
  BY <1>1, <1>3, Zenon DEF Counters
<1>5. /\ <<>> \in Seq(Metas) /\ Len(<<>>) = 0 /\ p.d = q.d + 0 /\ p.m = q.m + 0
  BY GoodFields
<1>6. /\ \A i \in 1 .. Len(s.decoded) : s.decoded[i] = Data(q.d + i)
      /\ p.d = q.d + Len(s.decoded)
  BY <1>1, <1>5
<1>7. PICK m \in Seq(Metas) : m = <<>>
  BY <1>5
<1>8. /\ \A i \in 1 .. Len(m) : m[i] = metas[q.m + i]
      /\ p.m = q.m + Len(m)
  BY <1>5, <1>7
<1> QED
  BY <1>1, <1>2, <1>4, <1>6, <1>7, <1>8, DecodedReads, ZenonT(40)

\* What the reader does once the callback gave it something to put into raw.
LEMMA SkipReads ==
    ASSUME NEW r \in Reader, NEW q \in Good, NEW z, NEW rest \in Seq(Symbols),
           r.decoded = <<>>, ~r.bad, r.raw # <<>>, r.read_bytes_till_header <= 2,
           r.bytes_till_eof # 0, Counters(r, q), Run(Good, metas, q, r.raw \o rest, z)
    PROVE  Reads(q, Skip(r, TRUE), rest, z)
<1>0. PICK raw \in Seq(Symbols) : raw = r.raw
  BY ReaderTypes
<1>S. PICK S \in Seq(Symbols) : S = raw \o rest
  BY ConcatSymbols
<1>1. /\ Len(raw) \in Nat /\ Len(rest) \in Nat /\ Len(S) = Len(raw) + Len(rest)
      /\ Len(raw) # 0 /\ \A i \in 1 .. Len(raw) : S[i] = raw[i]
  BY <1>0, <1>S, ConcatSymbols, EmptySeq
<1>2. Run(Good, metas, q, S, z)
  BY <1>0, <1>S
<1>3. q.last <=> r.bytes_till_eof # -1
  BY Zenon DEF Counters
<1>4. PICK due \in Nat : due = r.read_bytes_till_header
  BY ReaderTypes
<1>5. due = 0 \/ due = 2
  <2>1. CASE due = 0
    BY <2>1
  <2>2. CASE due # 0
    BY <1>4, <2>2, GoodFields DEF Counters
  <2> QED
    BY <2>1, <2>2
<1>6. ASSUME due = 0 PROVE Reads(q, Skip(r, TRUE), rest, z)
  <2>0. PICK s : s = [r EXCEPT !.raw = Drop(@, due), !.read_bytes_till_header = 0]
    OBVIOUS
  <2>1. s = r
    <3>1. Drop(r.raw, due) = r.raw
      BY <1>0, <1>6, DropAll
    <3> QED
      BY <1>4, <1>6, <2>0, <3>1 DEF Reader
  <2>2. Len(r.raw) >= due /\ Len(r.raw) # due
    BY <1>0, <1>1, <1>6
  <2>3. Skip(r, TRUE) = IF r.bytes_till_eof # -1 /\ r.read_bytes_till_header = 0
                        THEN Answer([r EXCEPT !.bytes_till_eof = 0], <<>>, <<>>)
                        ELSE Header(r, TRUE)
    BY <1>4, <2>0, <2>1, <2>2 DEF Skip
  <2>4. CASE r.bytes_till_eof # -1
    <3>1. Skip(r, TRUE) = Answer([r EXCEPT !.bytes_till_eof = 0], <<>>, <<>>)
      BY <1>4, <1>6, <2>3, <2>4
    <3>2. PICK u : u = [r EXCEPT !.bytes_till_eof = 0]
      OBVIOUS
    <3>3. u \in Reader
      BY <3>2 DEF Reader
    <3>4. q.last
      BY <1>3, <2>4, Zenon
    <3> QED
      BY <1>4, <1>6, <3>1, <3>2, <3>3, <3>4, EofReads
  <2>5. CASE r.bytes_till_eof = -1
    <3>1. Skip(r, TRUE) = Header(r, TRUE)
      BY <2>3, <2>5
    <3>2. q.k = "header" /\ ~q.last
      BY <1>3, <1>4, <1>6, <2>5 DEF Counters
    <3> QED
      BY <1>4, <1>6, <2>5, <3>1, <3>2, HeaderReads
  <2> QED
    BY <2>4, <2>5
<1>7. ASSUME due = 2, Len(raw) < 2 PROVE Reads(q, Skip(r, TRUE), rest, z)
  <2>1. ~(Len(r.raw) >= due) /\ Len(r.raw) # due /\ r.read_bytes_till_header # 0
    <3>1. \A x \in Nat : x < 2 => ~(x >= 2) /\ x # 2
      OBVIOUS
    <3>2. ~(Len(raw) >= 2) /\ Len(raw) # 2
      BY <1>1, <1>7, <3>1, Zenon
    <3>3. due # 0
      BY <1>7
    <3> QED
      BY <1>0, <1>4, <1>7, <3>2, <3>3, Zenon
  <2>2. Skip(r, TRUE) = Header(r, TRUE)
    BY <1>4, <2>1 DEF Skip
  <2>3. Header(r, TRUE) = Answer(r, <<>>, <<>>)
    <3>1. \A i \in 2 .. Len(r.raw) : FALSE
      BY <1>0, <1>1, <1>7
    <3> QED
      BY <3>1, HeaderIncomplete
  <2>4. Kept(r)
    BY <1>0, <1>4, <1>7 DEF Kept
  <2> QED
    BY <2>2, <2>3, <2>4, SameReads, Zenon
<1>8. ASSUME due = 2, Len(raw) >= 2 PROVE Reads(q, Skip(r, TRUE), rest, z)
  <2>1. q.k = "body" /\ q.left = 0
    BY <1>4, <1>8, GoodFields DEF Counters
  <2>2. Len(S) >= 2 /\ 2 \in 0 .. Len(raw)
    BY <1>1, <1>8
  <2>3. PICK p \in Good :
            /\ Run(Good, metas, p, Drop(S, 2), z)
            /\ Same(q, p, IF q.last /\ ~LoneEnd THEN "endcr" ELSE "header")
    BY <1>2, <2>1, <2>2, LineRun
  <2>4. /\ p.last = q.last /\ p.d = q.d /\ p.m = q.m
        /\ p.k = IF p.last /\ ~LoneEnd THEN "endcr" ELSE "header"
    BY <2>3, Zenon DEF Same
  <2>5. PICK s : s = [r EXCEPT !.raw = Drop(@, 2), !.read_bytes_till_header = 0]
    OBVIOUS
  <2>6. /\ s \in Reader /\ s.raw = Drop(raw, 2) /\ s.decoded = r.decoded /\ s.bad = r.bad
        /\ s.bytes_till_eof = r.bytes_till_eof /\ s.read_bytes_till_header = 0
    <3>1. Drop(raw, 2) \in Seq(Symbols)
      BY <2>2, TakeDrop
    <3> QED
      BY <1>0, <2>5, <3>1 DEF Reader
  <2>7. Run(Good, metas, p, s.raw \o rest, z)
    <3>1. Drop(S, 2) = Drop(raw, 2) \o rest
      BY <1>S, <2>2, DropConcat
    <3> QED
      BY <2>3, <2>6, <3>1
  <2>8. p.last <=> s.bytes_till_eof # -1
    BY <1>3, <2>4, <2>6, Zenon
  <2>9. Counters(s, p)
    BY <2>4, <2>6, <2>8, CountersAfterLine, Zenon
  <2>10. Skip(r, TRUE) = IF Len(raw) = 2 THEN Answer(s, <<>>, <<>>)
                         ELSE IF s.bytes_till_eof # -1 /\ s.read_bytes_till_header = 0
                         THEN Answer([s EXCEPT !.bytes_till_eof = 0], <<>>, <<>>)
                         ELSE Header(s, TRUE)
    BY <1>0, <1>4, <1>8, <2>5 DEF Skip
  <2>11. PICK m \in Seq(Metas) : m = <<>>
    BY EmptySeq
  <2>12. CASE Len(raw) = 2
    <3>1. Skip(r, TRUE) = Answer(s, <<>>, <<>>)
      BY <2>10, <2>12
    <3>2. s.raw = <<>>
      BY <2>6, <2>12, DropAll
    <3>3. Kept(s)
      BY <2>6, <3>2 DEF Kept
    <3>4. /\ \A i \in 1 .. Len(s.decoded) : s.decoded[i] = Data(q.d + i)
          /\ p.d = q.d + Len(s.decoded)
          /\ \A i \in 1 .. Len(m) : m[i] = metas[q.m + i]
          /\ p.m = q.m + Len(m)
      BY <2>4, <2>6, <2>11, GoodFields
    <3> QED
      BY <2>6, <2>7, <2>9, <2>11, <3>1, <3>3, <3>4, DecodedReads
  <2>13. CASE Len(raw) # 2 /\ r.bytes_till_eof # -1
    <3>1. Skip(r, TRUE) = Answer([s EXCEPT !.bytes_till_eof = 0], <<>>, <<>>)
      BY <2>6, <2>10, <2>13
    <3>2. PICK u : u = [s EXCEPT !.bytes_till_eof = 0]
      OBVIOUS
    <3>3. u \in Reader
      BY <2>6, <3>2 DEF Reader
    <3>4. p.last
      BY <2>6, <2>8, <2>13, Zenon
    <3>5. /\ s.decoded = <<>> /\ ~s.bad /\ s.read_bytes_till_header = 0
          /\ p.d = q.d /\ p.m = q.m
      BY <2>4, <2>6
    <3>6. Reads(q, Answer(u, <<>>, <<>>), rest, z)
      BY <2>6, <3>2, <3>3, <3>4, <3>5, EofReads
    <3> QED
      BY <3>1, <3>2, <3>6
  <2>14. CASE Len(raw) # 2 /\ r.bytes_till_eof = -1
    <3>1. Skip(r, TRUE) = Header(s, TRUE)
      BY <2>6, <2>10, <2>14
    <3>2. ~p.last /\ p.k = "header"
      BY <2>4, <2>6, <2>8, <2>14, Zenon
    <3>3. Reads(p, Header(s, TRUE), rest, z)
      BY <2>6, <2>7, <2>14, <3>2, HeaderReads
    <3> QED
      BY <2>4, <3>1, <3>3 DEF Reads
  <2> QED
    BY <2>12, <2>13, <2>14
<1>9. Len(raw) < 2 \/ Len(raw) >= 2
  BY <1>1
<1> QED
  BY <1>5, <1>6, <1>7, <1>8, <1>9, Zenon

\* A whole call of __enc_chunked_read.
LEMMA CallReads ==
    ASSUME NEW r \in Reader, NEW q \in Good, NEW z, NEW in \in Seq(Symbols),
           NEW rest \in Seq(Symbols), NEW want \in Nat,
           r.decoded = <<>>, ~r.bad, Kept(r), Counters(r, q), Len(in) <= Asked(r, want),
           r.bytes_till_eof # 0 => Run(Good, metas, q, r.raw \o (in \o rest), z)
    PROVE  /\ Reads(q, __enc_chunked_read(r, in, TRUE), rest, z)
           /\ Len(__enc_chunked_read(r, in, TRUE).out) <= want
<1>0. PICK raw \in Seq(Symbols) : raw = r.raw
  BY ReaderTypes
<1>1. /\ Len(raw) \in Nat /\ Len(in) \in Nat /\ Len(rest) \in Nat /\ (in = <<>> <=> Len(in) = 0)
      /\ raw \o in \in Seq(Symbols) /\ Len(raw \o in) = Len(raw) + Len(in)
      /\ raw \o (in \o rest) = (raw \o in) \o rest
  BY ConcatSymbols, ConcatAssociative, EmptySeq, SMTT(30)
<1>2. PICK due \in Nat : due = r.read_bytes_till_header
  BY ReaderTypes
<1>e. PICK a : a = __enc_chunked_read(r, in, TRUE)
  OBVIOUS
<1>3. CASE due > 2
  <2>1. a = Answer([r EXCEPT !.read_bytes_till_header = @ - Len(in)], in, <<>>)
    BY <1>2, <1>3, <1>e DEF __enc_chunked_read
  <2>2. /\ q.k = "body" /\ due = q.left + 2 /\ r.raw = <<>> /\ r.bytes_till_eof # 0
        /\ (q.last <=> r.bytes_till_eof # -1)
    <3>1. due # 0
      BY <1>3
    <3> QED
      BY <1>2, <1>3, <3>1 DEF Kept, Counters
  <2>3. Len(in) <= q.left /\ Len(in) <= want /\ q.left \in Nat /\ q.d \in Nat /\ q.m \in Nat
    <3>1. Len(in) <= Least(want, due - 2)
      BY <1>2, <1>3 DEF Asked
    <3> QED
      BY <1>1, <2>2, <3>1, GoodFields DEF Least
  <2>4. PICK S \in Seq(Symbols) : S = in \o rest
    BY ConcatSymbols
  <2>5. Run(Good, metas, q, S, z)
    <3>1. raw = <<>>
      BY <1>0, <2>2
    <3>2. raw \o S = S
      BY <3>1, ConcatEmptySeq
    <3> QED
      BY <1>0, <2>2, <2>4, <3>2
  <2>6. /\ Len(S) = Len(in) + Len(rest) /\ Len(in) \in 0 .. Len(S)
        /\ \A i \in 1 .. Len(in) : S[i] = in[i]
    BY <1>1, <2>4, ConcatSymbols
  <2>n. PICK n \in Nat : n = Len(in)
    BY <1>1
  <2>7. /\ \A i \in 1 .. n : S[i] = Data(q.d + i)
        /\ \E p \in Good :
              /\ Run(Good, metas, p, Drop(S, n), z)
              /\ p.k = "body" /\ p.left = q.left - n /\ p.last = q.last
              /\ p.d = q.d + n /\ p.m = q.m
    <3>1. n \in 0 .. Len(S) /\ n <= q.left /\ q.k = "body"
      BY <2>2, <2>3, <2>6, <2>n
    <3> QED
      BY <2>5, <3>1, BodyRun
  <2>8. PICK p \in Good :
              /\ Run(Good, metas, p, Drop(S, n), z)
              /\ p.k = "body" /\ p.left = q.left - n /\ p.last = q.last
              /\ p.d = q.d + n /\ p.m = q.m
    BY <2>7
  <2>9. PICK s : s = [r EXCEPT !.read_bytes_till_header = @ - Len(in)]
    OBVIOUS
  <2>10. /\ s \in Reader /\ s.raw = <<>> /\ s.decoded = <<>> /\ s.bad = r.bad
         /\ s.bytes_till_eof = r.bytes_till_eof /\ s.read_bytes_till_header = p.left + 2
    <3>1. due - Len(in) = p.left + 2 /\ due - Len(in) \in Nat
      <4>1. n <= q.left /\ q.left \in Nat /\ due = q.left + 2 /\ p.left = q.left - n
        BY <2>2, <2>3, <2>8, <2>n
      <4>2. due - n = p.left + 2 /\ due - n \in Nat
        BY <4>1, SMTT(30)
      <4> QED
        BY <2>n, <4>2
    <3>2. /\ s \in Reader /\ s.raw = r.raw /\ s.decoded = r.decoded /\ s.bad = r.bad
          /\ s.bytes_till_eof = r.bytes_till_eof /\ s.read_bytes_till_header = due - Len(in)
      BY <1>2, <2>9, <3>1 DEF Reader
    <3> QED
      BY <2>2, <3>1, <3>2
  <2>11. a.r = s /\ a.out = in /\ a.meta = <<>>
    BY <2>1, <2>9 DEF Answer
  <2>12. a.out \o a.r.decoded = in /\ Len(a.meta) = 0 /\ a.meta \in Seq(Metas)
    BY <2>10, <2>11, ConcatEmptySeq, EmptySeq
  <2>13. Run(Good, metas, p, a.r.raw \o rest, z)
    <3>1. Drop(S, Len(in)) = Drop(in, Len(in)) \o rest
      <4>1. Len(in) \in 0 .. Len(in)
        BY <1>1
      <4> QED
        BY <2>4, <4>1, DropConcat
    <3>2. Drop(in, Len(in)) = <<>>
      BY DropAll
    <3> QED
      BY <2>n, <2>8, <2>10, <2>11, <3>1, <3>2
  <2>14. Counters(a.r, p)
    <3>1. p.last <=> s.bytes_till_eof # -1
      BY <2>2, <2>8, <2>10, Zenon
    <3> QED
      BY <2>8, <2>10, <2>11, <3>1, CountersInBody
  <2>15. Kept(a.r)
    <3>1. p.left \in Nat
      BY GoodFields
    <3> QED
      BY <2>2, <2>10, <2>11, <3>1 DEF Kept
  <2>16. /\ \A i \in 1 .. Len(a.out \o a.r.decoded) : (a.out \o a.r.decoded)[i] = Data(q.d + i)
         /\ \A i \in 1 .. Len(a.meta) : a.meta[i] = metas[q.m + i]
         /\ p.d = q.d + Len(a.out \o a.r.decoded) /\ p.m = q.m + Len(a.meta)
    <3>1. \A i \in 1 .. Len(in) : in[i] = Data(q.d + i)
      BY <2>6, <2>7, <2>n
    <3>2. p.d = q.d + Len(in) /\ p.m = q.m + 0
      BY <2>3, <2>8, <2>n
    <3>3. \A i \in 1 .. Len(a.meta) : a.meta[i] = metas[q.m + i]
      BY <2>12
    <3> QED
      BY <2>12, <3>1, <3>2, <3>3, Zenon
  <2>17. Reads(q, a, rest, z)
    BY <2>10, <2>11, <2>12, <2>13, <2>14, <2>15, <2>16, Zenon DEF Reads
  <2> QED
    BY <1>e, <2>3, <2>11, <2>17
<1>4. CASE ~(due > 2) /\ in = <<>>
  <2>1. a = Answer(r, <<>>, <<>>)
    BY <1>2, <1>4, <1>e DEF __enc_chunked_read
  <2>2. raw \o in = raw
    BY <1>4, ConcatEmptySeq
  <2>3. r.bytes_till_eof # 0 => Run(Good, metas, q, r.raw \o rest, z)
    BY <1>0, <1>1, <2>2
  <2>4. Reads(q, a, rest, z)
    BY <2>1, <2>3, SameReads, Zenon
  <2>5. a.out = <<>>
    BY <2>1 DEF Answer
  <2> QED
    <3>1. Len(a.out) <= want
      BY <1>1, <1>4, <2>5
    <3> QED
      BY <1>e, <2>4, <3>1, Zenon
<1>5. CASE ~(due > 2) /\ in # <<>>
  <2>1. PICK s : s = [r EXCEPT !.raw = @ \o in]
    OBVIOUS
  <2>2. a = Skip(s, TRUE)
    BY <1>2, <1>5, <1>e, <2>1 DEF __enc_chunked_read
  <2>3. /\ s \in Reader /\ s.raw = raw \o in /\ s.decoded = r.decoded /\ s.bad = r.bad
        /\ s.bytes_till_eof = r.bytes_till_eof /\ s.read_bytes_till_header = due
    BY <1>0, <1>1, <1>2, <2>1 DEF Reader
  <2>4. s.raw # <<>>
    BY <1>1, <1>5, <2>3, EmptySeq
  <2>5. r.bytes_till_eof # 0
    <3> SUFFICES ASSUME r.bytes_till_eof = 0 PROVE FALSE
      OBVIOUS
    <3>1. due = 0
      BY <1>2 DEF Kept
    <3>2. Asked(r, want) = 0
      BY <1>2, <3>1 DEF Asked
    <3> QED
      BY <1>1, <1>5, <3>2
  <2>6. Counters(s, q)
    BY <1>2, <2>3, Zenon DEF Counters
  <2>7. Run(Good, metas, q, s.raw \o rest, z)
    BY <1>0, <1>1, <2>3, <2>5
  <2>8. s.read_bytes_till_header <= 2
    BY <1>5, <2>3
  <2>9. Reads(q, a, rest, z)
    BY <2>2, <2>3, <2>4, <2>5, <2>6, <2>7, <2>8, SkipReads
  <2>10. a.out = <<>>
    BY <2>2 DEF Skip, Header, Answer
  <2>11. Len(a.out) <= want
    BY <2>10
  <2> QED
    BY <1>e, <2>9, <2>11, Zenon
<1> QED
  BY <1>3, <1>4, <1>5


-----------------------------------------------------------------------------
(* The inductive invariant                                                 *)

\* The position of the writer, which is always between two chunks.
AtWriter(z) ==
    /\ z.k = "header" /\ z.left = 0 /\ (z.last <=> ends > 0) /\ z.d = written
    /\ MetaFails \/ z.m = Len(metas) - Len(meta_write)

Stream == rd.raw \o wire \o encoded

Delivered == got \o rd.decoded

AtReader(q) ==
    /\ Counters(rd, q) /\ q.d = Len(Delivered)
    /\ MetaFails \/ q.m = Len(gotmeta \o meta_read)

\* Until it met the end, the reader is at a position from which the rest of the
\* stream leads to the writer's.
InStep == \E q \in Good :
    /\ AtReader(q)
    /\ rd.bytes_till_eof # 0 => \E z \in Good : AtWriter(z) /\ Run(Good, metas, q, Stream, z)

DataSoFar == \A i \in 1 .. Len(Delivered) : Delivered[i] = Data(i)

MetasSoFar == MetaFails \/
    \A i \in 1 .. Len(gotmeta \o meta_read) : (gotmeta \o meta_read)[i] = metas[i]

\* The meta data that waits for a chunk is the last that was attached.
MetasWaiting == MetaFails \/
    /\ Len(meta_write) <= Len(metas)
    /\ \A i \in 1 .. Len(meta_write) :
          meta_write[i] = metas[(Len(metas) - Len(meta_write)) + i]

IInv == /\ TypeOK /\ NeverLost /\ Kept(rd) /\ DataSoFar /\ MetasSoFar /\ MetasWaiting
        /\ InStep

-----------------------------------------------------------------------------
(* The steps                                                               *)

\* The types of the buffers, of what they hold together, and of the lists.
LEMMA Types ==
    ASSUME TypeOK
    PROVE  /\ rd.raw \in Seq(Symbols) /\ rd.decoded \in Seq(Symbols)
           /\ encoded \in Seq(Symbols) /\ wire \in Seq(Symbols) /\ got \in Seq(Symbols)
           /\ Len(encoded) \in Nat /\ Len(wire) \in Nat
           /\ Stream \in Seq(Symbols) /\ Delivered \in Seq(Symbols)
           /\ meta_write \in Seq(Metas) /\ metas \in Seq(Metas)
           /\ Len(meta_write) \in Nat /\ Len(metas) \in Nat
           /\ gotmeta \o meta_read \in Seq(Metas)
           /\ written \in Nat /\ written <= MaxBytes /\ ends \in Nat
<1>1. rd.raw \in Seq(Symbols) /\ rd.decoded \in Seq(Symbols)
  BY ReaderTypes DEF TypeOK
<1>2. /\ encoded \in Seq(Symbols) /\ wire \in Seq(Symbols) /\ got \in Seq(Symbols)
      /\ meta_write \in Seq(Metas) /\ metas \in Seq(Metas)
      /\ gotmeta \in Seq(Metas) /\ meta_read \in Seq(Metas)
      /\ written \in Nat /\ written <= MaxBytes /\ ends \in Nat
  BY EncodingAssumption DEF TypeOK
<1>3. rd.raw \o wire \in Seq(Symbols)
  BY <1>1, <1>2, ConcatSymbols
<1>4. Stream \in Seq(Symbols) /\ Delivered \in Seq(Symbols)
  BY <1>1, <1>2, <1>3, ConcatSymbols DEF Stream, Delivered
<1>5. gotmeta \o meta_read \in Seq(Metas)
  BY <1>2, ConcatProperties
<1> QED
  BY <1>1, <1>2, <1>4, <1>5, LenProperties

\* httpp_encoding_new leaves both sides at the first header.
LEMMA InitInv ==
    ASSUME Init PROVE IInv
<1>1. /\ <<>> \in Seq(Metas) /\ <<>> \in Seq(Symbols) /\ Len(<<>>) = 0
      /\ <<>> \o <<>> = <<>>
  BY ConcatEmptySeq, EmptySeq
<1>2. /\ rd \in Reader /\ rd.raw = <<>> /\ rd.decoded = <<>> /\ rd.bytes_till_eof = -1
      /\ rd.read_bytes_till_header = 0 /\ rd.bad = FALSE
  BY <1>1 DEF Init, httpp_encoding_new, Reader
<1>3. TypeOK
  BY <1>1, <1>2, EncodingAssumption DEF Init, TypeOK
<1>4. Stream = <<>> /\ Delivered = <<>> /\ gotmeta \o meta_read = <<>>
  BY <1>1, <1>2 DEF Init, Stream, Delivered
<1>5. PICK q : q = At("header", 0, FALSE, 0, 0)
  OBVIOUS
<1>6. q \in Positions /\ q.k = "header" /\ q.left = 0 /\ q.last = FALSE /\ q.d = 0 /\ q.m = 0
  <2>1. "header" \in Phases /\ 0 \in Nat /\ FALSE \in BOOLEAN
    BY DEF Phases
  <2> QED
    BY <1>5, <2>1 DEF At, Positions
<1>7. written = 0 /\ ends = 0 /\ Len(metas) = 0 /\ Len(meta_write) = 0
  BY <1>1 DEF Init
<1>8. q \in Good
  BY <1>6, <1>7 DEF Good
<1>9. Run(Good, metas, q, Stream, q)
  BY <1>4, <1>8, RunStay
<1>10. AtWriter(q)
  <2>1. ~(ends > 0) /\ 0 = Len(metas) - Len(meta_write)
    BY <1>7
  <2> QED
    BY <1>6, <1>7, <2>1, Zenon DEF AtWriter
<1>11. AtReader(q)
  <2>1. Counters(rd, q)
    BY <1>2, <1>6 DEF Counters
  <2> QED
    BY <1>1, <1>4, <1>6, <2>1 DEF AtReader
<1>12. InStep
  BY <1>8, <1>9, <1>10, <1>11, Zenon DEF InStep
<1>13. DataSoFar /\ MetasSoFar /\ MetasWaiting
  BY <1>1, <1>4, <1>7 DEF DataSoFar, MetasSoFar, MetasWaiting
<1>14. Kept(rd) /\ NeverLost
  BY <1>2 DEF Kept, NeverLost
<1> QED
  BY <1>3, <1>12, <1>13, <1>14 DEF IInv

\* A name for concatenation that the provers do not look behind.
Join(s, t) == s \o t

\* Joining parts of the stream is associative.
LEMMA JoinAssociative ==
    ASSUME NEW s \in Seq(Symbols), NEW t \in Seq(Symbols), NEW u \in Seq(Symbols)
    PROVE  Join(s, t) \in Seq(Symbols) /\ Join(s, Join(t, u)) = Join(Join(s, t), u)
BY ConcatSymbols, ConcatAssociative DEF Join

\* Joining lists of meta data is associative.
LEMMA JoinMetas ==
    ASSUME NEW s \in Seq(Metas), NEW t \in Seq(Metas), NEW u \in Seq(Metas)
    PROVE  Join(s, Join(t, u)) = Join(Join(s, t), u)
BY ConcatAssociative, SMTT(30) DEF Join

\* Five parts of the stream, joined in another order.
LEMMA AssocParts ==
    ASSUME NEW r \in Seq(Symbols), NEW w \in Seq(Symbols), NEW a \in Seq(Symbols),
           NEW b \in Seq(Symbols), NEW c \in Seq(Symbols)
    PROVE  Join(Join(r, Join(Join(w, a), b)), c) = Join(Join(Join(r, w), a), Join(b, c))
BY JoinAssociative

\* What a call of httpp_encoding_write does to the stream.
LEMMA FlushedStream ==
    ASSUME TypeOK, NEW k \in 0 .. Len(encoded), NEW buf \in Seq(Symbols),
           NEW j \in 0 .. Len(buf), Flushed(k, buf, j), rd' = rd
    PROVE  /\ encoded' \in Seq(Symbols) /\ wire' \in Seq(Symbols)
           /\ Stream' = (rd.raw \o wire \o Take(encoded, k)) \o buf
<1>0. PICK raw \in Seq(Symbols) : raw = rd.raw
  BY Types
<1>1. PICK w \in Seq(Symbols) : w = wire
  BY Types
<1>2. PICK a \in Seq(Symbols) : a = Take(encoded, k)
  BY Types, TakeDrop
<1>3. PICK b \in Seq(Symbols) : b = Take(buf, j)
  BY TakeDrop
<1>4. PICK c \in Seq(Symbols) : c = Drop(buf, j) /\ b \o c = buf
  BY <1>3, TakeDrop
<1>5. encoded' = c /\ wire' = (w \o a) \o b
  BY <1>1, <1>2, <1>3, <1>4 DEF Flushed
<1>6. wire' \in Seq(Symbols)
  BY <1>5, ConcatSymbols
<1>7. Stream' = (raw \o ((w \o a) \o b)) \o c
  BY <1>0, <1>5 DEF Stream
<1>8. (raw \o ((w \o a) \o b)) \o c = ((raw \o w) \o a) \o (b \o c)
  <2>1. Join(Join(raw, Join(Join(w, a), b)), c) = Join(Join(Join(raw, w), a), Join(b, c))
    BY AssocParts
  <2> QED
    BY <2>1, Zenon DEF Join
<1> QED
  BY <1>0, <1>1, <1>2, <1>4, <1>5, <1>6, <1>7, <1>8

\* A call that flushes the old buffer and goes on with a new one, or does not get
\* that far.
LEMMA FlushedAll ==
    ASSUME TypeOK, NEW buf \in Seq(Symbols), NEW j \in 0 .. Len(buf),
           Flushed(Len(encoded), buf, j), rd' = rd
    PROVE  Stream' = Stream \o buf /\ encoded' \in Seq(Symbols) /\ wire' \in Seq(Symbols)
<1>1. Take(encoded, Len(encoded)) = encoded
  BY Types, SubSeqFull DEF Take
<1>2. Len(encoded) \in 0 .. Len(encoded)
  BY Types
<1> QED
  BY <1>1, <1>2, FlushedStream DEF Stream

\* A call that only flushes a part of the old buffer leaves the stream as it is.
LEMMA FlushedSome ==
    ASSUME TypeOK, NEW k \in 0 .. Len(encoded), NEW j \in 0 .. Len(Drop(encoded, k)),
           Flushed(k, Drop(encoded, k), j), rd' = rd
    PROVE  Stream' = Stream /\ encoded' \in Seq(Symbols) /\ wire' \in Seq(Symbols)
<1>0. PICK e \in Seq(Symbols) : e = encoded
  BY Types
<1>1. PICK a \in Seq(Symbols) : a = Take(e, k)
  BY <1>0, TakeDrop
<1>2. PICK b \in Seq(Symbols) : b = Drop(e, k) /\ a \o b = e
  BY <1>0, <1>1, TakeDrop
<1>3. PICK u \in Seq(Symbols) : u = rd.raw \o wire
  BY Types, ConcatSymbols
<1>4. /\ Stream' = (u \o a) \o b
      /\ encoded' \in Seq(Symbols) /\ wire' \in Seq(Symbols)
  BY <1>0, <1>1, <1>2, <1>3, FlushedStream
<1>5. Join(u, Join(a, b)) = Join(Join(u, a), b)
  BY JoinAssociative
<1>6. u \o (a \o b) = (u \o a) \o b
  BY <1>5, Zenon DEF Join
<1> QED
  BY <1>0, <1>2, <1>3, <1>4, <1>6 DEF Stream

\* A step of the writer: the stream gets longer by what leads from its old
\* position to its new one.
LEMMA WriterStep ==
    ASSUME IInv, TypeOK', rd' = rd, got' = got, gotmeta' = gotmeta, meta_read' = meta_read,
           Good \subseteq Good', MetasWaiting', Len(metas) <= Len(metas)',
           \A i \in 1 .. Len(metas) : metas'[i] = metas[i],
           NEW C \in Seq(Symbols), Stream' = Stream \o C,
           \A z \in Good : AtWriter(z) =>
               \E y \in Good' : AtWriter(y)' /\ Run(Good', metas', z, C, y)
    PROVE  IInv'
<1>1. Delivered' = Delivered /\ (gotmeta \o meta_read)' = gotmeta \o meta_read
  BY DEF Delivered
<1>2. PICK q \in Good :
          /\ AtReader(q)
          /\ rd.bytes_till_eof # 0 =>
                \E z \in Good : AtWriter(z) /\ Run(Good, metas, q, Stream, z)
  BY DEF IInv, InStep
<1>3. AtReader(q)'
  BY <1>1, <1>2 DEF AtReader
<1>4. ASSUME rd.bytes_till_eof # 0
      PROVE  \E y \in Good' : AtWriter(y)' /\ Run(Good', metas', q, Stream', y)
  <2>1. PICK z \in Good : AtWriter(z) /\ Run(Good, metas, q, Stream, z)
    BY <1>2, <1>4
  <2>2. PICK y \in Good' : AtWriter(y)' /\ Run(Good', metas', z, C, y)
    BY <2>1
  <2>3. Run(Good', metas', q, Stream, z)
    <3>1. MetaFails \/ \A p \in Good : p.m <= Len(metas)
      BY Types, GoodFields, SMTT(20) DEF IInv
    <3>2. metas \in Seq(Metas) /\ Stream \in Seq(Symbols)
      BY Types DEF IInv
    <3> QED
      BY <2>1, <3>1, <3>2, GoodPositions, RunGrows
  <2>4. Run(Good', metas', q, Stream \o C, y)
    <3>1. Stream \in Seq(Symbols)
      BY Types DEF IInv
    <3> QED
      BY <2>2, <2>3, <3>1, RunConcat, Zenon
  <2> QED
    BY <2>2, <2>4
<1>5. InStep'
  BY <1>2, <1>3, <1>4 DEF InStep
<1>6. NeverLost' /\ Kept(rd)' /\ DataSoFar'
  BY <1>1 DEF IInv, NeverLost, Kept, DataSoFar
<1>7. MetasSoFar'
  <2>1. MetaFails \/ Len(gotmeta \o meta_read) <= Len(metas)
    BY <1>2, Types, GoodFields DEF AtReader, IInv
  <2>2. PICK all \in Seq(Metas) : all = gotmeta \o meta_read
    BY Types DEF IInv
  <2>3. Len(all) \in Nat /\ Len(metas) \in Nat
    BY Types, LenProperties DEF IInv
  <2>4. MetaFails \/ \A i \in 1 .. Len(all) : all[i] = metas[i] /\ metas'[i] = metas[i]
    BY <2>1, <2>2, <2>3 DEF MetasSoFar, IInv
  <2> QED
    BY <1>1, <2>2, <2>4 DEF MetasSoFar
<1> QED
  BY <1>5, <1>6, <1>7 DEF IInv

\* httpp_encoding_append_meta: the new piece waits, the stream is the same.
LEMMA AppendMeta ==
    ASSUME IInv, httpp_encoding_append_meta PROVE IInv'
<1> USE DEF IInv
<1>1. PICK m : m = [nr |-> Len(metas) + 1, at |-> written]
  OBVIOUS
<1>2. /\ metas' = Append(metas, m) /\ meta_write' = Append(meta_write, m)
      /\ encoded' = encoded /\ wire' = wire /\ rd' = rd /\ meta_read' = meta_read
      /\ written' = written /\ ends' = ends /\ got' = got /\ gotmeta' = gotmeta
      /\ Len(metas) < MaxMetas
  BY <1>1 DEF httpp_encoding_append_meta
<1>3. m \in Metas /\ m.at = written
  <2>1. written \in 0 .. MaxBytes /\ Len(metas) + 1 \in 1 .. MaxMetas
    BY <1>2, Types, EncodingAssumption, SMTT(20)
  <2> QED
    BY <1>1, <2>1 DEF Metas
<1>4. /\ metas' \in Seq(Metas) /\ meta_write' \in Seq(Metas)
      /\ Len(metas') = Len(metas) + 1 /\ Len(meta_write') = Len(meta_write) + 1
      /\ metas'[Len(metas) + 1] = m /\ meta_write'[Len(meta_write) + 1] = m
      /\ \A i \in 1 .. Len(metas) : metas'[i] = metas[i]
      /\ \A i \in 1 .. Len(meta_write) : meta_write'[i] = meta_write[i]
  BY <1>2, <1>3, Types, AppendProperties
<1>5. TypeOK'
  BY <1>2, <1>4 DEF TypeOK
<1>6. Good \subseteq Good'
  <2>1. ASSUME NEW q \in Good PROVE q \in Good'
    <3>1. /\ q \in Positions /\ q.d + q.left <= written' /\ q.d + q.left \in Nat
          /\ q.last => ends' > 0 /\ q.left = 0 /\ q.d = written'
      BY <1>2, GoodFields DEF Good
    <3>2. \/ MetaFails
          \/ /\ q.m <= Len(metas') - Len(meta_write')
             /\ \A i \in (q.m + 1) .. Len(metas') : metas'[i].at >= q.d + q.left
      <4>1. CASE MetaFails
        BY <4>1
      <4>2. CASE ~MetaFails
        <5>1. /\ q.m \in Nat /\ q.m <= Len(metas) - Len(meta_write)
              /\ \A i \in (q.m + 1) .. Len(metas) : metas[i].at >= q.d + q.left
          BY <4>2, GoodFields
        <5>2. q.m <= Len(metas') - Len(meta_write')
          BY <1>4, <5>1, Types
        <5>3. ASSUME NEW i \in (q.m + 1) .. Len(metas') PROVE metas'[i].at >= q.d + q.left
          <6>1. CASE i = Len(metas) + 1
            BY <1>3, <1>4, <6>1, GoodFields
          <6>2. CASE i # Len(metas) + 1
            <7>0. PICK n \in Nat : n = Len(metas) /\ Len(metas') = n + 1
              BY <1>4, Types
            <7>1. i \in (q.m + 1) .. n /\ i \in 1 .. n
              <8>1. i \in (q.m + 1) .. (n + 1) /\ i # n + 1 /\ q.m \in Nat
                BY <5>1, <6>2, <7>0
              <8> QED
                BY <8>1
            <7> QED
              BY <1>4, <5>1, <7>0, <7>1
          <6> QED
            BY <6>1, <6>2
        <5> QED
          BY <5>2, <5>3
      <4> QED
        BY <4>1, <4>2
    <3> QED
      BY <3>1, <3>2 DEF Good
  <2> QED
    BY <2>1
<1>7. MetasWaiting'
  <2>1. CASE MetaFails
    BY <2>1 DEF MetasWaiting
  <2>2. CASE ~MetaFails
    <3>1. /\ Len(meta_write) <= Len(metas)
          /\ \A i \in 1 .. Len(meta_write) :
                meta_write[i] = metas[(Len(metas) - Len(meta_write)) + i]
      BY <2>2 DEF MetasWaiting
    <3>2. Len(metas') - Len(meta_write') = Len(metas) - Len(meta_write)
      BY <1>4, Types
    <3>3. ASSUME NEW i \in 1 .. Len(meta_write')
          PROVE  meta_write'[i] = metas'[(Len(metas) - Len(meta_write)) + i]
      <4>1. CASE i = Len(meta_write) + 1
        <5>1. (Len(metas) - Len(meta_write)) + i = Len(metas) + 1
          BY <4>1, Types
        <5> QED
          BY <1>4, <4>1, <5>1
      <4>2. CASE i # Len(meta_write) + 1
        <5>0. PICK n \in Nat, w \in Nat :
                  n = Len(metas) /\ w = Len(meta_write) /\ Len(meta_write') = w + 1
          BY <1>4, Types
        <5>1. i \in 1 .. w /\ (n - w) + i \in 1 .. n
          <6>1. i \in 1 .. (w + 1) /\ i # w + 1 /\ w <= n
            BY <3>1, <4>2, <5>0
          <6> QED
            BY <6>1
        <5> QED
          BY <1>4, <3>1, <5>0, <5>1
      <4> QED
        BY <4>1, <4>2
    <3>4. Len(meta_write') <= Len(metas')
      BY <1>4, <3>1, Types
    <3> QED
      BY <3>2, <3>3, <3>4 DEF MetasWaiting
  <2> QED
    BY <2>1, <2>2
<1>8. PICK C \in Seq(Symbols) : C = <<>>
  BY EmptySeq
<1>9. Stream' = Stream \o C
  <2>1. Stream' = Stream
    BY <1>2 DEF Stream
  <2> QED
    BY <1>8, <2>1, Types, ConcatEmptySeq
<1>10. ASSUME NEW z \in Good, AtWriter(z)
       PROVE  z \in Good' /\ AtWriter(z)' /\ Run(Good', metas', z, C, z)
  <2>1. z \in Good'
    BY <1>6
  <2>2. Len(metas') - Len(meta_write') = Len(metas) - Len(meta_write)
    BY <1>4, Types
  <2>3. AtWriter(z)'
    BY <1>2, <1>10, <2>2, Zenon DEF AtWriter
  <2> QED
    BY <1>8, <2>1, <2>3, RunStay
<1>11. Len(metas) <= Len(metas)'
  BY <1>4, Types
<1> QED
  BY <1>2, <1>4, <1>5, <1>6, <1>7, <1>9, <1>10, <1>11, WriterStep

\* A httpp_encoding_write that cannot flush the old buffer changes no position.
LEMMA Refused ==
    ASSUME IInv, WriteRefused PROVE IInv'
<1> USE DEF IInv
<1>1. PICK k \in 0 .. (Len(encoded) - 1) :
          \E j \in 0 .. Len(Drop(encoded, k)) : Flushed(k, Drop(encoded, k), j)
  BY DEF WriteRefused
<1>2. PICK j \in 0 .. Len(Drop(encoded, k)) : Flushed(k, Drop(encoded, k), j)
  BY <1>1
<1>3. /\ meta_write' = meta_write /\ rd' = rd /\ meta_read' = meta_read /\ written' = written
      /\ ends' = ends /\ metas' = metas /\ got' = got /\ gotmeta' = gotmeta
  BY DEF WriteRefused
<1>4. k \in 0 .. Len(encoded)
  BY Types
<1>5. Stream' = Stream /\ encoded' \in Seq(Symbols) /\ wire' \in Seq(Symbols)
  BY <1>2, <1>3, <1>4, FlushedSome
<1>6. TypeOK'
  BY <1>3, <1>5 DEF TypeOK
<1>7. Good' = Good /\ MetasWaiting'
  BY <1>3 DEF Good, MetasWaiting
<1>8. PICK C \in Seq(Symbols) : C = <<>>
  BY EmptySeq
<1>9. Stream' = Stream \o C
  BY <1>5, <1>8, Types, ConcatEmptySeq
<1>10. ASSUME NEW z \in Good, AtWriter(z)
       PROVE  z \in Good' /\ AtWriter(z)' /\ Run(Good', metas', z, C, z)
  <2>1. AtWriter(z)'
    BY <1>3, <1>10 DEF AtWriter
  <2> QED
    BY <1>7, <1>8, <2>1, RunStay
<1>11. Len(metas) <= Len(metas)' /\ \A i \in 1 .. Len(metas) : metas'[i] = metas[i]
  BY <1>3, Types
<1> QED
  BY <1>3, <1>6, <1>7, <1>9, <1>10, <1>11, WriterStep

\* A httpp_encoding_write without memory for a chunk drops no meta data of use.
LEMMA NoMemory ==
    ASSUME IInv, WriteNoMemory PROVE IInv'
<1> USE DEF IInv
<1>1. /\ MetaFails \/ meta_write = <<>>
      /\ Flushed(Len(encoded), <<>>, 0) /\ meta_write' = <<>>
      /\ rd' = rd /\ meta_read' = meta_read /\ written' = written
      /\ ends' = ends /\ metas' = metas /\ got' = got /\ gotmeta' = gotmeta
  BY DEF WriteNoMemory
<1>2. PICK C \in Seq(Symbols) : C = <<>> /\ 0 \in 0 .. Len(C)
  <2>1. <<>> \in Seq(Symbols) /\ Len(<<>>) = 0
    OBVIOUS
  <2>2. 0 \in 0 .. 0
    OBVIOUS
  <2> QED
    BY <2>1, <2>2
<1>3. Stream' = Stream \o C /\ encoded' \in Seq(Symbols) /\ wire' \in Seq(Symbols)
  BY <1>1, <1>2, FlushedAll
<1>4. TypeOK'
  BY <1>1, <1>3, EmptySeq DEF TypeOK
<1>5. Good \subseteq Good'
  BY <1>1 DEF Good
<1>6. MetasWaiting'
  BY <1>1 DEF MetasWaiting
<1>7. ASSUME NEW z \in Good, AtWriter(z)
      PROVE  z \in Good' /\ AtWriter(z)' /\ Run(Good', metas', z, C, z)
  <2>1. AtWriter(z)'
    BY <1>1, <1>7 DEF AtWriter
  <2> QED
    BY <1>2, <1>5, <2>1, RunStay
<1>8. Len(metas) <= Len(metas)' /\ \A i \in 1 .. Len(metas) : metas'[i] = metas[i]
  BY <1>1, Types
<1> QED
  BY <1>1, <1>3, <1>4, <1>5, <1>6, <1>7, <1>8, WriterStep

\* A chunk is built and goes behind the old buffer.
LEMMA Write ==
    ASSUME IInv, NEW n \in Nat, NEW null \in BOOLEAN, null <=> n = 0,
           httpp_encoding_write(n, null)
    PROVE  IInv'
<1> USE DEF IInv
<1>1. PICK len : len = Least(n, MaxChunk)
  OBVIOUS
<1>2. len \in Nat /\ (null <=> len = 0)
  <2>1. MaxChunk \in Nat \ {0}
    BY EncodingAssumption
  <2> QED
    BY <1>1, <2>1 DEF Least
<1>3. /\ ~null => ends = 0 /\ written + len <= MaxBytes
      /\ null => ends < MaxEnds
      /\ meta_write' = <<>> /\ written' = written + len
      /\ ends' = IF null THEN ends + 1 ELSE ends
      /\ rd' = rd /\ meta_read' = meta_read /\ metas' = metas
      /\ got' = got /\ gotmeta' = gotmeta
  BY <1>1 DEF httpp_encoding_write
<1>4. PICK j \in 0 .. Len(Chunk(len, null)) : Flushed(Len(encoded), Chunk(len, null), j)
  BY <1>1 DEF httpp_encoding_write
<1>5. /\ written \in Nat /\ ends \in Nat /\ written + len \in Nat
      /\ written + len <= MaxBytes /\ MaxBytes \in Nat /\ ends' <= MaxEnds
      /\ written' \in Nat /\ ends' \in Nat /\ MaxEnds \in Nat
  <2>1. /\ written \in Nat /\ ends \in Nat /\ written <= MaxBytes /\ MaxBytes \in Nat
        /\ MaxEnds \in Nat /\ ends <= MaxEnds
    BY Types, EncodingAssumption DEF TypeOK
  <2>2. CASE null
    BY <1>2, <1>3, <2>1, <2>2
  <2>3. CASE ~null
    BY <1>2, <1>3, <2>1, <2>3
  <2> QED
    BY <2>2, <2>3
<1>6. meta_write' \in Seq(Metas) /\ Len(meta_write') = 0
  BY <1>3, EmptySeq
<1>7. Good \subseteq Good'
  <2>1. ASSUME NEW q \in Good PROVE q \in Good'
    <3>1. /\ q \in Positions /\ q.d \in Nat /\ q.left \in Nat /\ q.d + q.left <= written
          /\ q.last => ends > 0 /\ q.left = 0 /\ q.d = written
      BY GoodFields DEF Good
    <3>2. q.d + q.left <= written'
      BY <1>2, <1>3, <1>5, <3>1
    <3>3. q.last => ends' > 0 /\ q.left = 0 /\ q.d = written'
      <4>1. ASSUME q.last PROVE null
        BY <1>2, <1>3, <1>5, <3>1, <4>1
      <4> QED
        BY <1>2, <1>3, <1>5, <3>1, <4>1
    <3>4. \/ MetaFails
          \/ /\ q.m <= Len(metas') - Len(meta_write')
             /\ \A i \in (q.m + 1) .. Len(metas') : metas'[i].at >= q.d + q.left
      <4>1. CASE MetaFails
        BY <4>1
      <4>2. CASE ~MetaFails
        <5>1. /\ q.m \in Nat /\ q.m <= Len(metas) - Len(meta_write)
              /\ \A i \in (q.m + 1) .. Len(metas) : metas[i].at >= q.d + q.left
          BY <4>2, GoodFields
        <5>2. q.m <= Len(metas') - Len(meta_write')
          <6>1. PICK l \in Nat, w \in Nat : l = Len(metas) /\ w = Len(meta_write)
            BY Types
          <6>2. q.m <= l - 0
            BY <5>1, <6>1
          <6> QED
            BY <1>3, <1>6, <6>1, <6>2
        <5> QED
          BY <1>3, <5>1, <5>2
      <4> QED
        BY <4>1, <4>2
    <3> QED
      BY <3>1, <3>2, <3>3, <3>4 DEF Good
  <2> QED
    BY <2>1
<1>8. ASSUME NEW z \in Good, AtWriter(z)
      PROVE  \E y \in Good' : AtWriter(y)' /\ Run(Good', metas', z, Chunk(len, null), y)
  <2>1. /\ z.k = "header" /\ z.left = 0 /\ (z.last <=> ends > 0) /\ z.d = written
        /\ z.m \in Nat /\ z.last \in BOOLEAN
        /\ MetaFails \/ z.m = Len(metas) - Len(meta_write)
        /\ z = At("header", 0, z.last, written, z.m)
    BY <1>8, GoodFields DEF AtWriter
  <2>2. z.last => null
    BY <1>3, <1>5, <2>1
  <2>3. At("header", 0, z.last, written, z.m) \in Good'
    BY <1>7, <2>1
  <2>4. PICK w \in Nat : w = Len(meta_write)
    BY Types
  <2>5. MetaFails \/ z.m + w = Len(metas')
    <3>1. PICK l \in Nat : l = Len(metas)
      BY Types
    <3>2. z.m = l - w => z.m + w = l
      BY <2>1
    <3> QED
      BY <1>3, <2>1, <2>4, <3>1, <3>2
  <2>6. ASSUME NEW k \in Phases, NEW left \in 0 .. len
        PROVE  At(k, left, null, written + (len - left), z.m + w) \in Good'
    <3>1. PICK q : q = At(k, left, null, written + (len - left), z.m + w)
      OBVIOUS
    <3>2. /\ left \in Nat /\ written + (len - left) \in Nat /\ z.m + w \in Nat
          /\ (written + (len - left)) + left = written + len
      BY <1>2, <1>5, <2>1
    <3>3. /\ q \in Positions /\ q.left = left /\ (q.last <=> null)
          /\ q.d = written + (len - left) /\ q.m = z.m + w
      BY <3>1, <3>2 DEF At, Positions
    <3>4. q.d + q.left <= written'
      BY <1>3, <1>5, <3>2, <3>3
    <3>5. q.last => ends' > 0 /\ q.left = 0 /\ q.d = written'
      <4>1. ASSUME null PROVE ends' > 0 /\ left = 0 /\ written + (len - left) = written'
        BY <1>2, <1>3, <1>5, <4>1
      <4> QED
        BY <3>3, <4>1
    <3>6. \/ MetaFails
          \/ /\ q.m <= Len(metas') - Len(meta_write')
             /\ \A i \in (q.m + 1) .. Len(metas') : metas'[i].at >= q.d + q.left
      <4>1. CASE MetaFails
        BY <4>1
      <4>2. CASE ~MetaFails
        <5>1. q.m = Len(metas') /\ Len(metas') \in Nat
          BY <1>3, <2>5, <3>3, <4>2, Types
        <5>2. q.m <= Len(metas') - Len(meta_write') /\ (q.m + 1) .. Len(metas') = {}
          BY <1>6, <5>1
        <5> QED
          BY <5>2
      <4> QED
        BY <4>1, <4>2
    <3> QED
      BY <3>1, <3>3, <3>4, <3>5, <3>6 DEF Good
  <2>7. MetaFails \/ \A i \in 1 .. Len(meta_write) : meta_write[i] = metas'[z.m + i]
    BY <1>3, <2>1 DEF MetasWaiting
  <2>8. Run(Good', metas', At("header", 0, z.last, written, z.m), Chunk(len, null),
            At("header", 0, null, written + len, z.m + Len(meta_write)))
    <3>1. PICK G : G = Good'
      OBVIOUS
    <3>2. PICK last \in BOOLEAN, m \in Nat : last = z.last /\ m = z.m
      BY <2>1
    <3>3. last => null
      BY <2>2, <3>2
    <3>4. At("header", 0, last, written, m) \in G
      BY <2>3, <3>1, <3>2
    <3>5. \A k \in Phases, left \in 0 .. len :
              At(k, left, null, written + (len - left), m + Len(meta_write)) \in G
      BY <2>4, <2>6, <3>1, <3>2
    <3>6. MetaFails \/ \A i \in 1 .. Len(meta_write) : meta_write[i] = metas'[m + i]
      BY <2>7, <3>2
    <3>7. written \in Nat /\ written + len <= MaxBytes /\ meta_write \in Seq(Metas)
      BY <1>5, Types
    <3>8. Run(G, metas', At("header", 0, last, written, m), Chunk(len, null),
              At("header", 0, null, written + len, m + Len(meta_write)))
      BY <1>2, <3>3, <3>4, <3>5, <3>6, <3>7, ChunkRun
    <3> QED
      BY <3>1, <3>2, <3>8
  <2>9. PICK y : y = At("header", 0, null, written + len, z.m + w)
    OBVIOUS
  <2>10. y \in Good'
    <3>1. "header" \in Phases /\ len - len = 0 /\ 0 \in 0 .. len
      BY <1>2 DEF Phases
    <3>2. written + (len - 0) = written + len
      BY <1>2
    <3> QED
      BY <2>6, <2>9, <3>1, <3>2
  <2>11. AtWriter(y)'
    <3>1. /\ y.k = "header" /\ y.left = 0 /\ (y.last <=> null) /\ y.d = written'
          /\ y.m = z.m + w
      BY <1>3, <2>9 DEF At
    <3>2. null <=> ends' > 0
      BY <1>3, <1>5
    <3>3. MetaFails \/ y.m = Len(metas') - Len(meta_write')
      BY <1>3, <1>6, <2>5, <3>1, Types
    <3>4. y.last <=> ends' > 0
      BY <3>1, <3>2, Zenon
    <3> QED
      BY <3>1, <3>3, <3>4, Zenon DEF AtWriter
  <2>12. Run(Good', metas', z, Chunk(len, null), y)
    BY <2>1, <2>4, <2>8, <2>9
  <2> QED
    BY <2>10, <2>11, <2>12
<1>9. Chunk(len, null) \in Seq(Symbols)
  BY <1>2, <1>5, Types, ChunkSymbols
<1>10. PICK C \in Seq(Symbols) : C = Chunk(len, null)
  BY <1>9
<1>11. Stream' = Stream \o C /\ encoded' \in Seq(Symbols) /\ wire' \in Seq(Symbols)
  BY <1>3, <1>4, <1>10, FlushedAll
<1>12. TypeOK'
  <2>1. written' \in 0 .. MaxBytes /\ ends' \in 0 .. MaxEnds
    BY <1>3, <1>5
  <2> QED
    BY <1>3, <1>6, <1>11, <2>1 DEF TypeOK
<1>13. MetasWaiting'
  BY <1>3, <1>6, Types DEF MetasWaiting
<1>14. Len(metas) <= Len(metas)' /\ \A i \in 1 .. Len(metas) : metas'[i] = metas[i]
  BY <1>3, Types
<1> QED
  BY <1>3, <1>7, <1>8, <1>10, <1>11, <1>12, <1>13, <1>14, WriterStep

\* A step of the reader that moves nothing in the stream and nothing out of it.
LEMMA ReaderKeeps ==
    ASSUME IInv, TypeOK', Stream' = Stream, Delivered' = Delivered,
           (gotmeta \o meta_read)' = gotmeta \o meta_read,
           rd'.raw = rd.raw, rd'.bytes_till_eof = rd.bytes_till_eof, rd'.bad = rd.bad,
           rd'.read_bytes_till_header = rd.read_bytes_till_header,
           UNCHANGED <<meta_write, written, ends, metas>>
    PROVE  IInv'
<1>1. Good' = Good /\ metas' = metas
  BY DEF Good
<1>2. PICK q \in Good :
          /\ AtReader(q)
          /\ rd.bytes_till_eof # 0 =>
                \E z \in Good : AtWriter(z) /\ Run(Good, metas, q, Stream, z)
  BY DEF IInv, InStep
<1>3. Counters(rd', q)
  BY <1>2, Zenon DEF AtReader, Counters
<1>4. AtReader(q)'
  BY <1>2, <1>3, Zenon DEF AtReader
<1>5. ASSUME NEW z \in Good, AtWriter(z), Run(Good, metas, q, Stream, z)
      PROVE  AtWriter(z)' /\ Run(Good', metas', q, Stream', z)
  BY <1>1, <1>5 DEF AtWriter
<1>6. InStep'
  <2>1. rd'.bytes_till_eof # 0 =>
            \E z \in Good' : AtWriter(z)' /\ Run(Good', metas', q, Stream', z)
    BY <1>1, <1>2, <1>5
  <2> QED
    BY <1>1, <1>4, <2>1 DEF InStep
<1>7. NeverLost' /\ Kept(rd)' /\ DataSoFar' /\ MetasSoFar' /\ MetasWaiting'
  BY DEF IInv, NeverLost, Kept, DataSoFar, MetasSoFar, MetasWaiting
<1> QED
  BY <1>6, <1>7 DEF IInv

\* httpp_encoding_get_meta only moves meta data over to the client.
LEMMA GetMeta ==
    ASSUME IInv, httpp_encoding_get_meta PROVE IInv'
<1>1. /\ gotmeta' = gotmeta \o meta_read /\ meta_read' = <<>>
      /\ meta_write' = meta_write /\ encoded' = encoded /\ wire' = wire /\ rd' = rd
      /\ written' = written /\ ends' = ends /\ metas' = metas /\ got' = got
  BY DEF httpp_encoding_get_meta
<1>2. PICK all \in Seq(Metas) : all = gotmeta \o meta_read
  BY Types DEF IInv
<1>3. all \o <<>> = all
  BY ConcatEmptySeq
<1>4. (gotmeta \o meta_read)' = gotmeta \o meta_read
  BY <1>1, <1>2, <1>3
<1>5. TypeOK'
  BY <1>1, <1>2, EmptySeq DEF IInv, TypeOK
<1> QED
  BY <1>1, <1>4, <1>5, ReaderKeeps DEF Stream, Delivered

\* What was read stays read, and a read at the end of the stream does nothing.
ReadsOn ==
    /\ Len(got) <= Len(got')
    /\ httpp_encoding_eof => got' = got /\ rd' = rd

\* A httpp_encoding_read from the decoded bytes takes them in order.
LEMMA Decoded ==
    ASSUME IInv, NEW len \in Nat \ {0}, ReadDecoded(len) PROVE IInv' /\ ReadsOn
<1>0. PICK g \in Seq(Symbols), d \in Seq(Symbols) : g = got /\ d = rd.decoded
  BY Types DEF IInv
<1>1. /\ len <= Len(d) /\ got' = g \o Take(d, len)
      /\ rd' = [rd EXCEPT !.decoded = Drop(d, len)]
      /\ meta_write' = meta_write /\ encoded' = encoded /\ wire' = wire
      /\ meta_read' = meta_read /\ gotmeta' = gotmeta
      /\ written' = written /\ ends' = ends /\ metas' = metas
  BY <1>0 DEF ReadDecoded
<1>2. len \in 0 .. Len(d)
  BY <1>1, LenProperties
<1>3. PICK t \in Seq(Symbols) : t = Take(d, len)
  BY <1>2, TakeDrop
<1>4. PICK u \in Seq(Symbols) : u = Drop(d, len) /\ t \o u = d
  BY <1>2, <1>3, TakeDrop
<1>5. /\ rd' \in Reader /\ rd'.raw = rd.raw /\ rd'.decoded = u /\ rd'.bad = rd.bad
      /\ rd'.bytes_till_eof = rd.bytes_till_eof
      /\ rd'.read_bytes_till_header = rd.read_bytes_till_header
  BY <1>1, <1>4 DEF IInv, TypeOK, Reader
<1>6. got' = g \o t /\ got' \in Seq(Symbols)
  BY <1>1, <1>3, ConcatSymbols
<1>7. TypeOK'
  BY <1>1, <1>5, <1>6 DEF IInv, TypeOK
<1>8. Delivered' = Delivered
  <2>1. Join(g, Join(t, u)) = Join(Join(g, t), u)
    BY JoinAssociative
  <2>2. g \o (t \o u) = (g \o t) \o u
    BY <2>1, Zenon DEF Join
  <2> QED
    BY <1>0, <1>4, <1>5, <1>6, <2>2 DEF Delivered
<1>9. Stream' = Stream
  BY <1>1, <1>5 DEF Stream
<1>10. ReadsOn
  <2>1. Len(g \o t) = Len(g) + Len(t) /\ Len(g) \in Nat /\ Len(t) \in Nat
    BY ConcatSymbols
  <2>2. Len(g) <= Len(got')
    BY <1>6, <2>1
  <2>3. ~httpp_encoding_eof
    <3>1. d # <<>>
      BY <1>2
    <3> QED
      BY <1>0, <3>1 DEF httpp_encoding_eof
  <2> QED
    BY <1>0, <2>2, <2>3 DEF ReadsOn
<1> QED
  BY <1>1, <1>5, <1>7, <1>8, <1>9, <1>10, ReaderKeeps

\* At the end of the stream the callback is asked for nothing and nothing happens.
LEMMA EofStays ==
    ASSUME NEW r \in Reader, NEW in \in Seq(Symbols), NEW want \in Nat,
           r.bytes_till_eof = 0, Kept(r), Len(in) <= Asked(r, want)
    PROVE  __enc_chunked_read(r, in, TRUE) = Answer(r, <<>>, <<>>)
<1>1. r.read_bytes_till_header = 0
  BY DEF Kept
<1>2. Asked(r, want) = 0
  BY <1>1 DEF Asked
<1>3. Len(in) \in Nat
  BY LenProperties
<1>4. in = <<>>
  BY <1>2, <1>3, EmptySeq
<1> QED
  BY <1>1, <1>4 DEF __enc_chunked_read

\* What comes out of a read, joined with what it leaves decoded.
LEMMA DeliveredParts ==
    ASSUME NEW x \in Seq(Symbols), NEW out \in Seq(Symbols), NEW t \in Seq(Symbols),
           NEW u \in Seq(Symbols)
    PROVE  Join(Join(Join(x, out), t), u) = Join(x, Join(out, Join(t, u)))
<1>1. PICK y \in Seq(Symbols) : y = Join(out, t)
  BY JoinAssociative
<1>2. Join(x, Join(out, t)) = Join(Join(x, out), t)
  BY JoinAssociative
<1>3. Join(x, Join(y, u)) = Join(Join(x, y), u)
  BY JoinAssociative
<1>4. Join(out, Join(t, u)) = Join(Join(out, t), u)
  BY JoinAssociative
<1> QED
  BY <1>1, <1>2, <1>3, <1>4

\* A httpp_encoding_read that asks its callback keeps the invariant, whatever the
\* callback returns.
LEMMA Read ==
    ASSUME IInv, NEW len \in Nat, NEW k \in 0 .. Len(wire), httpp_encoding_read(len, k, TRUE)
    PROVE  IInv' /\ ReadsOn
<1>g. /\ rd \in Reader /\ ~rd.bad /\ Kept(rd) /\ TypeOK
  BY DEF IInv, TypeOK, NeverLost
<1>0. PICK r : r = [rd EXCEPT !.decoded = <<>>]
  OBVIOUS
<1>1. /\ r \in Reader /\ r.raw = rd.raw /\ r.decoded = <<>> /\ r.bad = rd.bad
      /\ r.bytes_till_eof = rd.bytes_till_eof
      /\ r.read_bytes_till_header = rd.read_bytes_till_header
  <2>1. <<>> \in Seq(Symbols)
    OBVIOUS
  <2> QED
    BY <1>g, <1>0, <2>1 DEF Reader
<1>2. PICK g \in Seq(Symbols), d \in Seq(Symbols), raw \in Seq(Symbols),
           w \in Seq(Symbols), e \in Seq(Symbols) :
          g = got /\ d = rd.decoded /\ raw = rd.raw /\ w = wire /\ e = encoded
  BY <1>g, Types
<1>3. PICK want : want = len - Len(d)
  OBVIOUS
<1>4. PICK in \in Seq(Symbols) : in = Take(w, k) /\ Len(in) = k
  BY <1>2, TakeDrop
<1>5. PICK left \in Seq(Symbols) : left = Drop(w, k) /\ in \o left = w
  BY <1>2, <1>4, TakeDrop
<1>6. PICK a : a = __enc_chunked_read(r, in, TRUE)
  OBVIOUS
<1>7. PICK more : more = Least(want - Len(a.out), Len(a.r.decoded))
  OBVIOUS
<1>8. /\ want > 0 /\ k <= Least(Asked(r, want), Len(w)) /\ wire' = left
      /\ got' = ((g \o d) \o a.out) \o Take(a.r.decoded, more)
      /\ rd' = [a.r EXCEPT !.decoded = Drop(@, more)]
      /\ meta_read' = meta_read \o a.meta
      /\ meta_write' = meta_write /\ encoded' = encoded /\ written' = written
      /\ ends' = ends /\ metas' = metas /\ gotmeta' = gotmeta
  BY <1>0, <1>2, <1>3, <1>4, <1>5, <1>6, <1>7 DEF httpp_encoding_read
<1>9. want \in Nat
  BY <1>3, <1>8, LenProperties
<1>10. Len(in) <= Asked(r, want)
  <2>1. Asked(r, want) \in Int /\ Len(w) \in Nat /\ k \in Nat
    BY <1>1, <1>9, LenProperties, EncodingAssumption, SMTT(20) DEF Asked, Least, Reader
  <2> QED
    BY <1>4, <1>8, <2>1 DEF Least
<1>11. PICK q \in Good :
          /\ AtReader(q)
          /\ rd.bytes_till_eof # 0 =>
                \E z \in Good : AtWriter(z) /\ Run(Good, metas, q, Stream, z)
  BY DEF IInv, InStep
<1>12. PICK z : rd.bytes_till_eof # 0 =>
                   z \in Good /\ AtWriter(z) /\ Run(Good, metas, q, Stream, z)
  BY <1>11
<1>13. PICK rest \in Seq(Symbols) : rest = left \o e
  BY ConcatSymbols
<1>14. Stream = raw \o (in \o rest)
  <2>1. Join(Join(raw, Join(in, left)), e) = Join(raw, Join(in, Join(left, e)))
    BY JoinAssociative
  <2>2. (raw \o (in \o left)) \o e = raw \o (in \o (left \o e))
    BY <2>1, Zenon DEF Join
  <2> QED
    BY <1>2, <1>5, <1>13, <2>2 DEF Stream
<1>15. Counters(r, q)
  BY <1>1, <1>11, Zenon DEF AtReader, Counters
<1>16. Kept(r)
  BY <1>g, <1>1, Zenon DEF Kept
<1>17. r.bytes_till_eof # 0 => Run(Good, metas, q, r.raw \o (in \o rest), z)
  BY <1>1, <1>2, <1>12, <1>14
<1>18. Reads(q, a, rest, z) /\ Len(a.out) <= want
  <2>1. ~r.bad
    BY <1>g, <1>1
  <2> QED
    BY <1>1, <1>6, <1>9, <1>10, <1>15, <1>16, <1>17, <2>1, CallReads, Zenon
<1>19. rd.bytes_till_eof = 0 => a.r.bytes_till_eof = 0
  <2>1. ASSUME rd.bytes_till_eof = 0 PROVE a.r.bytes_till_eof = 0
    <3>1. a = Answer(r, <<>>, <<>>)
      BY <1>1, <1>6, <1>9, <1>10, <1>16, <2>1, EofStays
    <3> QED
      BY <1>1, <2>1, <3>1 DEF Answer
  <2> QED
    BY <2>1
<1>20. PICK s \in Reader, out \in Seq(Symbols), meta \in Seq(Metas) :
           s = a.r /\ out = a.out /\ meta = a.meta
  BY <1>18 DEF Reads
<1>21. PICK dec \in Seq(Symbols) : dec = s.decoded
  BY ReaderTypes
<1>22. /\ ~s.bad /\ Kept(s)
       /\ \A i \in 1 .. Len(out \o dec) : (out \o dec)[i] = Data(q.d + i)
       /\ MetaFails \/ \A i \in 1 .. Len(meta) : meta[i] = metas[q.m + i]
       /\ \E p \in Good :
             /\ Counters(s, p) /\ p.d = q.d + Len(out \o dec) /\ p.m = q.m + Len(meta)
             /\ s.bytes_till_eof # 0 => Run(Good, metas, p, s.raw \o rest, z)
  BY <1>18, <1>20, <1>21, Zenon DEF Reads
<1>23. PICK p \in Good :
             /\ Counters(s, p) /\ p.d = q.d + Len(out \o dec) /\ p.m = q.m + Len(meta)
             /\ s.bytes_till_eof # 0 => Run(Good, metas, p, s.raw \o rest, z)
  BY <1>22
<1>24. more \in 0 .. Len(dec)
  <2>1. Len(out) \in Nat /\ Len(dec) \in Nat /\ Len(out) <= want
    BY <1>18, <1>20, LenProperties
  <2> QED
    <3>1. PICK x \in Nat, y \in Nat : x = Len(out) /\ y = Len(dec) /\ x <= want
      BY <2>1
    <3>2. more = Least(want - x, y)
      BY <1>7, <1>20, <1>21, <3>1
    <3>3. more \in 0 .. y
      BY <1>9, <3>1, <3>2 DEF Least
    <3> QED
      BY <3>1, <3>3
<1>25. PICK t \in Seq(Symbols) : t = Take(dec, more)
  BY <1>24, TakeDrop
<1>26. PICK u \in Seq(Symbols) : u = Drop(dec, more) /\ t \o u = dec
  BY <1>24, <1>25, TakeDrop
<1>27. /\ rd' \in Reader /\ rd'.raw = s.raw /\ rd'.decoded = u /\ rd'.bad = s.bad
       /\ rd'.bytes_till_eof = s.bytes_till_eof
       /\ rd'.read_bytes_till_header = s.read_bytes_till_header
  BY <1>8, <1>20, <1>21, <1>26 DEF Reader
<1>28. got' = ((g \o d) \o out) \o t /\ got' \in Seq(Symbols)
  <2>1. (g \o d) \o out \in Seq(Symbols)
    BY ConcatSymbols
  <2> QED
    BY <1>8, <1>20, <1>21, <1>25, <2>1, ConcatSymbols
<1>29. Delivered' = Delivered \o (out \o dec)
  <2>1. (((g \o d) \o out) \o t) \o u = (g \o d) \o (out \o (t \o u))
    <3>1. PICK x \in Seq(Symbols) : x = g \o d
      BY ConcatSymbols
    <3>2. Join(Join(Join(x, out), t), u) = Join(x, Join(out, Join(t, u)))
      BY DeliveredParts, SMTT(30)
    <3>3. ((x \o out) \o t) \o u = x \o (out \o (t \o u))
      BY <3>2, Zenon DEF Join
    <3> QED
      BY <3>1, <3>3
  <2> QED
    BY <1>2, <1>26, <1>27, <1>28, <2>1 DEF Delivered
<1>30. PICK all \in Seq(Metas) : all = gotmeta \o meta_read
  BY <1>g, Types
<1>31. (gotmeta \o meta_read)' = all \o meta /\ meta_read' \in Seq(Metas)
  <2>1. PICK x \in Seq(Metas), y \in Seq(Metas) : x = gotmeta /\ y = meta_read
    BY <1>g DEF TypeOK
  <2>2. (x \o y) \o meta = x \o (y \o meta) /\ y \o meta \in Seq(Metas)
    <3>1. Join(x, Join(y, meta)) = Join(Join(x, y), meta)
      BY JoinMetas
    <3> QED
      BY <3>1, ConcatProperties DEF Join
  <2> QED
    BY <1>8, <1>20, <1>30, <2>1, <2>2
<1>32. TypeOK'
  BY <1>g, <1>8, <1>27, <1>28, <1>31 DEF TypeOK
<1>33. Good' = Good /\ metas' = metas
  BY <1>8 DEF Good
<1>34. PICK del \in Seq(Symbols), new \in Seq(Symbols) :
           del = Delivered /\ new = out \o dec
  BY <1>g, Types, ConcatSymbols
<1>35. /\ Len(del \o new) = Len(del) + Len(new) /\ Len(del) \in Nat /\ Len(new) \in Nat
       /\ \A i \in 1 .. Len(del) + Len(new) :
              (del \o new)[i] = IF i <= Len(del) THEN del[i] ELSE new[i - Len(del)]
  BY ConcatProperties, LenProperties
<1>36. /\ Len(all \o meta) = Len(all) + Len(meta) /\ Len(all) \in Nat /\ Len(meta) \in Nat
       /\ \A i \in 1 .. Len(all) + Len(meta) :
              (all \o meta)[i] = IF i <= Len(all) THEN all[i] ELSE meta[i - Len(all)]
  BY ConcatProperties, LenProperties
<1>37. q.d = Len(del) /\ (MetaFails \/ q.m = Len(all))
  BY <1>11, <1>30, <1>34 DEF AtReader
<1>38. DataSoFar'
  <2>1. ASSUME NEW i \in 1 .. Len(del) + Len(new) PROVE (del \o new)[i] = Data(i)
    <3>1. CASE i <= Len(del)
      <4>1. \A j \in 1 .. Len(del) : del[j] = Data(j)
        BY <1>34 DEF IInv, DataSoFar
      <4> QED
        BY <1>35, <3>1, <4>1
    <3>2. CASE ~(i <= Len(del))
      <4>0. PICK x \in Nat, y \in Nat : x = Len(del) /\ y = Len(new)
        BY <1>35
      <4>1. i - x \in 1 .. y /\ x + (i - x) = i
        <5>1. i \in 1 .. x + y /\ ~(i <= x)
          BY <3>2, <4>0
        <5> QED
          BY <5>1
      <4>2. new[i - x] = Data(q.d + (i - x))
        BY <1>22, <1>34, <4>0, <4>1
      <4> QED
        BY <1>35, <1>37, <3>2, <4>0, <4>1, <4>2
    <3> QED
      BY <3>1, <3>2
  <2>2. Delivered' = del \o new
    BY <1>29, <1>34
  <2> QED
    BY <1>35, <2>1, <2>2 DEF DataSoFar
<1>39. MetasSoFar'
  <2>1. CASE MetaFails
    BY <2>1 DEF MetasSoFar
  <2>2. CASE ~MetaFails
    <3>1. ASSUME NEW i \in 1 .. Len(all) + Len(meta) PROVE (all \o meta)[i] = metas[i]
      <4>1. CASE i <= Len(all)
        <5>1. \A j \in 1 .. Len(all) : all[j] = metas[j]
          BY <1>30, <2>2 DEF IInv, MetasSoFar
        <5> QED
          BY <1>36, <4>1, <5>1
      <4>2. CASE ~(i <= Len(all))
        <5>1. i - Len(all) \in 1 .. Len(meta) /\ Len(all) + (i - Len(all)) = i
          BY <1>36, <4>2
        <5>2. meta[i - Len(all)] = metas[q.m + (i - Len(all))]
          BY <1>22, <2>2, <5>1
        <5> QED
          BY <1>36, <1>37, <2>2, <4>2, <5>1, <5>2
      <4> QED
        BY <4>1, <4>2
    <3> QED
      BY <1>31, <1>33, <1>36, <3>1 DEF MetasSoFar
  <2> QED
    BY <2>1, <2>2
<1>40. AtReader(p)'
  <2>1. Counters(rd', p)
    BY <1>23, <1>27, Zenon DEF Counters
  <2>2. p.d = Len(Delivered')
    BY <1>23, <1>29, <1>34, <1>35, <1>37
  <2>3. MetaFails \/ p.m = Len((gotmeta \o meta_read)')
    BY <1>23, <1>31, <1>36, <1>37
  <2> QED
    BY <2>1, <2>2, <2>3 DEF AtReader
<1>41. rd'.bytes_till_eof # 0 =>
           z \in Good' /\ AtWriter(z)' /\ Run(Good', metas', p, Stream', z)
  <2> SUFFICES ASSUME rd'.bytes_till_eof # 0
               PROVE  z \in Good' /\ AtWriter(z)' /\ Run(Good', metas', p, Stream', z)
    OBVIOUS
  <2>1. rd.bytes_till_eof # 0 /\ s.bytes_till_eof # 0
    BY <1>19, <1>20, <1>27
  <2>2. PICK sraw \in Seq(Symbols) : sraw = s.raw
    BY ReaderTypes
  <2>3. Stream' = sraw \o rest
    <3>1. Join(Join(sraw, left), e) = Join(sraw, Join(left, e))
      BY JoinAssociative, SMTT(30)
    <3>2. (sraw \o left) \o e = sraw \o (left \o e)
      BY <3>1, Zenon DEF Join
    <3> QED
      BY <1>2, <1>8, <1>13, <1>27, <2>2, <3>2 DEF Stream
  <2>4. AtWriter(z)'
    BY <1>8, <1>12, <2>1 DEF AtWriter
  <2> QED
    BY <1>12, <1>23, <1>33, <2>1, <2>2, <2>3, <2>4
<1>42. InStep'
  <2>1. p \in Good' /\ AtReader(p)'
    BY <1>33, <1>40
  <2> QED
    BY <1>41, <2>1 DEF InStep
<1>43. NeverLost' /\ Kept(rd)'
  BY <1>22, <1>27, Zenon DEF NeverLost, Kept
<1>44. MetasWaiting'
  BY <1>8 DEF MetasWaiting, IInv
<1>45. Len(got) <= Len(got')
  <2>1. PICK x \in Seq(Symbols) : x = g \o d /\ Len(x) = Len(g) + Len(d)
    BY ConcatSymbols
  <2>2. PICK y \in Seq(Symbols) : y = x \o out /\ Len(y) = Len(x) + Len(out)
    BY ConcatSymbols
  <2>3. got' = y \o t /\ Len(y \o t) = Len(y) + Len(t)
    BY <1>28, <2>1, <2>2, ConcatSymbols
  <2>4. /\ Len(g) \in Nat /\ Len(d) \in Nat /\ Len(out) \in Nat /\ Len(t) \in Nat
        /\ Len(x) \in Nat /\ Len(y) \in Nat
    BY LenProperties
  <2>5. Len(g) <= Len(got')
    BY <2>1, <2>2, <2>3, <2>4
  <2> QED
    BY <1>2, <2>5
<1>46. ASSUME httpp_encoding_eof PROVE got' = got /\ rd' = rd
  <2>1. d = <<>> /\ rd.bytes_till_eof = 0
    BY <1>2, <1>46 DEF httpp_encoding_eof
  <2>2. a = Answer(r, <<>>, <<>>)
    BY <1>1, <1>6, <1>9, <1>10, <1>16, <2>1, EofStays
  <2>3. s = r /\ out = <<>>
    BY <1>20, <2>2 DEF Answer
  <2>4. dec = <<>> /\ Len(dec) = 0
    BY <1>1, <1>21, <2>3
  <2>5. t = <<>> /\ u = <<>>
    <3>1. Len(t) = 0 /\ Len(u) = 0
      BY <1>24, <1>25, <1>26, <2>4, TakeDrop
    <3> QED
      BY <3>1, EmptySeq
  <2>6. got' = g
    <3>1. g \o <<>> = g
      BY ConcatEmptySeq
    <3> QED
      BY <1>28, <2>1, <2>3, <2>5, <3>1
  <2>7. rd' = rd
    <3>1. /\ rd'.raw = rd.raw /\ rd'.decoded = rd.decoded /\ rd'.bad = rd.bad
          /\ rd'.bytes_till_eof = rd.bytes_till_eof
          /\ rd'.read_bytes_till_header = rd.read_bytes_till_header
      BY <1>1, <1>2, <1>27, <2>1, <2>3, <2>5
    <3>2. PICK x \in Reader, y \in Reader : x = rd' /\ y = rd
      BY <1>g, <1>27
    <3>3. x = [raw |-> x.raw, decoded |-> x.decoded, bytes_till_eof |-> x.bytes_till_eof,
               read_bytes_till_header |-> x.read_bytes_till_header, bad |-> x.bad]
      BY ReaderTypes
    <3>4. y = [raw |-> y.raw, decoded |-> y.decoded, bytes_till_eof |-> y.bytes_till_eof,
               read_bytes_till_header |-> y.read_bytes_till_header, bad |-> y.bad]
      BY ReaderTypes
    <3> QED
      BY <3>1, <3>2, <3>3, <3>4, Zenon
  <2> QED
    BY <1>2, <2>6, <2>7
<1> QED
  BY <1>32, <1>38, <1>39, <1>42, <1>43, <1>44, <1>45, <1>46 DEF IInv, ReadsOn

-----------------------------------------------------------------------------
(* The theorems                                                            *)

\* The reads, with what is assumed of the reader's memory.
LEMMA Reading ==
    ASSUME IInv, ReadFails = FALSE, ReadSome \/ ReadNothing
    PROVE  IInv' /\ ReadsOn
<1>1. ReadLens \subseteq Nat \ {0}
  BY EncodingAssumption
<1>2. CASE ReadSome
  <2>1. PICK len \in ReadLens, k \in 1 .. Len(wire), mem \in {TRUE, ~ReadFails} :
            httpp_encoding_read(len, k, mem)
    BY <1>2 DEF ReadSome
  <2>2. mem = TRUE
    OBVIOUS
  <2>3. len \in Nat /\ k \in 0 .. Len(wire)
    BY <1>1
  <2> QED
    BY <2>1, <2>2, <2>3, Read
<1>3. CASE ReadNothing
  <2>1. PICK len \in ReadLens : ReadDecoded(len) \/ httpp_encoding_read(len, 0, TRUE)
    BY <1>3 DEF ReadNothing
  <2>2. CASE ReadDecoded(len)
    BY <1>1, <2>2, Decoded
  <2>3. CASE httpp_encoding_read(len, 0, TRUE)
    <3>1. 0 \in 0 .. Len(wire)
      BY Types DEF IInv
    <3> QED
      BY <1>1, <2>3, <3>1, Read
  <2> QED
    BY <2>1, <2>2, <2>3
<1> QED
  BY <1>2, <1>3

\* Every call, and every step that does nothing, keeps the invariant.
LEMMA NextInv ==
    ASSUME IInv, ReadFails = FALSE, 0 \notin Lens, [Next]_vars PROVE IInv'
<1>1. CASE httpp_encoding_append_meta
  BY <1>1, AppendMeta
<1>2. CASE WriteRefused
  BY <1>2, Refused
<1>3. ASSUME NEW n \in Lens, httpp_encoding_write(n, FALSE) PROVE IInv'
  <2>1. n \in Nat /\ FALSE \in BOOLEAN /\ (FALSE <=> n = 0)
    BY EncodingAssumption
  <2> QED
    BY <1>3, <2>1, Write
<1>4. CASE httpp_encoding_write(0, TRUE)
  <2>1. 0 \in Nat /\ TRUE \in BOOLEAN /\ (TRUE <=> 0 = 0)
    OBVIOUS
  <2> QED
    BY <1>4, <2>1, Write
<1>5. CASE WriteNoMemory
  BY <1>5, NoMemory
<1>6. CASE ReadSome \/ ReadNothing
  BY <1>6, Reading
<1>7. CASE httpp_encoding_get_meta
  BY <1>7, GetMeta
<1>8. CASE UNCHANGED vars
  <2>1. TypeOK'
    BY <1>8 DEF vars, TypeOK, IInv
  <2> QED
    BY <1>8, <2>1, ReaderKeeps DEF vars, Stream, Delivered
<1> QED
  BY <1>1, <1>2, <1>3, <1>4, <1>5, <1>6, <1>7, <1>8 DEF Next

\* The inductive invariant.
THEOREM Inductive ==
    ASSUME ReadFails = FALSE, 0 \notin Lens PROVE Spec => []IInv
<1>1. IInv /\ [Next]_vars => IInv'
  BY NextInv
<1> QED
  BY <1>1, InitInv, PTL DEF Spec

\* The reader gets the bytes that were written, in order, each once.
THEOREM InOrder ==
    ASSUME ReadFails = FALSE, 0 \notin Lens PROVE Spec => []DeliveredInOrder
<1>1. IInv => DeliveredInOrder
  <2> SUFFICES ASSUME IInv, NEW i \in 1 .. Len(got) PROVE got[i] = Data(i)
    BY DEF DeliveredInOrder
  <2>1. PICK g \in Seq(Symbols), d \in Seq(Symbols) : g = got /\ d = rd.decoded
    BY Types DEF IInv
  <2>2. /\ Len(g \o d) = Len(g) + Len(d) /\ Len(g) \in Nat /\ Len(d) \in Nat
        /\ \A j \in 1 .. Len(g) : (g \o d)[j] = g[j]
    BY ConcatSymbols
  <2>3. i \in 1 .. Len(g \o d)
    BY <2>1, <2>2
  <2> QED
    BY <2>1, <2>2, <2>3 DEF IInv, DataSoFar, Delivered
<1> QED
  BY <1>1, Inductive, PTL

\* The reader never takes something else for a chunk header.
THEOREM Framed ==
    ASSUME ReadFails = FALSE, 0 \notin Lens PROVE Spec => []NeverLost
<1>1. IInv => NeverLost
  BY DEF IInv
<1> QED
  BY <1>1, Inductive, PTL

\* The lengths of what was delivered.
LEMMA DeliveredLengths ==
    ASSUME IInv
    PROVE  /\ Len(got) \in Nat /\ Len(rd.decoded) \in Nat /\ written \in Nat
           /\ Len(Delivered) = Len(got) + Len(rd.decoded) /\ Len(Delivered) <= written
<1>1. PICK q \in Good : AtReader(q)
  BY DEF IInv, InStep
<1>2. /\ got \in Seq(Symbols) /\ rd.decoded \in Seq(Symbols) /\ written \in Nat
  BY Types DEF IInv
<1>3. /\ Len(got) \in Nat /\ Len(rd.decoded) \in Nat
      /\ Len(Delivered) = Len(got) + Len(rd.decoded)
  BY <1>2, ConcatSymbols DEF Delivered
<1>4. q.d = Len(Delivered) /\ q.d <= written
  BY <1>1, <1>2, GoodFields DEF AtReader
<1> QED
  BY <1>2, <1>3, <1>4

\* At the end of the stream the last chunk was seen, and it comes after all data.
LEMMA EndMeansAll == IInv => EofMeansAll
<1> SUFFICES ASSUME IInv, httpp_encoding_eof PROVE ends > 0 /\ Len(got) = written
  BY DEF EofMeansAll
<1>1. PICK q \in Good : AtReader(q)
  BY DEF IInv, InStep
<1>2. rd.bytes_till_eof # -1 /\ rd.decoded = <<>>
  BY DEF httpp_encoding_eof
<1>3. q.last
  BY <1>1, <1>2, Zenon DEF AtReader, Counters
<1>4. ends > 0 /\ q.d = written
  BY <1>3, GoodFields
<1>5. Len(rd.decoded) = 0
  BY <1>2
<1> QED
  BY <1>1, <1>4, <1>5, DeliveredLengths DEF AtReader

\* httpp_encoding_eof says 1 only when the writer ended the stream and everything
\* it wrote was read.
THEOREM EofIsTheEnd ==
    ASSUME ReadFails = FALSE, 0 \notin Lens PROVE Spec => []EofMeansAll
<1> QED
  BY EndMeansAll, Inductive, PTL

\* A reader with nothing left to read is not inside a chunk, so it is at the end.
LEMMA EndIsNoticed ==
    ASSUME IInv, LoneEnd = FALSE PROVE EofNoticed
<1> SUFFICES ASSUME ends > 0, encoded = <<>>, wire = <<>>, rd.decoded = <<>>,
                    \A i \in 1 .. Len(rd.raw) : rd.raw[i].c # "len",
                    rd.bytes_till_eof # 0
             PROVE  FALSE
  BY DEF EofNoticed, httpp_encoding_eof
<1>1. PICK q \in Good :
          /\ AtReader(q)
          /\ \E z \in Good : AtWriter(z) /\ Run(Good, metas, q, Stream, z)
  BY DEF IInv, InStep
<1>2. PICK z \in Good : AtWriter(z) /\ Run(Good, metas, q, Stream, z)
  BY <1>1
<1>3. PICK raw \in Seq(Symbols) : raw = rd.raw
  BY Types DEF IInv
<1>4. Run(Good, metas, q, raw, z)
  <2>1. raw \o <<>> = raw
    BY ConcatEmptySeq
  <2>2. Stream = raw
    BY <1>3, <2>1 DEF Stream
  <2> QED
    BY <1>2, <2>2
<1>5. z.k = "header" /\ z.last
  BY <1>2, Zenon DEF AtWriter
<1>6. /\ rd \in Reader /\ Kept(rd) /\ Counters(rd, q)
      /\ rd.bytes_till_eof \in {-1, 0, 2} /\ rd.read_bytes_till_header \in Nat
  BY <1>1, ReaderTypes DEF IInv, TypeOK, AtReader
<1>7. q.k = "header" => raw # <<>> \/ q.last
  BY <1>4, <1>5, RunEmpty
<1>8. q.k # "header" => raw # <<>>
  BY <1>4, <1>5, RunEmpty
<1>9. CASE rd.read_bytes_till_header > 2
  <2>1. q.k = "body" /\ rd.raw = <<>>
    <3>1. rd.read_bytes_till_header # 0
      BY <1>9
    <3> QED
      BY <1>6, <1>9, <3>1 DEF Kept, Counters
  <2> QED
    BY <1>3, <1>8, <2>1
<1>10. CASE rd.read_bytes_till_header # 0 /\ ~(rd.read_bytes_till_header > 2)
  <2>1. q.k = "body" /\ rd.read_bytes_till_header = q.left + 2
    BY <1>6, <1>10 DEF Counters
  <2>2. q.left = 0 /\ rd.read_bytes_till_header = 2
    BY <1>10, <2>1, GoodFields
  <2>3. Len(raw) < 2
    BY <1>3, <1>6, <2>2 DEF Kept
  <2>4. Len(raw) = 0 \/ Len(raw) = 1
    <3>1. PICK n \in Nat : n = Len(raw)
      BY LenProperties
    <3>2. n < 2 => n = 0 \/ n = 1
      OBVIOUS
    <3> QED
      BY <2>3, <3>1, <3>2
  <2> QED
    BY <1>4, <1>5, <2>1, <2>2, <2>4, LineRun
<1>11. CASE rd.read_bytes_till_header = 0 /\ rd.bytes_till_eof = 2
  <2>1. q.k = "endcr" /\ rd.raw = <<>>
    BY <1>6, <1>11 DEF Kept, Counters
  <2> QED
    BY <1>3, <1>8, <2>1
<1>12. CASE rd.read_bytes_till_header = 0 /\ rd.bytes_till_eof = -1
  <2>1. q.k = "header" /\ ~q.last
    BY <1>6, <1>12, Zenon DEF Counters
  <2>2. Len(raw) >= 1
    BY <1>7, <2>1, EmptySeq, LenProperties
  <2>3. raw[1].c = "len" /\ 1 \in 1 .. Len(raw)
    BY <1>4, <2>1, <2>2, HeaderRun
  <2> QED
    BY <1>3, <2>3
<1> QED
  BY <1>6, <1>9, <1>10, <1>11, <1>12

\* When the stream was ended and nothing of it is on its way any more, the reader
\* knows: this needs the second "\r\n" of this library's writer.
THEOREM EofIsNoticed ==
    ASSUME ReadFails = FALSE, 0 \notin Lens, LoneEnd = FALSE PROVE Spec => []EofNoticed
<1>1. IInv => EofNoticed
  BY EndIsNoticed
<1> QED
  BY <1>1, Inductive, PTL

\* A piece of meta data not yet delivered was attached after all delivered bytes.
LEMMA MetaInTime ==
    ASSUME IInv, MetaFails = FALSE PROVE MetaBeforeData
<1>1. PICK all \in Seq(Metas) : all = gotmeta \o meta_read
  BY Types DEF IInv
<1>2. PICK q \in Good : AtReader(q)
  BY DEF IInv, InStep
<1>3. PICK l \in Nat, n \in Nat : l = Len(all) /\ n = Len(metas)
  BY Types, LenProperties DEF IInv
<1>4. /\ q.m = l /\ q.d = Len(Delivered) /\ q.d \in Nat /\ q.left \in Nat
      /\ q.m <= n
      /\ \A i \in (l + 1) .. n : metas[i].at >= q.d + q.left
  <2>1. q.m = l /\ q.d = Len(Delivered)
    BY <1>1, <1>2, <1>3 DEF AtReader
  <2>2. /\ q.d \in Nat /\ q.left \in Nat /\ q.m <= Len(metas) - Len(meta_write)
        /\ \A i \in (q.m + 1) .. Len(metas) : metas[i].at >= q.d + q.left
    BY GoodFields
  <2>3. PICK w \in Nat : w = Len(meta_write)
    BY Types DEF IInv
  <2>4. l <= n - w
    BY <1>3, <2>1, <2>2, <2>3
  <2> QED
    BY <1>3, <2>1, <2>2, <2>4
<1>5. \A i \in 1 .. l : all[i] = metas[i]
  BY <1>1, <1>3 DEF IInv, MetasSoFar
<1>6. IsPrefix(all, metas)
  <2>1. SubSeq(all, 1, l) = all
    BY <1>3, SubSeqFull
  <2>2. PICK u \in Seq(Metas) : /\ u = Take(metas, l) /\ Len(u) = l
                                /\ \A i \in 1 .. l : u[i] = metas[i]
    <3>1. metas \in Seq(Metas) /\ l \in 0 .. Len(metas)
      BY <1>3, <1>4, Types DEF IInv
    <3> QED
      BY <3>1, TakeDrop
  <2>3. u = all
    BY <1>3, <1>5, <2>2, SeqEqual
  <2> QED
    BY <1>3, <1>4, <2>1, <2>2, <2>3 DEF IsPrefix, Take
<1>7. ASSUME NEW i \in DOMAIN metas, metas[i].at < Len(got) PROVE i <= Len(all)
  <2>1. i \in 1 .. n
    BY <1>3, Types, LenProperties DEF IInv
  <2>2. metas[i].at \in Int
    <3>1. metas \in Seq(Metas)
      BY Types DEF IInv
    <3>2. metas[i] \in Metas
      BY <1>3, <2>1, <3>1, LenProperties
    <3> QED
      BY <3>2, EncodingAssumption DEF Metas
  <2>3. Len(got) <= q.d + q.left /\ Len(got) \in Nat
    BY <1>4, DeliveredLengths
  <2>4. ~(metas[i].at >= q.d + q.left)
    BY <1>4, <1>7, <2>2, <2>3
  <2> QED
    BY <1>3, <1>4, <2>1, <2>4
<1> QED
  BY <1>1, <1>6, <1>7 DEF MetaBeforeData

\* Meta data is delivered in order, each piece once, and before any byte that was
\* written after it.
THEOREM MetaComesFirst ==
    ASSUME ReadFails = FALSE, 0 \notin Lens, MetaFails = FALSE
    PROVE  Spec => []MetaBeforeData
<1>1. IInv => MetaBeforeData
  BY MetaInTime
<1> QED
  BY <1>1, Inductive, PTL

-----------------------------------------------------------------------------
(* The pipe                                                                *)

\* The bytes read are numbered from 1.
Numbers(n) == [i \in 1 .. n |-> i]

\* What was read are the bytes 1 to Len(got).
LEMMA GotNumbers ==
    ASSUME IInv PROVE [i \in 1 .. Len(got) |-> got[i].n] = Numbers(Len(got))
<1>1. PICK n \in Nat : n = Len(got)
  BY DeliveredLengths
<1>2. PICK g \in Seq(Symbols), d \in Seq(Symbols) : g = got /\ d = rd.decoded
  BY Types DEF IInv
<1>3. ASSUME NEW i \in 1 .. n PROVE got[i].n = i
  <2>1. /\ Len(g \o d) = Len(g) + Len(d) /\ Len(g) = n /\ Len(d) \in Nat
        /\ \A j \in 1 .. Len(g) : (g \o d)[j] = g[j]
    BY <1>1, <1>2, ConcatSymbols
  <2>2. i \in 1 .. Len(g \o d)
    BY <2>1
  <2>3. got[i] = Data(i)
    BY <1>2, <2>1, <2>2 DEF IInv, DataSoFar, Delivered
  <2> QED
    BY <2>3, SymbolsDiffer
<1> QED
  BY <1>1, <1>3 DEF Numbers

\* The first n numbers are a sequence of n numbers.
LEMMA NumbersLen ==
    ASSUME NEW n \in Nat PROVE Len(Numbers(n)) = n /\ Numbers(n) \in Seq(Nat)
BY DEF Numbers

\* New encoding objects are an empty pipe.
LEMMA PipeInit ==
    ASSUME Init PROVE Pipe!Init
<1>1. got = <<>> /\ written = 0 /\ ends = 0 /\ rd.bytes_till_eof = -1
  BY DEF Init, httpp_encoding_new
<1>2. httpp_encoding_eof = FALSE
  BY <1>1 DEF httpp_encoding_eof
<1>3. [i \in 1 .. Len(got) |-> got[i].n] = <<>>
  <2>1. IInv /\ Len(got) = 0
    BY <1>1, InitInv
  <2>2. Len(Numbers(0)) = 0 /\ Numbers(0) \in Seq(Nat)
    BY NumbersLen
  <2> QED
    BY <2>1, <2>2, GotNumbers, EmptySeq
<1>4. (ends > 0) = FALSE
  BY <1>1
<1> QED
  BY <1>1, <1>2, <1>3, <1>4 DEF Pipe!Init

\* A step of the writer without data, and a step of the reader without any effect.
LEMMA PipeStutters ==
    ASSUME written' = written, ends' = ends, got' = got,
           httpp_encoding_eof' <=> httpp_encoding_eof
    PROVE  UNCHANGED Pipe!vars
<1>1. httpp_encoding_eof' = httpp_encoding_eof
  BY DEF httpp_encoding_eof
<1> QED
  BY <1>1 DEF Pipe!vars

\* What the invariant says in the pipe's terms.
PipeState ==
    /\ Len(got) \in Nat /\ written \in Nat /\ Len(got) <= written
    /\ [i \in 1 .. Len(got) |-> got[i].n] = Numbers(Len(got))
    /\ EofMeansAll

\* The invariant, in the terms of the pipe.
LEMMA PipeStates == IInv => PipeState
BY DeliveredLengths, GotNumbers, EndMeansAll DEF PipeState

\* The same of the next state.
LEMMA PipeStatesNext == IInv' => PipeState'
BY PipeStates, PTL

\* A read is a receive of the pipe, or does nothing that its clients see.
LEMMA PipeReceives ==
    ASSUME IInv, IInv', ReadsOn, written' = written, ends' = ends
    PROVE  [Pipe!Next]_(Pipe!vars)
<1>1. CASE httpp_encoding_eof
  <2>1. got' = got /\ (httpp_encoding_eof' <=> httpp_encoding_eof)
    BY <1>1 DEF ReadsOn, httpp_encoding_eof
  <2> QED
    BY <2>1, PipeStutters
<1>2. CASE ~httpp_encoding_eof
  <2>1. PICK a, b :
            /\ a = [i \in 1 .. Len(got) |-> got[i].n]
            /\ b = [i \in 1 .. Len(got') |-> got'[i].n]
    OBVIOUS
  <2>2. PICK n \in Nat, m \in Nat, w \in Nat :
            n = Len(got) /\ m = Len(got') /\ w = written /\ n <= m /\ m <= w
    BY PipeStates, PipeStatesNext DEF PipeState, ReadsOn
  <2>3. a = Numbers(n) /\ b = Numbers(m)
    BY <2>1, <2>2, PipeStates, PipeStatesNext DEF PipeState
  <2>4. Len(a) = n /\ Len(b) = m
    BY <2>3, NumbersLen
  <2>5. Len(b) \in Len(a) .. w
    BY <2>2, <2>4
  <2>6. b = [i \in 1 .. Len(b) |-> i]
    BY <2>3, <2>4 DEF Numbers
  <2>7. httpp_encoding_eof' => ends > 0 /\ Len(b) = w
    BY <2>2, <2>4, PipeStatesNext DEF PipeState, EofMeansAll
  <2>8. httpp_encoding_eof' \in BOOLEAN
    BY DEF httpp_encoding_eof
  <2>9. Pipe!Receive
    BY <1>2, <2>1, <2>2, <2>5, <2>6, <2>7, <2>8 DEF Pipe!Receive
  <2> QED
    BY <2>9 DEF Pipe!Next
<1> QED
  BY <1>1, <1>2

\* A chunk with data is a send, the terminating chunk is the end.
LEMMA PipeWrites ==
    ASSUME IInv, NEW n \in Nat, NEW null \in BOOLEAN, null <=> n = 0,
           httpp_encoding_write(n, null)
    PROVE  Pipe!Next
<1>1. MaxChunk \in Nat \ {0} /\ written \in Nat /\ ends \in Nat
  BY EncodingAssumption, Types DEF IInv
<1>2. PICK len \in Nat : len = Least(n, MaxChunk) /\ (null <=> len = 0)
  BY <1>1 DEF Least
<1>3. /\ ~null => ends = 0
      /\ written' = written + len /\ ends' = IF null THEN ends + 1 ELSE ends
      /\ rd' = rd /\ got' = got
  BY <1>2 DEF httpp_encoding_write
<1>4. httpp_encoding_eof' = httpp_encoding_eof
  BY <1>3 DEF httpp_encoding_eof
<1>5. CASE null
  <2>1. (ends' > 0) = TRUE /\ written' = written
    BY <1>1, <1>2, <1>3, <1>5
  <2>2. Pipe!End
    BY <1>3, <1>4, <2>1 DEF Pipe!End
  <2> QED
    BY <2>2 DEF Pipe!Next
<1>6. CASE ~null
  <2>1. /\ ~(ends > 0) /\ ends' = ends /\ written' \in Nat /\ written' > written
    BY <1>1, <1>2, <1>3, <1>6
  <2>2. Pipe!Send
    BY <1>3, <1>4, <2>1 DEF Pipe!Send
  <2> QED
    BY <2>2 DEF Pipe!Next
<1> QED
  BY <1>5, <1>6

\* Every step of the encoding objects is one of the pipe, or a stutter.
LEMMA PipeStep ==
    ASSUME IInv, IInv', ReadFails = FALSE, 0 \notin Lens, [Next]_vars
    PROVE  [Pipe!Next]_(Pipe!vars)
<1>1. ASSUME httpp_encoding_append_meta \/ WriteRefused \/ WriteNoMemory
             \/ httpp_encoding_get_meta \/ UNCHANGED vars
      PROVE  UNCHANGED Pipe!vars
  <2>1. written' = written /\ ends' = ends /\ got' = got /\ rd' = rd
    BY <1>1 DEF httpp_encoding_append_meta, WriteRefused, WriteNoMemory,
                httpp_encoding_get_meta, vars
  <2>2. httpp_encoding_eof' <=> httpp_encoding_eof
    BY <2>1 DEF httpp_encoding_eof
  <2> QED
    BY <2>1, <2>2, PipeStutters
<1>2. ASSUME NEW n \in Lens, httpp_encoding_write(n, FALSE) PROVE Pipe!Next
  <2>1. n \in Nat /\ FALSE \in BOOLEAN /\ (FALSE <=> n = 0)
    BY EncodingAssumption
  <2> QED
    BY <1>2, <2>1, PipeWrites
<1>3. CASE httpp_encoding_write(0, TRUE)
  <2>1. 0 \in Nat /\ TRUE \in BOOLEAN /\ (TRUE <=> 0 = 0)
    OBVIOUS
  <2> QED
    BY <1>3, <2>1, PipeWrites
<1>4. CASE ReadSome \/ ReadNothing
  <2>1. ReadsOn
    BY <1>4, Reading
  <2>2. written' = written /\ ends' = ends
    BY <1>4 DEF ReadSome, ReadNothing, ReadDecoded, httpp_encoding_read
  <2> QED
    BY <2>1, <2>2, PipeReceives
<1> QED
  BY <1>1, <1>2, <1>3, <1>4 DEF Next

\* The chunked encoding implements the pipe: no step of either side returns bytes
\* out of order, ends the stream early, or returns bytes after the end.
THEOREM Piped ==
    ASSUME ReadFails = FALSE, 0 \notin Lens PROVE Spec => ImplementsPipe
<1>1. Init => Pipe!Init
  BY PipeInit
<1>2. IInv /\ IInv' /\ [Next]_vars => [Pipe!Next]_(Pipe!vars)
  BY PipeStep
<1> QED
  BY <1>1, <1>2, Inductive, PTL DEF Spec, ImplementsPipe, Pipe!Spec

=============================================================================
