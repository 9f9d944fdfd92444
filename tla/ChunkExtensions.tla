-------------------------- MODULE ChunkExtensions --------------------------
(***************************************************************************)
(* The text of chunk extensions in httpp/encoding.c: how the writer turns  *)
(* the list of meta data into the extensions of a chunk header, how the    *)
(* reader finds the end of that header, and how it takes the extensions    *)
(* apart again.  Texts are sequences of characters; of the characters only *)
(* those that the code tells apart are here.                               *)
(***************************************************************************)
EXTENDS Integers, Sequences, FiniteSets, SequencesExt

CONSTANTS
    Keys,      \* keys of meta data: short texts without special characters
    Chars,     \* the characters of keys and values
    ValueLens, \* the lengths of values
    Forms,     \* {"quoted"}: values as this library's writer writes them;
               \* "token": also as a peer may, without quotes
    MaxMetas   \* bound: pieces of meta data in one header

\* The characters that the code looks for: ; = " \ and those of a line end.
Special == {"SEMI", "EQ", "Q", "BS", "CR", "LF"}

ASSUME ExtensionsAssumption ==
    /\ Keys \subseteq Seq(Chars \ Special) \ {<<>>}
    /\ ValueLens \subseteq Nat /\ MaxMetas \in Nat
    /\ Forms \subseteq {"quoted", "token"}

VARIABLE metas   \* the list of meta data, and the form each value is written in

Values == UNION {[1 .. n -> Chars] : n \in ValueLens}

Init == metas = <<>>

\* httpp_encoding_append_meta with a meta that httpp_encoding_meta_new made.
httpp_encoding_meta_append(k, v, f) ==
    /\ Len(metas) < MaxMetas
    /\ f = "token" => v # <<>> /\ \A i \in DOMAIN v : v[i] \notin Special
    /\ metas' = Append(metas, [key |-> k, value |-> v, form |-> f])

\* Once written, the list is freed.
Written == metas # <<>> /\ metas' = <<>>

Next == \/ \E k \in Keys, v \in Values, f \in Forms : httpp_encoding_meta_append(k, v, f)
        \/ Written

Spec == Init /\ [][Next]_metas

-----------------------------------------------------------------------------
(* The writer                                                              *)

\* Mutant of Escaped: quotes are written as they are.
Unescaped(v) == v

Escaped(v) == FlattenSeq([i \in DOMAIN v |-> IF v[i] = "Q" THEN <<"BS", "Q">> ELSE <<v[i]>>])

\* One extension: the key, and the value when it is not empty.
Extension(m) ==
    <<"SEMI">> \o m.key \o
    IF m.value = <<>> THEN <<>>
    ELSE <<"EQ">> \o IF m.form = "token" THEN m.value
                    ELSE <<"Q">> \o Escaped(m.value) \o <<"Q">>

__enc_chunked_write_extensions == FlattenSeq([i \in DOMAIN metas |-> Extension(metas[i])])

\* A header with the body that follows it.
Body == <<"x", "CR", "LF">>
Header == <<"1">> \o __enc_chunked_write_extensions \o <<"CR", "LF">>

-----------------------------------------------------------------------------
(* The reader                                                              *)

\* What a character does inside quotes: 2 after a backslash, 1 inside, 0 outside.
Quote(q, c) == IF c = "BS" THEN 2 ELSE IF c = "Q" THEN q - 1 ELSE q

\* in_quote at each position of p: it is 0 at position i, where a scan begins.
InQuote(p, i) ==
    LET in_quote[j \in i .. Len(p) + 1] ==
            IF j = i THEN 0
            ELSE IF in_quote[j - 1] > 0 THEN Quote(in_quote[j - 1], p[j - 1])
            ELSE IF p[j - 1] = "Q" THEN 1 ELSE 0
    IN  in_quote

\* The scan for the end of the header: where it is (0: not there), and where the
\* extensions begin (0: there are none).  A line end at the very beginning needs no CR.
Scan(raw) ==
    LET in_quote   == InQuote(raw, 1)
        outside(c) == {i \in DOMAIN raw : in_quote[i] = 0 /\ raw[i] = c}
        ends       == {i \in outside("LF") : i = 1 \/ i - 1 \in outside("CR")}
        exts       == {i \in outside("SEMI") : \A e \in ends : i < e}
    IN  [end |-> IF ends = {} THEN 0 ELSE Min(ends),
         ext |-> IF exts = {} THEN 0 ELSE Min(exts)]

\* Where the key ends that begins at position i of p: at an "=" or with p.
KeyEnd(p, i) == Min({e \in i .. Len(p) + 1 : e = Len(p) + 1 \/ p[e] = "EQ"})

\* Mutant of ValueEnd: a ";" ends the value inside of quotes too.
ValueEndAtSemicolon(p, i) == Min({e \in i .. Len(p) + 1 : e = Len(p) + 1 \/ p[e] = "SEMI"})

\* Where the value ends that begins at position i of p: at a ";" outside of quotes,
\* behind the quote that closes it, or with p.
ValueEnd(p, i) ==
    LET in_quote == InQuote(p, i)
    IN  Min({e \in i .. Len(p) + 1 : \/ e = Len(p) + 1
                                    \/ (in_quote[e] = 0 /\ p[e] = "SEMI")
                                    \/ (e > i /\ in_quote[e - 1] > 0 /\ in_quote[e] = 0)})

\* Decodes the value between positions i and e of p.  Outside of quotes the code
\* looks for a ";" not at the character at hand but as far behind the value as there
\* are characters of the value left.
Decode(p, i, e) ==
    LET in_quote == InQuote(p, i)
        stops    == {j \in i .. e - 1 : /\ in_quote[j] = 0 /\ p[j] # "Q"
                                       /\ e + (e - j) <= Len(p) /\ p[e + (e - j)] = "SEMI"}
        kept(j)  == \/ p[j] = "Q" /\ in_quote[j] > 0 /\ in_quote[j + 1] > 0
                    \/ p[j] = "BS" /\ in_quote[j] = 0
                    \/ p[j] \notin {"Q", "BS"}
        value[j \in i .. e] ==
            IF j = i THEN <<>>
            ELSE IF kept(j - 1) THEN Append(value[j - 1], p[j - 1])
            ELSE value[j - 1]
    IN  value[Min({e} \cup stops)]

\* The keys and values that __enc_chunked_read_extentions finds in p from position i on.
__enc_chunked_read_extentions(p, i) ==
    LET from[j \in i .. Len(p) + 1] ==
            IF j > Len(p) \/ p[j] # "SEMI" THEN <<>>
            ELSE LET eq  == KeyEnd(p, j + 1)
                     key == SubSeq(p, j + 1, eq - 1)
                     end == ValueEnd(p, eq + 1)
                 IN  IF eq >= Len(p) THEN <<[key |-> key, value |-> <<>>]>>
                     ELSE <<[key |-> key, value |-> Decode(p, eq + 1, end)]>> \o from[end]
    IN  from[i]

-----------------------------------------------------------------------------
(* Properties                                                              *)

\* The reader finds the end of a header where the writer put it, whatever quotes,
\* separators and line ends are in the values: the body is not taken for header.
HeaderEndFound == Scan(Header \o Body).end = Len(Header)

\* The reader gets the keys and values that the writer was given, in order.
RoundTrip ==
    LET raw == Header \o Body
        s   == Scan(raw)
        got == IF s.ext = 0 THEN <<>>
               ELSE __enc_chunked_read_extentions(SubSeq(raw, 1, s.end - 2), s.ext)
    IN  got = [i \in DOMAIN metas |-> [key |-> metas[i].key, value |-> metas[i].value]]

=============================================================================
