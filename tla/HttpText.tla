------------------------------ MODULE HttpText ------------------------------
(***************************************************************************)
(* The scanners of httpp/httpp.c: how the text of a request or response is *)
(* cut into lines, the first line into words, a header line into name and  *)
(* value, and a query string into keys and values.                         *)
(*                                                                         *)
(* A text is a sequence of symbols.  The characters that the code looks    *)
(* for are symbols of their own ("CR", "LF", " ", ":", "?", "/", "&", "=", *)
(* "%", "+", "#" and the hexadecimal digits); any other symbol stands for  *)
(* a piece of text in which none of these occurs.                          *)
(***************************************************************************)
EXTENDS Integers, Sequences, FiniteSets, SequencesExt

CONSTANTS
    MaxHeaders, \* MAX_HEADERS, the size of line[]
    Octet,      \* Octet[<<d, e>>]: the character with the hexadecimal code de
    LowerCase   \* LowerCase[c]: c after tolower, for the symbols where it differs

hex == {pair[1] : pair \in DOMAIN Octet} \cup {pair[2] : pair \in DOMAIN Octet}

ASSUME TextAssumption == MaxHeaders \in Nat \ {0} /\ DOMAIN Octet = hex \X hex

From(s, i) == SubSeq(s, i, Len(s))

\* The positions in a set, in the order of the text.
Ascending(S) ==
    [n \in 1 .. Cardinality(S) |->
        CHOOSE i \in S : Cardinality({j \in S : j < i}) = n - 1]

\* The first i at which text has c, from position "from" on; behind the end if none.
Next1(text, c, from) ==
    LET at == SelectInSubSeq(text, from, Len(text), LAMBDA x : x = c)
    IN  IF at = 0 THEN Len(text) + 1 ELSE at

\* The text before the first c, and what is behind it.
Before(text, c) == SubSeq(text, 1, Next1(text, c, 1) - 1)
After(text, c)  == From(text, Next1(text, c, 1) + 1)

-----------------------------------------------------------------------------
(* Lines and words                                                         *)

IsEol(c) == c \in {"CR", "LF"}

\* The C string that begins at position i, line ends having become NULs.
CString(data, i) ==
    LET end == SelectInSubSeq(data, i, Len(data), IsEol)
    IN  SubSeq(data, i, IF end = 0 THEN Len(data) ELSE end - 1)

\* The lines up to the blank one.  A line counts when its "\n" is there, and no
\* more than MaxHeaders do.
split_headers(data) ==
    LET blank == {i \in 1 .. Len(data) - 1 : data[i] = "LF" /\ IsEol(data[i + 1])}
        last  == IF blank = {} THEN Len(data) ELSE CHOOSE i \in blank : \A j \in blank : i <= j
        ends  == Ascending({i \in 1 .. last : data[i] = "LF"})
        lines == IF Len(ends) < MaxHeaders THEN Len(ends) ELSE MaxHeaders
    IN  [l \in 1 .. lines |-> CString(data, IF l = 1 THEN 1 ELSE ends[l - 1] + 1)]

\* Where the words of a line begin, the first one apart: "we're just past the
\* whitespace boundry".
WordStarts(line) ==
    Ascending({i \in 2 .. Len(line) : line[i] # " " /\ line[i - 1] = " "})

\* The words of a line.  The first one begins the line and may be empty.
Words(line) ==
    LET starts == WordStarts(line)
    IN  <<Before(line, " ")>> \o
        [w \in 1 .. Len(starts) |-> Before(From(line, starts[w]), " ")]

-----------------------------------------------------------------------------
(* Header lines                                                            *)

Lower(c) == IF c \in DOMAIN LowerCase THEN LowerCase[c] ELSE c
_lowercase(str) == [i \in DOMAIN str |-> Lower(str[i])]

\* The name and the value in a line, as a sequence of at most one.  Colons that
\* follow the first one directly, and then spaces, are not part of the value; a
\* line without a value counts for nothing.
Header(line) ==
    LET colon == Next1(line, ":", 1)
        text  == SelectInSubSeq(line, colon, Len(line), LAMBDA c : c # ":")
        value == IF text = 0 THEN 0
                 ELSE SelectInSubSeq(line, text, Len(line), LAMBDA c : c # " ")
    IN  IF colon > Len(line) \/ value = 0 THEN <<>>
        ELSE <<[name  |-> _lowercase(SubSeq(line, 1, colon - 1)),
                value |-> From(line, value)]>>

\* parse_headers: what the lines after the first one set, in order.
parse_headers(lines) ==
    LET rest == From(lines, 2) IN FlattenSeq([l \in DOMAIN rest |-> Header(rest[l])])

-----------------------------------------------------------------------------
(* Query strings                                                           *)

\* One turn of the loop of url_unescape, at position i.
Unescape(src, s, i) ==
    IF s.done \/ s.null \/ i < s.next THEN s
    ELSE CASE src[i] = "%" /\ (i + 2 > Len(src) \/ {src[i + 1], src[i + 2]} \ hex # {}) ->
                [s EXCEPT !.null = TRUE]
           [] src[i] = "%" /\ i + 2 <= Len(src) /\ {src[i + 1], src[i + 2]} \subseteq hex ->
                [s EXCEPT !.out = Append(@, Octet[<<src[i + 1], src[i + 2]>>]),
                          !.next = i + 3]
           [] src[i] = "+" -> [s EXCEPT !.out = Append(@, " ")]
           [] src[i] = "#" -> [s EXCEPT !.done = TRUE]
           [] OTHER -> [s EXCEPT !.out = Append(@, src[i])]

\* url_unescape: the decoded text, as a sequence of at most one (none: NULL).
url_unescape(src) ==
    LET s == FoldLeftDomain(LAMBDA acc, i : Unescape(src, acc, i),
                            [out |-> <<>>, next |-> 1, done |-> FALSE, null |-> FALSE], src)
    IN  IF s.null THEN <<>> ELSE <<s.out>>

\* parse_query_element: the key is what stands before the last "=", and is not
\* decoded.  Elements without one, with an empty key or an empty value, and those
\* whose value cannot be decoded, add nothing.
parse_query_element(text) ==
    LET mid == SelectLastInSeq(text, LAMBDA c : c = "=")
    IN  IF mid <= 1 \/ mid = Len(text) THEN <<>>
        ELSE LET value == url_unescape(From(text, mid + 1))
             IN  IF value = <<>> THEN <<>>
                 ELSE <<[name |-> SubSeq(text, 1, mid - 1), value |-> value[1]]>>

\* parse_query: the keys and values in the order in which they are added.
parse_query(query) ==
    LET amps   == Ascending({i \in DOMAIN query : query[i] = "&"})
        starts == <<1>> \o [a \in DOMAIN amps |-> amps[a] + 1]
    IN  FlattenSeq([e \in DOMAIN starts |->
            parse_query_element(Before(From(query, starts[e]), "&"))])
=============================================================================
