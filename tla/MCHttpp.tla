------------------------------ MODULE MCHttpp -------------------------------
(* Texts for TLC.  Each message is put together from its parts, and what   *)
(* the parts are is what HttpVars expects of it: the scanners are not used.*)
EXTENDS Httpp

MCOctet == [pair \in {"2", "6"} \X {"2", "6"} |->
                IF pair = <<"2", "6">> THEN "&" ELSE "other"]
MCLowerCase == ("Host" :> "host") @@ ("HOST" :> "host") @@ ("Content-Type" :> "content-type")
MCMethods == ("GET" :> "GET") @@ ("get" :> "GET") @@ ("SOURCE" :> "SOURCE")

H(written, between, name, value) ==
    [text |-> written \o between \o value, name |-> name, value |-> value]
host  == <<"host">>
type  == <<"content-type">>
Host1 == H(<<"Host">>, <<":", " ", " ">>, host, <<"h", ":", "80">>)
Host2 == H(<<"HOST">>, <<":">>, host, <<"i", " ", "i">>)
Form  == H(<<"Content-Type">>, <<":", " ">>, type, <<"form">>)
Plain == H(<<"Content-Type">>, <<":", " ">>, type, <<"plain">>)
Colon == H(<<"x">>, <<":", ":", " ">>, <<"x">>, <<"y">>)

\* A line that counts as one but says nothing.
Bare(text) == [text |-> text, name |-> <<>>, value |-> <<>>]

\* The first line of a request: its text, what it says, and whether it is right.
First(text, ok, line, pairs) == [text |-> text, ok |-> ok, line |-> line, pairs |-> pairs]
Version == <<"HTTP", "/", "1.0">>
Told(method, target) ==
    (<<"__protocol">> :> <<"HTTP">>) @@ (<<"__version">> :> <<"1.0">>) @@
    (<<"__req_type">> :> <<method>>) @@ (<<"__uri">> :> target)
Asked(target, query) ==
    (<<"__rawuri">> :> target \o <<"?">> \o query) @@ (<<"__queryargs">> :> <<"?">> \o query)
P(name, value) == [name |-> name, value |-> value]

\* k=v+%26 and k=w: the escape is at the very end, the key is repeated.
Query == <<"k", "=", "v", "+", "%", "2", "6", "&", "k", "=", "w">>
Pairs == <<P(<<"k">>, <<"v", " ", "&">>), P(<<"k">>, <<"w">>)>>
\* An empty value, an escape cut off, a bad one, a fragment, an escape at the end.
Odd      == <<"k", "=", "&", "&", "j", "=", "%", "2", "&", "j", "=", "%", "2", "x", "&",
              "i", "=", "u", "#", "t", "&", "a", "=", "b", "=", "%", "2", "6">>
OddPairs == <<P(<<"i">>, <<"u">>), P(<<"a", "=", "b">>, <<"&">>)>>

GetLine  == First(<<"GET", " ", "/", " ">> \o Version, TRUE, Told("GET", <<"/">>), <<>>)
AskLine  == First(<<"get", " ", " ", "/", "?">> \o Query \o <<" ", " ">> \o Version \o <<" ">>,
                  TRUE, Asked(<<"/">>, Query) @@ Told("GET", <<"/">>), Pairs)
OddLine  == First(<<"SOURCE", " ", "/", "?">> \o Odd \o <<" ">> \o Version,
                  TRUE, Asked(<<"/">>, Odd) @@ Told("SOURCE", <<"/">>), OddPairs)
NoMethod == First(<<"BREW", " ", "/", "?">> \o Query \o <<" ">> \o Version,
                  FALSE, Asked(<<"/">>, Query) @@ Told("GET", <<"/">>), Pairs)
BadLines == {First(<<"GET", " ", "/", "?">> \o Query, FALSE, Asked(<<"/">>, Query), Pairs),
             First(<<"GET", " ", "/", " ", "HTTP", "/">>, FALSE, <<>>, <<>>),
             First(<<"GET">>, FALSE, <<>>, <<>>),
             First(<<>>, FALSE, <<>>, <<>>),
             First(<<"GET", " ", "/", " ">> \o Version \o <<" ", "x">>, FALSE, <<>>, <<>>),
             NoMethod}

\* A message: first line, header lines, blank line, body.  With "cut", the text
\* ends in the last of the lines.
Message(first, eol, headers, body, cut) ==
    LET lines == <<first.text>> \o [h \in DOMAIN headers |-> headers[h].text]
        all   == FlattenSeq([l \in DOMAIN lines |-> lines[l] \o eol])
    IN  [ok |-> first.ok, line |-> first.line, pairs |-> first.pairs,
         headers |-> [h \in DOMAIN headers |-> P(headers[h].name, headers[h].value)],
         complete |-> IF cut /\ headers # <<>> THEN Len(headers) - 1 ELSE Len(headers),
         text |-> IF cut THEN SubSeq(all, 1, Len(all) - Len(eol)) ELSE all \o eol \o body]

CRLF == <<"CR", "LF">>
LF   == <<"LF">>
Body == Plain.text \o CRLF

\* Only lines that say something are listed in "headers" of the ones with Bare.
WithBare == [Message(GetLine, CRLF, <<Bare(<<"x", ":", " ">>), Form>>, <<>>, FALSE)
                EXCEPT !.headers = <<P(type, <<"form">>)>>, !.complete = 1]

MCRequests ==
    {Message(GetLine, CRLF, <<Host1, Host2>>, <<>>, FALSE),   \* one name twice
     Message(GetLine, LF, <<Form>>, Body, FALSE),             \* header-like body
     Message(GetLine, CRLF, <<Plain, Colon>>, Body, FALSE),   \* one more would be too many
     Message(AskLine, CRLF, <<Form, Host2, Host1>>, <<>>, FALSE), \* one too many
     Message(AskLine, LF, <<Host2, Host1>>, <<>>, TRUE),      \* the last one cut
     Message(OddLine, CRLF, <<>>, Body, FALSE),
     Message(AskLine, LF, <<>>, <<>>, TRUE), WithBare} \cup
    {Message(first, CRLF, <<Host1>>, <<>>, FALSE) : first \in BadLines}

R(code, message, ok, headers) ==
    Message(First(<<"HTTP", "/", "1.0", " ", code, " ">> \o message, ok,
                  IF ~ok THEN <<>>
                  ELSE (<<"__errorcode">> :> <<code>>) @@ (<<"__uri">> :> <<"u">>) @@
                       (<<"__req_type">> :> <<"NONE">>) @@
                       (IF code = "200" THEN <<>>
                        ELSE <<"__errormessage">> :> message), <<>>),
            CRLF, headers, Body, FALSE)

MCResponses == {[uri |-> <<"u">>] @@ r :
    r \in {R("200", <<"OK">>, TRUE, <<Host2>>),
           R("404", <<"Not", " ", " ", "Found">>, TRUE, <<Plain>>),
           R("404", <<>>, FALSE, <<Form>>)}}

MCBodies == {Query, Odd \o <<"&">>}
MCDefaultLists == {<<P(host, <<"h">>), P(host, <<"i">>), P(<<"__uri">>, <<"u">>)>>}
MCFormType == <<"form">>
MCAssigned == {P(<<"k">>, <<"w", "+">>), P(host, <<"%", "2">>)}

\* The scanners find in the texts what they were put together from.
ASSUME TextsAssumption == ScansAsMeant
=============================================================================
