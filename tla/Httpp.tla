------------------------------- MODULE Httpp -------------------------------
(***************************************************************************)
(* httpp/httpp.c: a parser object and the functions that fill and read its *)
(* three trees of variables, as its clients call them.  The texts are cut  *)
(* up by HttpText.                                                         *)
(*                                                                         *)
(* A tree is a bag of variables, each with a name and a list of values: an *)
(* avl_tree is one (module Avl), and nothing in it keeps two variables     *)
(* from having one name.  A call is one step, as a parser has no lock of   *)
(* its own.                                                                *)
(***************************************************************************)
EXTENDS HttpText, Bags, TLC

CONSTANTS
    Clients,      \* those who may hold a reference to the parser
    Creator,      \* the one who creates it
    Methods,      \* Methods[w]: the request type that the word w names
    Requests, Responses, Bodies, DefaultLists,
                  \* what the clients pass in: messages (see HttpVars) with
                  \* their text; the texts of bodies; lists of variables
    FormType,     \* "application/x-www-form-urlencoded"
    Assigned,     \* the variables and parameters that clients set: [name, value]
    KeyChunk,     \* 8: the entries by which httpp_get_any_key extends its array
    MaxCalls      \* bound: calls that change the parser

VARIABLES
    live,     \* the parser is allocated
    refc,
    req_type,
    uri,      \* <<>>: NULL
    vars, queryvars, postvars,
    answer,   \* what the last httpp_parse* returned
    holders,  \* the clients that have a reference
    calls

parser == <<live, refc, req_type, uri, vars, queryvars, postvars>>
state  == <<parser, answer, holders, calls>>

ASSUME HttppAssumption ==
    Creator \in Clients /\ KeyChunk \in Nat \ {0} /\ MaxCalls \in Nat

\* Texts and lists are finite sequences.
ASSUME ListsAssumption ==
    /\ \A m \in Requests \cup Responses : m.text \in Seq(ToSet(m.text))
    /\ \A s \in Bodies \cup DefaultLists : s \in Seq(ToSet(s))

\* The variables that httpp keeps for itself: names that begin with "__".
Hidden == {"__protocol", "__version", "__uri", "__rawuri", "__queryargs",
           "__req_type", "__errormessage", "__errorcode"}
IsHidden(name) == name # <<>> /\ name[1] \in Hidden

Vars(tree) == BagToSet(tree)

TypeOK ==
    /\ live \in BOOLEAN
    /\ refc \in Nat
    /\ req_type \in {"none", "unknown"} \cup {Methods[w] : w \in DOMAIN Methods}
    /\ \A tree \in {vars, queryvars, postvars} :
        IsABag(tree) /\ \A v \in Vars(tree) : v.values # <<>>
    /\ answer \in {-1, 0, 1}
    /\ holders \subseteq Clients
    /\ calls \in 0 .. MaxCalls

-----------------------------------------------------------------------------
(* The trees                                                               *)

\* avl_get_by_key: the variables with this name (avl_get_by_key gives one).
Found(tree, name) == {v \in Vars(tree) : v.name = name}

\* avl_delete and avl_insert.
Deleted(tree, name) ==
    IF Found(tree, name) = {} THEN tree
    ELSE tree (-) SetToBag({CHOOSE v \in Found(tree, name) : TRUE})
Inserted(tree, name, values) == tree (+) SetToBag({[name |-> name, values |-> values]})

\* httpp_getvar, _httpp_get_param: the first value, as a sequence of at most one.
httpp_getvar(tree, name) ==
    IF Found(tree, name) = {} THEN <<>>
    ELSE <<(CHOOSE v \in Found(tree, name) : TRUE).values[1]>>

\* Mutant of httpp_setvar: the old variable stays.
SetvarKeepsOld(tree, h) == Inserted(tree, h.name, <<h.value>>)

\* httpp_setvar: the new variable takes the place of one with the same name.
httpp_setvar(tree, h) ==
    IF httpp_getvar(tree, h.name) = <<>>
    THEN Inserted(tree, h.name, <<h.value>>)
    ELSE Inserted(Deleted(tree, h.name), h.name, <<h.value>>)

\* The tree after the first n of a list were set, and after all of them.
SetUpto(tree, list) ==
    LET set[n \in 0 .. Len(list)] ==
            IF n = 0 THEN tree ELSE httpp_setvar(set[n - 1], list[n])
    IN  set
SetAll(tree, list) == SetUpto(tree, list)[Len(list)]

\* _httpp_set_param_nocopy without "replace": one more value.
AddParam(tree, h) ==
    IF Found(tree, h.name) = {} THEN Inserted(tree, h.name, <<h.value>>)
    ELSE LET v == CHOOSE v \in Found(tree, h.name) : TRUE
         IN  (tree (-) SetToBag({v})) (+) SetToBag({[v EXCEPT !.values = Append(@, h.value)]})

AddUpto(tree, list) ==
    LET add[n \in 0 .. Len(list)] ==
            IF n = 0 THEN tree ELSE AddParam(add[n - 1], list[n])
    IN  add
AddAll(tree, list) == AddUpto(tree, list)[Len(list)]

\* _httpp_set_param: the value is decoded; when it cannot be, nothing is set.
_httpp_set_param(tree, h) ==
    LET value == url_unescape(h.value)
    IN  IF value = <<>> THEN tree
        ELSE Inserted(Deleted(tree, h.name), h.name, value)

\* Mutant of Grown: the array is extended when it is full, not when only the
\* entry of the terminating NULL is left.
GrownLate(len, pos) == IF pos = len THEN len + KeyChunk ELSE len

\* The length of the array of names after room was made for name number "pos",
\* counted from 0.
Grown(len, pos) == IF pos = len - 1 THEN len + KeyChunk ELSE len

\* The lengths after the first names, up to "count" of them.
ArrayUpto(count) ==
    LET len[n \in 0 .. count] == IF n = 0 THEN KeyChunk ELSE Grown(len[n - 1], n - 1)
    IN  len

\* The nodes of the tree: as many for a variable as there are of it.
Nodes(tree) == UNION {{v} \X (1 .. tree[v]) : v \in Vars(tree)}

\* httpp_get_any_key goes through the nodes: how often it lists each name of a
\* name space, and the length of its array.
httpp_get_any_key(tree, ns) ==
    LET wanted(n) == ns \in {"query_string", "post_body"} \/ (ns = "var" <=> IsHidden(n))
        listed == {e \in Nodes(tree) : wanted(e[1].name)}
    IN  [names |-> [n \in {e[1].name : e \in listed} |->
                        Cardinality({e \in listed : e[1].name = n})],
         count |-> Cardinality(listed),
         len   |-> ArrayUpto(Cardinality(listed))[Cardinality(listed)]]

-----------------------------------------------------------------------------
(* Requests and responses                                                  *)

httpp_str_to_method(word) ==
    IF Len(word) = 1 /\ word[1] \in DOMAIN Methods THEN Methods[word[1]] ELSE "unknown"

Var(name, value) == [name |-> <<name>>, value |-> value]

\* The end of the text of a word that has a "/" with something on both sides.
HasVersion(word) ==
    "/" \in ToSet(word) /\ Before(word, "/") # <<>> /\ After(word, "/") # <<>>

\* The checks of the request line, of two or three words.
Versioned(words) == Len(words) > 2 /\ HasVersion(words[3])
RightLine(words) == Versioned(words) /\ httpp_str_to_method(words[1]) # "unknown"

\* The variables that httpp_parse sets for it, in order, as far as it is right.
LineVars(words) ==
    (IF "?" \in ToSet(words[2])
     THEN <<Var("__rawuri", words[2]),
            Var("__queryargs", From(words[2], Next1(words[2], "?", 1)))>>
     ELSE <<>>) \o
    (IF Versioned(words)
     THEN <<Var("__protocol", Before(words[3], "/")), Var("__version", After(words[3], "/"))>>
     ELSE <<>>) \o
    (IF RightLine(words)
     THEN <<Var("__req_type", <<httpp_str_to_method(words[1])>>),
            Var("__uri", Before(words[2], "?"))>>
     ELSE <<>>)

\* Mutant of RequestVars: header lines are looked at whatever the request line is.
RequestVarsUnchecked(words, lines) == LineVars(words) \o parse_headers(lines)

\* All the variables: when the line is right, those of the header lines follow.
RequestVars(words, lines) ==
    LineVars(words) \o (IF RightLine(words) THEN parse_headers(lines) ELSE <<>>)

\* httpp_parse.  A line of more than three words is refused before anything is
\* touched; one without a URI after the request type was stored.
httpp_parse(m) ==
    LET words == Words(CString(m.text, 1)) IN
    IF Len(words) > 3
    THEN answer' = 0 /\ UNCHANGED <<req_type, uri, vars, queryvars>>
    ELSE /\ req_type' = httpp_str_to_method(words[1])
         /\ IF Len(words) < 2
            THEN answer' = 0 /\ UNCHANGED <<uri, vars, queryvars>>
            ELSE /\ uri' = Before(words[2], "?")
                 /\ vars' = SetAll(vars, RequestVars(words, split_headers(m.text)))
                 /\ queryvars' = AddAll(queryvars, parse_query(After(words[2], "?")))
                 /\ answer' = IF RightLine(words) THEN 1 ELSE 0

\* The variables that httpp_parse_response sets for the first line: version, code
\* and message, which is all the rest of the line.
ResponseLine(m) ==
    LET line  == CString(m.text, 1)
        words == Words(line)
    IN  <<Var("__errorcode", words[2])>> \o
        (IF words[2] = <<"200">> THEN <<>>
         ELSE <<Var("__errormessage", From(line, WordStarts(line)[2]))>>) \o
        <<Var("__uri", m.uri), Var("__req_type", <<"NONE">>)>>

\* httpp_parse_response.  Nothing is touched when one of the three is missing.
httpp_parse_response(m) ==
    IF Len(Words(CString(m.text, 1))) < 3 THEN answer' = 0 /\ UNCHANGED vars
    ELSE /\ answer' = 1
         /\ vars' = SetAll(vars, ResponseLine(m) \o parse_headers(split_headers(m.text)))

-----------------------------------------------------------------------------
(* The calls of the clients                                                *)

\* httpp_create_parser
Fresh(create) ==
    /\ req_type' = "none" /\ uri' = <<>>
    /\ vars' = EmptyBag /\ queryvars' = EmptyBag /\ postvars' = EmptyBag
    /\ live' = create /\ answer' = 0

Init ==
    /\ live = TRUE /\ refc = 1
    /\ req_type = "none" /\ uri = <<>>
    /\ vars = EmptyBag /\ queryvars = EmptyBag /\ postvars = EmptyBag
    /\ answer = 0 /\ holders = {Creator} /\ calls = 0

\* The lifetime of the parser.
httpp_create_parser ==
    /\ ~live /\ holders = {}
    /\ Fresh(TRUE) /\ refc' = 1 /\ holders' = {Creator}
    /\ calls < MaxCalls /\ calls' = calls + 1

\* Mutant of httpp_addref: the reference is not counted.
AddrefUncounted(c, d) ==
    /\ c \in holders /\ d \notin holders
    /\ holders' = holders \cup {d}
    /\ UNCHANGED <<parser, answer, calls>>

\* Client c lets client d have a reference.
httpp_addref(c, d) ==
    /\ c \in holders /\ d \notin holders
    /\ refc' = refc + 1 /\ holders' = holders \cup {d}
    /\ UNCHANGED <<live, req_type, uri, vars, queryvars, postvars, answer, calls>>

\* httpp_release, with httpp_clear when it was the last reference.
httpp_release(c) ==
    /\ c \in holders /\ holders' = holders \ {c}
    /\ refc' = refc - 1
    /\ IF refc' # 0 THEN UNCHANGED <<live, req_type, uri, vars, queryvars, postvars, answer>>
       ELSE Fresh(FALSE)
    /\ UNCHANGED calls

\* A call on a parser that the caller has a reference to.
Call == /\ holders # {} /\ live
        /\ calls < MaxCalls /\ calls' = calls + 1
        /\ UNCHANGED <<live, refc, holders>>

Parse == \E m \in Requests :
    Call /\ httpp_parse(m) /\ UNCHANGED postvars

ParseResponse == \E m \in Responses :
    Call /\ httpp_parse_response(m) /\ UNCHANGED <<req_type, uri, queryvars, postvars>>

\* httpp_parse_postdata compares the header with the form type; it must be there
\* (strcasecmp of NULL is undefined), which the client has to see to.
httpp_parse_postdata(b) ==
    LET header == httpp_getvar(vars, <<"content-type">>) IN
    /\ header # <<>>
    /\ answer' = IF header[1] = FormType THEN 0 ELSE -1
    /\ postvars' = IF header[1] = FormType THEN AddAll(postvars, parse_query(b)) ELSE postvars

ParsePostdata == \E b \in Bodies :
    Call /\ httpp_parse_postdata(b) /\ UNCHANGED <<req_type, uri, vars, queryvars>>

\* httpp_initialize: all values of a default are set, one after the other.
httpp_initialize == \E list \in DefaultLists :
    /\ Call
    /\ vars' = SetAll(vars, list)
    /\ UNCHANGED <<req_type, uri, queryvars, postvars, answer>>

\* httpp_setvar and httpp_deletevar.
SetVar == \E h \in Assigned :
    /\ Call
    /\ vars' = httpp_setvar(vars, h)
    /\ UNCHANGED <<req_type, uri, queryvars, postvars, answer>>

httpp_deletevar == \E h \in Assigned :
    /\ Call
    /\ vars' = Deleted(vars, h.name)
    /\ UNCHANGED <<req_type, uri, queryvars, postvars, answer>>

\* httpp_set_query_param and httpp_set_post_param.
SetParam == \E h \in Assigned :
    /\ Call
    /\ \/ queryvars' = _httpp_set_param(queryvars, h) /\ postvars' = postvars
       \/ postvars' = _httpp_set_param(postvars, h) /\ queryvars' = queryvars
    /\ UNCHANGED <<req_type, uri, vars, answer>>

Idle == UNCHANGED state

Next == \/ httpp_create_parser
        \/ \E c, d \in Clients : httpp_addref(c, d)
        \/ \E c \in Clients : httpp_release(c)
        \/ Parse \/ ParseResponse \/ ParsePostdata
        \/ httpp_initialize \/ SetVar \/ httpp_deletevar \/ SetParam
        \/ Idle

Spec == Init /\ [][Next]_state

-----------------------------------------------------------------------------
(* Properties                                                              *)

\* httpp_addref and httpp_release: the parser is there exactly as long as somebody
\* has a reference, through any order of handing on and giving back.
Lifetime == live <=> holders # {}

\* A name leads to one variable.  avl_insert takes duplicates, and a second one
\* would hide the first from httpp_getvar and survive httpp_deletevar.
OneVarPerName == \A tree \in {vars, queryvars, postvars} :
    \A v, w \in Vars(tree) : v.name = w.name => v = w /\ tree[v] = 1

\* httpp_get_any_key lists each name of each name space once, and its array has
\* an entry left for the NULL that httpp_free_any_key stops at, at every length
\* around the ones at which the array grows.
AnyKeyListed ==
    \A list \in {httpp_get_any_key(vars, "var"), httpp_get_any_key(vars, "header"),
                 httpp_get_any_key(queryvars, "query_string"),
                 httpp_get_any_key(postvars, "post_body")} :
        /\ list.count < list.len
        /\ \A n \in DOMAIN list.names : list.names[n] = 1

\* The tables that the three trees stand for.
Values(tree) == [n \in {v.name : v \in Vars(tree)} |->
                    (CHOOSE v \in Found(tree, n) : TRUE).values]
Firsts(tree) == [n \in DOMAIN Values(tree) |-> Values(tree)[n][1]]

Tables == INSTANCE HttpVars
              WITH Bodies <- {parse_query(b) : b \in Bodies},
                   MaxLines <- MaxHeaders,
                   head  <- Firsts(vars),
                   query <- Values(queryvars),
                   post  <- Values(postvars)

\* The header lines of a message set what it says.
HeadersMean(m) == Tables!LastValues(parse_headers(split_headers(m.text))) =
                      Tables!LastValues(Tables!Kept(m))

\* A message means what the scanners find in its text.
RequestMeans(m) ==
    LET words == Words(CString(m.text, 1))
        line  == Tables!LastValues(LineVars(words))
    IN  /\ m.ok <=> Len(words) = 3 /\ RightLine(words)
        /\ Len(words) \in 2 .. 3 =>
            /\ parse_query(After(words[2], "?")) = m.pairs
            /\ DOMAIN line \subseteq DOMAIN m.line
            /\ line = [n \in DOMAIN line |-> m.line[n]]
        /\ m.ok =>
            line = m.line /\ HeadersMean(m)
ResponseMeans(m) ==
    /\ m.ok <=> Len(Words(CString(m.text, 1))) >= 3
    /\ m.ok => /\ m.pairs = <<>>
               /\ Tables!LastValues(ResponseLine(m)) = m.line
               /\ HeadersMean(m)
ScansAsMeant ==
    (\A m \in Requests : RequestMeans(m)) /\ (\A m \in Responses : ResponseMeans(m))

\* The parser implements the tables: what a message leaves in them is what its
\* sender put there, whatever line ends, escapes, repetitions and order of calls;
\* nothing of the body is taken for a header; a refused one leaves no header line.
ImplementsTables == Tables!Spec
=============================================================================
