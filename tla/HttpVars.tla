------------------------------ MODULE HttpVars ------------------------------
(***************************************************************************)
(* What an http_parser_t promises its users: three tables.  Variables and  *)
(* header lines have one value each, the last one given; a query or post   *)
(* parameter has the list of all values it was given, in order.  A request *)
(* that is refused leaves no header line and no post parameter behind.     *)
(*                                                                         *)
(* A message is a record: whether it is well-formed (ok), what its first   *)
(* line says (line, a table), the keys and values of its query (pairs),    *)
(* its header lines, and how many of them are there with their line end    *)
(* (complete).                                                             *)
(***************************************************************************)
EXTENDS Naturals, Sequences, FiniteSetsExt

CONSTANTS
    Requests, Responses,  \* messages
    Bodies,               \* keys and values posted
    DefaultLists,         \* variables that a parser starts with
    Assigned,             \* variables and parameters that are set one by one
    MaxLines              \* the lines of a message that are looked at

VARIABLES live, head, query, post, answer

vars == <<live, head, query, post, answer>>

Init == live = TRUE /\ head = <<>> /\ query = <<>> /\ post = <<>> /\ answer = 0

\* The places of a list in which a name is, and the names in it.
Places(list, n) == {i \in DOMAIN list : list[i].name = n}
NamesOf(list)   == {list[i].name : i \in DOMAIN list}

\* The last value of each name in a list.
LastValues(list) == [n \in NamesOf(list) |-> list[Max(Places(list, n))].value]

\* The values that the first elements of a list give to a name, in order.
ValuesUpto(list, n) ==
    LET of[i \in 0 .. Len(list)] ==
            IF i = 0 THEN <<>>
            ELSE IF list[i].name = n THEN Append(of[i - 1], list[i].value) ELSE of[i - 1]
    IN  of
ValuesOf(list, n) == ValuesUpto(list, n)[Len(list)]

\* A table of parameters after those of a list were added.
Added(table, list) ==
    [n \in DOMAIN table \cup NamesOf(list) |->
        (IF n \in DOMAIN table THEN table[n] ELSE <<>>) \o ValuesOf(list, n)]

\* A table after the entries of another one were put into it, and with one entry.
Over(table, new)       == [n \in DOMAIN table \cup DOMAIN new |->
                              IF n \in DOMAIN new THEN new[n] ELSE table[n]]
With(table, n, value)  == Over(table, [m \in {n} |-> value])

Kept(m) == SubSeq(m.headers, 1, IF m.complete < MaxLines - 1 THEN m.complete ELSE MaxLines - 1)

Create  == ~live /\ live' = TRUE /\ UNCHANGED <<head, query, post, answer>>
Release == live /\ live' = FALSE /\ head' = <<>> /\ query' = <<>> /\ post' = <<>>
           /\ answer' = 0

\* Defaults: names with their values, of which the last one counts.
Initialize == /\ \E list \in DefaultLists : head' = Over(head, LastValues(list))
              /\ UNCHANGED <<query, post>>

\* A change of one variable.
SetVar    == /\ \E h \in Assigned : head' = With(head, h.name, h.value)
             /\ UNCHANGED <<query, post>>
DeleteVar == /\ \E h \in Assigned : head' = [n \in DOMAIN head \ {h.name} |-> head[n]]
             /\ UNCHANGED <<query, post>>

\* A parameter gets a single value, which is what the text of it stands for.
SetTo(table, table2, n) ==
    n \in DOMAIN table2 /\ table2 = With(table, n, <<table2[n][1]>>)
SetParam ==
    /\ \E h \in Assigned : \/ SetTo(query, query', h.name) /\ post' = post
                           \/ SetTo(post, post', h.name) /\ query' = query
    /\ head' = head

\* A well-formed request or response.
Accept(m) ==
    /\ m.ok /\ answer' = 1
    /\ head' = Over(Over(head, m.line), LastValues(Kept(m)))
    /\ query' = Added(query, m.pairs)
    /\ post' = post

\* One that is not: the first line may have left traces, the header lines none.
Refuse(m) ==
    /\ ~m.ok /\ answer' = 0
    /\ \E S \in SUBSET DOMAIN m.line : head' = Over(head, [n \in S |-> m.line[n]])
    /\ query' \in {query, Added(query, m.pairs)}
    /\ post' = post

PostData(b) == /\ \/ answer' = 0 /\ post' = Added(post, b)
                  \/ answer' # 0 /\ post' = post
               /\ UNCHANGED <<head, query>>

Next == \/ Create \/ Release
        \/ /\ live /\ live' = live
           /\ \/ answer' = answer /\ (Initialize \/ SetVar \/ DeleteVar \/ SetParam)
              \/ \E m \in Requests \cup Responses : Accept(m) \/ Refuse(m)
              \/ \E b \in Bodies : PostData(b)

Spec == Init /\ [][Next]_vars
=============================================================================
