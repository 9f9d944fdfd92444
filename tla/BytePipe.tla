------------------------------ MODULE BytePipe ------------------------------
(***************************************************************************)
(* What a pair of httpp encoding objects promises its two clients: a pipe. *)
(* The writer appends bytes and then ends the stream; the reader gets the  *)
(* bytes in order, each once, and sees the end only after the last one.    *)
(* Byte number i of the stream is the number i.                            *)
(***************************************************************************)
EXTENDS Naturals, Sequences

VARIABLES
    sent,   \* the number of bytes that the writer's calls accepted
    ended,  \* the writer ended the stream
    got,    \* what the reader's calls returned
    seen    \* the reader was told that the stream is over

vars == <<sent, ended, got, seen>>

Init == sent = 0 /\ ended = FALSE /\ got = <<>> /\ seen = FALSE

Send == /\ ~ended
        /\ sent' \in Nat /\ sent' > sent
        /\ UNCHANGED <<ended, got, seen>>

End == ended' = TRUE /\ UNCHANGED <<sent, got, seen>>

\* A read may return bytes, tell the end, or both.
Receive ==
    /\ ~seen
    /\ Len(got') \in Len(got) .. sent
    /\ got' = [i \in 1 .. Len(got') |-> i]
    /\ seen' \in BOOLEAN
    /\ seen' => ended /\ Len(got') = sent
    /\ UNCHANGED <<sent, ended>>

Next == Send \/ End \/ Receive

Spec == Init /\ [][Next]_vars
=============================================================================
