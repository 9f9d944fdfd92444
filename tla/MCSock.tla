------------------------------- MODULE MCSock -------------------------------
(* Timeouts for TLC: a .cfg cannot write negative numbers.                 *)
EXTENDS Sock

MCTimeouts == {-1, 0, 1}
=============================================================================
