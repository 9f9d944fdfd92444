------------------------------- MODULE MCLog --------------------------------
(* Small instances of Log for TLC: the threads and the names are           *)
(* interchangeable.                                                        *)
EXTENDS Log

Symmetry == Permutations(Threads) \cup Permutations(Names)
=============================================================================
