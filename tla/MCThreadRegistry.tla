-------------------------- MODULE MCThreadRegistry --------------------------
(* Small instances of ThreadRegistry for TLC.                              *)
EXTENDS ThreadRegistry, TLC

\* Threads other than the main one, and handles, are interchangeable in the
\* safety runs.
Symmetry == Permutations(Threads \ {Main}) \cup Permutations(Handles)
=============================================================================
