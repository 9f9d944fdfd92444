------------------------- MODULE MCChunkExtensions -------------------------
(* Keys for TLC: a .cfg cannot write sequences.                            *)
EXTENDS ChunkExtensions

MCKeys == {<<"a">>, <<"a", "a">>}
=============================================================================
