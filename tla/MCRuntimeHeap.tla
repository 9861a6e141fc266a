--------------------------- MODULE MCRuntimeHeap ---------------------------
(***************************************************************************)
(* A slot of a few words: image to 5, so base 16; arena 16..47; heap from  *)
(* 48, of up to 96 bytes.  Three globals for a table of two.  The first    *)
(* limit is too small to split.                                            *)
(***************************************************************************)
EXTENDS RuntimeHeap, TLC

CONSTANTS g, h, k     \* three globals

McHashes == {g, h, k}
McSize == g :> 4 @@ h :> 12 @@ k :> 4
McRequests == {<<4, 4>>, <<16, 8>>}
McArenaRequests == {4}
McLimits == {96, 144, 176}
=============================================================================
