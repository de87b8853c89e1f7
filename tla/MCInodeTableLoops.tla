------------------------- MODULE MCInodeTableLoops -------------------------
(* The loops on trees of depth two over two names. *)
EXTENDS InodeTableLoops, TLC

CONSTANTS a, b

Symmetric == Permutations(Name)
=============================================================================
