---------------------------- MODULE MCInodeTable ----------------------------
(* InodeTable on a small tree, with the mutants its properties must catch. *)
EXTENDS InodeTable, TLC

CONSTANTS a, b

Symmetric == Permutations(Name)
=============================================================================
