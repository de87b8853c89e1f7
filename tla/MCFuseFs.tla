------------------------------ MODULE MCFuseFs ------------------------------
(* Two names, directories in the root, one descriptor at a time. *)
EXTENDS FuseFs, TLC

CONSTANTS a, b

Symmetric == Permutations(Name)
=============================================================================
