------------------------------ MODULE MCWinFs ------------------------------
(* Two handles, two names in the root. *)
EXTENDS WinFs, TLC

CONSTANTS a, b, c1, c2

Symmetric == Permutations(Name) \union Permutations(Context)
=============================================================================
