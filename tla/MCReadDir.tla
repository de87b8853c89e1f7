------------------------------ MODULE MCReadDir ------------------------------
(* Four names in pages of two, and up to two changes in between. *)
EXTENDS ReadDir
=============================================================================
