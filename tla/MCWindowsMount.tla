--------------------------- MODULE MCWindowsMount ---------------------------
(* Two clones of the handle. *)
EXTENDS WindowsMount

CONSTANTS u1, u2
=============================================================================
