---------------------------- MODULE MCLinuxMount ----------------------------
(* Two clones of the handle. *)
EXTENDS LinuxMount

CONSTANTS u1, u2
=============================================================================
