------------------------------ MODULE MCBackend ------------------------------
(* Three threads with a Sender: the session thread and two more. *)
EXTENDS Backend

CONSTANTS c1, c2, c3
=============================================================================
