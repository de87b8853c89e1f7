--------------------------- MODULE MCFileHandlers ---------------------------
(* One file with a handle that writes and one that may append as well;      *)
(* chunks of two bytes, calls of up to three: a full chunk and a short one. *)
EXTENDS FileHandlers

CONSTANTS plain, append

MCByte == {1}
MCAccess == [h \in Handle |-> IF h = append THEN {"read", "write", "append"}
                                            ELSE {"read", "write"}]
MCAppending == {h \in Handle : access_mode(Access[h]) \in AppendModes}
=============================================================================
