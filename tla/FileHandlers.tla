---------------------------- MODULE FileHandlers ----------------------------
(***************************************************************************)
(* The handlers that move data through an open file, over the calls of     *)
(* AfcFile: read and write of src/src/filesystem.rs and read, write,       *)
(* overwrite and set_file_size of src/src/windows_filesystem.rs.           *)
(*                                                                         *)
(* A write to the end of the file is two commands: the size, then the      *)
(* write at that offset.  On Windows a write ends with one more stat.  One *)
(* handler runs at a time (AfcFile, WinFs, FuseFs), but the device's own   *)
(* programs may write between two of its commands; they are taken to leave *)
(* the file alone while the requests of one command run.                   *)
(***************************************************************************)
EXTENDS AfcFile

CONSTANT Access        \* Windows: handle -> the rights it was opened with

VARIABLE handler       \* the handler that runs: where it is, and its write

handlerVars == <<vars, handler>>

\* (Mutant: the right to write is looked at first.)
access_mode_write_first(access) ==
    IF "write" \in access THEN "Rw" ELSE IF "append" \in access THEN "RdAppend" ELSE "RdOnly"

\* The mode of the device a Windows handle is opened with ...
access_mode(access) ==
    IF "append" \in access THEN "RdAppend" ELSE IF "write" \in access THEN "Rw" ELSE "RdOnly"

\* ... and which of them append.
AppendModes == {"Append", "RdAppend"}

ASSUME AccessAssumption ==
    \A h \in Handle : Access[h] \subseteq {"read", "write", "append"}

\* A Windows handle is opened with the mode access_mode gives it.
ASSUME OpenAssumption ==
    \A h \in Handle : h \in Appending <=> access_mode(Access[h]) \in AppendModes

NoHandler == [step |-> "none"]

HandlersInit ==
    /\ Init
    /\ handler = NoHandler
-----------------------------------------------------------------------------
\* read, of both: one command.
read(h, o, n) ==
    /\ handler = NoHandler
    /\ BeginRead(h, o, n)
    /\ handler' = [step |-> "read"]

\* write at an offset.
write(h, o, d) ==
    /\ handler = NoHandler
    /\ BeginWrite(h, o, d)
    /\ handler' = [step |-> "write", eof |-> FALSE]

\* write with write_to_eof: the stat comes first, and either may fail.
write_to_eof(h, d) ==
    /\ handler = NoHandler
    /\ handler' = [step |-> "size", handle |-> h, bytes |-> d, size |-> Len(content),
                   seen |-> changes]
    /\ UNCHANGED vars

\* (Mutant: the size is the one the handle was opened with.)
writeAtStart ==
    /\ handler.step = "size"
    /\ BeginWrite(handler.handle, 0, handler.bytes)
    /\ handler' = [step |-> "write", eof |-> TRUE, seen |-> handler.seen]

writeAtSize ==
    /\ handler.step = "size"
    /\ handler.size \in Visible!Offset                  \* bound
    /\ BeginWrite(handler.handle, handler.size, handler.bytes)
    /\ handler' = [step |-> "write", eof |-> TRUE, seen |-> handler.seen]

\* overwrite and set_file_size: TruncateHandle, whatever the size is for.
set_file_size(n) ==
    /\ handler = NoHandler
    /\ Truncate(n)
    /\ handler' = [step |-> "info"]

\* The requests of the command that runs.
Requests ==
    /\ Progress \/ RequestFails
    /\ UNCHANGED handler

\* The command has returned.  On Windows a write that went well is followed by
\* a stat, which makes it an error when it fails.
Returned ==
    /\ handler.step \in {"read", "write"}
    /\ call = Idle
    /\ \/ handler.step = "write" /\ answer.status = "ok" /\ handler' = [step |-> "info"]
       \/ handler' = NoHandler
    /\ UNCHANGED vars

\* The last stat; or a stat that fails, and no room (bound) for the write.
Done ==
    /\ handler.step \in {"info", "size"}
    /\ handler' = NoHandler
    /\ UNCHANGED vars

HandlersNext ==
    \/ \E h \in Handle, o \in Visible!Offset, n \in Visible!Count : read(h, o, n)
    \/ \E h \in Handle, d \in Visible!Data :
          write_to_eof(h, d) \/ \E o \in Visible!Offset : write(h, o, d)
    \/ \E n \in 0..MaxLength : set_file_size(n)
    \/ Requests \/ writeAtSize \/ Returned \/ Done
    \/ Elsewhere /\ UNCHANGED handler

HandlersSpec == HandlersInit /\ [][HandlersNext]_handlerVars

\* The worker as in AfcFile, and the thread of the handler.
FairHandlersSpec ==
    /\ HandlersSpec
    /\ WF_handlerVars(Progress /\ UNCHANGED handler)
    /\ WF_handlerVars(Returned \/ Done)
-----------------------------------------------------------------------------
Writes == call.step = "transfer" /\ call.op = "write" /\ content' # content

(***************************************************************************)
(* A write to the end of the file overwrites nothing - but for what the    *)
(* device's own programs have added since the stat, and not even that      *)
(* through a handle that appends (windows_filesystem.rs:371).              *)
(***************************************************************************)
EofWriteKeepsAll ==
    [][Writes /\ handler.eof /\ (handler.seen = changes \/ call.handle \in Appending) =>
          SubSeq(content', 1, Len(content)) = content]_handlerVars

(***************************************************************************)
(* Where a write lands is decided by one right of its handle: with append  *)
(* access at the end, whatever offset it asks for and although the handle  *)
(* may write anywhere; without, at its offset (windows_filesystem.rs:479). *)
(***************************************************************************)
AppendAccessDecides ==
    [][Writes =>
          LET done == Len(call.bytes) - Len(call.rest)
              place == IF "append" \in Access[call.handle] THEN Len(content)
                                                           ELSE call.offset + done
          IN  \E k \in 1..Len(call.rest) :
                 content' = Visible!Overlay(content, place, SubSeq(call.rest, 1, k))]_handlerVars

\* A handler ends: no sequence of chunks keeps the worker, or the session.
EveryCallEnds == handler # NoHandler ~> handler = NoHandler
=============================================================================
