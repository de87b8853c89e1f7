------------------------------- MODULE AfcFile -------------------------------
(***************************************************************************)
(* read, write and the size changes of AfcTransport (src/src/afc.rs) on    *)
(* one file with several descriptors.  The device keeps a cursor for each  *)
(* descriptor and moves at most MAX_TRANSFER bytes in a request; the       *)
(* transport makes positional I/O of that: a seek, then a loop of chunks.  *)
(*                                                                         *)
(* The worker thread of the backend runs one call at a time, so nothing    *)
(* comes between the requests of a call.  Any request may fail.            *)
(*                                                                         *)
(* External: the device.  A read of it returns fewer bytes than asked only *)
(* at the end of the file; a write that fails has written a first part of  *)
(* the chunk; a descriptor opened for appending writes at the end.         *)
(* Offsets stay below 2^63, as the kernel's do, so the cast to i64 in seek *)
(* changes nothing.                                                        *)
(***************************************************************************)
EXTENDS Naturals, Sequences

CONSTANTS Handle, Appending, Byte, Zero, MaxOffset, MaxCount, MaxLength,
          MaxTransfer,   \* MAX_TRANSFER: the bytes of the largest request
          MaxChanges     \* bound: the changes of the device's own programs

ASSUME TransferAssumption == MaxTransfer \in Nat \ {0} /\ MaxChanges \in Nat
ASSUME BoundAssumption == {MaxOffset, MaxCount, MaxLength} \subseteq Nat

VARIABLES content,
          cursor,      \* the position the device has for each descriptor
          call,        \* the call that runs: its arguments and its progress
          answer,
          before,      \* the file when the call that runs began (history)
          changes      \* of the device's own programs (history)

vars == <<content, cursor, call, answer, before, changes>>

\* What the call was made with.
Request ==
    IF call.op = "read"
    THEN [op |-> "read", handle |-> call.handle, offset |-> call.offset,
          count |-> call.remaining + Len(call.output)]
    ELSE [op |-> "write", handle |-> call.handle, offset |-> call.offset,
          bytes |-> call.bytes]

\* A call that runs has not happened yet: its effect shows when it returns.
Visible == INSTANCE PositionalFile WITH
              content <- IF call.step = "none" THEN content ELSE before,
              request <- IF call.step = "none" THEN [op |-> "none"] ELSE Request

Idle == [step |-> "none"]
-----------------------------------------------------------------------------
Init ==
    /\ content = <<>>
    /\ cursor = [h \in Handle |-> 0]
    /\ call = Idle
    /\ answer = Visible!Err
    /\ before = <<>>
    /\ changes = 0

\* The call returns.
Return(result) ==
    /\ answer' = result
    /\ call' = Idle
    /\ before' = <<>>

BeginRead(h, o, n) ==
    /\ call = Idle
    /\ call' = [step |-> "seek", op |-> "read", handle |-> h, offset |-> o,
                remaining |-> n, output |-> <<>>]
    /\ before' = content
    /\ UNCHANGED <<content, cursor, answer, changes>>

BeginWrite(h, o, d) ==
    /\ call = Idle
    /\ Visible!Target(h, o) + Len(d) <= MaxLength       \* bound
    /\ call' = [step |-> "seek", op |-> "write", handle |-> h, offset |-> o,
                bytes |-> d, rest |-> d]
    /\ before' = content
    /\ UNCHANGED <<content, cursor, answer, changes>>

\* (Mutant: a cursor that has moved on its own is taken to be right.)
SeekOnlyBack ==
    /\ call.step = "seek"
    /\ cursor' = [cursor EXCEPT ![call.handle] = Visible!Smaller(@, call.offset)]
    /\ call' = [call EXCEPT !.step = "transfer"]
    /\ UNCHANGED <<content, answer, before, changes>>

\* seek: the first request of both.
Seek ==
    /\ call.step = "seek"
    /\ cursor' = [cursor EXCEPT ![call.handle] = call.offset]
    /\ call' = [call EXCEPT !.step = "transfer"]
    /\ UNCHANGED <<content, answer, before, changes>>

Transferring(op) == call.step = "transfer" /\ call.op = op
-----------------------------------------------------------------------------
(***************************************************************************)
(* The loop of read: until all is there or a chunk came back short.        *)
(***************************************************************************)
Amount == Visible!Smaller(call.remaining, MaxTransfer)
Chunk == Visible!Slice(content, cursor[call.handle], Amount)

\* (Mutant: the loop goes on after a chunk that came back short.)
ReadChunkUntilAll ==
    /\ Transferring("read")
    /\ call.remaining > 0
    /\ cursor' = [cursor EXCEPT ![call.handle] = @ + Len(Chunk)]
    /\ call' = [call EXCEPT !.output = @ \o Chunk, !.remaining = @ - Len(Chunk)]
    /\ UNCHANGED <<content, answer, before, changes>>

ReadChunk ==
    /\ Transferring("read")
    /\ call.remaining > 0
    /\ cursor' = [cursor EXCEPT ![call.handle] = @ + Len(Chunk)]
    /\ IF Len(Chunk) < Amount
       THEN Return(Visible!Got(call.output \o Chunk))
       ELSE /\ call' = [call EXCEPT !.output = @ \o Chunk,
                                    !.remaining = @ - Len(Chunk)]
            /\ UNCHANGED <<answer, before>>
    /\ UNCHANGED <<content, changes>>

ReadReturns ==
    /\ Transferring("read")
    /\ call.remaining = 0
    /\ Return(Visible!Got(call.output))
    /\ UNCHANGED <<content, cursor, changes>>
-----------------------------------------------------------------------------
(***************************************************************************)
(* The loop of write, over the chunks of its bytes.                        *)
(***************************************************************************)
Piece == SubSeq(call.rest, 1, Visible!Smaller(Len(call.rest), MaxTransfer))
Remainder == SubSeq(call.rest, Len(Piece) + 1, Len(call.rest))

\* Where the device puts the piece.
Place == IF call.handle \in Appending THEN Len(content) ELSE cursor[call.handle]

\* The device writes the bytes d of the piece.
DeviceWrites(d) ==
    /\ content' = Visible!Overlay(content, Place, d)
    /\ cursor' = [cursor EXCEPT ![call.handle] = Place + Len(d)]

WriteChunk ==
    /\ Transferring("write")
    /\ call.rest # <<>>
    /\ DeviceWrites(Piece)
    /\ call' = [call EXCEPT !.rest = Remainder]
    /\ UNCHANGED <<answer, before, changes>>

WriteReturns ==
    /\ Transferring("write")
    /\ call.rest = <<>>
    /\ Return(Visible!Done(Len(call.bytes)))
    /\ UNCHANGED <<content, cursor, changes>>
-----------------------------------------------------------------------------
\* A request of a call fails, and the call with it.  A Write may have written a
\* first part of the piece.
RequestFails ==
    /\ \/ /\ call.step = "seek" \/ (Transferring("read") /\ call.remaining > 0)
          /\ UNCHANGED <<content, cursor>>
       \/ /\ Transferring("write") /\ call.rest # <<>>
          /\ \E k \in 0..Len(Piece) : DeviceWrites(SubSeq(Piece, 1, k))
    /\ Return(Visible!Err)
    /\ UNCHANGED changes

\* truncate and truncate_handle: one request, which moves no cursor.
Truncate(n) ==
    /\ call = Idle
    /\ \/ content' = Visible!Resize(content, n) /\ answer' = Visible!Done(n)
       \/ answer' = Visible!Err /\ UNCHANGED content
    /\ UNCHANGED <<cursor, call, before, changes>>

Progress == Seek \/ ReadChunk \/ ReadReturns \/ WriteChunk \/ WriteReturns

\* A program of the device appends a byte or cuts the file, between two calls.
Elsewhere ==
    /\ call = Idle
    /\ changes < MaxChanges
    /\ \/ \E b \in Byte : Len(content) < MaxLength /\ content' = Append(content, b)
       \/ \E n \in 0..Len(content) : content' = SubSeq(content, 1, n)
    /\ changes' = changes + 1
    /\ UNCHANGED <<cursor, call, answer, before>>
-----------------------------------------------------------------------------
TypeOK ==
    /\ content \in Seq(Byte \union {Zero}) /\ Len(content) <= MaxLength
    /\ before \in Seq(Byte \union {Zero}) /\ Len(before) <= MaxLength
    /\ cursor \in [Handle -> 0..(MaxOffset + MaxLength)]
    /\ call.step \in {"none", "seek", "transfer"}
    /\ call.step # "none" =>
          /\ call.handle \in Handle
          /\ call.op = "read" => call.remaining \in Visible!Count
    /\ answer.status \in {"ok", "err"}
    /\ changes \in 0..MaxChanges

(***************************************************************************)
(* The seeks and chunks amount to positional I/O: whatever descriptors are *)
(* used in whatever order, however often a call broke off half-way and     *)
(* left its cursor anywhere, a read returns the bytes at its offset up to  *)
(* its size or the end of the file, and a write puts its bytes at its      *)
(* offset (afc.rs:201-239).                                                *)
(***************************************************************************)
ImplementsPositionalFile == Visible!Spec
=============================================================================
