--------------------------- MODULE PositionalFile ---------------------------
(***************************************************************************)
(* What AfcTransport::read and ::write promise their callers: positional   *)
(* I/O on a file, what a call asks for done in a single step.  A write     *)
(* through a handle that appends goes to the end of the file, whatever its *)
(* offset.  A write that fails may have left a first part of its bytes     *)
(* behind, nothing else.  AfcFile shows that the seeks and the chunks of   *)
(* src/src/afc.rs implement it.                                            *)
(***************************************************************************)
EXTENDS Naturals, Sequences

CONSTANTS Handle,      \* the descriptors that are open on the file
          Appending,   \* those the device opened for appending
          Byte,        \* the bytes written
          Zero,        \* the byte that fills a gap
          MaxOffset,   \* bound: the last offset of a call
          MaxCount,    \* bound: the bytes of a call
          MaxLength    \* bound: the bytes of the file

VARIABLES content,     \* the bytes of the file
          request,     \* what the call that runs asks for
          answer,      \* what the last call returned
          changes      \* of the device's own programs

vars == <<content, request, answer, changes>>

Offset == 0..MaxOffset
Count == 0..MaxCount
Data == UNION {[1..n -> Byte] : n \in Count}

Smaller(m, n) == IF m <= n THEN m ELSE n

\* At most n bytes of the file f from offset o on.
Slice(f, o, n) == SubSeq(f, o + 1, Smaller(o + n, Len(f)))

\* The file f cut or filled with zeros to n bytes.
Resize(f, n) == [k \in 1..n |-> IF k <= Len(f) THEN f[k] ELSE Zero]

\* The file f with the bytes d at offset o; a gap before them reads as zeros.
Overlay(f, o, d) ==
    IF d = <<>> THEN f
    ELSE [k \in 1..(IF o + Len(d) > Len(f) THEN o + Len(d) ELSE Len(f)) |->
            IF k \in (o + 1)..(o + Len(d)) THEN d[k - o]
            ELSE IF k <= Len(f) THEN f[k] ELSE Zero]

\* Where the bytes of a write through h go.
Target(h, o) == IF h \in Appending THEN Len(content) ELSE o

\* The answers: the bytes read, the number of bytes written, or an error.
Got(bytes) == [status |-> "ok", bytes |-> bytes, count |-> Len(bytes)]
Done(n) == [status |-> "ok", bytes |-> <<>>, count |-> n]
Err == [status |-> "err", bytes |-> <<>>, count |-> 0]

\* The requests.
NoRequest == [op |-> "none"]
ToRead(h, o, n) == [op |-> "read", handle |-> h, offset |-> o, count |-> n]
ToWrite(h, o, d) == [op |-> "write", handle |-> h, offset |-> o, bytes |-> d]
Request ==
    {ToRead(h, o, n) : h \in Handle, o \in Offset, n \in Count}
    \union {ToWrite(h, o, d) : h \in Handle, o \in Offset, d \in Data}
-----------------------------------------------------------------------------
Init ==
    /\ content = <<>>
    /\ request = NoRequest
    /\ answer = Err
    /\ changes = 0

Ask ==
    /\ request = NoRequest
    /\ request' \in Request
    /\ UNCHANGED <<content, answer, changes>>

Read ==
    /\ request.op = "read"
    /\ answer' \in {Got(Slice(content, request.offset, request.count)), Err}
    /\ request' = NoRequest
    /\ UNCHANGED <<content, changes>>

Written(d) ==
    content' = Overlay(content, Target(request.handle, request.offset), d)

Write ==
    /\ request.op = "write"
    /\ request' = NoRequest
    /\ \/ Written(request.bytes) /\ answer' = Done(Len(request.bytes))
       \/ /\ \E k \in 0..Len(request.bytes) : Written(SubSeq(request.bytes, 1, k))
          /\ answer' = Err
    /\ UNCHANGED changes

SetSize(n) ==
    /\ request = NoRequest
    /\ \/ content' = Resize(content, n) /\ answer' = Done(n)
       \/ answer' = Err /\ UNCHANGED content
    /\ UNCHANGED <<request, changes>>

\* The device's own programs change the file, between two calls.
Elsewhere ==
    /\ request = NoRequest
    /\ content' \in Seq(Byte \union {Zero})
    /\ changes' = changes + 1
    /\ UNCHANGED <<request, answer>>

Next == Elsewhere \/ Ask \/ Read \/ Write \/ (\E n \in 0..MaxLength : SetSize(n))

Spec == Init /\ [][Next]_vars
=============================================================================
