---------------------------- MODULE Conversions ----------------------------
(***************************************************************************)
(* The conversions between what the device, the kernel and WinFsp write    *)
(* for the same thing: paths below the root of a service (src/src/afc.rs), *)
(* names, file times and the data of a symbolic link on Windows            *)
(* (src/src/windows_filesystem.rs).  What is claimed of them is proved in  *)
(* DataProofs, for every text and every number.                            *)
(*                                                                         *)
(* A text is the sequence of the UTF-16 units of its characters, which     *)
(* says of a String what its bytes say.  A String has no unpaired          *)
(* surrogates (WellFormed); what WinFsp gives the code may have some.      *)
(***************************************************************************)
EXTENDS Integers, Sequences

Slash == 47
Backslash == 92

Smallest(m, n) == IF m <= n THEN m ELSE n
Largest(m, n) == IF m <= n THEN n ELSE m

U64Max == 18446744073709551615
-----------------------------------------------------------------------------
\* AfcTransport::path.  The roots the code has are "/" and one that ends in no
\* slash (Connection).  The target of a link is sent through it as well.
path(root, p) ==
    IF root = <<Slash>>
    THEN IF p # <<>> /\ p[1] = Slash THEN p ELSE <<Slash>> \o p
    ELSE IF p \in {<<>>, <<Slash>>} THEN root ELSE root \o p
-----------------------------------------------------------------------------
\* A character is one unit, or a high surrogate and a low one behind it.
Unit == {u \in Nat : u < 65536}
High == {u \in Unit : 55296 <= u /\ u < 56320}
Low == {u \in Unit : 56320 <= u /\ u < 57344}
Replacement == 65533

\* A surrogate that is half of no character.
Unpaired(t, k) ==
    \/ t[k] \in High /\ ~(k < Len(t) /\ t[k + 1] \in Low)
    \/ t[k] \in Low /\ ~(k > 1 /\ t[k - 1] \in High)

WellFormed(t) == \A k \in 1..Len(t) : ~Unpaired(t, k)

\* Units as a String: to_string_lossy and from_utf16_lossy put U+FFFD where a
\* surrogate is unpaired.
wide_string(t) == [k \in 1..Len(t) |-> IF Unpaired(t, k) THEN Replacement ELSE t[k]]

Replaced(t, old, new) == [k \in 1..Len(t) |-> IF t[k] = old THEN new ELSE t[k]]

\* The name WinFsp gives a file, as a path of the mount.
afc_path(p) ==
    LET value == Replaced(wide_string(p), Backslash, Slash)
    IN  IF value # <<>> /\ value[1] = Slash THEN value ELSE <<Slash>> \o value

\* An entry the device lists, as a path of the mount.
join_afc_path(parent, name) ==
    IF parent = <<Slash>> THEN <<Slash>> \o name ELSE parent \o <<Slash>> \o name
-----------------------------------------------------------------------------
\* Windows counts steps of 100 ns from 1601, the device nanoseconds from 1970.
WINDOWS_EPOCH_TICKS == 116444736000000000

\* A time is in nanoseconds from 1970; one before it counts as 1970.
system_time_to_windows_time(time) ==
    WINDOWS_EPOCH_TICKS + Largest(time, 0) \div 100

windows_time_to_unix_nanos(ticks) ==
    Smallest(Largest(ticks - WINDOWS_EPOCH_TICKS, 0) * 100, U64Max)
-----------------------------------------------------------------------------
U16(n) == n % 65536

\* The space a target takes: 20 bytes of header, and the target twice.
ReparseSize(target) == 20 + 4 * Len(target)

\* The units behind the header and the header's two numbers, in bytes, of the
\* second copy.  (It is an error when the buffer is smaller than that.)
write_symlink_reparse(target) ==
    LET wide == Replaced(target, Slash, Backslash)
    IN  [units |-> wide \o wide,
         offset |-> U16(2 * Len(wide)), length |-> U16(2 * Len(wide))]

\* (An odd length or one beyond the buffer is an error.)
parse_symlink_reparse(data) ==
    LET wide == SubSeq(data.units, data.offset \div 2 + 1,
                       data.offset \div 2 + data.length \div 2)
    IN  Replaced(wide_string(wide), Backslash, Slash)
=============================================================================
