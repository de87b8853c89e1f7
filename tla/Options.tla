------------------------------ MODULE Options ------------------------------
(***************************************************************************)
(* src/src/options.rs on Linux: what an IfuseBuilder holds, and what       *)
(* validate, fuser_config and parse_network_address make of it.            *)
(*                                                                         *)
(* A text is what the code tells apart in it: "" is any blank text.  A     *)
(* path is what is there, "dir", "file" or "nothing", or "" when it is     *)
(* empty.  The argument of one -o is the sequence of the items between its *)
(* commas.  A network address, trimmed, is a sequence of tokens: the       *)
(* literals "v4" and "v6" (the only token with a colon), "num" (fits a     *)
(* u32), "word", and "[", "]", "%".                                        *)
(***************************************************************************)
EXTENDS Naturals, Sequences, SequencesExt

CONSTANT None            \* Option::None

with_target(t) ==
    [target |-> t, mount_point |-> None, source |-> [kind |-> "Media"],
     mount_options |-> <<>>, volume_label |-> None]

ByUsbmuxd(target) == target.kind \in {"Usb", "UsbmuxdNetwork"}
-----------------------------------------------------------------------------
Token == {"v4", "v6", "num", "word", "[", "]", "%"}

\* strip_prefix('[') and then strip_suffix(']'): both or neither.
Unbracketed(t) ==
    IF Len(t) > 1 /\ Head(t) = "[" /\ Last(t) = "]" THEN SubSeq(t, 2, Len(t) - 1) ELSE t

\* IpAddr::from_str
Literal(t) == IF t \in {<<"v4">>, <<"v6">>} THEN t[1] ELSE None

\* The address and its scope, or None for InvalidNetworkAddress.
parse_network_address(input) ==
    LET t == Unbracketed(input)
        percents == {k \in DOMAIN t : t[k] = "%"}
        k == Max(percents)
        scoped == percents # {} /\ Contains(SubSeq(t, 1, k - 1), "v6")
        address == Literal(IF scoped THEN SubSeq(t, 1, k - 1) ELSE t)
    IN  IF address = None \/ (scoped /\ SubSeq(t, k + 1, Len(t)) # <<"num">>)
        THEN None
        ELSE [address |-> address, scoped |-> scoped]

\* The first of these that is true is the error validate returns.
Objections(b) ==
    LET t == b.target
    IN  << <<ByUsbmuxd(t) /\ t.udid = "", "EmptyUdid">>,
           <<~ByUsbmuxd(t) /\ parse_network_address(t.address) = None,
             "InvalidNetworkAddress">>,
           <<~ByUsbmuxd(t) /\ t.pairing_file = "", "EmptyPairingFile">>,
           <<b.source.kind \in {"Documents", "Container"} /\ b.source.bundle_id = "",
             "EmptyBundleId">>,
           <<b.volume_label = "", "EmptyVolumeLabel">>,
           <<b.mount_point \in {None, ""}, "MountpointRequired">>,
           <<b.mount_point = "nothing", "MountpointMissing">>,
           <<b.mount_point = "file", "MountpointNotDirectory">> >>

validate(b) ==
    LET objections == Objections(b)
        raised == {k \in DOMAIN objections : objections[k][1]}
    IN  IF raised = {} THEN "Ok" ELSE objections[Min(raised)][2]
-----------------------------------------------------------------------------
\* One item of -o: two of them choose who may use the mount, an empty one is
\* nothing, and every other one becomes a MountOption.
Configure(config, option) ==
    CASE option = "allow_other" -> [config EXCEPT !.acl = "All"]
      [] option = "allow_root" -> [config EXCEPT !.acl = "RootAndOwner"]
      [] option = "" -> config
      [] OTHER -> [config EXCEPT !.mount_options = Append(@, option)]

\* (Mutant: who may use the mount is chosen by the first item that does.)
fuser_config_once(b) ==
    LET who == SelectSeq(FlattenSeq(b.mount_options),
                         LAMBDA o : o \in {"allow_other", "allow_root"})
    IN  [acl |-> IF who = <<>> THEN "Owner"
                 ELSE IF Head(who) = "allow_other" THEN "All" ELSE "RootAndOwner",
         mount_options |-> <<>>]

\* Who may use the mount when no item says so.
Unconfigured ==
    [acl |-> "Owner", mount_options |-> <<"fsname=ifuse-rs", "subtype=ifuse-rs">>]

fuser_config(b) ==
    LET items == FlattenSeq(b.mount_options)
        config[k \in 0..Len(items)] ==       \* after the first k items
            IF k = 0 THEN Unconfigured ELSE Configure(config[k - 1], items[k])
    IN  config[Len(items)]
=============================================================================
