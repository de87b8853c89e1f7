---------------------------- MODULE MCIfuseMain ----------------------------
(***************************************************************************)
(* The program with its mount: every device and source it can be asked     *)
(* for, every kind of mount point, every order of two items of -o; and     *)
(* programs on the library with every address of up to five tokens.        *)
(***************************************************************************)
EXTENDS IfuseMain

MCUdid == {"A", "B"}
MCApp == {1, 2}

Plain ==
    [positional |-> <<"dir">>, mount_options |-> <<>>, udid |-> None, network |-> FALSE,
     root |-> FALSE, documents |-> None, container |-> None, list_apps |-> FALSE]

Sources == {Plain, [Plain EXCEPT !.root = TRUE], [Plain EXCEPT !.documents = "app"],
            [Plain EXCEPT !.container = "app"], [Plain EXCEPT !.container = ""]}

Positionals == {<<>>, <<"file">>, <<"nothing">>, <<"">>, <<"nothing", "dir">>}

Items == {"allow_other", "allow_root", "ro", ""}
Options == {<<>>} \union {<< <<a, b>> >> : a, b \in Items}
                  \union {<< <<a>>, <<b>> >> : a, b \in Items}

MCCommandLines ==
    LET wishes == {[c EXCEPT !.udid = u, !.network = n] :
                       c \in Sources, u \in {None, ""} \union Udid, n \in BOOLEAN}
        places == {[Plain EXCEPT !.positional = p] : p \in Positionals}
        options == {[Plain EXCEPT !.mount_options = o, !.udid = "A"] : o \in Options}
        lists == {[c EXCEPT !.list_apps = TRUE, !.positional = p] :
                     c \in wishes, p \in {<<>>, <<"dir">>}}
    IN  wishes \union places \union options \union lists

\* No two literals stand side by side: they would be read as another one.
Addresses ==
    {t \in BoundedSeq(Token, 5) :
        \A k \in 1..(Len(t) - 1) :
            {t[k], t[k + 1]} \intersect {"[", "]", "%"} # {}}

MCBuilders ==
    LET network(a, p) == [kind |-> "Network", address |-> a, pairing_file |-> p]
        on(b) == [b EXCEPT !.mount_point = "dir"]
    IN  {on(with_target(network(a, "pairing"))) : a \in Addresses}
        \union {on(with_target(network(<<"v4">>, "")))}
        \union {[on(with_target([kind |-> "Usb", udid |-> "A"])) EXCEPT
                    !.volume_label = l, !.source = [kind |-> "Documents", bundle_id |-> d]] :
                       l \in {None, "", "label"}, d \in {"", "app"}}
=============================================================================
