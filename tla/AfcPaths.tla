------------------------------ MODULE AfcPaths ------------------------------
(***************************************************************************)
(* Paths on the device, as src/src/inode.rs makes them and takes them      *)
(* apart, and maps that have them as keys or values.                       *)
(*                                                                         *)
(* A path is the sequence of its components: "/" is <<>> and "/a/b" is     *)
(* <<a, b>>.  The kernel hands over names that hold no '/' and are not     *)
(* empty, so "equal to p or starting with p + '/'" in the code is "p is a  *)
(* prefix" here.                                                           *)
(***************************************************************************)
EXTENDS Naturals, Sequences

CONSTANTS Name,        \* the components a path is made of
          MaxDepth     \* bound: components of the longest path

ASSUME DepthAssumption == MaxDepth \in Nat \ {0}

Path == UNION {[1..n -> Name] : n \in 0..MaxDepth}
Root == <<>>

child(p, name) == Append(p, name)
parent(p) == IF p = Root THEN Root ELSE SubSeq(p, 1, Len(p) - 1)

\* p is `top` itself or lies below it.
Under(p, top) ==
    /\ Len(top) <= Len(p)
    /\ SubSeq(p, 1, Len(top)) = top

\* The part of p below `top`, and p with `from` replaced by `to` in front.
Suffix(p, top) == SubSeq(p, Len(top) + 1, Len(p))
Rebase(p, from, to) == to \o Suffix(p, from)

Nested(p, q) == Under(p, q) \/ Under(q, p)
-----------------------------------------------------------------------------
Put(f, x, v) == [y \in DOMAIN f \union {x} |-> IF y = x THEN v ELSE f[y]]

Drop(f, x) == [y \in DOMAIN f \ {x} |-> f[y]]
=============================================================================
