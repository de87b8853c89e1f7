-------------------------- MODULE InodeTableProofs --------------------------
(***************************************************************************)
(* Theorems about InodeTable, for every set of names and every bound.      *)
(*                                                                         *)
(* The inductive invariant is TypeOK together with PathEntriesBacked: that *)
(* rename keeps the two maps in step needs that no two paths share a       *)
(* number (else a moved number would be wanted by a path that stays), and  *)
(* that is what PathEntriesBacked says before the step.                    *)
(***************************************************************************)
EXTENDS InodeTable, TLAPS

Inv == TypeOK /\ PathEntriesBacked
-----------------------------------------------------------------------------
(***************************************************************************)
(* Paths.                                                                  *)
(***************************************************************************)
\* A path is a sequence of at most MaxDepth names.
LEMMA PathIsSeq ==
    ASSUME NEW p \in Path
    PROVE  p \in Seq(Name) /\ Len(p) \in 0..MaxDepth
<1>1. PICK n \in 0..MaxDepth : p \in [1..n -> Name]
  BY DEF Path
<1>2. n \in Nat
  BY <1>1, DepthAssumption
<1>3. p \in Seq(Name) /\ Len(p) = n
  BY <1>1, <1>2
<1> QED
  BY <1>1, <1>3

\* The root is a path.
LEMMA RootIsPath == Root \in Path
<1>1. Root \in [1..0 -> Name]
  BY DEF Root
<1>2. 0 \in 0..MaxDepth
  BY DepthAssumption
<1> QED
  BY <1>1, <1>2 DEF Path

\* A path below `top` is `top` followed by the rest.
LEMMA UnderSplits ==
    ASSUME NEW p \in Seq(Name), NEW top \in Seq(Name), Under(p, top)
    PROVE  /\ Suffix(p, top) \in Seq(Name)
           /\ Len(Suffix(p, top)) = Len(p) - Len(top)
           /\ p = top \o Suffix(p, top)
  BY DEF Under, Suffix

\* What is put below a path lies below it, with the suffix it was given.
LEMMA JoinSplits ==
    ASSUME NEW s \in Seq(Name), NEW top \in Seq(Name)
    PROVE  Under(top \o s, top) /\ Suffix(top \o s, top) = s
  BY DEF Under, Suffix

\* Joining paths is associative.
LEMMA JoinAssociative ==
    ASSUME NEW r \in Seq(Name), NEW s \in Seq(Name), NEW t \in Seq(Name)
    PROVE  /\ (r \o s) \o t = r \o (s \o t)
           /\ s \o t \in Seq(Name)
  OBVIOUS

\* Moving a path from one place to another and back gives the path again.
LEMMA RebaseAndBack ==
    ASSUME NEW p \in Seq(Name), NEW from \in Seq(Name), NEW to \in Seq(Name),
           Under(p, from)
    PROVE  Rebase(Rebase(p, from, to), to, from) = p
<1> DEFINE s == Suffix(p, from)
<1>1. s \in Seq(Name) /\ Len(s) = Len(p) - Len(from)
  BY UnderSplits
<1>2. p = from \o s
  BY UnderSplits
<1>3. Suffix(to \o s, to) = s
  BY <1>1, JoinSplits
<1> QED
  BY <1>2, <1>3 DEF Rebase
-----------------------------------------------------------------------------
(***************************************************************************)
(* The invariant, one lemma per operation.                                 *)
(***************************************************************************)
LEMMA InitInv == Init => Inv
<1> SUFFICES ASSUME Init PROVE Inv
  OBVIOUS
<1>1. TypeOK
  BY RootIsPath, InodeAssumption DEF Init, TypeOK, RootInode
<1>2. PathEntriesBacked
  BY DEF Init, PathEntriesBacked
<1> QED
  BY <1>1, <1>2 DEF Inv

\* A lookup preserves the invariant (inode.rs:31-40).
LEMMA InodeInv ==
    ASSUME Inv, NEW p \in Path, inode(p)
    PROVE  Inv'
<1>1. CASE UNCHANGED vars
  BY <1>1 DEF Inv, TypeOK, PathEntriesBacked, vars
<1>2. CASE /\ p \notin DOMAIN by_path
           /\ next <= MaxInode
           /\ next' = next + 1
           /\ by_inode' = Put(by_inode, next, p)
           /\ by_path' = Put(by_path, p, next)
  <2>1. TypeOK'
    BY <1>2, InodeAssumption DEF Inv, TypeOK, Put
  <2>2. PathEntriesBacked'
    <3> SUFFICES ASSUME NEW q \in DOMAIN by_path'
                 PROVE  by_path'[q] \in DOMAIN by_inode' /\ by_inode'[by_path'[q]] = q
      BY DEF PathEntriesBacked
    <3>1. CASE q = p
      BY <1>2, <3>1 DEF Put
    <3>2. CASE q # p
      <4>1. q \in DOMAIN by_path /\ by_path'[q] = by_path[q]
        BY <1>2, <3>2 DEF Put
      <4>2. by_path[q] \in DOMAIN by_inode /\ by_path[q] # next
        BY <4>1 DEF Inv, TypeOK, PathEntriesBacked
      <4> QED
        BY <1>2, <4>1, <4>2 DEF Put, Inv, PathEntriesBacked
    <3> QED
      BY <3>1, <3>2
  <2> QED
    BY <2>1, <2>2 DEF Inv
<1> QED
  BY <1>1, <1>2 DEF inode

\* A removal preserves the invariant (inode.rs:59-71).
LEMMA RemoveInv ==
    ASSUME Inv, NEW p \in Path, Remove(p)
    PROVE  Inv'
<1>1. TypeOK'
  BY DEF Inv, TypeOK, Remove, remove
<1>2. PathEntriesBacked'
  <2> SUFFICES ASSUME NEW q \in DOMAIN by_path'
               PROVE  by_path'[q] \in DOMAIN by_inode' /\ by_inode'[by_path'[q]] = q
    BY DEF PathEntriesBacked
  <2>1. q \in DOMAIN by_path /\ q \notin Subtree(p) /\ by_path'[q] = by_path[q]
    BY DEF Remove, remove
  <2>2. by_path[q] \in DOMAIN by_inode /\ by_inode[by_path[q]] = q
    BY <2>1 DEF Inv, PathEntriesBacked
  <2>3. by_path[q] \notin SubtreeInodes(p)
    BY <2>1, <2>2 DEF SubtreeInodes, Subtree, Inv, PathEntriesBacked
  <2> QED
    BY <2>1, <2>2, <2>3 DEF Remove, remove
<1> QED
  BY <1>1, <1>2 DEF Inv

\* What rename does, in terms of the paths that move and their numbers.
LEMMA RenameEffect ==
    ASSUME Inv, NEW from \in Path, NEW to \in Path, Rename(from, to)
    PROVE  /\ next' = next
           /\ DOMAIN by_inode' = DOMAIN by_inode
           /\ \A q \in DOMAIN by_path' :
                 \/ \E p \in Subtree(from) :
                       q = Rebase(p, from, to) /\ by_path'[q] = by_path[p]
                 \/ /\ q \in DOMAIN by_path \ Subtree(from)
                    /\ by_path'[q] = by_path[q]
           /\ \A p \in Subtree(from) :
                 /\ Rebase(p, from, to) \in DOMAIN by_path'
                 /\ by_path'[Rebase(p, from, to)] = by_path[p]
                 /\ by_inode'[by_path[p]] = Rebase(p, from, to)
           /\ DOMAIN by_path \ Subtree(from) \subseteq DOMAIN by_path'
           /\ \A i \in DOMAIN by_inode \ SubtreeInodes(from) :
                 by_inode'[i] = by_inode[i]
           /\ by_inode' = [i \in DOMAIN by_inode' |-> by_inode'[i]]
           /\ by_path' = [q \in DOMAIN by_path' |-> by_path'[q]]
<1> DEFINE Moved == Subtree(from)
           Images == {Rebase(p, from, to) : p \in Moved}
           OldPath(i) == CHOOSE p \in Moved : by_path[p] = i
<1>1. /\ by_path' = [q \in (DOMAIN by_path \ Moved) \union Images |->
                       IF q \in Images THEN by_path[Rebase(q, to, from)] ELSE by_path[q]]
      /\ by_inode' = [i \in DOMAIN by_inode \union SubtreeInodes(from) |->
                       IF i \in SubtreeInodes(from) THEN Rebase(OldPath(i), from, to)
                                                    ELSE by_inode[i]]
      /\ next' = next
  BY DEF Rename, rename
<1>2. \A p \in Moved : p \in DOMAIN by_path /\ by_path[p] \in DOMAIN by_inode
                       /\ by_inode[by_path[p]] = p
  BY DEF Subtree, Inv, PathEntriesBacked
<1>3. SubtreeInodes(from) \subseteq DOMAIN by_inode
  BY <1>2 DEF SubtreeInodes
<1>4. \A p \in Moved : OldPath(by_path[p]) = p
  <2> SUFFICES ASSUME NEW p \in Moved PROVE OldPath(by_path[p]) = p
    OBVIOUS
  <2>1. OldPath(by_path[p]) \in Moved /\ by_path[OldPath(by_path[p])] = by_path[p]
    OBVIOUS
  <2> QED
    BY <2>1, <1>2
<1>5. \A p \in Moved : Rebase(Rebase(p, from, to), to, from) = p
  BY RebaseAndBack, PathIsSeq, <1>2 DEF Subtree, Inv, TypeOK
<1>6. \A q \in DOMAIN by_path' :
         \/ \E p \in Moved : q = Rebase(p, from, to) /\ by_path'[q] = by_path[p]
         \/ q \in DOMAIN by_path \ Moved /\ by_path'[q] = by_path[q]
  <2> SUFFICES ASSUME NEW q \in DOMAIN by_path'
               PROVE  \/ \E p \in Moved : q = Rebase(p, from, to) /\ by_path'[q] = by_path[p]
                      \/ q \in DOMAIN by_path \ Moved /\ by_path'[q] = by_path[q]
    OBVIOUS
  <2>1. CASE q \in Images
    <3>1. PICK p \in Moved : q = Rebase(p, from, to)
      BY <2>1
    <3>2. by_path'[q] = by_path[Rebase(q, to, from)]
      BY <1>1, <2>1
    <3> QED
      BY <3>1, <3>2, <1>5
  <2>2. CASE q \notin Images
    BY <1>1, <2>2
  <2> QED
    BY <2>1, <2>2
<1>7. \A p \in Moved : by_inode'[by_path[p]] = Rebase(p, from, to)
  <2> SUFFICES ASSUME NEW p \in Moved
               PROVE  by_inode'[by_path[p]] = Rebase(p, from, to)
    OBVIOUS
  <2>1. by_path[p] \in SubtreeInodes(from)
    BY DEF SubtreeInodes
  <2>2. by_inode'[by_path[p]] = Rebase(OldPath(by_path[p]), from, to)
    BY <1>1, <2>1
  <2> QED
    BY <2>2, <1>4
<1>8. DOMAIN by_inode' = DOMAIN by_inode
  BY <1>1, <1>3
<1>9. \A i \in DOMAIN by_inode \ SubtreeInodes(from) : by_inode'[i] = by_inode[i]
  BY <1>1
<1>10. /\ by_inode' = [i \in DOMAIN by_inode' |-> by_inode'[i]]
       /\ by_path' = [q \in DOMAIN by_path' |-> by_path'[q]]
  BY <1>1
<1>11. \A p \in Moved : /\ Rebase(p, from, to) \in DOMAIN by_path'
                          /\ by_path'[Rebase(p, from, to)] = by_path[p]
  <2> SUFFICES ASSUME NEW p \in Moved
               PROVE  /\ Rebase(p, from, to) \in DOMAIN by_path'
                      /\ by_path'[Rebase(p, from, to)] = by_path[p]
    OBVIOUS
  <2>1. Rebase(p, from, to) \in Images
    OBVIOUS
  <2> QED
    BY <1>1, <1>5, <2>1
<1>12. DOMAIN by_path \ Moved \subseteq DOMAIN by_path'
  BY <1>1
<1> HIDE DEF Moved, Images, OldPath
<1> QED
  BY <1>1, <1>6, <1>7, <1>8, <1>9, <1>10, <1>11, <1>12 DEF Moved

\* The inodes a rename moves are the live ones whose paths are moved.
LEMMA SubtreeIsLive ==
    ASSUME Inv, NEW top \in Path, NEW i \in SubtreeInodes(top)
    PROVE  /\ Live(i)
           /\ by_inode[i] \in Subtree(top)
           /\ by_path[by_inode[i]] = i
<1>1. PICK p \in Subtree(top) : i = by_path[p]
  BY DEF SubtreeInodes
<1>2. p \in DOMAIN by_path /\ i \in DOMAIN by_inode /\ by_inode[i] = p
  BY <1>1 DEF Subtree, Inv, PathEntriesBacked
<1> QED
  BY <1>1, <1>2 DEF Live

\* A rename preserves the invariant (inode.rs:42-57).
LEMMA RenameInv ==
    ASSUME Inv, NEW from \in Path, NEW to \in Path, Rename(from, to)
    PROVE  Inv'
<1>1. \A p \in Subtree(from) :
         /\ p \in DOMAIN by_path /\ p \in Path
         /\ by_path[p] \in DOMAIN by_inode
         /\ by_path[p] \in 1..(next - 1)
         /\ by_inode[by_path[p]] = p
         /\ Rebase(p, from, to) \in Path
  BY DEF Subtree, Inv, PathEntriesBacked, TypeOK, Rename, WithinDepth
<1>2. TypeOK'
  <2>1. next' \in 2..(MaxInode + 1) /\ DOMAIN by_inode' \subseteq 1..(next' - 1)
    BY RenameEffect DEF Inv, TypeOK
  <2>2. \A i \in DOMAIN by_inode' : by_inode'[i] \in Path
    <3> SUFFICES ASSUME NEW i \in DOMAIN by_inode PROVE by_inode'[i] \in Path
      BY RenameEffect
    <3>1. CASE i \in SubtreeInodes(from)
      <4>1. PICK p \in Subtree(from) : i = by_path[p]
        BY <3>1 DEF SubtreeInodes
      <4> QED
        BY <4>1, <1>1, RenameEffect
    <3>2. CASE i \notin SubtreeInodes(from)
      BY <3>2, RenameEffect DEF Inv, TypeOK
    <3> QED
      BY <3>1, <3>2
  <2>3. \A q \in DOMAIN by_path' : q \in Path /\ by_path'[q] \in 1..(next' - 1)
    <3> SUFFICES ASSUME NEW q \in DOMAIN by_path'
                 PROVE  q \in Path /\ by_path'[q] \in 1..(next - 1)
      BY RenameEffect
    <3>1. CASE \E p \in Subtree(from) :
                  q = Rebase(p, from, to) /\ by_path'[q] = by_path[p]
      BY <3>1, <1>1
    <3>2. CASE q \in DOMAIN by_path /\ by_path'[q] = by_path[q]
      BY <3>2 DEF Inv, TypeOK
    <3> QED
      BY <3>1, <3>2, RenameEffect
  <2> QED
    BY <2>1, <2>2, <2>3, RenameEffect DEF TypeOK
<1>3. PathEntriesBacked'
  <2> SUFFICES ASSUME NEW q \in DOMAIN by_path'
               PROVE  by_path'[q] \in DOMAIN by_inode' /\ by_inode'[by_path'[q]] = q
    BY DEF PathEntriesBacked
  <2>1. CASE \E p \in Subtree(from) :
                q = Rebase(p, from, to) /\ by_path'[q] = by_path[p]
    BY <2>1, <1>1, RenameEffect
  <2>2. CASE q \in DOMAIN by_path \ Subtree(from) /\ by_path'[q] = by_path[q]
    <3>1. by_path[q] \in DOMAIN by_inode /\ by_inode[by_path[q]] = q
      BY <2>2 DEF Inv, PathEntriesBacked
    <3>2. by_path[q] \notin SubtreeInodes(from)
      BY <2>2, <3>1, <1>1 DEF SubtreeInodes
    <3> QED
      BY <2>2, <3>1, <3>2, RenameEffect
  <2> QED
    BY <2>1, <2>2, RenameEffect
<1> QED
  BY <1>2, <1>3 DEF Inv

\* Every step preserves the invariant.
LEMMA NextInv == Inv /\ [Next]_vars => Inv'
<1> SUFFICES ASSUME Inv, [Next]_vars PROVE Inv'
  OBVIOUS
<1>1. CASE \E p \in Path : inode(p)
  BY <1>1, InodeInv
<1>2. CASE \E from, to \in Path : Rename(from, to)
  BY <1>2, RenameInv
<1>3. CASE \E p \in Path : Remove(p)
  BY <1>3, RemoveInv
<1>4. CASE UNCHANGED vars
  BY <1>4 DEF Inv, TypeOK, PathEntriesBacked, vars
<1> QED
  BY <1>1, <1>2, <1>3, <1>4 DEF Next

\* The inductive invariant holds in every state.
THEOREM Invariant == Spec => []Inv
<1> QED
  BY InitInv, NextInv, PTL DEF Spec

\* The table keeps its types (inode.rs:5-10).
THEOREM TypeCorrect == Spec => []TypeOK
<1>1. Inv => TypeOK
  BY DEF Inv
<1> QED
  BY <1>1, Invariant, PTL

\* A path and its inode number always lead to each other (inode.rs:27-57).
THEOREM Backed == Spec => []PathEntriesBacked
<1>1. Inv => PathEntriesBacked
  BY DEF Inv
<1> QED
  BY <1>1, Invariant, PTL
-----------------------------------------------------------------------------
\* A step hands out only numbers that were not handed out (inode.rs:35-39).
LEMMA FreshNumbers ==
    ASSUME Inv, [Next]_vars
    PROVE  /\ next' >= next
           /\ \A i \in DOMAIN by_inode' \ DOMAIN by_inode : i >= next
<1> DEFINE Fresh == /\ next' >= next
                    /\ \A i \in DOMAIN by_inode' \ DOMAIN by_inode : i >= next
<1>0. next \in Nat
  BY DEF Inv, TypeOK
<1>1. ASSUME NEW p \in Path, inode(p) PROVE Fresh
  BY <1>0, <1>1 DEF inode, Put, vars
<1>2. ASSUME NEW from \in Path, NEW to \in Path, Rename(from, to) PROVE Fresh
  BY <1>0, <1>2, RenameEffect
<1>3. ASSUME NEW p \in Path, Remove(p) PROVE Fresh
  BY <1>0, <1>3 DEF Remove, remove
<1>4. CASE UNCHANGED vars
  BY <1>0, <1>4 DEF vars
<1> QED
  BY <1>1, <1>2, <1>3, <1>4 DEF Next

\* No inode number is handed out twice (inode.rs:35-39).
THEOREM NeverReused == Spec => NumbersNeverReused
<1> DEFINE Fresh == /\ next' >= next
                    /\ \A i \in DOMAIN by_inode' \ DOMAIN by_inode : i >= next
<1>1. Inv /\ [Next]_vars => [Fresh]_vars
  BY FreshNumbers
<1> QED
  BY <1>1, Invariant, PTL DEF Spec, NumbersNeverReused
-----------------------------------------------------------------------------
\* No step touches an inode that was cut off (inode.rs:49-70).
LEMMA OrphanStays ==
    ASSUME Inv, [Next]_vars, NEW i \in DOMAIN by_inode, Orphan(i)
    PROVE  /\ i \in DOMAIN by_inode'
           /\ by_inode'[i] = by_inode[i]
           /\ Orphan(i)'
<1> DEFINE Kept == /\ i \in DOMAIN by_inode'
                   /\ by_inode'[i] = by_inode[i]
                   /\ Orphan(i)'
<1>0. /\ i # next
      /\ \A q \in DOMAIN by_path : by_path[q] # i
  BY DEF Inv, TypeOK, PathEntriesBacked, Orphan, Live
<1>1. CASE UNCHANGED vars
  BY <1>1 DEF vars, Orphan, Live
<1>2. ASSUME NEW p \in Path, inode(p), ~UNCHANGED vars PROVE Kept
  <2>0. by_inode' = Put(by_inode, next, p) /\ by_path' = Put(by_path, p, next)
    BY <1>2 DEF inode
  <2>1. i \in DOMAIN by_inode' /\ by_inode'[i] = by_inode[i]
    BY <1>0, <2>0 DEF Put
  <2>2. \A q \in DOMAIN by_path' : by_path'[q] # i
    BY <1>0, <2>0 DEF Put
  <2> QED
    BY <2>1, <2>2 DEF Orphan, Live
<1>3. ASSUME NEW from \in Path, NEW to \in Path, Rename(from, to) PROVE Kept
  <2>1. i \notin SubtreeInodes(from)
    BY SubtreeIsLive DEF Orphan
  <2>2. i \in DOMAIN by_inode' /\ by_inode'[i] = by_inode[i]
    BY <1>3, <2>1, RenameEffect
  <2>3. \A q \in DOMAIN by_path' : by_path'[q] # i
    BY <1>0, <1>3, RenameEffect DEF Subtree
  <2> QED
    BY <2>2, <2>3 DEF Orphan, Live
<1>4. ASSUME NEW p \in Path, Remove(p) PROVE Kept
  <2>1. i \notin SubtreeInodes(p)
    BY SubtreeIsLive DEF Orphan
  <2>2. i \in DOMAIN by_inode' /\ by_inode'[i] = by_inode[i]
    BY <1>4, <2>1 DEF Remove, remove
  <2>3. \A q \in DOMAIN by_path' : by_path'[q] # i
    BY <1>0, <1>4 DEF Remove, remove
  <2> QED
    BY <2>2, <2>3 DEF Orphan, Live
<1> QED
  BY <1>1, <1>2, <1>3, <1>4 DEF Next

\* An inode that was cut off keeps its path and stays cut off (inode.rs:49-70).
THEOREM Frozen == Spec => OrphansFrozen
<1> DEFINE Frozen1 == \A i \in DOMAIN by_inode :
                         Orphan(i) => /\ i \in DOMAIN by_inode'
                                      /\ by_inode'[i] = by_inode[i]
                                      /\ Orphan(i)'
<1>1. Inv /\ [Next]_vars => [Frozen1]_vars
  BY OrphanStays
<1>2. Spec => [][Frozen1]_vars
  BY <1>1, Invariant, PTL DEF Spec
<1> QED
  BY <1>2 DEF OrphansFrozen

\* A number that was handed out and leads nowhere, or to a path another number
\* has, is never again the number of a path.
LEMMA DeadStaysDead ==
    ASSUME Inv, [Next]_vars, NEW i \in Nat, i < next, ~Live(i)
    PROVE  i < next' /\ ~Live(i)'
<1>0. next \in Nat /\ next' \in Nat
  BY NextInv DEF Inv, TypeOK
<1>f. \A j \in DOMAIN by_inode' \ DOMAIN by_inode : j >= next
  BY FreshNumbers
<1>1. i < next'
  <2>1. next' >= next
    BY FreshNumbers
  <2> QED
    BY <1>0, <2>1
<1>2. CASE i \in DOMAIN by_inode
  <2>1. Orphan(i)
    BY <1>2 DEF Orphan
  <2>2. Orphan(i)'
    BY <1>2, <2>1, OrphanStays
  <2> QED
    BY <1>1, <2>2 DEF Orphan
<1>3. CASE i \notin DOMAIN by_inode
  <2>1. i \notin DOMAIN by_inode'
    BY <1>0, <1>3, <1>f
  <2> QED
    BY <1>1, <2>1 DEF Live
<1> QED
  BY <1>1, <1>2, <1>3
-----------------------------------------------------------------------------
(***************************************************************************)
(* What an operation does to the live inodes.                              *)
(***************************************************************************)
\* A lookup leaves every inode where it is and makes its path's one live.
LEMMA LookupEffect ==
    ASSUME Inv, NEW p \in Path, inode(p)
    PROVE  /\ DOMAIN by_path' = DOMAIN by_path \union {p}
           /\ \A i : i = by_path'[p] => Live(i)' /\ by_inode'[i] = p
           /\ \A i : Live(i) => Live(i)' /\ by_inode'[i] = by_inode[i]
<1>1. CASE p \in DOMAIN by_path
  <2>1. UNCHANGED vars
    BY <1>1 DEF inode
  <2>2. by_path[p] \in DOMAIN by_inode /\ by_inode[by_path[p]] = p
    BY <1>1 DEF Inv, PathEntriesBacked
  <2> QED
    BY <1>1, <2>1, <2>2 DEF vars, Live
<1>2. CASE p \notin DOMAIN by_path
  <2>1. /\ by_inode' = Put(by_inode, next, p)
        /\ by_path' = Put(by_path, p, next)
    BY <1>2 DEF inode
  <2>2. next \notin DOMAIN by_inode
    BY DEF Inv, TypeOK
  <2>3. ASSUME NEW i, Live(i) PROVE Live(i)' /\ by_inode'[i] = by_inode[i]
    <3>1. i \in DOMAIN by_inode /\ i # next /\ by_inode[i] \in DOMAIN by_path
      BY <2>2, <2>3 DEF Live
    <3>2. by_inode[i] # p /\ by_path[by_inode[i]] = i
      BY <1>2, <2>3 DEF Live
    <3> QED
      BY <2>1, <3>1, <3>2 DEF Live, Put
  <2>4. ASSUME NEW i, i = by_path'[p] PROVE Live(i)' /\ by_inode'[i] = p
    BY <2>1, <2>4 DEF Live, Put
  <2>5. DOMAIN by_path' = DOMAIN by_path \union {p}
    BY <2>1 DEF Put
  <2> QED
    BY <2>3, <2>4, <2>5
<1> QED
  BY <1>1, <1>2

\* A removal takes the live inodes below its path and leaves the others.
LEMMA RemoveEffect ==
    ASSUME Inv, NEW top \in Path, Remove(top)
    PROVE  /\ DOMAIN by_path' = DOMAIN by_path \ Subtree(top)
           /\ \A i : Live(i) =>
                 IF Under(by_inode[i], top)
                 THEN ~Live(i)'
                 ELSE Live(i)' /\ by_inode'[i] = by_inode[i]
<1>1. /\ by_path' = [p \in DOMAIN by_path \ Subtree(top) |-> by_path[p]]
      /\ by_inode' = [i \in DOMAIN by_inode \ SubtreeInodes(top) |-> by_inode[i]]
  BY DEF Remove, remove
<1>2. ASSUME NEW i, Live(i), Under(by_inode[i], top) PROVE ~Live(i)'
  <2>1. i \in SubtreeInodes(top)
    BY <1>2 DEF SubtreeInodes, Subtree, Live
  <2> QED
    BY <1>1, <2>1 DEF Live
<1>3. ASSUME NEW i, Live(i), ~Under(by_inode[i], top)
      PROVE  Live(i)' /\ by_inode'[i] = by_inode[i]
  <2>1. i \in DOMAIN by_inode /\ by_inode[i] \in DOMAIN by_path \ Subtree(top)
    BY <1>3 DEF Live, Subtree
  <2>2. i \notin SubtreeInodes(top)
    BY <1>3, SubtreeIsLive DEF Subtree
  <2>3. by_path[by_inode[i]] = i
    BY <1>3 DEF Live
  <2> QED
    BY <1>1, <2>1, <2>2, <2>3 DEF Live
<1> QED
  BY <1>1, <1>2, <1>3

\* A rename moves the live inodes below `from`; of the others, those below
\* `to` may be cut off.
LEMMA RenameOfLive ==
    ASSUME Inv, NEW from \in Path, NEW to \in Path, Rename(from, to),
           NEW i, Live(i)
    PROVE  /\ i \in DOMAIN by_inode'
           /\ IF Under(by_inode[i], from)
              THEN Live(i)' /\ by_inode'[i] = Rebase(by_inode[i], from, to)
              ELSE by_inode'[i] = by_inode[i]
           /\ ~Under(by_inode[i], to) => Live(i)'
<1>0. i \in DOMAIN by_inode /\ by_inode[i] \in DOMAIN by_path /\ by_path[by_inode[i]] = i
  BY DEF Live
<1>1. i \in DOMAIN by_inode'
  BY <1>0, RenameEffect
<1>2. CASE Under(by_inode[i], from)
  <2>1. by_inode[i] \in Subtree(from)
    BY <1>0, <1>2 DEF Subtree
  <2>2. /\ Rebase(by_inode[i], from, to) \in DOMAIN by_path'
        /\ by_path'[Rebase(by_inode[i], from, to)] = i
        /\ by_inode'[i] = Rebase(by_inode[i], from, to)
    BY <1>0, <2>1, RenameEffect
  <2> QED
    BY <1>1, <1>2, <2>2 DEF Live
<1>3. CASE ~Under(by_inode[i], from)
  <2>1. i \notin SubtreeInodes(from) /\ by_inode[i] \notin Subtree(from)
    BY <1>3, SubtreeIsLive DEF Subtree
  <2>2. by_inode'[i] = by_inode[i] /\ by_inode[i] \in DOMAIN by_path'
    BY <1>0, <2>1, RenameEffect
  <2>3. ASSUME ~Under(by_inode[i], to) PROVE Live(i)'
    <3>1. ASSUME NEW p \in Subtree(from), by_inode[i] = Rebase(p, from, to)
          PROVE  FALSE
      <4>1. p \in Seq(Name) /\ from \in Seq(Name) /\ to \in Seq(Name) /\ Under(p, from)
        BY PathIsSeq DEF Subtree, Inv, TypeOK
      <4>2. Suffix(p, from) \in Seq(Name)
        BY <4>1, UnderSplits
      <4>3. Under(Rebase(p, from, to), to)
        BY <4>1, <4>2, JoinSplits DEF Rebase
      <4> QED
        BY <2>3, <3>1, <4>3
    <3>2. by_path'[by_inode[i]] = i
      BY <1>0, <2>2, <3>1, RenameEffect
    <3> QED
      BY <1>1, <2>2, <3>2 DEF Live
  <2> QED
    BY <1>1, <1>3, <2>2, <2>3
<1> QED
  BY <1>2, <1>3
-----------------------------------------------------------------------------
(***************************************************************************)
(* An inode is cut off from its path by a replacement only.                *)
(***************************************************************************)
Replaced(i) ==
    /\ by_inode'[i] = by_inode[i]
    /\ \E j \in DOMAIN by_inode \ {i} :
          /\ Live(j) /\ Live(j)'
          /\ by_inode'[j] = by_inode[i]
          /\ by_inode[j] # by_inode'[j]

\* If a rename cuts an inode off, another one has taken its path.
LEMMA RenameCutsOff ==
    ASSUME Inv, NEW from \in Path, NEW to \in Path, Rename(from, to),
           NEW i \in DOMAIN by_inode, Live(i), ~Live(i)'
    PROVE  Replaced(i)
<1> DEFINE p == by_inode[i]
<1>0. p \in DOMAIN by_path /\ by_path[p] = i
  BY DEF Live
<1>1. p \notin Subtree(from)
  <2> SUFFICES ASSUME p \in Subtree(from) PROVE FALSE
    OBVIOUS
  <2>1. /\ Rebase(p, from, to) \in DOMAIN by_path'
        /\ by_path'[Rebase(p, from, to)] = i
        /\ by_inode'[i] = Rebase(p, from, to)
        /\ i \in DOMAIN by_inode'
    BY <1>0, RenameEffect
  <2> QED
    BY <2>1 DEF Live
<1>2. i \notin SubtreeInodes(from)
  BY <1>1, SubtreeIsLive
<1>3. i \in DOMAIN by_inode' /\ by_inode'[i] = p /\ p \in DOMAIN by_path'
  BY <1>0, <1>1, <1>2, RenameEffect
<1>4. by_path'[p] # i
  BY <1>3 DEF Live
<1>5. PICK p2 \in Subtree(from) : p = Rebase(p2, from, to) /\ by_path'[p] = by_path[p2]
  BY <1>0, <1>3, <1>4, RenameEffect
<1>j. PICK j : j = by_path[p2]
  OBVIOUS
<1>6. p2 \in DOMAIN by_path /\ j \in DOMAIN by_inode /\ by_inode[j] = p2 /\ Live(j)
  BY <1>j DEF Subtree, Inv, PathEntriesBacked, Live
<1>7. j # i
  BY <1>j, <1>4, <1>5
<1>8. j \in DOMAIN by_inode' /\ by_inode'[j] = p /\ by_path'[p] = j
  BY <1>j, <1>5, <1>6, RenameEffect
<1>9. Live(j)'
  BY <1>3, <1>8 DEF Live
<1>10. p2 # p
  BY <1>1
<1> QED
  BY <1>3, <1>6, <1>7, <1>8, <1>9, <1>10 DEF Replaced

\* Only a rename onto its path cuts an inode off (inode.rs:49-56).
THEOREM CutOff == Spec => CutOffOnlyByReplacement
<1> DEFINE Cut == \A i \in DOMAIN by_inode \intersect DOMAIN by_inode' :
                     Live(i) /\ ~Live(i)' => Replaced(i)
<1>1. Inv /\ [Next]_vars => [Cut]_vars
  <2> SUFFICES ASSUME Inv, [Next]_vars,
                      NEW i \in DOMAIN by_inode, i \in DOMAIN by_inode',
                      Live(i), ~Live(i)'
               PROVE  Replaced(i) \/ UNCHANGED vars
    OBVIOUS
  <2>0. by_inode[i] \in DOMAIN by_path /\ by_path[by_inode[i]] = i
    BY DEF Live
  <2>1. ASSUME NEW p \in Path, inode(p), ~UNCHANGED vars PROVE FALSE
    <3>1. /\ p \notin DOMAIN by_path
          /\ by_inode' = Put(by_inode, next, p)
          /\ by_path' = Put(by_path, p, next)
      BY <2>1 DEF inode
    <3>2. i # next
      BY DEF Inv, TypeOK
    <3>3. by_inode'[i] = by_inode[i] /\ by_inode[i] # p
      BY <2>0, <3>1, <3>2 DEF Put
    <3>4. by_inode[i] \in DOMAIN by_path' /\ by_path'[by_inode[i]] = i
      BY <2>0, <3>1, <3>3 DEF Put
    <3> QED
      BY <3>3, <3>4 DEF Live
  <2>2. ASSUME NEW from \in Path, NEW to \in Path, Rename(from, to) PROVE Replaced(i)
    BY <2>2, RenameCutsOff
  <2>3. ASSUME NEW p \in Path, Remove(p) PROVE FALSE
    <3>1. i \notin SubtreeInodes(p) /\ by_inode'[i] = by_inode[i]
      BY <2>3 DEF Remove, remove
    <3>2. by_inode[i] \notin Subtree(p)
      BY <2>0, <3>1 DEF SubtreeInodes
    <3>3. by_inode[i] \in DOMAIN by_path' /\ by_path'[by_inode[i]] = i
      BY <2>0, <2>3, <3>2 DEF Remove, remove
    <3> QED
      BY <3>1, <3>3 DEF Live
  <2> QED
    BY <2>1, <2>2, <2>3 DEF Next
<1>2. Spec => [][Cut]_vars
  BY <1>1, Invariant, PTL DEF Spec
<1> QED
  BY <1>2 DEF CutOffOnlyByReplacement, Replaced
-----------------------------------------------------------------------------
(***************************************************************************)
(* A subtree moves as a whole.                                             *)
(***************************************************************************)
\* What is below something that is below `top` is below `top`, and moving it
\* with `top` moves it with everything between the two.
LEMMA RebaseThrough ==
    ASSUME NEW p \in Seq(Name), NEW mid \in Seq(Name),
           NEW top \in Seq(Name), NEW to \in Seq(Name),
           Under(p, mid), Under(mid, top)
    PROVE  /\ Under(p, top)
           /\ Rebase(p, top, to) = Rebase(p, mid, Rebase(mid, top, to))
<1> DEFINE s == Suffix(mid, top)
           t == Suffix(p, mid)
<1>1. s \in Seq(Name) /\ t \in Seq(Name)
  BY UnderSplits
<1>2. mid = top \o s /\ p = mid \o t
  BY UnderSplits
<1> HIDE DEF s, t
<1>3. p = top \o (s \o t) /\ s \o t \in Seq(Name)
  BY <1>1, <1>2, JoinAssociative
<1>4. Under(p, top) /\ Suffix(p, top) = s \o t
  BY <1>3, JoinSplits
<1>5. to \o (s \o t) = (to \o s) \o t
  <2>1. to \in Seq(Name)
    OBVIOUS
  <2>2. /\ (to \o s) \o t = to \o (s \o t)
        /\ s \o t \in Seq(Name)
    BY ONLY <1>1, <2>1, JoinAssociative, Zenon
  <2> QED
    BY ONLY <2>2
<1> QED
  BY <1>4, <1>5 DEF Rebase, s, t

\* A directory moves with everything below it (inode.rs:42-57).
THEOREM StayTogether == Spec => SubtreesStayTogether
<1> DEFINE With(i, j) == by_inode'[j] = Rebase(by_inode[j], by_inode[i], by_inode'[i])
           Together == \A i, j \in DOMAIN by_inode \intersect DOMAIN by_inode' :
                          /\ Live(i) /\ Live(j)
                          /\ Under(by_inode[j], by_inode[i])
                          /\ by_inode'[i] # by_inode[i]
                          => With(i, j)
<1>1. Inv /\ [Next]_vars => [Together]_vars
  <2> SUFFICES ASSUME Inv, [Next]_vars,
                      NEW i \in DOMAIN by_inode, i \in DOMAIN by_inode',
                      NEW j \in DOMAIN by_inode, j \in DOMAIN by_inode',
                      Live(i), Live(j), Under(by_inode[j], by_inode[i]),
                      by_inode'[i] # by_inode[i]
               PROVE  With(i, j)
    BY DEF vars
  <2>0. by_inode[i] \in Path /\ by_inode[j] \in Path /\ i # next
    BY DEF Inv, TypeOK
  <2>1. ASSUME NEW p \in Path, inode(p) PROVE FALSE
    BY <2>0, <2>1 DEF inode, Put, vars
  <2>2. ASSUME NEW from \in Path, NEW to \in Path, Rename(from, to) PROVE With(i, j)
    <3>1. i \in SubtreeInodes(from)
      BY <2>2, RenameEffect
    <3>2. by_inode[i] \in Subtree(from) /\ by_path[by_inode[i]] = i
      BY <3>1, SubtreeIsLive
    <3>3. Under(by_inode[i], from)
      BY <3>2 DEF Subtree
    <3>4. /\ Under(by_inode[j], from)
          /\ Rebase(by_inode[j], from, to)
               = Rebase(by_inode[j], by_inode[i], Rebase(by_inode[i], from, to))
      BY <2>0, <3>3, PathIsSeq, RebaseThrough
    <3>5. by_inode[j] \in Subtree(from) /\ by_path[by_inode[j]] = j
      BY <3>4 DEF Subtree, Live
    <3>6. /\ by_inode'[i] = Rebase(by_inode[i], from, to)
          /\ by_inode'[j] = Rebase(by_inode[j], from, to)
      BY <2>2, <3>2, <3>5, RenameEffect
    <3> QED
      BY <3>4, <3>6
  <2>3. ASSUME NEW p \in Path, Remove(p) PROVE FALSE
    BY <2>3 DEF Remove, remove
  <2>4. CASE UNCHANGED vars
    BY <2>4 DEF vars
  <2> QED
    BY <2>1, <2>2, <2>3, <2>4 DEF Next
<1>2. Spec => [][Together]_vars
  BY <1>1, Invariant, PTL DEF Spec
<1> QED
  BY <1>2 DEF SubtreesStayTogether
=============================================================================
