---------------------------- MODULE FuseFsProofs ----------------------------
(***************************************************************************)
(* Theorems about FuseFs, for every set of names and every bound.          *)
(*                                                                         *)
(* The table of the file system is that of InodeTable, so the invariant of *)
(* that module is part of the one here: TableStep shows that every step    *)
(* is one of its steps or leaves the table alone.  What is needed besides: *)
(* the kernel's numbers are live (TrackedLive), the device's tree has no   *)
(* holes (TreeClosed), and as long as nobody else changes the tree a       *)
(* handle is of a number the kernel knows or saw go (HeldKnown).           *)
(***************************************************************************)
EXTENDS FuseFs, SequenceTheorems, TLAPS

IP == INSTANCE InodeTableProofs

\* What the handler between two commands remembers.
CallTyped ==
    \/ call = Idle
    \/ \E p \in Path : call = Stat(p)
    \/ \E p \in Path, d \in Fd : call = [op |-> "create", path |-> p, fd |-> d]
    \/ \E d \in Fd : call = [op |-> "close", fd |-> d]
    \/ \E r \in SUBSET Path : call = [op |-> "list", rest |-> r]
    \/ \E i \in Nat, w \in {"size", "time"} :
          call = [op |-> "setattr", inode |-> i, did |-> w]

\* The tree has paths only, and with a path all that lie above it.
TreeClosed ==
    \A q \in DOMAIN node : \A n \in 0..Len(q) : SubSeq(q, 1, n) \in DOMAIN node

TreeOK == DOMAIN node \subseteq Path /\ TreeClosed

\* A number the kernel holds leads to a path and back.
TrackedLive == \A i \in DOMAIN ident : IP!Live(i)

\* A number the kernel saw go was handed out, and leads nowhere and back.
GoneDead == \A i \in gone : i \in Nat \ {0} /\ i < next /\ ~IP!Live(i)

\* KernelAgrees, of numbers that are live.
Agree ==
    changes = 0 =>
        /\ DOMAIN by_path \subseteq DOMAIN node
        /\ \A i \in DOMAIN ident : node[by_inode[i]] = ident[i]

\* The kernel's handles are of inodes it holds or saw go.
HeldKnown ==
    changes = 0 => \A d \in DOMAIN held : held[d] \in gone \union DOMAIN ident

\* The table, the tree and what the kernel holds.
Core ==
    /\ IP!Inv
    /\ TreeOK
    /\ \A p \in DOMAIN node : node[p] \in Object
    /\ \A i \in DOMAIN ident : ident[i] \in Object
    /\ changes \in 0..MaxChanges
    /\ TrackedLive
    /\ GoneDead
    /\ Agree

\* The descriptors and the handles.
HandlesOK ==
    /\ DOMAIN fds \subseteq Fd
    /\ \A d \in DOMAIN fds : fds[d] \in Object
    /\ \A d \in DOMAIN held : held[d] \in Inodes!Inode
    /\ DescriptorsOwned
    /\ HeldKnown

Inv == Core /\ CallTyped /\ HandlesOK
-----------------------------------------------------------------------------
(***************************************************************************)
(* The table: InodeTable, whose theorems hold of it.                       *)
(***************************************************************************)
\* The bounds InodeTable assumes.
LEMMA TableAssumptions ==
    /\ MaxInode \in Nat \ {0}
    /\ MaxDepth \in Nat \ {0}
  BY BoundAssumption, DepthAssumption

\* Paths are those of the device.
LEMMA SamePaths ==
    /\ IP!Path = Path /\ IP!Root = Root
    /\ \A p, q : IP!Under(p, q) <=> Under(p, q)
    /\ \A p, q, r : IP!Rebase(p, q, r) = Rebase(p, q, r)
    /\ \A f, x, v : IP!Put(f, x, v) = Put(f, x, v)
  BY DEF IP!Path, Path, IP!Root, Root, IP!Under, Under, IP!Rebase, Rebase,
         IP!Suffix, Suffix, IP!Put, Put

\* The table in FuseFs is the one the theorems of InodeTableProofs are about.
LEMMA SameTable ==
    /\ Inodes!Init <=> IP!Init
    /\ Inodes!vars = IP!vars
    /\ Inodes!TypeOK <=> IP!TypeOK
    /\ \A i : Inodes!Live(i) <=> IP!Live(i)
    /\ \A p : Inodes!inode(p) <=> IP!inode(p)
    /\ \A p : Inodes!Remove(p) <=> IP!Remove(p)
    /\ \A p, q : Inodes!Rename(p, q) <=> IP!Rename(p, q)
    /\ Inodes!Next <=> IP!Next
<1>1. Inodes!Init <=> IP!Init
  BY DEF Inodes!Init, IP!Init, Inodes!Root, IP!Root, Inodes!RootInode, IP!RootInode
<1>2. Inodes!vars = IP!vars
  BY DEF Inodes!vars, IP!vars
<1>p. Inodes!Path = IP!Path
  BY DEF Inodes!Path, IP!Path
<1>3. Inodes!TypeOK <=> IP!TypeOK
  BY <1>p DEF Inodes!TypeOK, IP!TypeOK
<1>4. \A i : Inodes!Live(i) <=> IP!Live(i)
  BY DEF Inodes!Live, IP!Live
<1>5. \A p : Inodes!inode(p) <=> IP!inode(p)
  <2>1. \A f, x, v : Inodes!Put(f, x, v) = IP!Put(f, x, v)
    BY DEF Inodes!Put, IP!Put
  <2>2. UNCHANGED Inodes!vars <=> UNCHANGED IP!vars
    BY DEF Inodes!vars, IP!vars
  <2> QED
    BY <2>1, <2>2 DEF Inodes!inode, IP!inode
<1>6. \A p : Inodes!Remove(p) <=> IP!Remove(p)
  BY DEF Inodes!Remove, IP!Remove, Inodes!remove, IP!remove, Inodes!Root, IP!Root,
         Inodes!Subtree, IP!Subtree, Inodes!SubtreeInodes, IP!SubtreeInodes,
         Inodes!Under, IP!Under
<1>7. \A p, q : Inodes!Rename(p, q) <=> IP!Rename(p, q)
  BY <1>p DEF Inodes!Rename, IP!Rename, Inodes!rename, IP!rename, Inodes!Root, IP!Root,
         Inodes!Subtree, IP!Subtree, Inodes!SubtreeInodes, IP!SubtreeInodes,
         Inodes!Under, IP!Under, Inodes!MayRename, IP!MayRename, Inodes!Nested, IP!Nested,
         Inodes!WithinDepth, IP!WithinDepth, Inodes!Rebase, IP!Rebase,
         Inodes!Suffix, IP!Suffix
<1>8. Inodes!Next <=> IP!Next
  BY <1>p, <1>5, <1>6, <1>7 DEF Inodes!Next, IP!Next
<1> QED
  BY <1>1, <1>2, <1>3, <1>4, <1>5, <1>6, <1>7, <1>8
-----------------------------------------------------------------------------
(***************************************************************************)
(* Paths.                                                                  *)
(***************************************************************************)
\* The paths are the sequences of at most MaxDepth names.
LEMMA PathSeq ==
    /\ \A p \in Path : p \in Seq(Name) /\ Len(p) <= MaxDepth
    /\ \A p \in Seq(Name) : Len(p) <= MaxDepth => p \in Path
<1>1. ASSUME NEW p \in Path PROVE p \in Seq(Name) /\ Len(p) <= MaxDepth
  <2>1. p \in IP!Path
    BY SamePaths
  <2>2. p \in Seq(Name) /\ Len(p) \in 0..MaxDepth
    BY <2>1, TableAssumptions, IP!PathIsSeq
  <2> QED
    BY <2>2, TableAssumptions
<1>2. ASSUME NEW p \in Seq(Name), Len(p) <= MaxDepth PROVE p \in Path
  <2>1. p \in [1..Len(p) -> Name] /\ Len(p) \in 0..MaxDepth
    BY <1>2, TableAssumptions
  <2> QED
    BY <2>1 DEF Path
<1> QED
  BY <1>1, <1>2

\* What lies above a path that is not the root lies above its parent, or is it.
LEMMA AboveParent ==
    ASSUME NEW p \in Seq(Name), p # Root
    PROVE  /\ parent(p) \in Seq(Name)
           /\ Len(parent(p)) = Len(p) - 1
           /\ \A n \in 0..(Len(p) - 1) : SubSeq(p, 1, n) = SubSeq(parent(p), 1, n)
<1>1. Len(p) \in Nat \ {0} /\ Len(p) - 1 \in 0..Len(p)
  BY DEF Root
<1>2. parent(p) = SubSeq(p, 1, Len(p) - 1)
  BY DEF parent
<1>3. parent(p) \in Seq(Name) /\ Len(parent(p)) = Len(p) - 1
  <2>1. ASSUME NEW n \in 0..Len(p)
        PROVE  SubSeq(p, 1, n) \in Seq(Name) /\ Len(SubSeq(p, 1, n)) = n
    OBVIOUS
  <2> QED
    BY <1>1, <1>2, <2>1
<1>4. ASSUME NEW n \in 0..(Len(p) - 1)
      PROVE  SubSeq(p, 1, n) = SubSeq(parent(p), 1, n)
  BY <1>1, <1>2
<1> QED
  BY <1>3, <1>4

\* The parent of a path is a path.
LEMMA ParentIsPath ==
    ASSUME NEW p \in Path
    PROVE  parent(p) \in Path
<1>1. CASE p = Root
  BY <1>1 DEF parent
<1>2. CASE p # Root
  <2>1. p \in Seq(Name) /\ Len(p) <= MaxDepth
    BY PathSeq
  <2>2. parent(p) \in Seq(Name) /\ Len(parent(p)) = Len(p) - 1
    BY <1>2, <2>1, AboveParent
  <2>3. Len(parent(p)) <= MaxDepth
    BY <2>1, <2>2, TableAssumptions
  <2> QED
    BY <2>2, <2>3, PathSeq
<1> QED
  BY <1>1, <1>2

\* On the way from a path to one below it comes a child of the first.
LEMMA OnTheWay ==
    ASSUME NEW q \in Seq(Name), NEW p \in Seq(Name), Under(q, p), q # p
    PROVE  /\ Len(p) + 1 \in 0..Len(q)
           /\ SubSeq(q, 1, Len(p) + 1) # Root
           /\ parent(SubSeq(q, 1, Len(p) + 1)) = p
<1> DEFINE c == SubSeq(q, 1, Len(p) + 1)
<1>1. Len(p) <= Len(q) /\ SubSeq(q, 1, Len(p)) = p
  BY DEF Under
<1>2. Len(p) # Len(q)
  BY <1>1
<1>3. Len(p) \in Nat /\ Len(q) \in Nat /\ Len(p) + 1 \in 0..Len(q)
  BY <1>1, <1>2
<1>4. c \in Seq(Name) /\ Len(c) = Len(p) + 1
  BY <1>3
<1>5. c # Root
  BY <1>3, <1>4 DEF Root
<1>6. SubSeq(c, 1, Len(p)) = SubSeq(q, 1, Len(p))
  BY <1>3
<1>7. parent(c) = p
  BY <1>1, <1>3, <1>4, <1>5, <1>6 DEF parent
<1> QED
  BY <1>3, <1>5, <1>7

\* What a prefix of a path lies below, the path lies below.
LEMMA BelowPrefix ==
    ASSUME NEW q \in Seq(Name), NEW top \in Seq(Name), NEW n \in 0..Len(q),
           Under(SubSeq(q, 1, n), top)
    PROVE  Under(q, top)
<1>1. Len(SubSeq(q, 1, n)) = n /\ Len(top) <= n
  BY DEF Under
<1>2. SubSeq(SubSeq(q, 1, n), 1, Len(top)) = SubSeq(q, 1, Len(top))
  BY <1>1
<1> QED
  BY <1>1, <1>2 DEF Under

\* A prefix of two joined paths that is no shorter than the first of them.
LEMMA SubSeqOfJoin ==
    ASSUME NEW p \in Seq(Name), NEW s \in Seq(Name), NEW k \in 0..Len(s)
    PROVE  SubSeq(p \o s, 1, Len(p) + k) = p \o SubSeq(s, 1, k)
<1> DEFINE n == Len(p) + k
<1>1. p \o s \in Seq(Name) /\ Len(p \o s) = Len(p) + Len(s) /\ n \in 0..Len(p \o s)
  OBVIOUS
<1>2. SubSeq(p \o s, 1, n) \in Seq(Name) /\ Len(SubSeq(p \o s, 1, n)) = n
  BY <1>1
<1>3. SubSeq(s, 1, k) \in Seq(Name) /\ Len(SubSeq(s, 1, k)) = k
  OBVIOUS
<1>4. p \o SubSeq(s, 1, k) \in Seq(Name) /\ Len(p \o SubSeq(s, 1, k)) = n
  BY <1>3
<1>5. ASSUME NEW j \in 1..n
      PROVE  SubSeq(p \o s, 1, n)[j] = (p \o SubSeq(s, 1, k))[j]
  <2>1. SubSeq(p \o s, 1, n)[j] = (p \o s)[j]
    BY <1>1
  <2>2. CASE j <= Len(p)
    BY <1>3, <2>1, <2>2
  <2>3. CASE j > Len(p)
    BY <1>3, <2>1, <2>3
  <2> QED
    BY <2>2, <2>3
<1> QED
  BY ONLY <1>2, <1>4, <1>5, SeqEqual

\* The prefixes of a path that was moved are those of its new place and the
\* prefixes below the old one, moved.
LEMMA PrefixOfMoved ==
    ASSUME NEW q \in Seq(Name), NEW from \in Seq(Name), NEW to \in Seq(Name),
           Under(q, from), NEW n \in 0..Len(Rebase(q, from, to))
    PROVE  IF n < Len(to)
           THEN SubSeq(Rebase(q, from, to), 1, n) = SubSeq(to, 1, n)
           ELSE \E m \in 0..Len(q) :
                   /\ Under(SubSeq(q, 1, m), from)
                   /\ SubSeq(Rebase(q, from, to), 1, n)
                        = Rebase(SubSeq(q, 1, m), from, to)
<1> DEFINE s == Suffix(q, from)
           r == Rebase(q, from, to)
<1>1. s \in Seq(Name) /\ Len(s) = Len(q) - Len(from) /\ q = from \o s
  BY DEF Under, Suffix
<1>r. r = to \o s
  BY DEF Rebase
<1> HIDE DEF s, r
<1>2. r = to \o s /\ Len(r) = Len(to) + Len(s)
  BY <1>1, <1>r
<1>3. CASE n < Len(to)
  BY <1>1, <1>2, <1>3 DEF r
<1>4. CASE ~(n < Len(to))
  <2> DEFINE k == n - Len(to)
             m == Len(from) + k
             t == SubSeq(s, 1, k)
  <2>1. k \in 0..Len(s) /\ m \in 0..Len(q)
    BY <1>1, <1>2, <1>4 DEF r
  <2>2. t \in Seq(Name) /\ Len(t) = k
    BY <1>1, <2>1
  <2>3. SubSeq(q, 1, m) = from \o t
    <3>1. SubSeq(q, 1, m) \in Seq(Name) /\ Len(SubSeq(q, 1, m)) = m
      BY <2>1
    <3>2. from \o t \in Seq(Name) /\ Len(from \o t) = m
      BY <2>2, ConcatProperties
    <3>3. ASSUME NEW j \in 1..m PROVE SubSeq(q, 1, m)[j] = (from \o t)[j]
      <4>1. CASE j <= Len(from)
        BY <1>1, <2>1, <2>2, <4>1
      <4>2. CASE j > Len(from)
        BY <1>1, <2>1, <2>2, <4>2
      <4> QED
        BY <4>1, <4>2
    <3> HIDE DEF m, t
    <3> QED
      BY <3>1, <3>2, <3>3, SeqEqual
  <2>4. SubSeq(r, 1, n) = to \o t
    <3>1. to \in Seq(Name) /\ s \in Seq(Name)
      BY <1>1
    <3>2. k \in 0..Len(s)
      BY <2>1
    <3>3. SubSeq(to \o s, 1, Len(to) + k) = to \o SubSeq(s, 1, k)
      <4> HIDE DEF k
      <4> QED
        BY ONLY <3>1, <3>2, SubSeqOfJoin, Zenon
    <3>4. Len(to) + k = n
      BY <3>1
    <3> QED
      BY <1>2, <3>3, <3>4
  <2>5. Under(from \o t, from) /\ Suffix(from \o t, from) = t
    BY <2>2 DEF Under, Suffix
  <2> QED
    BY <1>4, <2>1, <2>3, <2>4, <2>5 DEF Rebase, r
<1> QED
  BY <1>3, <1>4

\* A path moves to its new place, and everything that is moved there is below it.
LEMMA MovedBelow ==
    ASSUME NEW q \in Seq(Name), NEW from \in Seq(Name), NEW to \in Seq(Name),
           Under(q, from)
    PROVE  /\ Rebase(q, from, to) \in Seq(Name)
           /\ Under(Rebase(q, from, to), to)
           /\ Rebase(Rebase(q, from, to), to, from) = q
           /\ Rebase(from, from, to) = to
<1> DEFINE s == Suffix(q, from)
<1>1. s \in Seq(Name) /\ q = from \o s
  BY DEF Under, Suffix
<1>2. Suffix(to \o s, to) = s /\ Under(to \o s, to)
  BY <1>1 DEF Suffix, Under
<1>3. Suffix(from, from) = <<>>
  BY DEF Suffix
<1> HIDE DEF s
<1> QED
  BY <1>1, <1>2, <1>3 DEF Rebase, s
-----------------------------------------------------------------------------
(***************************************************************************)
(* The device's tree.                                                      *)
(***************************************************************************)
\* Where something may be made, or what may be removed, has nothing below it.
LEMMA NothingBelow ==
    ASSUME TreeOK, NEW p \in Path, Free(p) \/ Removable(p),
           NEW q \in DOMAIN node, Under(q, p)
    PROVE  q = p
<1> SUFFICES ASSUME q # p PROVE FALSE
  OBVIOUS
<1>1. q \in Seq(Name) /\ p \in Seq(Name)
  BY PathSeq DEF TreeOK
<1> DEFINE c == SubSeq(q, 1, Len(p) + 1)
<1>2. Len(p) + 1 \in 0..Len(q) /\ c # Root /\ parent(c) = p
  BY <1>1, OnTheWay
<1>3. c \in DOMAIN node
  BY <1>2 DEF TreeOK, TreeClosed
<1>4. p = SubSeq(q, 1, Len(p)) /\ Len(p) \in 0..Len(q)
  BY <1>1 DEF Under
<1>5. p \in DOMAIN node
  BY <1>4 DEF TreeOK, TreeClosed
<1>6. c \in Children(p)
  BY <1>2, <1>3 DEF Children
<1> QED
  BY <1>5, <1>6 DEF Free, Removable, Exists

\* What a new entry does to the tree.
LEMMA Grows ==
    ASSUME TreeOK, NEW p \in Path, Free(p), NEW o, node' = Put(node, p, o)
    PROVE  /\ TreeOK'
           /\ DOMAIN node' = DOMAIN node \union {p}
           /\ node'[p] = o
           /\ \A q \in DOMAIN node : node'[q] = node[q]
<1>1. /\ DOMAIN node' = DOMAIN node \union {p}
      /\ node'[p] = o
      /\ \A q \in DOMAIN node : q # p => node'[q] = node[q]
  BY DEF Put
<1>2. p \notin DOMAIN node /\ p # Root /\ parent(p) \in DOMAIN node
  BY DEF Free, Exists, IsDir
<1>3. ASSUME NEW q \in DOMAIN node', NEW n \in 0..Len(q)
      PROVE  SubSeq(q, 1, n) \in DOMAIN node'
  <2>1. CASE q \in DOMAIN node
    BY <1>1, <1>3, <2>1 DEF TreeOK, TreeClosed
  <2>2. CASE q = p
    <3>1. p \in Seq(Name) /\ Len(p) \in Nat
      BY PathSeq
    <3>2. CASE n = Len(p)
      <4>1. SubSeq(p, 1, Len(p)) = p
        BY <3>1, SubSeqFull
      <4> QED
        BY <1>1, <2>2, <3>2, <4>1
    <3>3. CASE n # Len(p)
      <4>1. n \in 0..(Len(p) - 1)
        BY <1>3, <2>2, <3>1, <3>3
      <4>2. SubSeq(p, 1, n) = SubSeq(parent(p), 1, n) /\ Len(parent(p)) = Len(p) - 1
        BY <1>2, <3>1, <4>1, AboveParent
      <4>3. SubSeq(parent(p), 1, n) \in DOMAIN node
        BY <1>2, <4>1, <4>2 DEF TreeOK, TreeClosed
      <4> QED
        BY <1>1, <2>2, <4>2, <4>3
    <3> QED
      BY <3>2, <3>3
  <2> QED
    BY <1>1, <2>1, <2>2
<1> QED
  BY <1>1, <1>2, <1>3 DEF TreeOK, TreeClosed

\* What a removal does to the tree.
LEMMA Shrinks ==
    ASSUME TreeOK, NEW p \in Path, Unlink(p)
    PROVE  /\ TreeOK'
           /\ DOMAIN node' = DOMAIN node \ {p}
           /\ \A q \in DOMAIN node' : node'[q] = node[q]
<1>1. /\ DOMAIN node' = DOMAIN node \ {p}
      /\ \A q \in DOMAIN node' : node'[q] = node[q]
  BY DEF Unlink, Drop
<1>2. ASSUME NEW q \in DOMAIN node', NEW n \in 0..Len(q)
      PROVE  SubSeq(q, 1, n) \in DOMAIN node'
  <2>1. q \in DOMAIN node /\ q # p /\ SubSeq(q, 1, n) \in DOMAIN node
    BY <1>1, <1>2 DEF TreeOK, TreeClosed
  <2>2. ASSUME SubSeq(q, 1, n) = p PROVE FALSE
    <3>1. q \in Seq(Name) /\ p \in Seq(Name)
      BY <2>1, PathSeq DEF TreeOK
    <3>2. Under(q, p)
      BY <1>2, <2>2, <3>1 DEF Under
    <3> QED
      BY <2>1, <3>2, NothingBelow DEF Unlink
  <2> QED
    BY <1>1, <2>1, <2>2
<1> QED
  BY <1>1, <1>2 DEF TreeOK, TreeClosed

\* What a rename does to the tree, if it does not find two names of one file.
LEMMA MovesTree ==
    ASSUME TreeOK, NEW from \in Path, NEW to \in Path, Move(from, to), ~Twins(from, to)
    PROVE  /\ TreeOK'
           /\ \A q \in DOMAIN node :
                 IF Under(q, from)
                 THEN /\ Rebase(q, from, to) \in DOMAIN node'
                      /\ node'[Rebase(q, from, to)] = node[q]
                 ELSE /\ q \in DOMAIN node'
                      /\ ~Under(q, to) => node'[q] = node[q]
           /\ \A q \in DOMAIN node' : \E r \in DOMAIN node \ {to} :
                 /\ q = IF Under(r, from) THEN Rebase(r, from, to) ELSE r
                 /\ node'[q] = node[r]
<1> DEFINE moved == {p \in DOMAIN node : Under(p, from)}
           rest == DOMAIN node \ (moved \union {to})
           images == {Rebase(p, from, to) : p \in moved}
<1>0. /\ from # Root /\ to # Root
      /\ from \in DOMAIN node
      /\ ~Under(from, to) /\ ~Under(to, from)
      /\ Free(to) \/ Removable(to)
      /\ images \subseteq Path
      /\ DOMAIN node' = rest \union images
      /\ \A p \in rest \union images :
            node'[p] = IF p \in images THEN node[Rebase(p, to, from)] ELSE node[p]
  BY DEF Move, Exists, Nested
<1>s. /\ from \in Seq(Name) /\ to \in Seq(Name)
      /\ \A q \in DOMAIN node : q \in Seq(Name)
  BY PathSeq DEF TreeOK
<1>1. \A q \in moved : /\ Under(Rebase(q, from, to), to)
                       /\ Rebase(Rebase(q, from, to), to, from) = q
                       /\ Rebase(q, from, to) \in Seq(Name)
  BY <1>s, MovedBelow
<1>2. to \in images
  <2>1. Under(from, from)
    BY <1>s, SubSeqFull DEF Under
  <2>2. Rebase(from, from, to) = to
    BY <1>s, <2>1, MovedBelow
  <2> QED
    BY <1>0, <2>1, <2>2
<1>3. ASSUME NEW q \in DOMAIN node, Under(q, from)
      PROVE  /\ Rebase(q, from, to) \in DOMAIN node'
             /\ node'[Rebase(q, from, to)] = node[q]
  <2>1. q \in moved /\ Rebase(q, from, to) \in images
    BY <1>3
  <2> QED
    BY <1>0, <1>1, <2>1
<1>4. ASSUME NEW q \in DOMAIN node, ~Under(q, from)
      PROVE  /\ q \in DOMAIN node'
             /\ ~Under(q, to) => node'[q] = node[q]
  <2>1. q \in DOMAIN node'
    BY <1>0, <1>2, <1>4
  <2>2. ASSUME ~Under(q, to) PROVE q \notin images
    BY <1>1, <2>2
  <2> QED
    BY <1>0, <2>1, <2>2
<1>5. ASSUME NEW q \in DOMAIN node'
      PROVE  \E r \in DOMAIN node \ {to} :
                /\ q = IF Under(r, from) THEN Rebase(r, from, to) ELSE r
                /\ node'[q] = node[r]
  <2>1. CASE q \in images
    <3>1. PICK p \in moved : q = Rebase(p, from, to)
      BY <2>1
    <3>2. p \in DOMAIN node \ {to} /\ Under(p, from) /\ node'[q] = node[p]
      BY <1>0, <1>3, <3>1
    <3> QED
      BY <3>1, <3>2
  <2>2. CASE q \notin images
    BY <1>0, <2>2
  <2> QED
    BY <2>1, <2>2
<1>6. ASSUME NEW q \in DOMAIN node', NEW n \in 0..Len(q)
      PROVE  SubSeq(q, 1, n) \in DOMAIN node'
  <2>1. CASE q \in images
    <3>1. PICK p \in moved : q = Rebase(p, from, to)
      BY <2>1
    <3>2. p \in Seq(Name) /\ p \in DOMAIN node /\ Under(p, from)
      BY <1>s, <3>1
    <3>3. CASE n < Len(to)
      <4>1. SubSeq(q, 1, n) = SubSeq(to, 1, n)
        BY <1>s, <1>6, <3>1, <3>2, <3>3, PrefixOfMoved
      <4>2. n \in 0..(Len(to) - 1) /\ n \in 0..Len(to)
        BY <1>s, <1>6, <3>3
      <4>3. SubSeq(to, 1, n) \in DOMAIN node
        <5>1. CASE Free(to)
          <6>1. parent(to) \in DOMAIN node
            BY <5>1 DEF Free, IsDir, Exists
          <6>2. SubSeq(to, 1, n) = SubSeq(parent(to), 1, n) /\ Len(parent(to)) = Len(to) - 1
            BY <1>0, <1>s, <4>2, AboveParent
          <6> QED
            BY <4>2, <6>1, <6>2 DEF TreeOK, TreeClosed
        <5>2. CASE Removable(to)
          BY <4>2, <5>2 DEF TreeOK, TreeClosed, Removable, Exists
        <5> QED
          BY <1>0, <5>1, <5>2
      <4>4. ~Under(SubSeq(to, 1, n), from)
        BY <1>0, <1>s, <4>2, BelowPrefix
      <4> QED
        BY <1>4, <4>1, <4>3, <4>4
    <3>4. CASE ~(n < Len(to))
      <4>1. PICK m \in 0..Len(p) :
               /\ Under(SubSeq(p, 1, m), from)
               /\ SubSeq(q, 1, n) = Rebase(SubSeq(p, 1, m), from, to)
        BY <1>s, <1>6, <3>1, <3>2, <3>4, PrefixOfMoved
      <4>2. SubSeq(p, 1, m) \in DOMAIN node
        BY <3>2 DEF TreeOK, TreeClosed
      <4> QED
        BY <1>3, <4>1, <4>2
    <3> QED
      BY <3>3, <3>4
  <2>2. CASE q \in rest
    <3>1. q \in DOMAIN node /\ ~Under(q, from) /\ q \in Seq(Name)
      BY <1>s, <2>2
    <3>2. SubSeq(q, 1, n) \in DOMAIN node
      BY <1>6, <3>1 DEF TreeOK, TreeClosed
    <3>3. ~Under(SubSeq(q, 1, n), from)
      BY <1>s, <1>6, <3>1, BelowPrefix
    <3> QED
      BY <1>4, <3>2, <3>3
  <2> QED
    BY <1>0, <2>1, <2>2
<1>7. DOMAIN node' \subseteq Path
  BY <1>0 DEF TreeOK
<1> HIDE DEF moved, rest, images
<1> QED
  BY <1>3, <1>4, <1>5, <1>6, <1>7 DEF TreeOK, TreeClosed
\* What a rename does to the tree.
LEMMA Moves ==
    ASSUME TreeOK, NEW from \in Path, NEW to \in Path, Move(from, to)
    PROVE  /\ TreeOK'
           /\ \A q \in DOMAIN node :
                 IF Under(q, from)
                 THEN /\ Rebase(q, from, to) \in DOMAIN node'
                      /\ node'[Rebase(q, from, to)] = node[q]
                 ELSE /\ q \in DOMAIN node'
                      /\ ~Under(q, to) => node'[q] = node[q]
           /\ \A q \in DOMAIN node' : \E r \in DOMAIN node : node'[q] = node[r]
           /\ ~Twins(from, to) =>
                 \A q \in DOMAIN node' : \E r \in DOMAIN node \ {to} :
                    /\ q = IF Under(r, from) THEN Rebase(r, from, to) ELSE r
                    /\ node'[q] = node[r]
<1>1. CASE ~Twins(from, to)
  BY <1>1, MovesTree
<1>2. CASE Twins(from, to)
  <2>1. node' = node /\ to \in DOMAIN node /\ node[from] = node[to]
    BY <1>2 DEF Move, Twins, Removable, Exists
  <2>2. ASSUME NEW q \in DOMAIN node, Under(q, from)
        PROVE  q = from /\ Rebase(q, from, to) = to
    <3>1. q = from
      BY <1>2, <2>2, NothingBelow DEF Twins
    <3>2. from \in Seq(Name) /\ to \in Seq(Name)
      BY PathSeq
    <3> QED
      BY <2>2, <3>1, <3>2, MovedBelow
  <2>3. TreeOK'
    BY <2>1 DEF TreeOK, TreeClosed
  <2> QED
    BY <1>2, <2>1, <2>2, <2>3
<1> QED
  BY <1>1, <1>2

-----------------------------------------------------------------------------
(***************************************************************************)
(* What the handlers do to the table.                                      *)
(***************************************************************************)
TableStep == [IP!Next]_(IP!vars)

\* IfuseFilesystem::entry and the numbers of readdir: a lookup in the table.
LEMMA TableLookup ==
    ASSUME IP!Inv, NEW p \in Path, Inodes!inode(p)
    PROVE  /\ TableStep
           /\ DOMAIN by_path' = DOMAIN by_path \union {p}
           /\ \A i : i = by_path'[p] => IP!Live(i)' /\ by_inode'[i] = p
           /\ \A i : IP!Live(i) => IP!Live(i)' /\ by_inode'[i] = by_inode[i]
<1>1. p \in IP!Path /\ IP!inode(p)
  BY SamePaths, SameTable
<1>2. TableStep
  BY <1>1 DEF TableStep, IP!Next
<1> QED
  BY <1>1, <1>2, TableAssumptions, IP!LookupEffect

\* unlink and rmdir.
LEMMA TableRemove ==
    ASSUME IP!Inv, NEW p \in Path, p # Root, Inodes!remove(p)
    PROVE  /\ TableStep
           /\ next' = next
           /\ \A q \in DOMAIN by_path' : q \in DOMAIN by_path /\ ~Under(q, p)
           /\ \A i : IP!Live(i) =>
                 IF Under(by_inode[i], p)
                 THEN ~IP!Live(i)'
                 ELSE IP!Live(i)' /\ by_inode'[i] = by_inode[i]
<1>1. p \in IP!Path /\ IP!Remove(p)
  <2>1. Inodes!Remove(p)
    BY DEF Inodes!Remove, Inodes!Root, Root
  <2> QED
    BY <2>1, SamePaths, SameTable
<1>2. TableStep
  BY <1>1 DEF TableStep, IP!Next
<1>3. /\ DOMAIN by_path' = DOMAIN by_path \ IP!Subtree(p)
      /\ \A i : IP!Live(i) =>
            IF IP!Under(by_inode[i], p)
            THEN ~IP!Live(i)'
            ELSE IP!Live(i)' /\ by_inode'[i] = by_inode[i]
  BY <1>1, TableAssumptions, IP!RemoveEffect
<1>4. \A q \in DOMAIN by_path' : q \in DOMAIN by_path /\ ~Under(q, p)
  BY <1>3, SamePaths DEF IP!Subtree
<1>5. \A i : IP!Under(by_inode[i], p) <=> Under(by_inode[i], p)
  BY SamePaths
<1>6. next' = next
  BY DEF Inodes!remove
<1> QED
  BY <1>2, <1>3, <1>4, <1>5, <1>6

\* rename.
LEMMA TableRename ==
    ASSUME IP!Inv, NEW from \in Path, NEW to \in Path,
           from # Root, to # Root, ~Nested(from, to),
           Inodes!WithinDepth(from, to), Inodes!rename(from, to)
    PROVE  /\ TableStep
           /\ next' = next
           /\ \A q \in DOMAIN by_path' :
                 \/ \E p \in DOMAIN by_path : Under(p, from) /\ q = Rebase(p, from, to)
                 \/ q \in DOMAIN by_path /\ ~Under(q, from)
           /\ \A p \in DOMAIN by_path : Under(p, from) =>
                 /\ Rebase(p, from, to) \in DOMAIN by_path'
                 /\ by_path'[Rebase(p, from, to)] = by_path[p]
           /\ \A i : IP!Live(i) =>
                 /\ IF Under(by_inode[i], from)
                    THEN IP!Live(i)' /\ by_inode'[i] = Rebase(by_inode[i], from, to)
                    ELSE by_inode'[i] = by_inode[i]
                 /\ ~Under(by_inode[i], to) => IP!Live(i)'
<1>1. {from, to} \subseteq IP!Path /\ IP!Rename(from, to)
  <2>1. Inodes!MayRename(from, to)
    BY DEF Inodes!MayRename, Inodes!Root, Root, Inodes!Nested, Nested, Inodes!Under, Under
  <2>2. Inodes!Rename(from, to)
    BY <2>1 DEF Inodes!Rename
  <2> QED
    BY <2>2, SamePaths, SameTable
<1>2. TableStep
  BY <1>1 DEF TableStep, IP!Next
<1>3. /\ \A q \in DOMAIN by_path' :
            \/ \E p \in IP!Subtree(from) : q = IP!Rebase(p, from, to)
            \/ q \in DOMAIN by_path \ IP!Subtree(from)
      /\ \A p \in IP!Subtree(from) :
            /\ IP!Rebase(p, from, to) \in DOMAIN by_path'
            /\ by_path'[IP!Rebase(p, from, to)] = by_path[p]
  BY <1>1, TableAssumptions, IP!RenameEffect
<1>4. \A i : IP!Live(i) =>
         /\ IF IP!Under(by_inode[i], from)
            THEN IP!Live(i)' /\ by_inode'[i] = IP!Rebase(by_inode[i], from, to)
            ELSE by_inode'[i] = by_inode[i]
         /\ ~IP!Under(by_inode[i], to) => IP!Live(i)'
  BY <1>1, TableAssumptions, IP!RenameOfLive
<1>5. IP!Subtree(from) = {p \in DOMAIN by_path : Under(p, from)}
  BY SamePaths DEF IP!Subtree
<1>6. /\ \A q \in DOMAIN by_path' :
            \/ \E p \in DOMAIN by_path : Under(p, from) /\ q = Rebase(p, from, to)
            \/ q \in DOMAIN by_path /\ ~Under(q, from)
      /\ \A p \in DOMAIN by_path : Under(p, from) =>
            /\ Rebase(p, from, to) \in DOMAIN by_path'
            /\ by_path'[Rebase(p, from, to)] = by_path[p]
  BY <1>3, <1>5, SamePaths
<1>7. next' = next
  BY DEF Inodes!rename
<1> QED
  BY <1>2, <1>4, <1>6, <1>7, SamePaths

\* What the table was, it stays (IP!Inv), and numbers that led nowhere do.
LEMMA TableKept ==
    ASSUME IP!Inv, TableStep
    PROVE  /\ IP!Inv'
           /\ \A i \in Nat : i < next /\ ~IP!Live(i) => i < next' /\ ~IP!Live(i)'
<1>1. [IP!Next]_(IP!vars)
  BY DEF TableStep
<1>2. IP!Inv'
  BY <1>1, TableAssumptions, IP!NextInv
<1>3. ASSUME NEW i \in Nat, i < next, ~IP!Live(i) PROVE i < next' /\ ~IP!Live(i)'
  BY <1>1, <1>3, TableAssumptions, IP!DeadStaysDead
<1> QED
  BY <1>2, <1>3
-----------------------------------------------------------------------------
(***************************************************************************)
(* What the handlers do to the table, the tree and the kernel's numbers.   *)
(***************************************************************************)
\* As long as nobody else changes the tree, no number gets lost.
Remembers == changes = 0 => gone \union DOMAIN ident \subseteq gone' \union DOMAIN ident'

CoreStep == Core' /\ TableStep /\ Remembers

\* A path lies below itself.
LEMMA UnderItself ==
    ASSUME NEW p \in Path
    PROVE  Under(p, p)
<1>1. p \in Seq(Name)
  BY PathSeq
<1> QED
  BY <1>1, SubSeqFull DEF Under

\* What is known of a number the kernel holds.
LEMMA Tracks ==
    ASSUME Core, NEW i \in DOMAIN ident
    PROVE  /\ i \in Tracked
           /\ i \in Nat \ {0} /\ i < next
           /\ by_inode[i] \in Path
           /\ by_inode[i] \in DOMAIN by_path
           /\ by_path[by_inode[i]] = i
<1>1. IP!Live(i)
  BY DEF Core, TrackedLive
<1>2. i \in DOMAIN by_inode /\ by_inode[i] \in DOMAIN by_path /\ by_path[by_inode[i]] = i
  BY <1>1 DEF IP!Live
<1>3. next \in Nat /\ i \in 1..(next - 1) /\ by_inode[i] \in Path
  BY <1>2, SamePaths DEF Core, IP!Inv, IP!TypeOK
<1> QED
  BY <1>2, <1>3 DEF Tracked

\* Nothing of it changes.
LEMMA CoreSame ==
    ASSUME Core, UNCHANGED <<tableVars, node, ident, gone, changes>>
    PROVE  CoreStep
<1> USE DEF tableVars
<1>1. TableStep
  BY DEF TableStep, IP!vars
<1>2. IP!Inv'
  BY <1>1, TableKept DEF Core
<1>3. \A i : IP!Live(i)' <=> IP!Live(i)
  BY DEF IP!Live
<1>4. TreeOK' /\ TrackedLive' /\ GoneDead' /\ Agree'
  BY <1>3 DEF Core, TreeOK, TreeClosed, TrackedLive, GoneDead, Agree
<1> QED
  BY <1>1, <1>2, <1>4 DEF CoreStep, Core, Remembers

\* A path is given a number, the kernel is told (entry) or not (readdir).
LEMMA CoreNumber ==
    ASSUME Core, NEW p \in Path, p \in DOMAIN node, Inodes!inode(p),
           ident' = ident \/ Told(by_path'[p], node[p]),
           UNCHANGED <<node, gone, changes>>
    PROVE  /\ CoreStep
           /\ Told(by_path'[p], node[p]) => by_path'[p] \in DOMAIN ident'
<1> USE DEF Core
<1> PICK n : n = by_path'[p]
  OBVIOUS
<1>1. /\ TableStep
      /\ DOMAIN by_path' = DOMAIN by_path \union {p}
      /\ IP!Live(n)' /\ by_inode'[n] = p
      /\ \A i : IP!Live(i) => IP!Live(i)' /\ by_inode'[i] = by_inode[i]
  BY TableLookup
<1>2. IP!Inv'
  BY <1>1, TableKept
<1>3. \A i \in DOMAIN ident' :
         \/ i \in DOMAIN ident /\ ident'[i] = ident[i]
         \/ i = n /\ ident'[i] = node[p]
  BY DEF Told, Put
<1>4. TreeOK'
  BY DEF TreeOK, TreeClosed
<1>5. TrackedLive'
  BY <1>1, <1>3 DEF TrackedLive
<1>6. GoneDead'
  BY <1>1, TableKept DEF GoneDead
<1>7. Agree'
  <2> SUFFICES ASSUME changes = 0
               PROVE  /\ DOMAIN by_path' \subseteq DOMAIN node
                      /\ \A i \in DOMAIN ident' : node[by_inode'[i]] = ident'[i]
    BY DEF Agree
  <2>1. \A i \in DOMAIN ident : by_inode'[i] = by_inode[i] /\ node[by_inode[i]] = ident[i]
    BY <1>1 DEF Agree, TrackedLive
  <2> QED
    BY <1>1, <1>3, <2>1 DEF Agree
<1>8. DOMAIN ident \subseteq DOMAIN ident'
  BY DEF Told, Put
<1>9. Told(n, node[p]) => n \in DOMAIN ident'
  BY DEF Told, Put
<1> QED
  BY <1>1, <1>2, <1>3, <1>4, <1>5, <1>6, <1>7, <1>8, <1>9 DEF CoreStep, Remembers

\* Something is made.
LEMMA CoreGrows ==
    ASSUME Core, NEW p \in Path, Free(p), NEW o \in Object, node' = Put(node, p, o),
           UNCHANGED <<tableVars, ident, gone, changes>>
    PROVE  CoreStep
<1> USE DEF Core, tableVars
<1>1. /\ TreeOK'
      /\ DOMAIN node' = DOMAIN node \union {p}
      /\ node'[p] = o
      /\ \A q \in DOMAIN node : node'[q] = node[q]
  BY Grows
<1>2. TableStep
  BY DEF TableStep, IP!vars
<1>3. IP!Inv'
  BY <1>2, TableKept
<1>4. \A i : IP!Live(i)' <=> IP!Live(i)
  BY DEF IP!Live
<1>5. TrackedLive' /\ GoneDead'
  BY <1>4 DEF TrackedLive, GoneDead
<1>6. \A i \in DOMAIN ident : by_inode[i] \in DOMAIN by_path
  BY Tracks
<1>7. Agree'
  BY <1>1, <1>6 DEF Agree
<1> QED
  BY <1>1, <1>2, <1>3, <1>5, <1>7 DEF CoreStep, Remembers
\* What remains of the kernel's numbers when p is taken out.
LEMMA Forgotten ==
    ASSUME Core, NEW p \in Path, Forgets(p)
    PROVE  /\ \A i \in DOMAIN ident' :
                 /\ i \in DOMAIN ident /\ ident'[i] = ident[i]
                 /\ IP!Live(i) /\ ~Under(by_inode[i], p)
           /\ \A i \in DOMAIN ident \ DOMAIN ident' : Under(by_inode[i], p)
           /\ gone' = gone \union LinkedAt(p)
           /\ LinkedAt(p) = {i \in DOMAIN ident : by_inode[i] = p}
<1>1. \A i \in DOMAIN ident : i \in Tracked /\ IP!Live(i)
  BY Tracks DEF Core, TrackedLive
<1>2. \A i \in Tracked : i \in DOMAIN ident
  BY DEF Tracked
<1> QED
  BY <1>1, <1>2 DEF Forgets, LinkedAt

\* As long as nobody else changes the tree, taking p out costs the kernel no
\* number but that of p.
LEMMA ForgetsOne ==
    ASSUME Core, NEW p \in Path, Free(p) \/ Removable(p), Forgets(p)
    PROVE  Remembers
<1> SUFFICES ASSUME changes = 0, NEW i \in DOMAIN ident, i \notin DOMAIN ident'
             PROVE  i \in gone'
  BY Forgotten DEF Remembers
<1>1. Under(by_inode[i], p)
  BY Forgotten
<1>2. by_inode[i] \in DOMAIN node
  BY Tracks DEF Core, Agree
<1>3. by_inode[i] = p
  BY <1>1, <1>2, NothingBelow DEF Core
<1> QED
  BY <1>3, Forgotten

\* unlink and rmdir.
LEMMA CoreRemove ==
    ASSUME Core, NEW p \in Path, Unlink(p), Inodes!remove(p), Forgets(p),
           UNCHANGED changes
    PROVE  CoreStep
<1> USE DEF Core
<1>0. p # Root /\ Removable(p) /\ Under(p, p)
  BY UnderItself DEF Unlink, Removable
<1>1. /\ TreeOK'
      /\ DOMAIN node' = DOMAIN node \ {p}
      /\ \A q \in DOMAIN node' : node'[q] = node[q]
  BY Shrinks
<1>2. /\ TableStep
      /\ next' = next
      /\ \A q \in DOMAIN by_path' : q \in DOMAIN by_path /\ ~Under(q, p)
      /\ \A i : IP!Live(i) =>
            IF Under(by_inode[i], p)
            THEN ~IP!Live(i)'
            ELSE IP!Live(i)' /\ by_inode'[i] = by_inode[i]
  BY <1>0, TableRemove
<1>3. IP!Inv' /\ \A i \in Nat : i < next /\ ~IP!Live(i) => i < next' /\ ~IP!Live(i)'
  BY <1>2, TableKept
<1>4. \A i \in DOMAIN ident' : ident'[i] \in Object
  BY Forgotten
<1>5. TrackedLive'
  BY <1>2, Forgotten DEF TrackedLive
<1>6. GoneDead'
  <2> SUFFICES ASSUME NEW i \in gone'
               PROVE  i \in Nat \ {0} /\ i < next' /\ ~IP!Live(i)'
    BY DEF GoneDead
  <2>1. CASE i \in gone
    BY <1>3, <2>1 DEF GoneDead
  <2>2. CASE i \in LinkedAt(p)
    <3>1. i \in DOMAIN ident /\ by_inode[i] = p
      BY <2>2, Forgotten
    <3>2. IP!Live(i)
      BY <3>1 DEF TrackedLive
    <3> QED
      BY <1>0, <1>2, <3>1, <3>2, Tracks
  <2> QED
    BY <2>1, <2>2, Forgotten
<1>7. Agree'
  <2> SUFFICES ASSUME changes = 0
               PROVE  /\ DOMAIN by_path' \subseteq DOMAIN node'
                      /\ \A i \in DOMAIN ident' : node'[by_inode'[i]] = ident'[i]
    BY DEF Agree
  <2>1. DOMAIN by_path' \subseteq DOMAIN node'
    BY <1>0, <1>1, <1>2 DEF Agree
  <2>2. ASSUME NEW i \in DOMAIN ident' PROVE node'[by_inode'[i]] = ident'[i]
    <3>1. /\ i \in DOMAIN ident /\ ident'[i] = ident[i]
          /\ IP!Live(i) /\ ~Under(by_inode[i], p)
      BY Forgotten
    <3>2. by_inode'[i] = by_inode[i] /\ by_inode[i] # p
      BY <1>0, <1>2, <3>1
    <3>3. by_inode[i] \in DOMAIN node /\ node[by_inode[i]] = ident[i]
      BY <3>1, Tracks DEF Agree
    <3> QED
      BY <1>1, <3>1, <3>2, <3>3
  <2> QED
    BY <2>1, <2>2
<1>8. Remembers
  BY <1>0, ForgetsOne
<1> QED
  BY <1>1, <1>2, <1>3, <1>4, <1>5, <1>6, <1>7, <1>8 DEF CoreStep

\* rename.
LEMMA CoreRename ==
    ASSUME Core, NEW from \in Path, NEW to \in Path, LinkedAt(from) # {},
           Inodes!WithinDepth(from, to), Move(from, to), Inodes!rename(from, to),
           Forgets(to), UNCHANGED changes
    PROVE  CoreStep
<1> USE DEF Core
<1>0. /\ from # Root /\ to # Root /\ ~Nested(from, to)
      /\ Free(to) \/ Removable(to)
      /\ Under(from, from) /\ ~Under(to, from)
  BY UnderItself DEF Move, Nested
<1>1. /\ TreeOK'
      /\ \A q \in DOMAIN node :
            IF Under(q, from)
            THEN /\ Rebase(q, from, to) \in DOMAIN node'
                 /\ node'[Rebase(q, from, to)] = node[q]
            ELSE /\ q \in DOMAIN node'
                 /\ ~Under(q, to) => node'[q] = node[q]
      /\ \A q \in DOMAIN node' : \E r \in DOMAIN node : node'[q] = node[r]
  BY Moves
<1>2. /\ TableStep
      /\ next' = next
      /\ \A q \in DOMAIN by_path' :
            \/ \E p \in DOMAIN by_path : Under(p, from) /\ q = Rebase(p, from, to)
            \/ q \in DOMAIN by_path /\ ~Under(q, from)
      /\ \A p \in DOMAIN by_path : Under(p, from) =>
            /\ Rebase(p, from, to) \in DOMAIN by_path'
            /\ by_path'[Rebase(p, from, to)] = by_path[p]
      /\ \A i : IP!Live(i) =>
            /\ IF Under(by_inode[i], from)
               THEN IP!Live(i)' /\ by_inode'[i] = Rebase(by_inode[i], from, to)
               ELSE by_inode'[i] = by_inode[i]
            /\ ~Under(by_inode[i], to) => IP!Live(i)'
  BY <1>0, TableRename
<1>3. IP!Inv' /\ \A i \in Nat : i < next /\ ~IP!Live(i) => i < next' /\ ~IP!Live(i)'
  BY <1>2, TableKept
<1>4. \A i \in DOMAIN ident' : ident'[i] \in Object
  BY Forgotten
<1>5. TrackedLive'
  BY <1>2, Forgotten DEF TrackedLive
<1>6. GoneDead'
  <2> SUFFICES ASSUME NEW i \in gone'
               PROVE  i \in Nat \ {0} /\ i < next' /\ ~IP!Live(i)'
    BY DEF GoneDead
  <2>1. CASE i \in gone
    BY <1>3, <2>1 DEF GoneDead
  <2>2. CASE i \in LinkedAt(to)
    <3>1. i \in DOMAIN ident /\ by_inode[i] = to /\ i \in Nat \ {0} /\ i < next
      BY <2>2, Forgotten, Tracks
    <3>2. by_inode'[i] = to
      BY <1>0, <1>2, <3>1 DEF TrackedLive
    <3>3. PICK j \in DOMAIN ident : by_inode[j] = from
      BY DEF LinkedAt, Tracked
    <3>4. from \in DOMAIN by_path /\ by_path[from] = j
      BY <3>3, Tracks
    <3>5. by_path'[to] = j
      <4>1. from \in Seq(Name) /\ to \in Seq(Name)
        BY PathSeq
      <4>2. Rebase(from, from, to) = to
        BY <1>0, <4>1, MovedBelow
      <4> QED
        BY <1>0, <1>2, <3>4, <4>2
    <3>6. i # j
      BY <1>0, <3>1, <3>3
    <3> QED
      BY <1>2, <3>1, <3>2, <3>5, <3>6 DEF IP!Live
  <2> QED
    BY <2>1, <2>2, Forgotten
<1>7. Agree'
  <2> SUFFICES ASSUME changes = 0
               PROVE  /\ DOMAIN by_path' \subseteq DOMAIN node'
                      /\ \A i \in DOMAIN ident' : node'[by_inode'[i]] = ident'[i]
    BY DEF Agree
  <2>1. DOMAIN by_path' \subseteq DOMAIN node'
    BY <1>1, <1>2 DEF Agree
  <2>2. ASSUME NEW i \in DOMAIN ident' PROVE node'[by_inode'[i]] = ident'[i]
    <3>1. /\ i \in DOMAIN ident /\ ident'[i] = ident[i]
          /\ IP!Live(i) /\ ~Under(by_inode[i], to)
      BY Forgotten
    <3>2. by_inode[i] \in DOMAIN node /\ node[by_inode[i]] = ident[i]
      BY <3>1, Tracks DEF Agree
    <3>3. CASE Under(by_inode[i], from)
      BY <1>1, <1>2, <3>1, <3>2, <3>3
    <3>4. CASE ~Under(by_inode[i], from)
      BY <1>1, <1>2, <3>1, <3>2, <3>4
    <3> QED
      BY <3>3, <3>4
  <2> QED
    BY <2>1, <2>2
<1>8. Remembers
  BY <1>0, ForgetsOne
<1>9. \A q \in DOMAIN node' : node'[q] \in Object
  BY <1>1
<1> QED
  BY <1>1, <1>2, <1>3, <1>4, <1>5, <1>6, <1>7, <1>8, <1>9 DEF CoreStep
\* The device's own programs: they give nothing a number.
LEMMA CoreElsewhere ==
    ASSUME Core, Outside(Known), changes < MaxChanges, changes' = changes + 1,
           UNCHANGED <<tableVars, ident, gone>>
    PROVE  CoreStep /\ UNCHANGED fds
<1> USE DEF Core, tableVars
<1>1. TableStep
  BY DEF TableStep, IP!vars
<1>2. IP!Inv'
  BY <1>1, TableKept
<1>3. \A i : IP!Live(i)' <=> IP!Live(i)
  BY DEF IP!Live
<1>4. TrackedLive' /\ GoneDead'
  BY <1>3 DEF TrackedLive, GoneDead
<1>5. changes' \in 0..MaxChanges /\ changes' # 0
  BY BoundAssumption
<1>6. Agree' /\ Remembers
  BY <1>5 DEF Agree, Remembers
<1>7. TreeOK' /\ (\A q \in DOMAIN node' : node'[q] \in Object) /\ UNCHANGED fds
  <2>1. ASSUME NEW p \in Path, NEW k \in {"dir", "leaf"}, Make(p, k, Known)
        PROVE  TreeOK' /\ (\A q \in DOMAIN node' : node'[q] \in Object) /\ UNCHANGED fds
    <3>1. PICK o \in Object : node' = Put(node, p, o)
      BY <2>1 DEF Make
    <3>2. Free(p) /\ UNCHANGED fds
      BY <2>1 DEF Make
    <3>3. /\ TreeOK' /\ DOMAIN node' = DOMAIN node \union {p} /\ node'[p] = o
          /\ \A q \in DOMAIN node : node'[q] = node[q]
      BY <3>1, <3>2, Grows
    <3> QED
      BY <3>2, <3>3
  <2>2. ASSUME NEW p \in Path, Unlink(p)
        PROVE  TreeOK' /\ (\A q \in DOMAIN node' : node'[q] \in Object) /\ UNCHANGED fds
    <3>1. UNCHANGED fds
      BY <2>2 DEF Unlink
    <3> QED
      BY <2>2, <3>1, Shrinks
  <2>3. ASSUME NEW from \in Path, NEW to \in Path, Move(from, to)
        PROVE  TreeOK' /\ (\A q \in DOMAIN node' : node'[q] \in Object) /\ UNCHANGED fds
    <3>1. UNCHANGED fds
      BY <2>3 DEF Move
    <3> QED
      BY <2>3, <3>1, Moves
  <2> QED
    BY <2>1, <2>2, <2>3 DEF Outside
<1> QED
  BY <1>1, <1>2, <1>4, <1>5, <1>6, <1>7 DEF CoreStep
-----------------------------------------------------------------------------
(***************************************************************************)
(* What the handlers do to the descriptors and the handles.                *)
(***************************************************************************)
Running == IF call.op \in {"create", "close"} THEN {call.fd} ELSE {}

\* Open makes the new descriptor, on the file that is there or on a new one.
LEMMA Opens ==
    ASSUME Core, DOMAIN fds \subseteq Fd, NEW p \in Path, NEW mode,
           Open(p, mode, Known), UNCHANGED <<tableVars, ident, gone, changes>>
    PROVE  /\ CoreStep
           /\ NewFd \in Fd \ DOMAIN fds
           /\ \E o \in Object : fds' = Put(fds, NewFd, o)
<1>1. NewFd \in Fd \ DOMAIN fds
  BY DEF Open, NewFd
<1>2. CASE Exists(p) /\ fds' = Put(fds, NewFd, node[p]) /\ UNCHANGED node
  <2>1. CoreStep
    BY <1>2, CoreSame
  <2>2. node[p] \in Object
    BY <1>2 DEF Core, Exists
  <2> QED
    BY <1>1, <1>2, <2>1, <2>2
<1>3. CASE /\ Free(p)
           /\ \E o \in Object : node' = Put(node, p, o) /\ fds' = Put(fds, NewFd, o)
  <2>1. PICK o \in Object : node' = Put(node, p, o) /\ fds' = Put(fds, NewFd, o)
    BY <1>3
  <2>2. CoreStep
    BY <1>3, <2>1, CoreGrows
  <2> QED
    BY <1>1, <2>1, <2>2
<1> QED
  BY <1>2, <1>3 DEF Open

\* The handles stay what they were while nothing is opened or closed.
LEMMA HandlesSame ==
    ASSUME HandlesOK, CoreStep, UNCHANGED <<fds, held, unclosed>>,
           Running' = Running, changes' = changes \/ changes' # 0
    PROVE  HandlesOK'
<1> USE DEF HandlesOK
<1>1. DescriptorsOwned'
  BY DEF DescriptorsOwned, Running
<1>2. HeldKnown'
  BY DEF HeldKnown, CoreStep, Remembers
<1>3. \A d \in DOMAIN held' : held'[d] \in Inodes!Inode
  OBVIOUS
<1> QED
  BY <1>1, <1>2, <1>3
\* Whose descriptor is running.
LEMMA Runs ==
    /\ call = Idle => Running = {}
    /\ \A p \in Path : call = Stat(p) => Running = {}
    /\ \A r \in SUBSET Path : call = [op |-> "list", rest |-> r] => Running = {}
    /\ \A i \in Nat, w \in {"size", "time"} :
          call = [op |-> "setattr", inode |-> i, did |-> w] => Running = {}
    /\ \A p \in Path, d \in Fd :
          call = [op |-> "create", path |-> p, fd |-> d] => Running = {d}
    /\ \A d \in Fd : call = [op |-> "close", fd |-> d] => Running = {d}
  BY DEF Running, Idle, Stat
-----------------------------------------------------------------------------
(***************************************************************************)
(* The invariant, one lemma per handler.                                   *)
(***************************************************************************)
Keeps == Inv' /\ TableStep

LEMMA InitInv == Init => Inv
<1> SUFFICES ASSUME Init PROVE Inv
  OBVIOUS
<1>1. IP!Inv /\ \A i \in DOMAIN ident : IP!Live(i) /\ by_inode[i] = Root
  <2>1. IP!Init
    BY SameTable DEF Init
  <2>2. IP!Inv
    BY <2>1, TableAssumptions, IP!InitInv
  <2>3. \A i \in DOMAIN ident : IP!Live(i) /\ by_inode[i] = Root
    BY <2>1, SamePaths
    DEF Init, IP!Init, IP!Live, Inodes!RootInode, IP!RootInode
  <2> QED
    BY <2>2, <2>3
<1>2. node = [p \in {Root} |-> RootObject] /\ RootObject \in Object /\ fds = <<>>
  BY DeviceAssumption DEF Init, DeviceInit, RootObject, Object
<1>3. TreeOK
  <2>1. Root \in Seq(Name) /\ Len(Root) <= MaxDepth /\ Len(Root) = 0
    BY DepthAssumption DEF Root
  <2>2. Root \in Path /\ SubSeq(Root, 1, 0) = Root
    BY <2>1, PathSeq, SubSeqFull
  <2> QED
    BY <1>2, <2>1, <2>2 DEF TreeOK, TreeClosed
<1>4. DOMAIN by_path = {Root}
  BY SameTable, SamePaths DEF Init, IP!Init
<1>5. Core
  BY <1>1, <1>2, <1>3, <1>4, BoundAssumption
  DEF Core, Init, TrackedLive, GoneDead, Agree
<1>6. CallTyped
  BY DEF CallTyped, Init
<1>7. HandlesOK
  BY <1>2 DEF HandlesOK, Init, DescriptorsOwned, HeldKnown, Idle
<1> QED
  BY <1>5, <1>6, <1>7 DEF Inv

\* The device's own programs do not touch handles, descriptors or calls.
LEMMA ElsewhereInv ==
    ASSUME Inv, Elsewhere
    PROVE  Keeps
<1> USE DEF Inv, Elsewhere, kernelVars
<1>1. CoreStep /\ UNCHANGED fds
  BY CoreElsewhere
<1>2. changes' # 0
  BY <1>1, BoundAssumption DEF Core
<1>3. HandlesOK'
  BY <1>1, <1>2, HandlesSame DEF Running
<1>4. CallTyped'
  BY DEF CallTyped
<1> QED
  BY <1>1, <1>3, <1>4 DEF Keeps, CoreStep

\* lookup.
LEMMA LookupInv ==
    ASSUME Inv, NEW p \in Path, lookup(p)
    PROVE  Keeps
<1> USE DEF Inv, lookup, deviceVars, history
<1>1. CoreStep
  BY CoreNumber DEF Entry, Exists
<1>2. HandlesOK'
  BY <1>1, HandlesSame DEF Running
<1>3. CallTyped'
  BY DEF CallTyped
<1> QED
  BY <1>1, <1>2, <1>3 DEF Keeps, CoreStep

\* unlink and rmdir.
LEMMA RemoveInv ==
    ASSUME Inv, NEW p \in Path, remove(p)
    PROVE  Keeps
<1> USE DEF Inv, remove, history
<1>1. CoreStep
  BY CoreRemove
<1>2. UNCHANGED fds
  BY DEF Unlink
<1>3. HandlesOK'
  BY <1>1, <1>2, HandlesSame DEF Running
<1>4. CallTyped'
  BY DEF CallTyped
<1> QED
  BY <1>1, <1>3, <1>4 DEF Keeps, CoreStep

\* rename.
LEMMA RenameInv ==
    ASSUME Inv, NEW from \in Path, NEW to \in Path, rename(from, to)
    PROVE  Keeps
<1> USE DEF Inv, rename, history
<1>1. CoreStep
  BY CoreRename
<1>2. UNCHANGED fds
  BY DEF Move
<1>3. HandlesOK'
  BY <1>1, <1>2, HandlesSame DEF Running
<1>4. CallTyped'
  BY DEF CallTyped
<1> QED
  BY <1>1, <1>3, <1>4 DEF Keeps, CoreStep

\* mkdir, symlink and link: the entry is made and waits for its stat.
LEMMA MakeInv ==
    ASSUME Inv, call = Idle, NEW p \in Path, Free(p), NEW o \in Object,
           node' = Put(node, p, o), call' = Stat(p),
           UNCHANGED <<tableVars, kernelVars, fds, history>>
    PROVE  Keeps
<1> USE DEF Inv, kernelVars, history
<1>1. CoreStep
  BY CoreGrows
<1>2. HandlesOK'
  BY <1>1, HandlesSame DEF Running, Idle, Stat
<1>3. CallTyped'
  BY DEF CallTyped
<1> QED
  BY <1>1, <1>2, <1>3 DEF Keeps, CoreStep

\* Only the handler goes on: readdir, setattr and what fails.
LEMMA GoesOn ==
    ASSUME Inv, CallTyped', Running' = Running,
           UNCHANGED <<tableVars, deviceVars, kernelVars, history>>
    PROVE  Keeps
<1> USE DEF Inv, kernelVars, deviceVars, history
<1>1. CoreStep
  BY CoreSame
<1>2. HandlesOK'
  BY <1>1, HandlesSame
<1> QED
  BY <1>1, <1>2 DEF Keeps, CoreStep

\* The stat that ends mkdir, symlink and link.
LEMMA StatEntryInv ==
    ASSUME Inv, statEntry
    PROVE  Keeps
<1> USE DEF Inv, statEntry, deviceVars, history
<1>1. PICK p \in Path : call = Stat(p)
  BY DEF CallTyped, Idle
<1>2. call.path = p
  BY <1>1 DEF Stat
<1>3. CoreStep
  <2>1. CASE Exists(p) /\ Entry(p)
    BY <2>1, CoreNumber DEF Entry, Exists
  <2>2. CASE UNCHANGED <<tableVars, ident>>
    BY <2>2, CoreSame
  <2> QED
    BY <1>2, <2>1, <2>2
<1>4. HandlesOK'
  BY <1>1, <1>3, HandlesSame DEF Running, Idle, Stat
<1>5. CallTyped'
  BY DEF CallTyped
<1> QED
  BY <1>3, <1>4, <1>5 DEF Keeps, CoreStep

\* readdir, one entry.
LEMMA ListEntryInv ==
    ASSUME Inv, listEntry
    PROVE  Keeps
<1> USE DEF Inv, listEntry, deviceVars, kernelVars, history
<1>1. PICK r \in SUBSET Path : call = [op |-> "list", rest |-> r]
  BY DEF CallTyped, Idle, Stat
<1>2. PICK p \in r : /\ Exists(p)
                     /\ Inodes!inode(p)
                     /\ call' = [call EXCEPT !.rest = @ \ {p}]
  BY <1>1
<1>3. call' = [op |-> "list", rest |-> r \ {p}]
  BY <1>1, <1>2
<1>4. CoreStep
  BY <1>2, CoreNumber DEF Exists
<1>5. HandlesOK'
  BY <1>1, <1>3, <1>4, HandlesSame DEF Running
<1>6. CallTyped'
  BY <1>3 DEF CallTyped
<1> QED
  BY <1>4, <1>5, <1>6 DEF Keeps, CoreStep
\* open: the kernel's handle is the new descriptor.
LEMMA OpenInv ==
    ASSUME Inv, NEW i \in DOMAIN ident, NEW mode, open(i, mode)
    PROVE  Keeps
<1> USE DEF Inv, open, history
<1>1. i \in Inodes!Inode /\ PathOf(i) \in Path
  <2>1. i \in DOMAIN by_inode /\ i \in 1..(next - 1) /\ next \in 2..(MaxInode + 1)
    BY DEF Tracked, Core, IP!Inv, IP!TypeOK
  <2>2. i \in 1..MaxInode
    BY <2>1, BoundAssumption
  <2> QED
    BY <2>2, Tracks DEF PathOf, Inodes!Inode
<1>2. /\ CoreStep
      /\ NewFd \in Fd \ DOMAIN fds
      /\ \E o \in Object : fds' = Put(fds, NewFd, o)
  BY <1>1, Opens DEF HandlesOK
<1>3. HandlesOK'
  <2> DEFINE n == NewFd
  <2>1. PICK o \in Object : fds' = Put(fds, n, o)
    BY <1>2
  <2>2. n \in Fd \ DOMAIN fds /\ held' = Put(held, n, i)
    BY <1>2
  <2> HIDE DEF n
  <2>3. /\ DOMAIN fds' = DOMAIN fds \union {n}
        /\ \A d \in DOMAIN fds' : fds'[d] \in Object
    BY <2>1 DEF Put, HandlesOK
  <2>4. /\ DOMAIN held' = DOMAIN held \union {n}
        /\ \A d \in DOMAIN held' : held'[d] = IF d = n THEN i ELSE held[d]
    BY <2>2 DEF Put
  <2>5. DescriptorsOwned'
    BY <2>2, <2>3, <2>4 DEF HandlesOK, DescriptorsOwned, Idle
  <2>6. HeldKnown'
    BY <1>2, <2>4 DEF HandlesOK, HeldKnown, CoreStep, Remembers
  <2>7. \A d \in DOMAIN held' : held'[d] \in Inodes!Inode
    BY <1>1, <2>4 DEF HandlesOK
  <2> QED
    BY <2>2, <2>3, <2>5, <2>6, <2>7 DEF HandlesOK
<1>4. CallTyped'
  BY DEF CallTyped
<1> QED
  BY <1>2, <1>3, <1>4 DEF Keeps, CoreStep

\* Where a descriptor's Close goes: the device closes it or refuses.
Closes(d) ==
    \/ fds' = Drop(fds, d) /\ UNCHANGED unclosed
    \/ unclosed' = unclosed \union {d} /\ UNCHANGED fds

\* release.
LEMMA ReleaseInv ==
    ASSUME Inv, NEW d \in DOMAIN held, release(d)
    PROVE  Keeps
<1> USE DEF Inv
<1>1. /\ call = Idle /\ call' = call
      /\ held' = Drop(held, d)
      /\ Closes(d)
      /\ UNCHANGED <<tableVars, node, ident, gone, changes>>
  BY DEF release, CloseFd, Closes
<1>2. CoreStep
  BY <1>1, CoreSame
<1>3. HandlesOK'
  <2>1. /\ DOMAIN held' = DOMAIN held \ {d}
        /\ \A e \in DOMAIN held' : held'[e] = held[e]
    BY <1>1 DEF Drop
  <2>2. \/ DOMAIN fds' = DOMAIN fds \ {d} /\ unclosed' = unclosed
        \/ DOMAIN fds' = DOMAIN fds /\ unclosed' = unclosed \union {d}
    BY <1>1 DEF Closes, Drop
  <2>3. \A e \in DOMAIN fds' : e \in DOMAIN fds /\ fds'[e] = fds[e]
    BY <1>1 DEF Closes, Drop
  <2>4. DescriptorsOwned'
    BY <1>1, <2>1, <2>2 DEF HandlesOK, DescriptorsOwned, Idle
  <2>5. HeldKnown'
    BY <1>1, <1>2, <2>1 DEF HandlesOK, HeldKnown, CoreStep, Remembers
  <2>6. \A e \in DOMAIN held' : held'[e] \in Inodes!Inode
    BY <2>1 DEF HandlesOK
  <2> QED
    BY <2>3, <2>4, <2>5, <2>6 DEF HandlesOK
<1>4. CallTyped'
  BY <1>1 DEF CallTyped
<1> QED
  BY <1>2, <1>3, <1>4 DEF Keeps, CoreStep

\* create, its Open.
LEMMA CreateInv ==
    ASSUME Inv, NEW p \in Path, NEW mode, create(p, mode)
    PROVE  Keeps
<1> USE DEF Inv, create, kernelVars, history
<1>1. /\ CoreStep
      /\ NewFd \in Fd \ DOMAIN fds
      /\ \E o \in Object : fds' = Put(fds, NewFd, o)
  BY Opens DEF HandlesOK
<1>2. Running = {} /\ Running' = {NewFd}
  BY DEF Running, Idle
<1>3. HandlesOK'
  <2> DEFINE n == NewFd
  <2>1. PICK o \in Object : fds' = Put(fds, n, o)
    BY <1>1
  <2>2. n \in Fd \ DOMAIN fds /\ Running = {} /\ Running' = {n}
    BY <1>1, <1>2
  <2> HIDE DEF n
  <2>3. /\ DOMAIN fds' = DOMAIN fds \union {n}
        /\ \A d \in DOMAIN fds' : fds'[d] \in Object
    BY <2>1 DEF Put, HandlesOK
  <2>4. DescriptorsOwned'
    BY <2>2, <2>3 DEF HandlesOK, DescriptorsOwned, Running
  <2>5. HeldKnown'
    BY <1>1 DEF HandlesOK, HeldKnown, CoreStep, Remembers
  <2>6. \A d \in DOMAIN held' : held'[d] \in Inodes!Inode
    BY DEF HandlesOK
  <2> QED
    BY <2>2, <2>3, <2>4, <2>5, <2>6 DEF HandlesOK
<1>4. CallTyped'
  BY <1>1 DEF CallTyped
<1> QED
  BY <1>1, <1>3, <1>4 DEF Keeps, CoreStep

\* create, its stat: the kernel gets the descriptor, or it is to be closed.
LEMMA StatCreatedInv ==
    ASSUME Inv, statCreated
    PROVE  Keeps
<1> USE DEF Inv
<1>0. PICK p \in Path, n \in Fd : call = [op |-> "create", path |-> p, fd |-> n]
  BY DEF CallTyped, Idle, Stat, statCreated
<1>r. Running = {n} /\ call.path = p /\ call.fd = n
  BY <1>0, Runs
<1>u. UNCHANGED <<deviceVars, gone, history>>
  BY DEF statCreated
<1>1. CASE /\ Exists(p)
           /\ Entry(p)
           /\ held' = Put(held, n, by_path'[p])
           /\ call' = Idle
  <2> PICK i : i = by_path'[p]
    OBVIOUS
  <2>1. CoreStep /\ i \in DOMAIN ident'
    BY <1>1, <1>u, CoreNumber DEF Entry, Exists, deviceVars, history
  <2>2. i \in Inodes!Inode
    <3>1. i \in DOMAIN by_inode' /\ i \in 1..(next' - 1) /\ next' \in 2..(MaxInode + 1)
      BY <2>1 DEF CoreStep, Core, TrackedLive, IP!Live, IP!Inv, IP!TypeOK
    <3> QED
      BY <3>1, BoundAssumption DEF Inodes!Inode
  <2>3. Running' = {}
    BY <1>1 DEF Running, Idle
  <2>4. /\ DOMAIN held' = DOMAIN held \union {n}
        /\ \A d \in DOMAIN held' : held'[d] = IF d = n THEN i ELSE held[d]
    BY <1>1 DEF Put
  <2>5. DescriptorsOwned'
    BY <1>r, <1>u, <2>3, <2>4
    DEF HandlesOK, DescriptorsOwned, Running, deviceVars, history
  <2>6. HeldKnown'
    BY <1>u, <2>1, <2>4 DEF HandlesOK, HeldKnown, CoreStep, Remembers, history
  <2>7. \A d \in DOMAIN held' : held'[d] \in Inodes!Inode
    BY <2>2, <2>4 DEF HandlesOK
  <2>8. HandlesOK'
    BY <1>u, <2>5, <2>6, <2>7 DEF HandlesOK, deviceVars
  <2>9. CallTyped'
    BY <1>1 DEF CallTyped
  <2> QED
    BY <2>1, <2>8, <2>9 DEF Keeps, CoreStep
<1>2. CASE call' = [op |-> "close", fd |-> n] /\ UNCHANGED <<tableVars, ident, held>>
  <2>1. Running' = Running
    BY <1>r, <1>2 DEF Running
  <2>2. CallTyped'
    BY <1>2 DEF CallTyped
  <2> QED
    BY <1>u, <1>2, <2>1, <2>2, GoesOn DEF kernelVars
<1> QED
  BY <1>1, <1>2, <1>r DEF statCreated

\* create, the Close after a stat that failed.
LEMMA CloseCreatedInv ==
    ASSUME Inv, closeCreated
    PROVE  Keeps
<1> USE DEF Inv
<1>0. PICK n \in Fd : call = [op |-> "close", fd |-> n]
  BY DEF CallTyped, Idle, Stat, closeCreated
<1>1. /\ Running = {n} /\ Running' = {}
      /\ call' = Idle
      /\ Closes(n)
      /\ UNCHANGED <<tableVars, node, ident, gone, held, changes>>
  BY <1>0, Runs DEF closeCreated, CloseFd, Closes, kernelVars, Running, Idle
<1>2. CoreStep
  BY <1>1, CoreSame
<1>3. HandlesOK'
  <2>1. \/ DOMAIN fds' = DOMAIN fds \ {n} /\ unclosed' = unclosed
        \/ DOMAIN fds' = DOMAIN fds /\ unclosed' = unclosed \union {n}
    BY <1>1 DEF Closes, Drop
  <2>2. \A e \in DOMAIN fds' : e \in DOMAIN fds /\ fds'[e] = fds[e]
    BY <1>1 DEF Closes, Drop
  <2>3. DescriptorsOwned'
    BY <1>1, <2>1 DEF HandlesOK, DescriptorsOwned, Running
  <2>4. HeldKnown'
    BY <1>1, <1>2 DEF HandlesOK, HeldKnown, CoreStep, Remembers
  <2>5. \A d \in DOMAIN held' : held'[d] \in Inodes!Inode
    BY <1>1 DEF HandlesOK
  <2> QED
    BY <2>2, <2>3, <2>4, <2>5 DEF HandlesOK
<1>4. CallTyped'
  BY <1>1 DEF CallTyped
<1> QED
  BY <1>2, <1>3, <1>4 DEF Keeps, CoreStep
\* mkdir, symlink and link.
LEMMA NewNameInv ==
    ASSUME Inv, NEW p \in Path,
           mkdir(p) \/ symlink(p) \/ \E i \in DOMAIN ident : link(i, p)
    PROVE  Keeps
<1>1. ASSUME NEW k, Make(p, k, Known)
      PROVE  Free(p) /\ UNCHANGED fds /\ \E o \in Object : node' = Put(node, p, o)
  BY <1>1 DEF Make
<1>2. CASE mkdir(p) \/ symlink(p)
  <2>1. /\ call = Idle /\ call' = Stat(p)
        /\ UNCHANGED <<tableVars, kernelVars, history>>
        /\ \E k : Make(p, k, Known)
    BY <1>2 DEF mkdir, symlink
  <2> QED
    BY <1>1, <2>1, MakeInv
<1>3. ASSUME NEW i \in DOMAIN ident, link(i, p) PROVE Keeps
  <2>1. node[PathOf(i)] \in Object
    BY <1>3 DEF link, Exists, Inv, Core
  <2> QED
    BY <1>3, <2>1, MakeInv DEF link
<1> QED
  BY <1>2, <1>3

\* readdir, the listing: it lists paths.
LEMMA ReaddirInv ==
    ASSUME Inv, NEW i \in DOMAIN ident, readdir(i)
    PROVE  Keeps
<1>1. PathOf(i) \in Path
  BY Tracks DEF Inv, PathOf
<1>2. parent(PathOf(i)) \in Path
  BY <1>1, ParentIsPath
<1>3. Unnumbered(i) \in SUBSET Path
  BY <1>1, <1>2 DEF Unnumbered, Children, Inv, Core, TreeOK
<1>4. CallTyped'
  BY <1>3 DEF readdir, CallTyped
<1>5. Running' = Running
  BY DEF readdir, Running, Idle
<1> QED
  BY <1>4, <1>5, GoesOn DEF readdir

\* setattr, readdir's end.
LEMMA OtherInv ==
    ASSUME Inv,
           \/ listEnds \/ setattrEnds
           \/ \E i \in DOMAIN by_inode : truncate(i) \/ setMtime(i)
    PROVE  Keeps
<1>1. CASE listEnds \/ setattrEnds
  <2>1. /\ call.op \in {"list", "setattr"} /\ call' = Idle
        /\ UNCHANGED <<tableVars, deviceVars, kernelVars, history>>
    BY <1>1 DEF listEnds, setattrEnds
  <2>2. CallTyped' /\ Running' = Running
    BY <2>1 DEF CallTyped, Running, Idle
  <2> QED
    BY <2>1, <2>2, GoesOn
<1>2. ASSUME NEW i \in DOMAIN by_inode, truncate(i) \/ setMtime(i) PROVE Keeps
  <2>1. /\ call = Idle \/ call = [op |-> "setattr", inode |-> i, did |-> "size"]
        /\ \E w \in {"size", "time"} : call' = [op |-> "setattr", inode |-> i, did |-> w]
        /\ UNCHANGED <<tableVars, deviceVars, kernelVars, history>>
    BY <1>2 DEF truncate, setMtime
  <2>2. i \in Nat
    BY DEF Inv, Core, IP!Inv, IP!TypeOK
  <2>3. CallTyped'
    BY <2>1, <2>2 DEF CallTyped
  <2>4. Running' = Running
    BY <2>1 DEF Running, Idle
  <2> QED
    BY <2>1, <2>3, <2>4, GoesOn
<1> QED
  BY <1>1, <1>2

\* Every step preserves the invariant, and is one of the table's or none of it.
LEMMA NextInv == Inv /\ [Next]_vars => Keeps
<1> SUFFICES ASSUME Inv, [Next]_vars PROVE Keeps
  OBVIOUS
<1>1. ASSUME NEW p \in Path, lookup(p) PROVE Keeps
  BY <1>1, LookupInv
<1>2. ASSUME NEW p \in Path, remove(p) PROVE Keeps
  BY <1>2, RemoveInv
<1>3. ASSUME NEW p \in Path, mkdir(p) \/ symlink(p) PROVE Keeps
  BY <1>3, NewNameInv
<1>4. ASSUME NEW from \in Path, NEW to \in Path, rename(from, to) PROVE Keeps
  BY <1>4, RenameInv
<1>5. ASSUME NEW i \in DOMAIN ident, readdir(i) PROVE Keeps
  BY <1>5, ReaddirInv
<1>6. ASSUME NEW i \in DOMAIN ident, NEW mode \in Modes, open(i, mode) PROVE Keeps
  BY <1>6, OpenInv
<1>7. ASSUME NEW i \in DOMAIN ident, NEW p \in Path, link(i, p) PROVE Keeps
  BY <1>7, NewNameInv
<1>8. ASSUME NEW p \in Path, NEW mode \in Modes, create(p, mode) PROVE Keeps
  BY <1>8, CreateInv
<1>9. ASSUME NEW d \in DOMAIN held, release(d) PROVE Keeps
  BY <1>9, ReleaseInv
<1>10. ASSUME NEW i \in DOMAIN by_inode, truncate(i) \/ setMtime(i) PROVE Keeps
  BY <1>10, OtherInv
<1>11. CASE setattrEnds \/ listEnds
  BY <1>11, OtherInv
<1>12. CASE statEntry
  BY <1>12, StatEntryInv
<1>13. CASE statCreated
  BY <1>13, StatCreatedInv
<1>14. CASE closeCreated
  BY <1>14, CloseCreatedInv
<1>15. CASE listEntry
  BY <1>15, ListEntryInv
<1>16. CASE Elsewhere
  BY <1>16, ElsewhereInv
<1>17. CASE UNCHANGED vars
  <2>1. UNCHANGED <<tableVars, deviceVars, kernelVars, call, history>>
    BY <1>17 DEF vars
  <2>2. CallTyped' /\ Running' = Running
    BY <2>1 DEF Inv, CallTyped, Running
  <2> QED
    BY <2>1, <2>2, GoesOn
<1> QED
  BY <1>1, <1>2, <1>3, <1>4, <1>5, <1>6, <1>7, <1>8, <1>9, <1>10, <1>11, <1>12,
     <1>13, <1>14, <1>15, <1>16, <1>17 DEF Next

\* The inductive invariant holds in every state.
THEOREM Invariant == Spec => []Inv
<1>1. Inv /\ [Next]_vars => Inv'
  BY NextInv DEF Keeps
<1> QED
  BY <1>1, InitInv, PTL DEF Spec
-----------------------------------------------------------------------------
(***************************************************************************)
(* The properties.                                                         *)
(***************************************************************************)
\* The handlers use the inode table only as InodeTable allows, so the theorems
\* of InodeTableProofs are theorems about the file system's table
\* (filesystem.rs:90-93, 207-213, 239-265, 379-433).
THEOREM UsesInodeTable == Spec => ImplementsInodeTable
<1>1. Init => Inodes!Init
  BY DEF Init
<1>2. Inv /\ [Next]_vars => [Inodes!Next]_(Inodes!vars)
  <2>1. TableStep => [Inodes!Next]_(Inodes!vars)
    BY SameTable DEF TableStep, Inodes!vars, IP!vars
  <2> QED
    BY <2>1, NextInv DEF Keeps
<1> QED
  BY <1>1, <1>2, Invariant, PTL DEF Spec, ImplementsInodeTable, Inodes!Spec

\* Types of the variables: every number and descriptor is within its bound.
THEOREM TypeCorrect == Spec => []TypeOK
<1>1. Inv => TypeOK
  <2> SUFFICES ASSUME Inv PROVE TypeOK
    OBVIOUS
  <2> USE DEF Inv, Core, HandlesOK
  <2>1. Inodes!TypeOK /\ next \in 2..(MaxInode + 1)
    BY SameTable DEF IP!Inv, IP!TypeOK
  <2>2. DeviceTypeOK
    BY DEF DeviceTypeOK, TreeOK, Range
  <2>3. Known \subseteq Object /\ Range(held) \subseteq Inodes!Inode
    BY DEF Known, Range
  <2>4. \A i \in Nat \ {0} : i < next => i \in Inodes!Inode
    BY <2>1, BoundAssumption DEF Inodes!Inode
  <2>5. DOMAIN ident \subseteq Inodes!Inode /\ gone \subseteq Inodes!Inode
    BY <2>4, Tracks DEF GoneDead
  <2>6. DOMAIN held \subseteq Fd /\ unclosed \subseteq Fd
    BY DEF DescriptorsOwned
  <2>7. call.op \in {"idle", "entry", "create", "close", "list", "setattr"}
    BY DEF CallTyped, Idle, Stat
  <2> QED
    BY <2>1, <2>2, <2>3, <2>5, <2>6, <2>7 DEF TypeOK
<1> QED
  BY <1>1, Invariant, PTL

\* As long as nobody else changes the tree, kernel, table and device agree on
\* every file (filesystem.rs:90-93, 104-113, 185-290).
THEOREM Agreed == Spec => []KernelAgrees
<1>1. Inv => KernelAgrees
  BY SameTable DEF Inv, Core, TrackedLive, Agree, KernelAgrees
<1> QED
  BY <1>1, Invariant, PTL

\* The number of a file that was removed or replaced never is that of a path
\* again, whatever is done elsewhere (inode.rs:31-71, filesystem.rs:207-265).
THEOREM StaysGone == Spec => []GoneStaysGone
<1>1. Inv => GoneStaysGone
  BY SameTable DEF Inv, Core, GoneDead, GoneStaysGone
<1> QED
  BY <1>1, Invariant, PTL

\* No descriptor is lost or closed twice (filesystem.rs:289-301, 352-377, 435-476).
THEOREM Owned == Spec => []DescriptorsOwned
<1>1. Inv => DescriptorsOwned
  BY DEF Inv, HandlesOK
<1> QED
  BY <1>1, Invariant, PTL

\* A setattr begins or goes on with an inode that is looked up in the table.
LEMMA SetsReachable ==
    ASSUME Inv, [Next]_vars, call'.op = "setattr", call' # call
    PROVE  call'.inode \in Reachable
<1> USE DEF Idle, Stat
<1>1. ASSUME NEW i \in DOMAIN by_inode, truncate(i) \/ setMtime(i)
      PROVE  call'.inode \in Reachable
  BY <1>1 DEF truncate, setMtime
<1>2. ASSUME NEW p \in Path, lookup(p) \/ remove(p) \/ mkdir(p) \/ symlink(p)
      PROVE  FALSE
  BY <1>2 DEF lookup, remove, mkdir, symlink
<1>3. ASSUME NEW from \in Path, NEW to \in Path, rename(from, to) PROVE FALSE
  BY <1>3 DEF rename
<1>4. ASSUME NEW i \in DOMAIN ident,
             \/ readdir(i)
             \/ \E mode \in Modes : open(i, mode)
             \/ \E p \in Path : link(i, p)
      PROVE  FALSE
  BY <1>4 DEF readdir, open, link
<1>5. ASSUME NEW p \in Path, NEW mode \in Modes, create(p, mode) PROVE FALSE
  BY <1>5 DEF create
<1>6. ASSUME NEW d \in DOMAIN held, release(d) PROVE FALSE
  BY <1>6 DEF release
<1>7. CASE setattrEnds \/ statEntry \/ closeCreated \/ listEnds
  BY <1>7 DEF setattrEnds, statEntry, closeCreated, listEnds
<1>8. CASE statCreated
  BY <1>8 DEF statCreated
<1>9. CASE listEntry
  <2>1. PICK r \in SUBSET Path : call = [op |-> "list", rest |-> r]
    BY <1>9 DEF listEntry, Inv, CallTyped
  <2>2. \E p \in r : call' = [op |-> "list", rest |-> r \ {p}]
    BY <1>9, <2>1 DEF listEntry
  <2> QED
    BY <2>2
<1>10. CASE Elsewhere \/ UNCHANGED vars
  BY <1>10 DEF Elsewhere, vars
<1> QED
  BY <1>1, <1>2, <1>3, <1>4, <1>5, <1>6, <1>7, <1>8, <1>9, <1>10 DEF Next

\* As long as nobody else changes the tree, setattr changes the object the
\* kernel means, unless that was replaced while it was open
\* (filesystem.rs:130-183).
THEOREM SetattrHits == Spec => SetattrHitsItsFile
<1> DEFINE Hits == call'.op = "setattr" /\ call' # call /\ changes = 0 =>
                      LET i == call'.inode
                      IN  \/ Meant(i) = {node[PathOf(i)]}
                          \/ i \in gone /\ Inodes!Orphan(i)
<1>1. Inv /\ [Next]_vars => [Hits]_vars
  <2> SUFFICES ASSUME Inv, [Next]_vars, call'.op = "setattr", call' # call, changes = 0,
                      NEW i, i = call'.inode
               PROVE  \/ Meant(i) = {node[PathOf(i)]}
                      \/ i \in gone /\ Inodes!Orphan(i)
    OBVIOUS
  <2>1. i \in DOMAIN by_inode /\ Meant(i) # {}
    BY SetsReachable DEF Reachable
  <2>2. CASE i \in DOMAIN ident
    BY <2>2 DEF Meant, PathOf, Inv, Core, Agree
  <2>3. CASE i \notin DOMAIN ident
    <3>1. PICK d \in DOMAIN held : held[d] = i
      BY <2>1, <2>3 DEF Meant, HandlesOf
    <3>2. i \in gone
      BY <2>3, <3>1 DEF Inv, HandlesOK, HeldKnown
    <3>3. ~Inodes!Live(i)
      BY <3>2, SameTable DEF Inv, Core, GoneDead
    <3> QED
      BY <2>1, <3>2, <3>3 DEF Inodes!Orphan
  <2> QED
    BY <2>2, <2>3
<1>2. Spec => [][Hits]_vars
  BY <1>1, Invariant, PTL DEF Spec
<1> QED
  BY <1>2 DEF SetattrHitsItsFile

(***************************************************************************)
(* Whatever sequence of requests the kernel makes, and whichever commands  *)
(* fail, what is proved of the inode table holds of the one in the file    *)
(* system: a number is never given to another file (filesystem.rs:110,     *)
(* 202), a directory moves with all that is below it, and a number is cut  *)
(* off from its path only by a rename onto it, and for good.               *)
(***************************************************************************)
THEOREM TableHolds ==
    Spec => /\ []IP!PathEntriesBacked
            /\ IP!NumbersNeverReused
            /\ IP!SubtreesStayTogether
            /\ IP!CutOffOnlyByReplacement
            /\ IP!OrphansFrozen
<1>1. Inodes!Init => IP!Init
  BY SameTable
<1>2. [Inodes!Next]_(Inodes!vars) => [IP!Next]_(IP!vars)
  BY SameTable DEF Inodes!vars, IP!vars
<1>3. Spec => IP!Spec
  BY <1>1, <1>2, UsesInodeTable, PTL DEF ImplementsInodeTable, Inodes!Spec, IP!Spec
<1>4. IP!Spec => /\ []IP!PathEntriesBacked
                 /\ IP!NumbersNeverReused
                 /\ IP!SubtreesStayTogether
                 /\ IP!CutOffOnlyByReplacement
                 /\ IP!OrphansFrozen
  BY TableAssumptions, IP!Backed, IP!NeverReused, IP!StayTogether, IP!CutOff, IP!Frozen
<1> QED
  BY <1>3, <1>4
=============================================================================
