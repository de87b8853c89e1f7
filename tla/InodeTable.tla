----------------------------- MODULE InodeTable -----------------------------
(***************************************************************************)
(* The table of src/src/inode.rs that gives every path of the mount the    *)
(* inode number the kernel knows it by.                                    *)
(*                                                                         *)
(* An operation runs under the Mutex of IfuseFilesystem and is one step.     *)
(* InodeTableLoops takes the loop of rename apart.                         *)
(***************************************************************************)
EXTENDS AfcPaths, FiniteSets

CONSTANT MaxInode      \* bound: the last inode number handed out

ASSUME InodeAssumption == MaxInode \in Nat \ {0}

VARIABLES next,        \* the number the next new path gets
          by_inode,    \* inode number -> path
          by_path      \* path -> inode number

vars == <<next, by_inode, by_path>>

RootInode == 1
Inode == 1..MaxInode
-----------------------------------------------------------------------------
\* (A mutant of the next definition: the subtree of a path is the path alone.)
SubtreeWithoutChildren(top) == {p \in DOMAIN by_path : p = top}

\* The tracked paths a rename or a removal of `top` selects, and their inodes.
Subtree(top) == {p \in DOMAIN by_path : Under(p, top)}
SubtreeInodes(top) == {by_path[p] : p \in Subtree(top)}

\* An inode is live when a lookup of its path returns it.  One that is in
\* by_inode and not live is what a rename over an existing entry leaves behind.
Live(i) ==
    /\ i \in DOMAIN by_inode
    /\ by_inode[i] \in DOMAIN by_path
    /\ by_path[by_inode[i]] = i

Orphan(i) == i \in DOMAIN by_inode /\ ~Live(i)
-----------------------------------------------------------------------------
(***************************************************************************)
(* Mutants: the bugs the properties below must catch.                      *)
(***************************************************************************)
\* inode: the number is derived from the size of the table.
inodeBySize(p) ==
    LET n == Cardinality(DOMAIN by_inode) + 1
    IN  IF p \in DOMAIN by_path
        THEN UNCHANGED vars
        ELSE /\ next <= MaxInode
             /\ next' = next + 1
             /\ by_inode' = Put(by_inode, n, p)
             /\ by_path' = Put(by_path, p, n)

\* rename: the paths move, the inodes keep the old ones.
renamePathsOnly(from, to) ==
    /\ by_path' = [q \in (DOMAIN by_path \ Subtree(from))
                          \union {Rebase(p, from, to) : p \in Subtree(from)} |->
                     IF Under(q, to) /\ Rebase(q, to, from) \in Subtree(from)
                     THEN by_path[Rebase(q, to, from)]
                     ELSE by_path[q]]
    /\ UNCHANGED <<next, by_inode>>

\* remove: the paths go, the inodes stay.
removePathsOnly(top) ==
    /\ by_path' = [p \in DOMAIN by_path \ Subtree(top) |-> by_path[p]]
    /\ UNCHANGED <<next, by_inode>>

\* remove: the inodes are selected by the path they have, not by by_path.
removeByInodePath(top) ==
    /\ by_path' = [p \in DOMAIN by_path \ Subtree(top) |-> by_path[p]]
    /\ by_inode' = [i \in {j \in DOMAIN by_inode : ~Under(by_inode[j], top)}
                       |-> by_inode[i]]
    /\ UNCHANGED next
-----------------------------------------------------------------------------
Init ==
    /\ next = RootInode + 1
    /\ by_inode = [i \in {RootInode} |-> Root]
    /\ by_path = [p \in {Root} |-> RootInode]

\* inode(path): the number of a path, a new one the first time it is asked.
inode(p) ==
    IF p \in DOMAIN by_path
    THEN UNCHANGED vars
    ELSE /\ next <= MaxInode
         /\ next' = next + 1
         /\ by_inode' = Put(by_inode, next, p)
         /\ by_path' = Put(by_path, p, next)

\* rename(from, to): every tracked path of the subtree of `from` moves, and an
\* entry that was at its new place is overwritten in by_path only.
\* The kernel refuses a rename of the root and of a directory into its own
\* subtree or onto one of its ancestors.
MayRename(from, to) ==
    /\ from # Root /\ to # Root
    /\ ~Nested(from, to)

\* Bound: no tracked path gets deeper than MaxDepth.
WithinDepth(from, to) ==
    \A p \in Subtree(from) : Rebase(p, from, to) \in Path

rename(from, to) ==
    LET Moved == Subtree(from)
        Images == {Rebase(p, from, to) : p \in Moved}
        OldPath(i) == CHOOSE p \in Moved : by_path[p] = i
    IN  /\ by_path' = [q \in (DOMAIN by_path \ Moved) \union Images |->
                         IF q \in Images THEN by_path[Rebase(q, to, from)]
                                         ELSE by_path[q]]
        /\ by_inode' = [i \in DOMAIN by_inode \union SubtreeInodes(from) |->
                         IF i \in SubtreeInodes(from)
                         THEN Rebase(OldPath(i), from, to)
                         ELSE by_inode[i]]
        /\ UNCHANGED next

\* remove(path): the subtree goes from both maps.
remove(top) ==
    /\ by_path' = [p \in DOMAIN by_path \ Subtree(top) |-> by_path[p]]
    /\ by_inode' = [i \in DOMAIN by_inode \ SubtreeInodes(top) |-> by_inode[i]]
    /\ UNCHANGED next

Rename(from, to) ==
    /\ MayRename(from, to)
    /\ WithinDepth(from, to)
    /\ rename(from, to)
Remove(p) == p # Root /\ remove(p)

Next ==
    \/ \E p \in Path : inode(p)
    \/ \E from, to \in Path : Rename(from, to)
    \/ \E p \in Path : Remove(p)

Spec == Init /\ [][Next]_vars
-----------------------------------------------------------------------------
TypeOK ==
    /\ next \in 2..(MaxInode + 1)
    /\ DOMAIN by_inode \subseteq 1..(next - 1)
    /\ \A i \in DOMAIN by_inode : by_inode[i] \in Path
    /\ DOMAIN by_path \subseteq Path
    /\ \A p \in DOMAIN by_path : by_path[p] \in 1..(next - 1)
    /\ by_inode = [i \in DOMAIN by_inode |-> by_inode[i]]
    /\ by_path = [p \in DOMAIN by_path |-> by_path[p]]

(***************************************************************************)
(* Whatever number a lookup answers with, the handler the kernel calls     *)
(* next with that number gets the same path back from `path`: the two maps *)
(* never disagree on a path that is tracked.  No two paths share a number. *)
(***************************************************************************)
PathEntriesBacked ==
    \A p \in DOMAIN by_path :
        /\ by_path[p] \in DOMAIN by_inode
        /\ by_inode[by_path[p]] = p

(***************************************************************************)
(* A number that was handed out once is never handed out for something     *)
(* else: entries carry Generation(0), so the kernel would take a reused    *)
(* number for the file that had it before (filesystem.rs:110, 202).        *)
(***************************************************************************)
NumbersNeverReused ==
    [][/\ next' >= next
       /\ \A i \in DOMAIN by_inode' \ DOMAIN by_inode : i >= next]_vars

(***************************************************************************)
(* A directory moves with everything below it: if the path of a live inode *)
(* changes, every live inode below it that stays in the table keeps its    *)
(* place relative to it (the test renames_entire_subtree, for any table).  *)
(***************************************************************************)
SubtreesStayTogether ==
    [][\A i, j \in DOMAIN by_inode \intersect DOMAIN by_inode' :
          /\ Live(i) /\ Live(j)
          /\ Under(by_inode[j], by_inode[i])
          /\ by_inode'[i] # by_inode[i]
          => by_inode'[j] = Rebase(by_inode[j], by_inode[i], by_inode'[i])]_vars

(***************************************************************************)
(* The only way an inode is cut off from its path while it stays in the    *)
(* table is that a rename moved another inode onto that path: what the     *)
(* kernel still holds is then an alias of the file that replaced it.       *)
(***************************************************************************)
CutOffOnlyByReplacement ==
    [][\A i \in DOMAIN by_inode \intersect DOMAIN by_inode' :
          Live(i) /\ ~Live(i)' =>
             /\ by_inode'[i] = by_inode[i]
             /\ \E j \in DOMAIN by_inode \ {i} :
                   /\ Live(j) /\ Live(j)'
                   /\ by_inode'[j] = by_inode[i]
                   /\ by_inode[j] # by_inode'[j]]_vars

(***************************************************************************)
(* What was cut off stays so: no operation repairs or drops such an inode, *)
(* which keeps the path it had (a remove or a rename only visits the       *)
(* inodes by_path leads to).                                               *)
(***************************************************************************)
OrphansFrozen ==
    [][\A i \in DOMAIN by_inode :
          Orphan(i) => /\ i \in DOMAIN by_inode'
                       /\ by_inode'[i] = by_inode[i]
                       /\ Orphan(i)']_vars
=============================================================================
