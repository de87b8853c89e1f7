-------------------------- MODULE InodeTableLoops --------------------------
(***************************************************************************)
(* InodeTable::rename and ::remove as the code runs them: the moves        *)
(* (removals) are collected first, then carried out one by one, in the     *)
(* order in which a HashMap iterates - any order.  The module implements   *)
(* InodeTable, where each of them is one step.                             *)
(***************************************************************************)
EXTENDS Naturals, Sequences, FiniteSets

CONSTANTS Name, MaxDepth, MaxInode

\* The bounds are those of InodeTable.
ASSUME TableAssumption == MaxDepth \in Nat \ {0} /\ MaxInode \in Nat \ {0}

VARIABLES next, by_inode, by_path,
          op,          \* the call that runs: "idle", "rename" or "remove"
          args,        \* its paths <<from, to>> (<<path, path>> for remove)
          todo,        \* the moves or removals the loop has not reached
          began        \* the maps when the call began

loopVars == <<next, by_inode, by_path, op, args, todo, began>>
table == <<next, by_inode, by_path>>

T == INSTANCE InodeTable

\* While a call runs, the Mutex keeps everyone from seeing the maps: what
\* others can see is the table it started from.
ShownMaps == IF op = "idle" THEN [inode |-> by_inode, path |-> by_path] ELSE began

Table == INSTANCE InodeTable WITH by_inode <- ShownMaps.inode,
                                    by_path <- ShownMaps.path
-----------------------------------------------------------------------------
LoopsInit ==
    /\ T!Init
    /\ op = "idle"
    /\ args = <<T!Root, T!Root>>
    /\ todo = {}
    /\ began = [inode |-> by_inode, path |-> by_path]

Lookup(p) ==
    /\ op = "idle"
    /\ T!inode(p)
    /\ UNCHANGED <<op, args, todo, began>>

Collect(kind, from, to) ==
    /\ op = "idle"
    /\ op' = kind
    /\ args' = <<from, to>>
    /\ todo' = {[path |-> p, inode |-> by_path[p]] : p \in T!Subtree(from)}
    /\ began' = [inode |-> by_inode, path |-> by_path]
    /\ UNCHANGED table

BeginRename(from, to) ==
    /\ T!MayRename(from, to)
    /\ T!WithinDepth(from, to)
    /\ Collect("rename", from, to)
BeginRemove(p) == p # T!Root /\ Collect("remove", p, p)

\* (Mutant: the old path is not taken out.)
MoveOneKeepsOld ==
    /\ op = "rename"
    /\ \E m \in todo :
          LET new == T!Rebase(m.path, args[1], args[2])
          IN  /\ by_path' = T!Put(by_path, new, m.inode)
              /\ by_inode' = T!Put(by_inode, m.inode, new)
              /\ todo' = todo \ {m}
    /\ UNCHANGED <<next, op, args, began>>

MoveOne ==
    /\ op = "rename"
    /\ \E m \in todo :
          LET new == T!Rebase(m.path, args[1], args[2])
          IN  /\ by_path' = T!Put(T!Drop(by_path, m.path), new, m.inode)
              /\ by_inode' = T!Put(by_inode, m.inode, new)
              /\ todo' = todo \ {m}
    /\ UNCHANGED <<next, op, args, began>>

RemoveOne ==
    /\ op = "remove"
    /\ \E m \in todo :
          /\ by_path' = T!Drop(by_path, m.path)
          /\ by_inode' = T!Drop(by_inode, m.inode)
          /\ todo' = todo \ {m}
    /\ UNCHANGED <<next, op, args, began>>

Finish ==
    /\ op # "idle"
    /\ todo = {}
    /\ op' = "idle"
    /\ began' = [inode |-> by_inode, path |-> by_path]
    /\ UNCHANGED <<next, by_inode, by_path, args, todo>>

LoopsNext ==
    \/ \E p \in T!Path : Lookup(p)
    \/ \E from, to \in T!Path : BeginRename(from, to)
    \/ \E p \in T!Path : BeginRemove(p)
    \/ MoveOne
    \/ RemoveOne
    \/ Finish

LoopsSpec == LoopsInit /\ [][LoopsNext]_loopVars
-----------------------------------------------------------------------------
(***************************************************************************)
(* The loops compute what InodeTable says rename and remove do in one      *)
(* step, with the arguments they were called with, whatever order the      *)
(* HashMap iterates in (inode.rs:49-56, 67-70).                            *)
(***************************************************************************)
ImplementsTable ==
    /\ Table!Spec
    /\ [][op # op' /\ op' = "idle" =>
              \/ op = "rename" /\ Table!Rename(args[1], args[2])
              \/ op = "remove" /\ Table!Remove(args[1])]_loopVars
=============================================================================
