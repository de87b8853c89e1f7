----------------------------- MODULE AfcDevice -----------------------------
(***************************************************************************)
(* The device's file system, as the commands on paths of src/src/afc.rs    *)
(* let the code use it: a tree of objects and the descriptors it has open. *)
(* One operator is one command that succeeds; a command that fails has no  *)
(* effect.                                                                 *)
(*                                                                         *)
(* External: what the AFC service does.  It is taken to have the rules of  *)
(* the calls its requests are named after: rename(2), unlink(2), rmdir(2). *)
(***************************************************************************)
EXTENDS AfcPaths, FiniteSets, Functions

CONSTANTS MaxObject,   \* bound: objects of a kind at one time
          MaxFd        \* the descriptors the device can have open

ASSUME DeviceAssumption == MaxObject \in Nat \ {0} /\ MaxFd \in Nat

VARIABLES node,        \* path -> object
          fds          \* open descriptor -> object

deviceVars == <<node, fds>>

Fd == 1..MaxFd

\* An object is its kind and a number; a leaf is a file or a symbolic link.
Object == {"dir", "leaf"} \X (1..MaxObject)
RootObject == <<"dir", 1>>

DeviceInit ==
    /\ node = [p \in {Root} |-> RootObject]
    /\ fds = <<>>

DeviceTypeOK ==
    /\ DOMAIN node \subseteq Path
    /\ DOMAIN fds \subseteq Fd
    /\ Range(node) \union Range(fds) \subseteq Object

\* A new object differs from every one somebody still refers to: the tree, a
\* descriptor, or the client, which refers to those in `known`.
IsNew(o, known) ==
    LET inUse == Range(node) \union Range(fds) \union known
    IN  /\ o \notin inUse
        /\ \A n \in 1..(o[2] - 1) : <<o[1], n>> \in inUse

Exists(p) == p \in DOMAIN node
IsDir(p) == Exists(p) /\ node[p][1] = "dir"
Children(p) == {q \in DOMAIN node : q # Root /\ parent(q) = p}
Free(p) == ~Exists(p) /\ p # Root /\ IsDir(parent(p))

\* A new object of kind k at p.
Make(p, k, known) ==
    /\ Free(p)
    /\ \E o \in Object : o[1] = k /\ IsNew(o, known) /\ node' = Put(node, p, o)
    /\ UNCHANGED fds

Removable(p) == p # Root /\ Exists(p) /\ Children(p) = {}
Unlink(p) ==
    /\ Removable(p)
    /\ node' = Drop(node, p)
    /\ UNCHANGED fds

\* Two names of one file: a rename of one to the other succeeds and leaves both.
Twins(p, q) == Removable(p) /\ Removable(q) /\ node[p] = node[q]

\* A file replaces a file, a directory an empty one.
Move(from, to) ==
    LET moved == {p \in DOMAIN node : Under(p, from)}
        rest == DOMAIN node \ (moved \union {to})
        images == {Rebase(p, from, to) : p \in moved}
    IN  /\ from # Root /\ to # Root
        /\ Exists(from)
        /\ ~Nested(from, to)
        /\ Free(to) \/ (Removable(to) /\ IsDir(to) = IsDir(from))
        /\ images \subseteq Path
        /\ node' = IF Twins(from, to)
                   THEN node
                   ELSE [p \in rest \union images |->
                           IF p \in images THEN node[Rebase(p, to, from)] ELSE node[p]]
        /\ UNCHANGED fds

\* The descriptor the device gives to the next Open: one that is not open.  Which
\* of these it is makes no difference to anything, so it is always the same one.
NewFd == CHOOSE d \in Fd : d \notin DOMAIN fds

\* Open: every mode but RdOnly makes the file that is not there.
Open(p, mode, known) ==
    /\ Fd \ DOMAIN fds # {}
    /\ \/ /\ Exists(p) /\ ~IsDir(p)
          /\ fds' = Put(fds, NewFd, node[p])
          /\ UNCHANGED node
       \/ /\ mode # "RdOnly"
          /\ Free(p)
          /\ \E o \in Object :
                /\ o[1] = "leaf" /\ IsNew(o, known)
                /\ node' = Put(node, p, o)
                /\ fds' = Put(fds, NewFd, o)

CloseFd(d) == fds' = Drop(fds, d) /\ UNCHANGED node

\* What the device does without being asked.
Outside(known) ==
    \/ \E p \in Path, k \in {"dir", "leaf"} : Make(p, k, known)
    \/ \E p \in Path : Unlink(p)
    \/ \E from, to \in Path : Move(from, to)
=============================================================================
