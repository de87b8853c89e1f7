------------------------------- MODULE FuseFs -------------------------------
(***************************************************************************)
(* src/src/filesystem.rs: the handlers that change what is on the device,  *)
(* in the inode table or in the kernel's view of both.                     *)
(*                                                                         *)
(* A handler resolves the numbers the kernel gives it to paths, sends      *)
(* commands to the backend one after the other, and tells the inode table  *)
(* what became of them.  One action is one command with what the handler   *)
(* does before it and after it up to the next command.  fuser dispatches   *)
(* on one thread (fuser_config leaves the number of threads alone), so at  *)
(* most one handler is between two commands: `call`.                       *)
(*                                                                         *)
(* Any command may fail on the device without an effect, and the device's  *)
(* own programs may change the tree between any two commands: `changes`    *)
(* counts how often they have.                                             *)
(*                                                                         *)
(* External: the device (a tree of objects and the descriptors it has      *)
(* open), and the kernel, of which we keep what it was told: which object  *)
(* each inode number stood for when it was handed out, which of them it    *)
(* has unlinked or replaced, and which handles it has open on which inode. *)
(* What only reads (getattr, readlink, statfs) changes nothing here; reads *)
(* and writes through a handle are in FileHandlers.                        *)
(***************************************************************************)
EXTENDS AfcDevice

CONSTANTS MaxInode,
          MaxChanges   \* bound: the changes of the device's own programs

ASSUME BoundAssumption == MaxInode \in Nat \ {0} /\ MaxChanges \in Nat

VARIABLES next, by_inode, by_path,   \* the inode table
          ident,     \* the kernel: inode number -> the object it stands for
          gone,      \* the numbers the kernel unlinked or replaced (history)
          held,      \* the kernel: open file handle -> its inode number
          call,      \* the handler that is between two commands
          unclosed,  \* descriptors whose Close the device refused (history)
          changes    \* of the tree that are not ours (history)

tableVars == <<next, by_inode, by_path>>
kernelVars == <<ident, gone, held>>
history == <<unclosed, changes>>
vars == <<tableVars, deviceVars, kernelVars, call, history>>

Inodes == INSTANCE InodeTable

Idle == [op |-> "idle"]
Known == Range(ident)
-----------------------------------------------------------------------------
(***************************************************************************)
(* The kernel.  A number it still holds stands for the path the table has  *)
(* for it; it names children only in directories it has not removed, gives *)
(* a new name only where it knows of nothing, and removes, renames and     *)
(* opens only what it has looked up.                                       *)
(***************************************************************************)
PathOf(i) == by_inode[i]                            \* IfuseFilesystem::path
Tracked == DOMAIN ident \intersect DOMAIN by_inode

\* The handles of number i: through them the kernel still uses a number that
\* it has unlinked or replaced.
HandlesOf(i) == {d \in DOMAIN held : held[d] = i}
Directories == {i \in Tracked : ident[i][1] = "dir"}

\* IfuseFilesystem::named_path, for a directory the kernel knows.
NamedPaths == {child(PathOf(i), n) : i \in Directories, n \in Name}
                  \intersect Path

LinkedAt(p) == {i \in Tracked : by_inode[i] = p}

\* The kernel takes p out of its tree, with what it still knows below it.
Forgets(p) ==
    LET below == {i \in Tracked : Under(by_inode[i], p)}
    IN  /\ gone' = gone \union LinkedAt(p)
        /\ ident' = [i \in DOMAIN ident \ below |-> ident[i]]

\* reply.entry / reply.created: number i stands for the object o.
Told(i, o) ==
    ident' = IF i \in DOMAIN ident THEN ident ELSE Put(ident, i, o)

\* IfuseFilesystem::entry and the reply, after a successful FileInfo of p.
Entry(p) ==
    /\ Inodes!inode(p)
    /\ Told(by_path'[p], node[p])
-----------------------------------------------------------------------------
Init ==
    /\ Inodes!Init
    /\ DeviceInit
    /\ ident = [i \in {Inodes!RootInode} |-> RootObject]
    /\ gone = {}
    /\ held = <<>>
    /\ call = Idle
    /\ unclosed = {}
    /\ changes = 0
-----------------------------------------------------------------------------
(***************************************************************************)
(* Handlers of one command.  A command that fails leaves everything as it  *)
(* is, and the kernel gets an error.                                       *)
(***************************************************************************)
lookup(p) ==
    /\ call = Idle
    /\ p \in NamedPaths
    /\ Exists(p)
    /\ Entry(p)
    /\ UNCHANGED <<deviceVars, gone, held, call, history>>

\* (Mutant: the table is told although the device refused.)
removeAnyway(p) ==
    /\ call = Idle
    /\ p \in NamedPaths
    /\ LinkedAt(p) # {}
    /\ Inodes!Remove(p)
    /\ IF Removable(p)
       THEN Unlink(p) /\ Forgets(p)
       ELSE UNCHANGED <<deviceVars, ident, gone>>
    /\ UNCHANGED <<held, call, history>>

\* unlink and rmdir.
remove(p) ==
    /\ call = Idle
    /\ p \in NamedPaths
    /\ LinkedAt(p) # {}
    /\ Unlink(p)
    /\ Inodes!remove(p)
    /\ Forgets(p)
    /\ UNCHANGED <<held, call, history>>

\* (Mutants: the table is not told; the new name gets a new number.)
renameUntold(from, to) ==
    /\ call = Idle
    /\ {from, to} \subseteq NamedPaths
    /\ LinkedAt(from) # {}
    /\ Move(from, to)
    /\ Forgets(to)
    /\ UNCHANGED <<tableVars, held, call, history>>

renameAsNew(from, to) ==
    /\ call = Idle
    /\ {from, to} \subseteq NamedPaths
    /\ LinkedAt(from) # {}
    /\ Move(from, to)
    /\ by_path' = Put(Drop(by_path, from), to, next)
    /\ by_inode' = Put(by_inode, next, to)
    /\ next' = next + 1
    /\ next <= MaxInode
    /\ Forgets(to)
    /\ UNCHANGED <<held, call, history>>

\* rename without flags; any flag is refused with EINVAL.
rename(from, to) ==
    /\ call = Idle
    /\ {from, to} \subseteq NamedPaths
    /\ LinkedAt(from) # {}
    /\ Inodes!WithinDepth(from, to)
    /\ Move(from, to)
    /\ Inodes!rename(from, to)
    /\ Forgets(to)
    /\ UNCHANGED <<held, call, history>>

open(i, mode) ==
    /\ call = Idle
    /\ i \in Tracked
    /\ Open(PathOf(i), mode, Known)
    /\ held' = Put(held, NewFd, i)
    /\ UNCHANGED <<tableVars, ident, gone, call, history>>

\* The kernel drops the handle whatever the answer.
release(d) ==
    /\ call = Idle
    /\ d \in DOMAIN held
    /\ held' = Drop(held, d)
    /\ \/ CloseFd(d) /\ UNCHANGED unclosed
       \/ unclosed' = unclosed \union {d} /\ UNCHANGED fds
    /\ UNCHANGED <<tableVars, node, ident, gone, call, changes>>
-----------------------------------------------------------------------------
(***************************************************************************)
(* mkdir, symlink and link: make the entry, then stat it.                  *)
(***************************************************************************)
NewNames == {p \in NamedPaths : LinkedAt(p) = {}}

Stat(p) == [op |-> "entry", path |-> p]

mkdir(p) ==
    /\ call = Idle
    /\ p \in NewNames
    /\ Make(p, "dir", Known)
    /\ call' = Stat(p)
    /\ UNCHANGED <<tableVars, kernelVars, history>>

symlink(p) ==
    /\ call = Idle
    /\ p \in NewNames
    /\ Make(p, "leaf", Known)
    /\ call' = Stat(p)
    /\ UNCHANGED <<tableVars, kernelVars, history>>

\* A second name for the object of inode i.
link(i, p) ==
    /\ call = Idle
    /\ i \in Tracked
    /\ p \in NewNames
    /\ Free(p)
    /\ Exists(PathOf(i)) /\ ~IsDir(PathOf(i))
    /\ node' = Put(node, p, node[PathOf(i)])
    /\ call' = Stat(p)
    /\ UNCHANGED <<tableVars, kernelVars, fds, history>>

\* The FileInfo they end with.
statEntry ==
    /\ call.op = "entry"
    /\ call' = Idle
    /\ \/ Exists(call.path) /\ Entry(call.path)
       \/ UNCHANGED <<tableVars, ident>>
    /\ UNCHANGED <<deviceVars, gone, held, history>>
-----------------------------------------------------------------------------
(***************************************************************************)
(* create: open, then stat; when that fails the descriptor is closed.      *)
(***************************************************************************)
create(p, mode) ==
    /\ call = Idle
    /\ p \in NewNames
    /\ Open(p, mode, Known)
    /\ call' = [op |-> "create", path |-> p, fd |-> NewFd]
    /\ UNCHANGED <<tableVars, kernelVars, history>>

\* (Mutant: a create that fails returns without closing.)
statCreatedLeaving ==
    /\ call.op = "create"
    /\ \/ /\ Exists(call.path)
          /\ Entry(call.path)
          /\ held' = Put(held, call.fd, by_path'[call.path])
       \/ UNCHANGED <<tableVars, ident, held>>
    /\ call' = Idle
    /\ UNCHANGED <<deviceVars, gone, history>>

statCreated ==
    /\ call.op = "create"
    /\ \/ /\ Exists(call.path)
          /\ Entry(call.path)
          /\ held' = Put(held, call.fd, by_path'[call.path])
          /\ call' = Idle
       \/ /\ call' = [op |-> "close", fd |-> call.fd]
          /\ UNCHANGED <<tableVars, ident, held>>
    /\ UNCHANGED <<deviceVars, gone, history>>

closeCreated ==
    /\ call.op = "close"
    /\ call' = Idle
    /\ \/ CloseFd(call.fd) /\ UNCHANGED unclosed
       \/ unclosed' = unclosed \union {call.fd} /\ UNCHANGED fds
    /\ UNCHANGED <<tableVars, node, kernelVars, changes>>
-----------------------------------------------------------------------------
(***************************************************************************)
(* readdir: list, then stat each entry and give it a number; the kernel    *)
(* does not keep these numbers.  The first stat that fails ends it, and so *)
(* does a full reply.  An entry that has a number changes nothing: only    *)
(* those without one are kept, and a readdir of none is no step.           *)
(***************************************************************************)
Unnumbered(i) ==
    (Children(PathOf(i)) \union {PathOf(i), parent(PathOf(i))}) \ DOMAIN by_path

readdir(i) ==
    /\ call = Idle
    /\ i \in Directories
    /\ IsDir(PathOf(i))
    /\ Unnumbered(i) # {}
    /\ call' = [op |-> "list", rest |-> Unnumbered(i)]
    /\ UNCHANGED <<tableVars, deviceVars, kernelVars, history>>

\* The names are taken in the order of the listing, any order.
listEntry ==
    /\ call.op = "list"
    /\ \E p \in call.rest :
          /\ Exists(p)
          /\ Inodes!inode(p)
          /\ call' = [call EXCEPT !.rest = @ \ {p}]
    /\ UNCHANGED <<deviceVars, kernelVars, history>>

listEnds ==
    /\ call.op = "list"
    /\ call' = Idle
    /\ UNCHANGED <<tableVars, deviceVars, kernelVars, history>>
-----------------------------------------------------------------------------
(***************************************************************************)
(* setattr: Truncate when a size is asked for, SetMtime when a time is,    *)
(* then FileInfo, each with the path the number has; the handle the kernel *)
(* may have it from is not looked at.  A number without a path is refused  *)
(* with EIO.  `did` is the last command that changed the object.           *)
(***************************************************************************)
\* What the kernel means by number i.
Meant(i) == IF i \in DOMAIN ident THEN {ident[i]} ELSE {fds[d] : d \in HandlesOf(i)}

Reachable == {i \in DOMAIN by_inode : Meant(i) # {}}

truncate(i) ==
    /\ call = Idle
    /\ i \in Reachable
    /\ Exists(PathOf(i)) /\ ~IsDir(PathOf(i))
    /\ call' = [op |-> "setattr", inode |-> i, did |-> "size"]
    /\ UNCHANGED <<tableVars, deviceVars, kernelVars, history>>

setMtime(i) ==
    /\ call \in {Idle, [op |-> "setattr", inode |-> i, did |-> "size"]}
    /\ i \in Reachable
    /\ Exists(PathOf(i))
    /\ call' = [op |-> "setattr", inode |-> i, did |-> "time"]
    /\ UNCHANGED <<tableVars, deviceVars, kernelVars, history>>

\* The FileInfo, or a command that fails.
setattrEnds ==
    /\ call.op = "setattr"
    /\ call' = Idle
    /\ UNCHANGED <<tableVars, deviceVars, kernelVars, history>>
-----------------------------------------------------------------------------
Elsewhere ==
    /\ changes < MaxChanges
    /\ Outside(Known)
    /\ changes' = changes + 1
    /\ UNCHANGED <<tableVars, kernelVars, call, unclosed>>

\* What the flags of an open ask of the device; truncation comes before append.
open_mode(acc, trunc, append) ==
    CASE acc = "O_RDONLY" -> "RdOnly"
      [] acc = "O_WRONLY" -> IF trunc THEN "WrOnly" ELSE IF append THEN "Append" ELSE "Rw"
      [] acc = "O_RDWR"   -> IF trunc THEN "Wr" ELSE IF append THEN "RdAppend" ELSE "Rw"

Modes == {open_mode(acc, trunc, append) :
            acc \in {"O_RDONLY", "O_WRONLY", "O_RDWR"}, trunc, append \in BOOLEAN}

Next ==
    \/ \E p \in Path : lookup(p) \/ remove(p) \/ mkdir(p) \/ symlink(p)
    \/ \E from, to \in Path : rename(from, to)
    \/ \E i \in DOMAIN ident :
          \/ readdir(i)
          \/ \E mode \in Modes : open(i, mode)
          \/ \E p \in Path : link(i, p)
    \/ \E p \in Path, mode \in Modes : create(p, mode)
    \/ \E d \in DOMAIN held : release(d)
    \/ \E i \in DOMAIN by_inode : truncate(i) \/ setMtime(i)
    \/ setattrEnds
    \/ statEntry \/ statCreated \/ closeCreated \/ listEntry \/ listEnds
    \/ Elsewhere

Spec == Init /\ [][Next]_vars
-----------------------------------------------------------------------------
TypeOK ==
    /\ Inodes!TypeOK
    /\ DeviceTypeOK
    /\ Known \subseteq Object
    /\ DOMAIN ident \subseteq Inodes!Inode
    /\ gone \subseteq Inodes!Inode
    /\ DOMAIN held \subseteq Fd /\ Range(held) \subseteq Inodes!Inode
    /\ unclosed \subseteq Fd
    /\ changes \in 0..MaxChanges
    /\ call.op \in {"idle", "entry", "create", "close", "list", "setattr"}

(***************************************************************************)
(* As long as nobody else changes the tree, kernel, table and device agree *)
(* on every file the kernel has not removed: the number the kernel holds   *)
(* leads through the table to the very object it was handed out for, after *)
(* any renames, replacements, removals and re-creations, and whatever      *)
(* commands failed in between.  And the table tracks only what is there:   *)
(* no failed or half-done operation leaves an entry behind.                *)
(***************************************************************************)
KernelAgrees ==
    changes = 0 =>
        /\ DOMAIN by_path \subseteq DOMAIN node
        /\ \A i \in DOMAIN ident : Inodes!Live(i) /\ node[by_inode[i]] = ident[i]

(***************************************************************************)
(* As long as nobody else changes the tree, setattr changes the very       *)
(* object the kernel means, also through a handle whose file was renamed - *)
(* but for one case: the file was replaced while it was open.  Then its    *)
(* number leads to whatever has the name from then on                      *)
(* (filesystem.rs:148).  One that was unlinked leads nowhere, so nothing   *)
(* else is hit.                                                            *)
(***************************************************************************)
SetattrHitsItsFile ==
    [][call'.op = "setattr" /\ call' # call /\ changes = 0 =>
          LET i == call'.inode
          IN  \/ Meant(i) = {node[PathOf(i)]}
              \/ i \in gone /\ Inodes!Orphan(i)]_vars

(***************************************************************************)
(* A number the kernel saw go is never the number of a path again, even if *)
(* the path comes back - with outside changes too.                         *)
(***************************************************************************)
GoneStaysGone == \A i \in gone : ~Inodes!Live(i)

(***************************************************************************)
(* Every descriptor the device has open is held by the kernel or by the    *)
(* handler that runs, not by both, or the device refused to close it; and  *)
(* what they hold is open - whatever the device's own programs do between  *)
(* the Open and the stat of create (filesystem.rs:435-469).                *)
(***************************************************************************)
DescriptorsOwned ==
    LET running == IF call.op \in {"create", "close"} THEN {call.fd} ELSE {}
    IN  /\ DOMAIN fds = DOMAIN held \union running \union unclosed
        /\ DOMAIN held \intersect (running \union unclosed) = {}
        /\ running \intersect unclosed = {}

(***************************************************************************)
(* The handlers use the table as InodeTable allows: what is proved of that *)
(* module holds of the file system's table.                                *)
(***************************************************************************)
ImplementsInodeTable == Inodes!Spec
=============================================================================
