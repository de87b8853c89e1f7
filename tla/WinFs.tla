------------------------------- MODULE WinFs -------------------------------
(***************************************************************************)
(* src/src/windows_filesystem.rs: the handlers that open and close         *)
(* handles or change the tree, over the same device as FuseFs.             *)
(*                                                                         *)
(* There is no inode table here: a context keeps the path it was opened    *)
(* with, and every later command of its handle goes to that path, also     *)
(* when the file has another name by then.                                 *)
(*                                                                         *)
(* The host is built with CoarseGuard (platform_windows.rs:13): one        *)
(* handler runs at a time, `call` is where it is between two commands.     *)
(* Any command may fail without an effect, and the device's own programs   *)
(* may change the tree between any two commands, as `changes` counts.      *)
(*                                                                         *)
(* External: WinFsp.  It knows every file by the name it has now; a file   *)
(* marked for deletion is not opened again while a handle on it is open; a *)
(* rename does not replace a file that is open, nor take away a directory  *)
(* above one.  Reads, writes and sizes are in FileHandlers, read_directory *)
(* in ReadDir.                                                             *)
(***************************************************************************)
EXTENDS AfcDevice

CONSTANTS Context,     \* bound: the handles that are open at one time
          MaxChanges,  \* bound: the changes of the device's own programs
          NoFd,        \* the descriptor of a context that has none
          NoObject     \* what a handle stands for that has lost its file

ASSUME ContextAssumption == MaxChanges \in Nat /\ NoFd \notin Fd /\ NoObject \notin Object

VARIABLES ctx,         \* open context -> what create_context put in it
          cleaned,     \* the contexts cleanup was called for
          call,        \* the handler that is between two commands
          name,        \* WinFsp: the name now of a context's file
          opened,      \* the object a context's handle was opened on (history)
          doomed,      \* WinFsp: the objects marked for deletion
          left,        \* open descriptors that nobody will close (history)
          changes      \* of the tree that are not ours (history)

contextVars == <<ctx, cleaned>>
winfspVars == <<name, opened, doomed>>
vars == <<deviceVars, contextVars, call, winfspVars, left, changes>>

Idle == [op |-> "idle"]
Known == (Range(opened) \union doomed) \ {NoObject}
Handles == DOMAIN ctx \ cleaned
FreeContexts == Context \ DOMAIN ctx

\* The objects that c's handle, or the name WinFsp has for it, stands for.
FileOf(c) == ({opened[c]} \ {NoObject}) \union {node[p] : p \in {name[c]} \intersect DOMAIN node}

\* WinFsp lets p be opened.
MayOpen(p) ==
    /\ FreeContexts # {}
    /\ \A c \in Handles : name[c] = p => opened[c] \notin doomed
-----------------------------------------------------------------------------
Init ==
    /\ DeviceInit
    /\ ctx = <<>>
    /\ cleaned = {}
    /\ call = Idle
    /\ name = <<>>
    /\ opened = <<>>
    /\ doomed = {}
    /\ left = {}
    /\ changes = 0

\* The handler ends with a context for p, which stands for object o.
create_context(p, dir, fd, o) ==
    \E c \in FreeContexts :
        /\ ctx' = Put(ctx, c, [path |-> p, directory |-> dir, descriptor |-> fd,
                               delete_pending |-> FALSE])
        /\ name' = Put(name, c, p)
        /\ opened' = Put(opened, c, o)

\* The handler ends with an error.
Refuse == call' = Idle /\ UNCHANGED <<deviceVars, contextVars, winfspVars>>
-----------------------------------------------------------------------------
(***************************************************************************)
(* open: stat, and for what is not a directory Open.                       *)
(***************************************************************************)
open(p) ==
    /\ call = Idle
    /\ MayOpen(p)
    /\ Exists(p)
    /\ IF IsDir(p)
       THEN create_context(p, TRUE, NoFd, node[p]) /\ UNCHANGED call
       ELSE call' = [op |-> "open", path |-> p] /\ UNCHANGED <<ctx, name, opened>>
    /\ UNCHANGED <<deviceVars, cleaned, doomed, left, changes>>

openFile ==
    /\ call.op = "open"
    /\ UNCHANGED <<left, changes>>
    /\ \/ \E mode \in {"RdOnly", "Rw"} :
             /\ Open(call.path, mode, Known)
             /\ create_context(call.path, FALSE, NewFd, fds'[NewFd])
             /\ call' = Idle
             /\ UNCHANGED <<cleaned, doomed>>
       \/ Refuse
-----------------------------------------------------------------------------
(***************************************************************************)
(* create: a directory or a symbolic link is made and stat'ed; a file is   *)
(* opened, sized and stat'ed.  It takes no care of what is there already,  *)
(* and an error after the Open leaves the descriptor open.                 *)
(***************************************************************************)
createEntry(p, kind) ==
    /\ call = Idle
    /\ MayOpen(p)
    /\ Make(p, kind, Known)
    /\ call' = [op |-> "made", path |-> p, directory |-> kind = "dir"]
    /\ UNCHANGED <<contextVars, winfspVars, left, changes>>

createFile(p) ==
    /\ call = Idle
    /\ MayOpen(p)
    /\ Open(p, "Wr", Known)
    /\ call' = [op |-> "created", path |-> p, fd |-> NewFd]
    /\ UNCHANGED <<contextVars, winfspVars, left, changes>>

statEntry ==
    /\ call.op = "made"
    /\ UNCHANGED <<left, changes>>
    /\ \/ /\ Exists(call.path)
          /\ create_context(call.path, call.directory, NoFd, node[call.path])
          /\ call' = Idle
          /\ UNCHANGED <<deviceVars, cleaned, doomed>>
       \/ Refuse

\* TruncateHandle, when a size is asked for, and the stat: either may fail.
statCreated ==
    /\ call.op = "created"
    /\ \/ /\ Exists(call.path)
          /\ create_context(call.path, FALSE, call.fd, fds[call.fd])
          /\ call' = Idle
          /\ UNCHANGED <<deviceVars, cleaned, doomed, left>>
       \/ Refuse /\ left' = left \union {call.fd}
    /\ UNCHANGED changes
-----------------------------------------------------------------------------
(***************************************************************************)
(* set_delete, cleanup and close: a handle is marked, the entry goes when  *)
(* the handle does, and the context when nothing uses it any more.         *)
(***************************************************************************)
\* WinFsp marks the file of a name, which all handles on that name share.
SameFile(c) == UNION {FileOf(h) : h \in {d \in Handles : name[d] = name[c]}}

\* A directory is listed and refused when it is not empty.
set_delete(c, delete_file) ==
    /\ call = Idle
    /\ c \in Handles
    /\ delete_file /\ ctx[c].directory =>
           Exists(ctx[c].path) /\ Children(ctx[c].path) = {}
    /\ ctx' = [ctx EXCEPT ![c].delete_pending = delete_file]
    /\ doomed' = IF delete_file THEN doomed \union SameFile(c) ELSE doomed \ SameFile(c)
    /\ UNCHANGED <<deviceVars, cleaned, call, name, opened, left, changes>>

\* The flags of the call are not looked at.  Remove may fail; nobody is told.
cleanup(c) ==
    /\ call = Idle
    /\ c \in Handles
    /\ cleaned' = cleaned \union {c}
    /\ \/ ctx[c].delete_pending /\ Unlink(ctx[c].path)
       \/ UNCHANGED deviceVars
    /\ UNCHANGED <<ctx, call, winfspVars, left, changes>>

\* WinFsp forgets what it knew of the handle.
Forget(c) ==
    /\ ctx' = Drop(ctx, c)
    /\ cleaned' = cleaned \ {c}
    /\ name' = Drop(name, c)
    /\ opened' = Drop(opened, c)
    /\ doomed' = doomed \intersect UNION {FileOf(h) : h \in DOMAIN ctx \ {c}}

\* (Mutants: the descriptor is forgotten; the entry is removed here, when the
\* name may be taken again.)
closeForgetting(c) ==
    /\ call = Idle
    /\ c \in cleaned
    /\ Forget(c)
    /\ UNCHANGED <<deviceVars, call, left, changes>>

closeRemoving(c) ==
    /\ call = Idle
    /\ c \in cleaned
    /\ Forget(c)
    /\ IF ctx[c].delete_pending /\ Removable(ctx[c].path)
       THEN Unlink(ctx[c].path)
       ELSE UNCHANGED deviceVars
    /\ left' = left \union ({ctx[c].descriptor} \ {NoFd})
    /\ UNCHANGED <<call, changes>>

close(c) ==
    /\ call = Idle
    /\ c \in cleaned
    /\ Forget(c)
    /\ \/ ctx[c].descriptor = NoFd /\ UNCHANGED <<deviceVars, left>>
       \/ ctx[c].descriptor # NoFd /\ CloseFd(ctx[c].descriptor) /\ UNCHANGED left
       \/ /\ ctx[c].descriptor # NoFd
          /\ left' = left \union {ctx[c].descriptor}
          /\ UNCHANGED deviceVars
    /\ UNCHANGED <<call, changes>>
-----------------------------------------------------------------------------
(***************************************************************************)
(* rename: stat of the target if it may be replaced, Remove if it is       *)
(* there, Rename.  The names are WinFsp's; the contexts keep their paths.  *)
(* WinFsp asks for no rename of the root, to the name a file has already,  *)
(* over a name with an open handle, or of what has one below it.           *)
(***************************************************************************)
rename(c, to, replace_if_exists) ==
    /\ call = Idle
    /\ c \in Handles
    /\ name[c] # Root /\ to # Root /\ to # name[c]
    /\ \A h \in Handles : ~Under(name[h], to)
                          /\ (Under(name[h], name[c]) => name[h] = name[c])
    /\ \/ /\ replace_if_exists
          /\ Exists(to)
          /\ call' = [op |-> "replace", path |-> name[c], to |-> to]
       \/ call' = [op |-> "rename", path |-> name[c], to |-> to]
    /\ UNCHANGED <<deviceVars, contextVars, winfspVars, left, changes>>

removeTarget ==
    /\ call.op = "replace"
    /\ UNCHANGED <<left, changes>>
    /\ \/ /\ Unlink(call.to)
          /\ call' = [call EXCEPT !.op = "rename"]
          /\ UNCHANGED <<contextVars, winfspVars>>
       \/ Refuse

\* (Mutant: an error of the device is not passed on.)
renameNowAnyway ==
    /\ call.op = "rename"
    /\ Move(call.path, call.to) \/ UNCHANGED deviceVars
    /\ name' = [c \in DOMAIN name |->
                  IF name[c] = call.path /\ c \in Handles THEN call.to ELSE name[c]]
    /\ call' = Idle
    /\ UNCHANGED <<contextVars, opened, doomed, left, changes>>

renameNow ==
    /\ call.op = "rename"
    /\ UNCHANGED <<left, changes>>
    /\ \/ /\ Move(call.path, call.to)
          /\ name' = [c \in DOMAIN name |->
                        IF name[c] = call.path /\ c \in Handles THEN call.to ELSE name[c]]
          /\ call' = Idle
          /\ UNCHANGED <<contextVars, opened, doomed>>
       \/ Refuse
-----------------------------------------------------------------------------
(***************************************************************************)
(* set_reparse_point: the entry is removed and a symbolic link put in its  *)
(* place, which the handles on it stand for from then on.                  *)
(***************************************************************************)
set_reparse_point(c) ==
    /\ call = Idle
    /\ c \in Handles
    /\ Unlink(ctx[c].path)
    /\ call' = [op |-> "relink", path |-> ctx[c].path, was |-> node[ctx[c].path]]
    /\ UNCHANGED <<contextVars, winfspVars, left, changes>>

Instead(f, o) == [c \in DOMAIN f |-> IF f[c] = call.was THEN o ELSE f[c]]

relink ==
    /\ call.op = "relink"
    /\ call' = Idle
    /\ \/ \E o \in Object :
             /\ Make(call.path, "leaf", Known \union {call.was})
             /\ node'[call.path] = o
             /\ opened' = Instead(opened, o)
             /\ doomed' = IF call.was \in doomed THEN (doomed \ {call.was}) \union {o}
                                                 ELSE doomed
       \/ /\ opened' = Instead(opened, NoObject)
          /\ doomed' = doomed \ {call.was}
          /\ UNCHANGED deviceVars
    /\ UNCHANGED <<contextVars, name, left, changes>>
-----------------------------------------------------------------------------
Elsewhere ==
    /\ changes < MaxChanges
    /\ Outside(Known)
    /\ changes' = changes + 1
    /\ UNCHANGED <<contextVars, call, winfspVars, left>>

Next ==
    \/ \E p \in Path :
          \/ open(p) \/ createFile(p)
          \/ \E kind \in {"dir", "leaf"} : createEntry(p, kind)
    \/ openFile \/ statEntry \/ statCreated
    \/ \E c \in DOMAIN ctx :
          \/ cleanup(c) \/ close(c) \/ set_reparse_point(c)
          \/ \E delete_file \in BOOLEAN : set_delete(c, delete_file)
          \/ \E to \in Path, replace_if_exists \in BOOLEAN : rename(c, to, replace_if_exists)
    \/ removeTarget \/ renameNow \/ relink
    \/ Elsewhere

Spec == Init /\ [][Next]_vars
-----------------------------------------------------------------------------
TypeOK ==
    /\ DeviceTypeOK
    /\ ctx \in [DOMAIN ctx -> [path : Path, directory : BOOLEAN,
                               descriptor : Fd \union {NoFd}, delete_pending : BOOLEAN]]
    /\ DOMAIN ctx \subseteq Context /\ cleaned \subseteq DOMAIN ctx
    /\ name \in [DOMAIN ctx -> Path]
    /\ opened \in [DOMAIN ctx -> Object \union {NoObject}]
    /\ doomed \subseteq Object
    /\ left \subseteq DOMAIN fds
    /\ changes \in 0..MaxChanges
    /\ call.op \in {"idle", "open", "made", "created", "replace", "rename", "relink"}

(***************************************************************************)
(* Every descriptor the device has open belongs to one context, or to the  *)
(* handler that runs, or was left by a create that failed or a Close that  *)
(* was refused; and what a context has is open - whatever the device's own *)
(* programs do in between.                                                 *)
(***************************************************************************)
DescriptorsOwned ==
    LET file == {c \in DOMAIN ctx : ctx[c].descriptor # NoFd}
        own == {ctx[c].descriptor : c \in file}
        running == IF call.op = "created" THEN {call.fd} ELSE {}
    IN  /\ \A c, d \in file : ctx[c].descriptor = ctx[d].descriptor => c = d
        /\ DOMAIN fds = own \union running \union left
        /\ own \intersect (running \union left) = {} /\ running \intersect left = {}

(***************************************************************************)
(* While nobody else changes the tree, no object leaves it but one         *)
(*   - marked for deletion through a handle on it,                         *)
(*   - in the way of a rename - asked to replace it or not, for the code   *)
(*     leaves that to the device,                                          *)
(*   - that a link was to take the place of, or                            *)
(*   - that is at the path a handle was opened with, when the handle is    *)
(*     marked but its file has another name by then, or the mark was taken *)
(*     back through another handle: the two ways in which a context's path *)
(*     or its delete_pending is stale.                                     *)
(***************************************************************************)
NothingElseVanishes ==
    [][changes' = 0 => \A o \in Range(node) \ Range(node') :
         \/ o \in doomed
         \/ call.op \in {"replace", "rename"} /\ Exists(call.to) /\ node[call.to] = o
         \/ call'.op = "relink" /\ call'.was = o
         \/ \E c \in cleaned' \ cleaned :
               /\ ctx[c].delete_pending
               /\ name[c] # ctx[c].path \/ opened[c] \notin doomed]_vars

(***************************************************************************)
(* While nobody else changes the tree, a handle whose file has the name it *)
(* was opened with leads to that file, as long as the tree has it: the     *)
(* commands on a context's path (stat, SetMtime, Remove, ListDir) and what *)
(* WinFsp believes agree, however the other handles rename, replace and    *)
(* delete.  Only a rename of the handle's own file makes its path stale    *)
(* (windows_filesystem.rs:90-103, 277-290).                                *)
(***************************************************************************)
PathLeadsToFile ==
    changes = 0 =>
        \A c \in Handles :
            name[c] = ctx[c].path /\ opened[c] \in Range(node) =>
                Exists(ctx[c].path) /\ node[ctx[c].path] = opened[c]
=============================================================================
