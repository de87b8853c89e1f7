---------------------------- MODULE WinFsProofs -----------------------------
(***************************************************************************)
(* Theorems about WinFs, for every set of names and contexts and every     *)
(* bound.                                                                  *)
(*                                                                         *)
(* A file has one name (OneName: the Windows file system makes no hard     *)
(* links), so the name WinFsp has for an open file leads to it as long as  *)
(* the tree has it (NameLeads), and what has that name is marked when the  *)
(* file is (MarkedTogether).  What the handler that runs looked at stays   *)
(* so until its next command (CallHolds), for nothing else runs: that is   *)
(* why the three are stated for trees nobody else changes.                 *)
(***************************************************************************)
EXTENDS WinFs, SequenceTheorems, TLAPS

\* The lemmas of FuseFsProofs on paths and on the device's tree.  They do not
\* speak of the inode table and the kernel, which have no part in this module.
FP == INSTANCE FuseFsProofs
        WITH MaxInode <- 1, next <- 2, by_inode <- <<>>, by_path <- <<>>,
             ident <- <<>>, gone <- {}, held <- <<>>, unclosed <- {}

ContextType == [path : Path, directory : BOOLEAN,
                descriptor : Fd \union {NoFd}, delete_pending : BOOLEAN]

CallTyped ==
    \/ call = Idle
    \/ \E p \in Path : call = [op |-> "open", path |-> p]
    \/ \E p \in Path, dir \in BOOLEAN :
          call = [op |-> "made", path |-> p, directory |-> dir]
    \/ \E p \in Path, d \in Fd : call = [op |-> "created", path |-> p, fd |-> d]
    \/ \E p \in Path, to \in Path, op \in {"replace", "rename"} :
          call = [op |-> op, path |-> p, to |-> to]
    \/ \E p \in Path, o \in Object : call = [op |-> "relink", path |-> p, was |-> o]

\* An object is at one path.
OneName == \A p, q \in DOMAIN node : node[p] = node[q] => p = q

\* The tree has paths that hang together, objects, and each of them once.
Tree == FP!TreeOK /\ (\A p \in DOMAIN node : node[p] \in Object) /\ OneName

Contexts ==
    /\ ctx \in [DOMAIN ctx -> ContextType] /\ DOMAIN ctx \subseteq Context
    /\ cleaned \subseteq DOMAIN ctx
    /\ name \in [DOMAIN ctx -> Path]
    /\ opened \in [DOMAIN ctx -> Object \union {NoObject}]
    /\ doomed \subseteq Object

Types ==
    /\ Tree
    /\ DOMAIN fds \subseteq Fd
    /\ \A d \in DOMAIN fds : fds[d] \in Object
    /\ Contexts
    /\ changes \in 0..MaxChanges
    /\ CallTyped

\* The name WinFsp has for an open file leads to it.
NameLeads ==
    changes = 0 =>
        \A c \in Handles : opened[c] \in Range(node) =>
            name[c] \in DOMAIN node /\ node[name[c]] = opened[c]

\* The handles on an object have one name for it.
SameName ==
    changes = 0 =>
        \A c, d \in Handles :
            opened[c] = opened[d] /\ opened[c] # NoObject => name[c] = name[d]

\* What has the name of an open file that is marked is marked.
MarkedTogether ==
    changes = 0 =>
        \A c \in Handles : opened[c] \in doomed /\ name[c] \in DOMAIN node =>
            node[name[c]] \in doomed

\* No other handle is in the way of the rename that runs.
RenameClear ==
    call.op \in {"replace", "rename"} =>
        \A h \in Handles : /\ ~Under(name[h], call.to)
                           /\ Under(name[h], call.path) => name[h] = call.path

\* What the handler that runs found or made is still there.
CallHolds ==
    changes = 0 =>
        /\ call.op = "open" => Exists(call.path)
        /\ call.op = "created" =>
              Exists(call.path) /\ call.fd \in DOMAIN fds /\ node[call.path] = fds[call.fd]
        /\ call.op = "relink" =>
              /\ call.was \notin Range(node)
              /\ \A c \in Handles :
                    /\ opened[c] = call.was => name[c] = call.path
                    /\ name[c] = call.path /\ opened[c] \in doomed => call.was \in doomed

Inv ==
    /\ Types
    /\ DescriptorsOwned
    /\ NameLeads
    /\ SameName
    /\ MarkedTogether
    /\ RenameClear
    /\ CallHolds
-----------------------------------------------------------------------------
(***************************************************************************)
(* Paths and the device's tree, which are those of FuseFs.                 *)
(***************************************************************************)
LEMMA DeviceAssumptions ==
    /\ MaxDepth \in Nat \ {0}
    /\ MaxObject \in Nat \ {0} /\ MaxFd \in Nat
    /\ 1 \in Nat \ {0} /\ MaxChanges \in Nat
  BY DepthAssumption, DeviceAssumption, ContextAssumption

\* The device that the lemmas of FuseFsProofs are about is the one in here.
LEMMA SameDevice ==
    /\ FP!Path = Path /\ FP!Root = Root
    /\ \A p, q : FP!Under(p, q) <=> Under(p, q)
    /\ \A p, q, r : FP!Rebase(p, q, r) = Rebase(p, q, r)
    /\ \A f, x, v : FP!Put(f, x, v) = Put(f, x, v)
    /\ \A p : FP!Free(p) <=> Free(p)
    /\ \A p : FP!Removable(p) <=> Removable(p)
    /\ \A p : FP!Unlink(p) <=> Unlink(p)
    /\ \A p, q : FP!Twins(p, q) <=> Twins(p, q)
    /\ \A p, q : FP!Move(p, q) <=> Move(p, q)
<1> USE DEF FP!Path, Path, FP!Root, Root, FP!Under, Under, FP!Rebase, Rebase,
            FP!Suffix, Suffix, FP!Put, Put, FP!Drop, Drop, FP!parent, parent,
            FP!Exists, Exists, FP!IsDir, IsDir, FP!Children, Children,
            FP!Nested, Nested
<1>1. /\ FP!Path = Path /\ FP!Root = Root
      /\ \A p, q : FP!Under(p, q) <=> Under(p, q)
      /\ \A p, q, r : FP!Rebase(p, q, r) = Rebase(p, q, r)
      /\ \A f, x, v : FP!Put(f, x, v) = Put(f, x, v)
  OBVIOUS
<1>2. \A p : FP!Free(p) <=> Free(p)
  BY DEF FP!Free, Free
<1>3. \A p : FP!Removable(p) <=> Removable(p)
  BY DEF FP!Removable, Removable
<1>4. \A p : FP!Unlink(p) <=> Unlink(p)
  BY <1>3 DEF FP!Unlink, Unlink
<1>5. \A p, q : FP!Twins(p, q) <=> Twins(p, q)
  BY <1>3 DEF FP!Twins, Twins
<1>6. \A p, q : FP!Move(p, q) <=> Move(p, q)
  BY DEF FP!Move, Move, FP!Free, Free, FP!Removable, Removable, FP!Twins, Twins
<1> QED
  BY <1>1, <1>2, <1>3, <1>4, <1>5, <1>6

\* The tree's paths are paths.
LEMMA TreePaths == Tree => DOMAIN node \subseteq Path
  BY SameDevice DEF Tree, FP!TreeOK

\* A path lies under itself.
LEMMA UnderItself == \A p \in Path : Under(p, p)
  BY SameDevice, DeviceAssumptions, FP!UnderItself
-----------------------------------------------------------------------------
(***************************************************************************)
(* The tree when a file has one name.                                      *)
(***************************************************************************)
\* What a new entry does to the tree and to the objects in it.
LEMMA Made ==
    ASSUME Tree, NEW p \in Path, Free(p), NEW o \in Object, o \notin Range(node),
           node' = Put(node, p, o)
    PROVE  /\ Tree'
           /\ DOMAIN node' = DOMAIN node \union {p} /\ node'[p] = o
           /\ \A q \in DOMAIN node : q # p /\ node'[q] = node[q]
           /\ Range(node') = Range(node) \union {o}
<1>1. /\ FP!TreeOK'
      /\ DOMAIN node' = DOMAIN node \union {p} /\ node'[p] = o
      /\ \A q \in DOMAIN node : node'[q] = node[q]
  BY SameDevice, DeviceAssumptions, FP!Grows DEF Tree
<1>2. p \notin DOMAIN node
  BY DEF Free, Exists
<1>3. \A q \in DOMAIN node : node[q] # o
  BY DEF Range
<1>4. OneName'
  BY <1>1, <1>3 DEF Tree, OneName
<1>5. Range(node') = Range(node) \union {o}
  BY <1>1 DEF Range
<1> QED
  BY <1>1, <1>2, <1>4, <1>5 DEF Tree

\* What a removal does to the tree and to the objects in it.
LEMMA Removed ==
    ASSUME Tree, NEW p \in Path, Unlink(p)
    PROVE  /\ Tree'
           /\ p \in DOMAIN node /\ DOMAIN node' = DOMAIN node \ {p}
           /\ \A q \in DOMAIN node' : node'[q] = node[q]
           /\ Range(node') = Range(node) \ {node[p]}
<1>1. /\ FP!TreeOK'
      /\ DOMAIN node' = DOMAIN node \ {p}
      /\ \A q \in DOMAIN node' : node'[q] = node[q]
  BY SameDevice, DeviceAssumptions, FP!Shrinks DEF Tree
<1>2. p \in DOMAIN node
  BY DEF Unlink, Removable, Exists
<1>3. OneName'
  BY <1>1 DEF Tree, OneName
<1>4. Range(node') = Range(node) \ {node[p]}
  BY <1>1, <1>2 DEF Tree, OneName, Range
<1> QED
  BY <1>1, <1>2, <1>3, <1>4 DEF Tree

\* What a rename does to the tree and to the objects in it.
LEMMA Renamed ==
    ASSUME Tree, NEW from \in Path, NEW to \in Path, Move(from, to)
    PROVE  /\ Tree'
           /\ from \in DOMAIN node /\ to \in DOMAIN node' /\ node'[to] = node[from]
           /\ \A q \in DOMAIN node : ~Under(q, from) /\ q # to =>
                 q \in DOMAIN node' /\ node'[q] = node[q]
           /\ \A q \in DOMAIN node' : ~Under(q, to) =>
                 q \in DOMAIN node /\ node'[q] = node[q]
           /\ Range(node') \subseteq Range(node)
           /\ \A o \in Range(node) \ Range(node') : to \in DOMAIN node /\ node[to] = o
<1> DEFINE At(q) == IF Under(q, from) THEN Rebase(q, from, to) ELSE q
<1>0. ~Twins(from, to)
  <2>1. ~Under(from, to) /\ from \in DOMAIN node
    BY DEF Move, Exists, Nested
  <2>2. from # to
    BY <2>1, UnderItself
  <2> QED
    BY <2>1, <2>2 DEF Twins, Removable, Exists, Tree, OneName
<1>1. /\ FP!TreeOK'
      /\ \A q \in DOMAIN node :
            /\ At(q) \in DOMAIN node'
            /\ Under(q, from) \/ ~Under(q, to) => node'[At(q)] = node[q]
      /\ \A q \in DOMAIN node' : \E r \in DOMAIN node \ {to} :
            q = At(r) /\ node'[q] = node[r]
  BY <1>0, SameDevice, DeviceAssumptions, FP!Moves DEF Tree
<1>2. /\ from \in DOMAIN node /\ ~Under(to, from)
      /\ Free(to) \/ Removable(to)
  BY DEF Move, Exists, Nested
<1>3. \A q \in DOMAIN node : Under(q, to) => q = to
  BY <1>2, SameDevice, DeviceAssumptions, FP!NothingBelow DEF Tree
<1>s. /\ from \in Seq(Name) /\ to \in Seq(Name)
      /\ \A q \in DOMAIN node : q \in Seq(Name)
  BY TreePaths, SameDevice, DeviceAssumptions, FP!PathSeq
<1>4. At(from) = to
  BY <1>s, UnderItself, SameDevice, DeviceAssumptions, FP!MovedBelow
<1>5. \A q \in DOMAIN node : Under(q, from) => Under(Rebase(q, from, to), to)
  BY <1>s, SameDevice, DeviceAssumptions, FP!MovedBelow
<1>6. \A q \in DOMAIN node : q # to => node'[At(q)] = node[q]
  BY <1>1, <1>3
<1>7. \A q \in DOMAIN node : ~Under(q, from) => At(q) = q
  OBVIOUS
<1>8. ASSUME NEW p \in DOMAIN node', NEW q \in DOMAIN node', node'[p] = node'[q]
      PROVE  p = q
  <2>1. PICK r \in DOMAIN node : p = At(r) /\ node'[p] = node[r]
    BY <1>1
  <2>2. PICK s \in DOMAIN node : q = At(s) /\ node'[q] = node[s]
    BY <1>1
  <2> QED
    BY <1>8, <2>1, <2>2 DEF Tree, OneName
<1>9. ASSUME NEW q \in DOMAIN node', ~Under(q, to)
      PROVE  q \in DOMAIN node /\ node'[q] = node[q]
  <2>1. PICK r \in DOMAIN node : q = At(r) /\ node'[q] = node[r]
    BY <1>1
  <2> QED
    BY <1>5, <1>9, <2>1
<1>10. Range(node') \subseteq Range(node) /\ \A p \in DOMAIN node' : node'[p] \in Object
  BY <1>1 DEF Range, Tree
<1>11. ASSUME NEW o \in Range(node) \ Range(node')
       PROVE  to \in DOMAIN node /\ node[to] = o
  <2>1. PICK q \in DOMAIN node : o = node[q]
    BY DEF Range
  <2>2. q # to => o \in Range(node')
    BY <1>1, <1>6, <2>1 DEF Range
  <2> QED
    BY <2>1, <2>2
<1>12. to \in DOMAIN node' /\ node'[to] = node[from]
  BY <1>1, <1>2, <1>4, <1>6, UnderItself
<1> HIDE DEF At
<1>13. \A q \in DOMAIN node : ~Under(q, from) /\ q # to =>
          q \in DOMAIN node' /\ node'[q] = node[q]
  BY <1>1, <1>6, <1>7
<1>14. Tree'
  BY <1>1, <1>8, <1>10 DEF Tree, OneName
<1> QED
  BY <1>2, <1>9, <1>10, <1>11, <1>12, <1>13, <1>14
-----------------------------------------------------------------------------
(***************************************************************************)
(* Descriptors, handles and names.                                         *)
(***************************************************************************)
\* What the handler that runs remembers.
LEMMA CallIs ==
    ASSUME CallTyped
    PROVE  /\ call.op = "open" => call.path \in Path
           /\ call.op = "made" => call.path \in Path /\ call.directory \in BOOLEAN
           /\ call.op = "created" => call.path \in Path /\ call.fd \in Fd
           /\ call.op \in {"replace", "rename"} =>
                 /\ call.path \in Path /\ call.to \in Path
                 /\ call = [op |-> call.op, path |-> call.path, to |-> call.to]
           /\ call.op = "relink" => call.path \in Path /\ call.was \in Object
  BY DEF CallTyped, Idle

\* An Open takes a descriptor that was not open, for what is at the path or
\* for something new there.
LEMMA Opens ==
    ASSUME Types, NEW p \in Path, NEW mode, Open(p, mode, Known)
    PROVE  /\ NewFd \in Fd \ DOMAIN fds
           /\ DOMAIN fds' = DOMAIN fds \union {NewFd}
           /\ \A d \in DOMAIN fds : fds'[d] = fds[d]
           /\ fds'[NewFd] \in Object
           /\ \/ node' = node /\ p \in DOMAIN node /\ node[p] = fds'[NewFd]
              \/ /\ Free(p)
                 /\ fds'[NewFd] \notin Range(node) \union Known
                 /\ node' = Put(node, p, fds'[NewFd])
<1>1. NewFd \in Fd \ DOMAIN fds
  BY DEF Open, NewFd
<1>2. CASE Exists(p) /\ ~IsDir(p) /\ fds' = Put(fds, NewFd, node[p]) /\ UNCHANGED node
  BY <1>1, <1>2 DEF Put, Exists, Types, Tree
<1>3. ASSUME Free(p), NEW o \in Object, IsNew(o, Known),
             node' = Put(node, p, o), fds' = Put(fds, NewFd, o)
      PROVE  /\ DOMAIN fds' = DOMAIN fds \union {NewFd}
             /\ \A d \in DOMAIN fds : fds'[d] = fds[d]
             /\ fds'[NewFd] = o
             /\ o \notin Range(node) \union Known
  BY <1>1, <1>3 DEF Put, IsNew
<1> QED
  BY <1>1, <1>2, <1>3 DEF Open

\* Context c is new, and nothing else is.
Added(c, p, fd, o) ==
    /\ DOMAIN ctx' = DOMAIN ctx \union {c}
    /\ ctx'[c].descriptor = fd
    /\ name'[c] = p /\ opened'[c] = o
    /\ Handles' = Handles \union {c} /\ c \notin Handles
    /\ \A d \in DOMAIN ctx :
          ctx'[d] = ctx[d] /\ name'[d] = name[d] /\ opened'[d] = opened[d]

\* What a context is when it is made.
LEMMA NewContext ==
    ASSUME Contexts, NEW p \in Path, NEW dir, dir \in BOOLEAN, NEW fd \in Fd \union {NoFd},
           NEW o \in Object, create_context(p, dir, fd, o), UNCHANGED <<cleaned, doomed>>
    PROVE  /\ Contexts'
           /\ \E c \in Context \ DOMAIN ctx : Added(c, p, fd, o)
<1> USE DEF Contexts
<1> DEFINE new == [path |-> p, directory |-> dir, descriptor |-> fd, delete_pending |-> FALSE]
<1>1. new \in ContextType /\ new.descriptor = fd
  BY DEF ContextType
<1> HIDE DEF new
<1>2. PICK c \in Context \ DOMAIN ctx :
         ctx' = Put(ctx, c, new) /\ name' = Put(name, c, p) /\ opened' = Put(opened, c, o)
  BY DEF create_context, FreeContexts, new
<1>3. /\ DOMAIN ctx' = DOMAIN ctx \union {c} /\ ctx'[c] = new
      /\ name'[c] = p /\ opened'[c] = o
      /\ \A d \in DOMAIN ctx :
            ctx'[d] = ctx[d] /\ name'[d] = name[d] /\ opened'[d] = opened[d]
  BY <1>2 DEF Put
<1>4. ctx' \in [DOMAIN ctx' -> ContextType]
  BY <1>1, <1>2 DEF Put
<1>5. name' \in [DOMAIN ctx' -> Path]
  BY <1>2, <1>3 DEF Put
<1>6. opened' \in [DOMAIN ctx' -> Object \union {NoObject}]
  BY <1>2, <1>3 DEF Put
<1>7. Handles' = Handles \union {c} /\ c \notin Handles
  BY <1>2, <1>3 DEF Handles
<1>8. Added(c, p, fd, o)
  BY <1>1, <1>3, <1>7 DEF Added
<1> QED
  BY <1>3, <1>4, <1>5, <1>6, <1>8

\* The three facts on the names of open files.
Names == NameLeads /\ SameName /\ MarkedTogether

\* A handle that stands for what is at its name changes nothing about the others.
LEMMA NamesOpened ==
    ASSUME Types, Names, NEW p \in Path, NEW dir, dir \in BOOLEAN, NEW fd \in Fd \union {NoFd},
           NEW o \in Object, create_context(p, dir, fd, o),
           UNCHANGED <<node, cleaned, doomed, changes>>,
           changes = 0 => p \in DOMAIN node /\ node[p] = o
    PROVE  Names'
<1> SUFFICES ASSUME changes = 0 PROVE Names'
  BY DEF Names, NameLeads, SameName, MarkedTogether
<1>0. Contexts /\ UNCHANGED <<cleaned, doomed>>
  BY DEF Types
<1>1. PICK c \in Context \ DOMAIN ctx : Added(c, p, fd, o)
  BY <1>0, NewContext
<1> USE DEF Types, Added
<1>2. Handles \subseteq DOMAIN ctx
  BY DEF Handles
<1>3. p \in DOMAIN node /\ node[p] = o /\ o \in Range(node)
  BY DEF Range
<1>4. NameLeads'
  BY <1>1, <1>2, <1>3 DEF Names, NameLeads
<1>5. SameName'
  BY <1>1, <1>2, <1>3 DEF Names, NameLeads, SameName, Tree, OneName
<1>6. MarkedTogether'
  BY <1>1, <1>2, <1>3 DEF Names, MarkedTogether
<1> QED
  BY <1>4, <1>5, <1>6 DEF Names

\* Nor does a new entry at a name that may be opened.
LEMMA NamesMade ==
    ASSUME Types, Names, NEW p \in Path, MayOpen(p), Free(p),
           NEW o \in Object, o \notin Range(node) \union Known,
           node' = Put(node, p, o), UNCHANGED <<ctx, cleaned, name, opened, doomed, changes>>
    PROVE  Names'
<1> SUFFICES ASSUME changes = 0 PROVE Names'
  BY DEF Names, NameLeads, SameName, MarkedTogether
<1> USE DEF Types
<1>1. /\ DOMAIN node' = DOMAIN node \union {p} /\ node'[p] = o
      /\ \A q \in DOMAIN node : q # p /\ node'[q] = node[q]
      /\ Range(node') = Range(node) \union {o}
  BY Made
<1>2. Handles' = Handles /\ Handles \subseteq DOMAIN ctx
  BY DEF Handles
<1>3. \A c \in Handles : opened[c] # o
  BY <1>2, ContextAssumption DEF Known, Range, Contexts
<1>4. NameLeads'
  BY <1>1, <1>2, <1>3 DEF Names, NameLeads
<1>5. SameName'
  BY <1>2 DEF Names, SameName
<1>6. MarkedTogether'
  BY <1>1, <1>2 DEF Names, MarkedTogether, MayOpen
<1> QED
  BY <1>4, <1>5, <1>6 DEF Names

\* Nor does a removal.
LEMMA NamesRemoved ==
    ASSUME Types, Names, NEW p \in Path, Unlink(p), Handles' \subseteq Handles,
           UNCHANGED <<name, opened, doomed, changes>>
    PROVE  Names'
<1> SUFFICES ASSUME changes = 0 PROVE Names'
  BY DEF Names, NameLeads, SameName, MarkedTogether
<1> USE DEF Types
<1>1. /\ p \in DOMAIN node /\ DOMAIN node' = DOMAIN node \ {p}
      /\ \A q \in DOMAIN node' : node'[q] = node[q]
      /\ Range(node') = Range(node) \ {node[p]}
  BY Removed
<1>2. NameLeads'
  BY <1>1 DEF Names, NameLeads
<1>3. SameName'
  BY DEF Names, SameName
<1>4. MarkedTogether'
  BY <1>1 DEF Names, MarkedTogether
<1> QED
  BY <1>2, <1>3, <1>4 DEF Names

\* When no handler runs, nothing is asked of what it remembers.
LEMMA Ends ==
    ASSUME call' = Idle
    PROVE  CallTyped' /\ RenameClear' /\ CallHolds' /\ call'.op = "idle"
  BY DEF CallTyped, RenameClear, CallHolds, Idle

\* A step that opens and closes nothing leaves every descriptor its owner.
LEMMA OwnedSame ==
    ASSUME DescriptorsOwned, UNCHANGED <<fds, left>>, DOMAIN ctx' = DOMAIN ctx,
           \A c \in DOMAIN ctx : ctx'[c].descriptor = ctx[c].descriptor,
           call.op # "created", call'.op # "created"
    PROVE  DescriptorsOwned'
  BY DEF DescriptorsOwned

\* The handler that runs ends with an error.
LEMMA RefusedInv ==
    ASSUME Inv, Refuse, UNCHANGED <<left, changes>>, call.op # "created"
    PROVE  Inv'
<1> USE DEF Inv, Refuse, deviceVars, contextVars, winfspVars
<1>1. CallTyped' /\ RenameClear' /\ CallHolds' /\ call'.op = "idle"
  BY Ends
<1>2. Types'
  BY <1>1 DEF Types, Tree, FP!TreeOK, FP!TreeClosed, OneName, Contexts
<1>3. DescriptorsOwned'
  BY <1>1, OwnedSame
<1>4. NameLeads' /\ SameName' /\ MarkedTogether'
  BY DEF NameLeads, SameName, MarkedTogether, Handles
<1> QED
  BY <1>1, <1>2, <1>3, <1>4

\* A context is made for what has no descriptor, and the handler ends.
LEMMA EntryInv ==
    ASSUME Inv, NEW p \in DOMAIN node, NEW dir, dir \in BOOLEAN,
           create_context(p, dir, NoFd, node[p]), call' = Idle, call.op # "created",
           UNCHANGED <<deviceVars, cleaned, doomed, left, changes>>
    PROVE  Inv'
<1> USE DEF Inv, deviceVars
<1>1. CallTyped' /\ RenameClear' /\ CallHolds' /\ call'.op = "idle"
  BY Ends
<1>2. p \in Path /\ node[p] \in Object
  BY TreePaths DEF Types, Tree
<1>3. Contexts' /\ \E c \in Context \ DOMAIN ctx : Added(c, p, NoFd, node[p])
  BY <1>2, NewContext DEF Types
<1>4. Types'
  BY <1>1, <1>3 DEF Types, Tree, FP!TreeOK, FP!TreeClosed, OneName
<1>5. DescriptorsOwned'
  BY <1>1, <1>3 DEF DescriptorsOwned, Added
<1>6. Names'
  BY <1>2, NamesOpened DEF Names
<1> QED
  BY <1>1, <1>4, <1>5, <1>6 DEF Names

LEMMA OpenInv ==
    ASSUME Inv, NEW p \in Path, open(p)
    PROVE  Inv'
<1>1. CASE IsDir(p)
  <2>1. /\ p \in DOMAIN node /\ call = Idle /\ call' = Idle
        /\ create_context(p, TRUE, NoFd, node[p])
        /\ UNCHANGED <<deviceVars, cleaned, doomed, left, changes>>
    BY <1>1 DEF open, Exists
  <2> QED
    BY <2>1, EntryInv DEF Idle
<1>2. CASE ~IsDir(p)
  <2> USE DEF Inv
  <2>1. /\ p \in DOMAIN node /\ call = Idle /\ call' = [op |-> "open", path |-> p]
        /\ UNCHANGED <<node, fds, ctx, cleaned, name, opened, doomed, left, changes>>
    BY <1>2 DEF open, Exists, deviceVars
  <2>2. call.op = "idle" /\ call'.op = "open" /\ call'.path = p
    BY <2>1 DEF Idle
  <2>3. CallTyped'
    BY <2>1 DEF CallTyped
  <2>4. Types'
    BY <2>1, <2>3 DEF Types, Tree, FP!TreeOK, FP!TreeClosed, OneName, Contexts
  <2>5. DescriptorsOwned'
    BY <2>1, <2>2, OwnedSame
  <2>6. NameLeads' /\ SameName' /\ MarkedTogether'
    BY <2>1 DEF NameLeads, SameName, MarkedTogether, Handles
  <2>7. RenameClear' /\ CallHolds'
    BY <2>1, <2>2 DEF RenameClear, CallHolds, Exists
  <2> QED
    BY <2>4, <2>5, <2>6, <2>7
<1> QED
  BY <1>1, <1>2

LEMMA StatEntryInv ==
    ASSUME Inv, statEntry
    PROVE  Inv'
<1>1. call.op = "made" /\ UNCHANGED <<left, changes>>
  BY DEF statEntry
<1>2. CASE Refuse
  BY <1>1, <1>2, RefusedInv
<1>3. CASE ~Refuse
  <2>1. /\ call.path \in DOMAIN node
        /\ create_context(call.path, call.directory, NoFd, node[call.path])
        /\ call' = Idle /\ UNCHANGED <<deviceVars, cleaned, doomed>>
    BY <1>3 DEF statEntry, Exists
  <2>2. call.directory \in BOOLEAN
    BY <1>1, CallIs DEF Inv, Types
  <2> QED
    BY <1>1, <2>1, <2>2, EntryInv
<1> QED
  BY <1>2, <1>3

LEMMA OpenFileInv ==
    ASSUME Inv, openFile
    PROVE  Inv'
<1> DEFINE p == call.path
           o == fds'[NewFd]
<1>1. call.op = "open" /\ UNCHANGED <<left, changes>> /\ p \in Path
  BY CallIs DEF openFile, Inv, Types
<1>2. CASE Refuse
  BY <1>1, <1>2, RefusedInv
<1>3. ASSUME NEW mode, Open(p, mode, Known), create_context(p, FALSE, NewFd, o),
             call' = Idle, UNCHANGED <<cleaned, doomed>>
      PROVE  Inv'
  <2> USE DEF Inv
  <2>1. CallTyped' /\ RenameClear' /\ CallHolds' /\ call'.op = "idle"
    BY <1>3, Ends
  <2>2. /\ NewFd \in Fd \ DOMAIN fds
        /\ DOMAIN fds' = DOMAIN fds \union {NewFd}
        /\ \A d \in DOMAIN fds : fds'[d] = fds[d]
        /\ o \in Object
        /\ \/ node' = node /\ p \in DOMAIN node /\ node[p] = o
           \/ Free(p) /\ o \notin Range(node) \union Known /\ node' = Put(node, p, o)
    BY <1>1, <1>3, Opens
  <2>3. Contexts' /\ \E c \in Context \ DOMAIN ctx : Added(c, p, NewFd, o)
    BY <1>1, <1>3, <2>2, NewContext DEF Types
  <2>4. Tree'
    <3>1. CASE node' = node
      BY <3>1 DEF Types, Tree, FP!TreeOK, FP!TreeClosed, OneName
    <3>2. CASE node' # node
      BY <1>1, <2>2, <3>2, Made DEF Types
    <3> QED
      BY <3>1, <3>2
  <2>5. Types'
    BY <1>1, <2>1, <2>2, <2>3, <2>4 DEF Types
  <2>6. DescriptorsOwned'
    <3>1. PICK c \in Context \ DOMAIN ctx : Added(c, p, NewFd, o)
      BY <2>3
    <3>2. NewFd # NoFd
      BY <2>2, ContextAssumption
    <3> QED
      BY <1>1, <2>1, <2>2, <3>1, <3>2 DEF DescriptorsOwned, Added
  <2>7. changes = 0 => node' = node /\ p \in DOMAIN node /\ node[p] = o
    BY <1>1, <2>2 DEF CallHolds, Free, Exists
  <2>8. Names'
    <3>1. CASE changes = 0
      BY <1>1, <1>3, <2>2, <2>7, <3>1, NamesOpened DEF Names
    <3>2. CASE changes # 0
      BY <1>1, <3>2 DEF Names, NameLeads, SameName, MarkedTogether
    <3> QED
      BY <3>1, <3>2
  <2> QED
    BY <2>1, <2>5, <2>6, <2>8 DEF Names
<1> QED
  BY <1>2, <1>3 DEF openFile

\* An entry is made at a name that may be opened.
LEMMA CreateEntryInv ==
    ASSUME Inv, NEW p \in Path, NEW kind, createEntry(p, kind)
    PROVE  Inv'
<1> USE DEF Inv
<1>1. /\ call = Idle /\ MayOpen(p) /\ Free(p)
      /\ call' = [op |-> "made", path |-> p, directory |-> kind = "dir"]
      /\ UNCHANGED <<fds, ctx, cleaned, name, opened, doomed, left, changes>>
  BY DEF createEntry, Make, contextVars, winfspVars
<1>2. PICK o \in Object : o \notin Range(node) \union Known /\ node' = Put(node, p, o)
  BY DEF createEntry, Make, IsNew
<1>3. call.op = "idle" /\ call'.op = "made" /\ CallTyped'
  <2>1. (kind = "dir") \in BOOLEAN
    OBVIOUS
  <2> HIDE DEF Inv
  <2> QED
    BY <1>1, <2>1 DEF CallTyped, Idle
<1>4. Tree'
  BY <1>1, <1>2, Made DEF Types
<1>5. Types'
  BY <1>1, <1>3, <1>4 DEF Types, Contexts
<1>6. DescriptorsOwned'
  BY <1>1, <1>3, OwnedSame
<1>7. Names'
  BY <1>1, <1>2, NamesMade DEF Names
<1>8. RenameClear' /\ CallHolds'
  BY <1>3 DEF RenameClear, CallHolds
<1> QED
  BY <1>5, <1>6, <1>7, <1>8 DEF Names

\* A file is opened, or made, at a name that may be opened.
LEMMA CreateFileInv ==
    ASSUME Inv, NEW p \in Path, createFile(p)
    PROVE  Inv'
<1> DEFINE o == fds'[NewFd]
<1> USE DEF Inv
<1>1. /\ call = Idle /\ MayOpen(p) /\ Open(p, "Wr", Known)
      /\ call' = [op |-> "created", path |-> p, fd |-> NewFd]
      /\ UNCHANGED <<ctx, cleaned, name, opened, doomed, left, changes>>
  BY DEF createFile, contextVars, winfspVars
<1>2. /\ NewFd \in Fd \ DOMAIN fds
      /\ DOMAIN fds' = DOMAIN fds \union {NewFd}
      /\ \A d \in DOMAIN fds : fds'[d] = fds[d]
      /\ o \in Object
      /\ \/ node' = node /\ p \in DOMAIN node /\ node[p] = o
         \/ Free(p) /\ o \notin Range(node) \union Known /\ node' = Put(node, p, o)
  BY <1>1, Opens
<1>3. /\ call.op = "idle" /\ call'.op = "created" /\ CallTyped'
      /\ call'.path = p /\ call'.fd = NewFd
  BY <1>1, <1>2 DEF CallTyped, Idle
<1>4. Tree' /\ p \in DOMAIN node' /\ node'[p] = o
  <2>1. CASE node' = node
    BY <1>2, <2>1 DEF Types, Tree, FP!TreeOK, FP!TreeClosed, OneName, Free, Exists, Put
  <2>2. CASE node' # node
    <3>1. /\ Tree /\ p \in Path /\ Free(p) /\ o \in Object /\ o \notin Range(node)
          /\ node' = Put(node, p, o)
      BY <1>2, <2>2 DEF Types
    <3> QED
      BY ONLY <3>1, Made, Zenon
  <2> QED
    BY <2>1, <2>2
<1>5. Types'
  BY <1>1, <1>2, <1>3, <1>4 DEF Types, Contexts
<1>6. DescriptorsOwned'
  BY <1>1, <1>2, <1>3, ContextAssumption DEF DescriptorsOwned
<1>7. Names'
  <2>1. CASE node' = node
    BY <1>1, <2>1 DEF Names, NameLeads, SameName, MarkedTogether, Handles
  <2>2. CASE node' # node
    BY <1>1, <1>2, <2>2, NamesMade DEF Names
  <2> QED
    BY <2>1, <2>2
<1>8. RenameClear' /\ CallHolds'
  BY <1>2, <1>3, <1>4 DEF RenameClear, CallHolds, Exists
<1> QED
  BY <1>5, <1>6, <1>7, <1>8 DEF Names

\* The descriptor of a created file goes to its context, or nobody closes it.
LEMMA StatCreatedInv ==
    ASSUME Inv, statCreated
    PROVE  Inv'
<1> DEFINE p == call.path
           o == fds[call.fd]
<1> USE DEF Inv
<1>1. /\ call.op = "created" /\ UNCHANGED changes /\ p \in Path /\ call.fd \in DOMAIN fds
      /\ call.fd # NoFd /\ o \in Object
  <2>1. call.op = "created" /\ UNCHANGED changes
    BY DEF statCreated
  <2>2. p \in Path /\ call.fd \in Fd
    BY <2>1, CallIs DEF Types
  <2>3. call.fd \in DOMAIN fds
    BY <2>1 DEF DescriptorsOwned
  <2> QED
    BY <2>1, <2>2, <2>3, ContextAssumption DEF Types
<1>2. /\ call' = Idle /\ UNCHANGED deviceVars
  BY DEF statCreated, Refuse
<1>3. CallTyped' /\ RenameClear' /\ CallHolds' /\ call'.op = "idle"
  BY <1>2, Ends
<1>4. Tree' /\ UNCHANGED fds
  BY <1>2 DEF deviceVars, Types, Tree, FP!TreeOK, FP!TreeClosed, OneName
<1>5. CASE create_context(p, FALSE, call.fd, o) /\ Exists(p) /\ UNCHANGED <<cleaned, doomed, left>>
  <2>1. Contexts' /\ \E c \in Context \ DOMAIN ctx : Added(c, p, call.fd, o)
    BY <1>1, <1>4, <1>5, NewContext DEF Types
  <2>2. Types'
    BY <1>1, <1>3, <1>4, <2>1 DEF Types
  <2>3. DescriptorsOwned'
    BY <1>1, <1>3, <1>4, <1>5, <2>1 DEF DescriptorsOwned, Added
  <2>4. changes = 0 => p \in DOMAIN node /\ node[p] = o
    BY <1>1 DEF CallHolds, Exists
  <2>5. Names'
    <3>1. call.fd \in Fd \union {NoFd} /\ Names /\ Types
      BY <1>1 DEF Types, Names
    <3>2. UNCHANGED <<node, cleaned, doomed, changes>>
      BY <1>1, <1>2, <1>5 DEF deviceVars
    <3> QED
      BY <1>1, <1>5, <2>4, <3>1, <3>2, NamesOpened
  <2> QED
    BY <1>3, <2>2, <2>3, <2>5 DEF Names
<1>6. CASE Refuse /\ left' = left \union {call.fd}
  <2>1. UNCHANGED <<node, ctx, cleaned, name, opened, doomed>>
    BY <1>6 DEF Refuse, deviceVars, contextVars, winfspVars
  <2>2. Types'
    BY <1>1, <1>3, <1>4, <2>1 DEF Types, Contexts
  <2>3. DescriptorsOwned'
    BY <1>1, <1>3, <1>4, <1>6, <2>1 DEF DescriptorsOwned
  <2>4. Names'
    BY <1>1, <2>1 DEF Names, NameLeads, SameName, MarkedTogether, Handles
  <2> QED
    BY <1>3, <2>2, <2>3, <2>4 DEF Names
<1> QED
  BY <1>5, <1>6 DEF statCreated

\* A mark, or its taking back, is for all handles on a name.
LEMMA SetDeleteInv ==
    ASSUME Inv, NEW c \in DOMAIN ctx, NEW delete_file \in BOOLEAN, set_delete(c, delete_file)
    PROVE  Inv'
<1> DEFINE same == {d \in Handles : name[d] = name[c]}
<1> USE DEF Inv
<1>1. /\ call = Idle /\ c \in Handles
      /\ ctx' = [ctx EXCEPT ![c].delete_pending = delete_file]
      /\ doomed' = IF delete_file THEN doomed \union SameFile(c) ELSE doomed \ SameFile(c)
      /\ UNCHANGED <<node, fds, cleaned, call, name, opened, left, changes>>
  BY DEF set_delete, deviceVars
<1>2. call' = Idle /\ call.op = "idle" /\ call'.op = "idle"
  BY <1>1 DEF Idle
<1>3. CallTyped' /\ RenameClear' /\ CallHolds'
  BY <1>2, Ends
<1>4. /\ DOMAIN ctx' = DOMAIN ctx
      /\ ctx' \in [DOMAIN ctx -> ContextType]
      /\ \A d \in DOMAIN ctx : ctx'[d].descriptor = ctx[d].descriptor
  BY <1>1 DEF Types, Contexts, ContextType
<1>5. Handles' = Handles /\ Handles \subseteq DOMAIN ctx
  BY <1>1, <1>4 DEF Handles
<1>6. \A h \in Handles :
         FileOf(h) = ({opened[h]} \ {NoObject})
                       \union {node[q] : q \in {name[h]} \intersect DOMAIN node}
  BY DEF FileOf
<1>7. \A o : o \in SameFile(c) <=> \E d \in same : o \in FileOf(d)
  BY DEF SameFile
<1>8. SameFile(c) \subseteq Object
  <2>1. \A h \in Handles : FileOf(h) \subseteq Object
    BY <1>5, <1>6 DEF Types, Contexts, Tree
  <2> QED
    BY <1>7, <2>1
<1>9. Contexts'
  BY <1>1, <1>4, <1>8 DEF Types, Contexts
<1>10. Types'
  BY <1>1, <1>3, <1>9 DEF Types, Tree, FP!TreeOK, FP!TreeClosed, OneName
<1>11. DescriptorsOwned'
  BY <1>1, <1>2, <1>4, OwnedSame
<1>12. NameLeads' /\ SameName'
  BY <1>1, <1>5 DEF NameLeads, SameName
<1>13. MarkedTogether'
  <2> SUFFICES ASSUME changes = 0, NEW h \in Handles, opened[h] \in doomed',
                      name[h] \in DOMAIN node
               PROVE  node[name[h]] \in doomed'
    BY <1>1, <1>5 DEF MarkedTogether
  <2>1. opened[h] # NoObject
    BY <1>5, <1>8, <1>1, ContextAssumption DEF Types, Contexts
  <2>2. h \in same => opened[h] \in SameFile(c) /\ node[name[h]] \in SameFile(c)
    BY <1>6, <1>7, <2>1
  <2>3. opened[h] \in doomed => node[name[h]] \in doomed
    BY DEF MarkedTogether
  <2>4. \A d \in same : \A o \in FileOf(d) :
           \/ o = opened[d] /\ o # NoObject
           \/ name[d] \in DOMAIN node /\ o = node[name[d]]
    BY <1>6
  <2>5. CASE delete_file /\ opened[h] \notin doomed
    <3>1. PICK d \in same : opened[h] \in FileOf(d)
      BY <1>1, <1>7, <2>5
    <3>2. CASE opened[h] = opened[d]
      <4>1. name[h] = name[d]
        BY <2>1, <3>2 DEF SameName
      <4> QED
        BY <1>1, <2>2, <2>5, <4>1
    <3>3. CASE name[d] \in DOMAIN node /\ opened[h] = node[name[d]]
      <4>1. node[name[h]] = opened[h]
        BY <3>3 DEF NameLeads, Range
      <4> QED
        BY <4>1
    <3> QED
      BY <2>4, <3>1, <3>2, <3>3
  <2>6. CASE ~delete_file
    <3>1. opened[h] \in doomed /\ opened[h] \notin SameFile(c)
      BY <1>1, <2>6
    <3>2. ASSUME node[name[h]] \in SameFile(c) PROVE FALSE
      <4>1. PICK d \in same : node[name[h]] \in FileOf(d)
        BY <1>7, <3>2
      <4>2. name[d] \in DOMAIN node /\ node[name[d]] = node[name[h]]
        BY <2>4, <4>1 DEF NameLeads, Range
      <4>3. name[d] = name[h]
        BY <4>2 DEF Types, Tree, OneName
      <4> QED
        BY <2>2, <3>1, <4>3
    <3> QED
      BY <1>1, <2>3, <2>6, <3>1, <3>2
  <2> QED
    BY <1>1, <2>3, <2>5, <2>6
<1> QED
  BY <1>3, <1>10, <1>11, <1>12, <1>13

\* An entry goes: the part of the invariant that depends on the tree.
LEMMA TreeAfterUnlink ==
    ASSUME Types, Names, NEW p \in Path, Unlink(p) \/ UNCHANGED deviceVars,
           Handles' \subseteq Handles, UNCHANGED <<name, opened, doomed, changes>>
    PROVE  Tree' /\ UNCHANGED fds /\ Names'
<1>1. CASE Unlink(p)
  BY <1>1, Removed, NamesRemoved DEF Types, Unlink
<1>2. CASE UNCHANGED deviceVars
  BY <1>2 DEF deviceVars, Types, Tree, FP!TreeOK, FP!TreeClosed, OneName,
              Names, NameLeads, SameName, MarkedTogether
<1> QED
  BY <1>1, <1>2

LEMMA CleanupInv ==
    ASSUME Inv, NEW c \in DOMAIN ctx, cleanup(c)
    PROVE  Inv'
<1> USE DEF Inv
<1>1. /\ call = Idle /\ c \in Handles /\ cleaned' = cleaned \union {c}
      /\ Unlink(ctx[c].path) \/ UNCHANGED deviceVars
      /\ UNCHANGED <<ctx, call, name, opened, doomed, left, changes>>
  BY DEF cleanup, winfspVars
<1>2. call' = Idle /\ call.op = "idle" /\ call'.op = "idle"
  BY <1>1 DEF Idle
<1>3. CallTyped' /\ RenameClear' /\ CallHolds'
  BY <1>2, Ends
<1>4. Handles' \subseteq Handles /\ ctx[c].path \in Path
  BY <1>1 DEF Handles, Types, Contexts, ContextType
<1>5. Tree' /\ UNCHANGED fds /\ Names'
  BY <1>1, <1>4, TreeAfterUnlink DEF Names
<1>6. Types'
  BY <1>1, <1>3, <1>5 DEF Types, Contexts
<1>7. DescriptorsOwned'
  BY <1>1, <1>2, <1>5, OwnedSame
<1> QED
  BY <1>3, <1>5, <1>6, <1>7 DEF Names

\* A context goes, with its descriptor unless the device refuses the Close.
LEMMA CloseInv ==
    ASSUME Inv, NEW c \in DOMAIN ctx, close(c)
    PROVE  Inv'
<1> USE DEF Inv
<1>1. /\ call = Idle /\ c \in cleaned /\ ctx' = Drop(ctx, c) /\ cleaned' = cleaned \ {c}
      /\ name' = Drop(name, c) /\ opened' = Drop(opened, c)
      /\ doomed' = doomed \intersect UNION {FileOf(h) : h \in DOMAIN ctx \ {c}}
      /\ UNCHANGED <<node, call, changes>>
  BY DEF close, Forget, CloseFd, deviceVars
<1>2. call' = Idle /\ call.op = "idle" /\ call'.op = "idle"
  BY <1>1 DEF Idle
<1>3. CallTyped' /\ RenameClear' /\ CallHolds'
  BY <1>2, Ends
<1>4. /\ DOMAIN ctx' = DOMAIN ctx \ {c}
      /\ \A d \in DOMAIN ctx' :
            ctx'[d] = ctx[d] /\ name'[d] = name[d] /\ opened'[d] = opened[d]
  BY <1>1 DEF Drop, Types, Contexts
<1>5. Handles' = Handles /\ Handles \subseteq DOMAIN ctx'
  BY <1>1, <1>4 DEF Handles
<1>6. Contexts'
  <2>1. ctx' \in [DOMAIN ctx' -> ContextType]
    BY <1>1 DEF Drop, Types, Contexts
  <2>2. name' \in [DOMAIN ctx' -> Path]
    BY <1>1, <1>4 DEF Drop, Types, Contexts
  <2>3. opened' \in [DOMAIN ctx' -> Object \union {NoObject}]
    BY <1>1, <1>4 DEF Drop, Types, Contexts
  <2> QED
    BY <1>1, <1>4, <2>1, <2>2, <2>3 DEF Types, Contexts
<1>7. /\ ctx[c].descriptor \in DOMAIN fds \union {NoFd}
      /\ \/ ctx[c].descriptor = NoFd /\ UNCHANGED <<fds, left>>
         \/ /\ ctx[c].descriptor # NoFd
            /\ fds' = Drop(fds, ctx[c].descriptor) /\ UNCHANGED left
         \/ /\ ctx[c].descriptor # NoFd
            /\ left' = left \union {ctx[c].descriptor} /\ UNCHANGED fds
  BY DEF close, CloseFd, deviceVars, DescriptorsOwned
<1>8. Types'
  BY <1>1, <1>3, <1>6, <1>7 DEF Types, Tree, FP!TreeOK, FP!TreeClosed, OneName, Drop
<1>9. DescriptorsOwned'
  <2> DEFINE d == ctx[c].descriptor
             file == {e \in DOMAIN ctx : ctx[e].descriptor # NoFd}
             own == {ctx[e].descriptor : e \in file}
  <2>1. /\ \A e, f \in file : ctx[e].descriptor = ctx[f].descriptor => e = f
        /\ DOMAIN fds = own \union left /\ own \intersect left = {}
    BY <1>2 DEF DescriptorsOwned
  <2>2. {e \in DOMAIN ctx' : ctx'[e].descriptor # NoFd} = file \ {c}
    BY <1>4
  <2>3. {ctx'[e].descriptor : e \in file \ {c}} = own \ {d}
    BY <1>4, <2>1
  <2>4. \A e, f \in file \ {c} : ctx'[e].descriptor = ctx'[f].descriptor => e = f
    BY <1>4, <2>1
  <2>5. d # NoFd => d \in own
    OBVIOUS
  <2>6. NoFd \notin own
    OBVIOUS
  <2>7. /\ DOMAIN fds' = (own \ {d}) \union left'
        /\ (own \ {d}) \intersect left' = {}
    <3> HIDE DEF own, d
    <3>1. CASE d = NoFd /\ UNCHANGED <<fds, left>>
      BY <2>1, <2>6, <3>1
    <3>2. CASE d # NoFd /\ fds' = Drop(fds, d) /\ UNCHANGED left
      BY <2>1, <2>5, <3>2 DEF Drop
    <3>3. CASE d # NoFd /\ left' = left \union {d} /\ UNCHANGED fds
      BY <2>1, <2>5, <3>3
    <3> QED
      BY <1>7, <3>1, <3>2, <3>3 DEF d
  <2> HIDE DEF own, d, file
  <2> QED
    BY <1>2, <2>2, <2>3, <2>4, <2>7 DEF DescriptorsOwned
<1>10. NameLeads' /\ SameName'
  BY <1>1, <1>4, <1>5 DEF NameLeads, SameName
<1>11. MarkedTogether'
  <2> SUFFICES ASSUME changes = 0, NEW h \in Handles, opened[h] \in doomed',
                      name[h] \in DOMAIN node
               PROVE  node[name[h]] \in doomed'
    BY <1>1, <1>4, <1>5 DEF MarkedTogether
  <2>1. node[name[h]] \in doomed
    BY <1>1 DEF MarkedTogether
  <2>2. h \in DOMAIN ctx \ {c} /\ node[name[h]] \in FileOf(h)
    BY <1>4, <1>5 DEF FileOf
  <2> QED
    BY <1>1, <2>1, <2>2
<1> QED
  BY <1>3, <1>8, <1>9, <1>10, <1>11

\* A rename starts when no other handle is in its way.
LEMMA RenameInv ==
    ASSUME Inv, NEW c \in DOMAIN ctx, NEW to \in Path, NEW replace \in BOOLEAN,
           rename(c, to, replace)
    PROVE  Inv'
<1> USE DEF Inv
<1>1. /\ call = Idle /\ c \in Handles
      /\ \A h \in Handles : ~Under(name[h], to)
                            /\ (Under(name[h], name[c]) => name[h] = name[c])
      /\ UNCHANGED <<node, fds, ctx, cleaned, name, opened, doomed, left, changes>>
  BY DEF rename, deviceVars, contextVars, winfspVars
<1>2. \E op \in {"replace", "rename"} : call' = [op |-> op, path |-> name[c], to |-> to]
  BY DEF rename
<1>3. /\ call.op = "idle" /\ call'.op \in {"replace", "rename"}
      /\ call'.path = name[c] /\ call'.to = to
  BY <1>1, <1>2 DEF Idle
<1>4. CallTyped'
  <2>1. name[c] \in Path
    BY DEF Types, Contexts
  <2> QED
    BY <1>2, <2>1 DEF CallTyped
<1>5. Types'
  BY <1>1, <1>4 DEF Types, Tree, FP!TreeOK, FP!TreeClosed, OneName, Contexts
<1>6. DescriptorsOwned'
  BY <1>1, <1>3, OwnedSame
<1>7. NameLeads' /\ SameName' /\ MarkedTogether' /\ Handles' = Handles
  BY <1>1 DEF NameLeads, SameName, MarkedTogether, Handles
<1>8. RenameClear'
  BY <1>1, <1>3, <1>7 DEF RenameClear
<1>9. CallHolds'
  BY <1>3 DEF CallHolds
<1> QED
  BY <1>5, <1>6, <1>7, <1>8, <1>9

LEMMA RemoveTargetInv ==
    ASSUME Inv, removeTarget
    PROVE  Inv'
<1>1. call.op = "replace" /\ UNCHANGED <<left, changes>>
  BY DEF removeTarget
<1>2. CASE Refuse
  BY <1>1, <1>2, RefusedInv
<1>3. CASE ~Refuse
  <2> USE DEF Inv
  <2>1. /\ Unlink(call.to) /\ call' = [call EXCEPT !.op = "rename"]
        /\ UNCHANGED <<ctx, cleaned, name, opened, doomed>>
    BY <1>3 DEF removeTarget, contextVars, winfspVars
  <2>2. /\ call.path \in Path /\ call.to \in Path
        /\ call = [op |-> call.op, path |-> call.path, to |-> call.to]
    BY <1>1, CallIs DEF Types
  <2>3. call' = [op |-> "rename", path |-> call.path, to |-> call.to]
    BY <2>1, <2>2
  <2>4. CallTyped' /\ call'.op = "rename" /\ call'.path = call.path /\ call'.to = call.to
    BY <2>2, <2>3 DEF CallTyped
  <2>5. Handles' = Handles
    BY <2>1 DEF Handles
  <2>6. Tree' /\ UNCHANGED fds /\ Names'
    BY <1>1, <2>1, <2>2, <2>5, TreeAfterUnlink DEF Names
  <2>7. Types'
    BY <1>1, <2>1, <2>4, <2>6 DEF Types, Contexts
  <2>8. DescriptorsOwned'
    BY <1>1, <2>1, <2>4, <2>6, OwnedSame
  <2>9. RenameClear' /\ CallHolds'
    BY <1>1, <2>1, <2>4, <2>5 DEF RenameClear, CallHolds
  <2> QED
    BY <2>6, <2>7, <2>8, <2>9 DEF Names
<1> QED
  BY <1>2, <1>3

\* The file moves, and the name of every handle on it with it.
LEMMA RenameNowInv ==
    ASSUME Inv, renameNow
    PROVE  Inv'
<1> DEFINE from == call.path
           to == call.to
<1>1. call.op = "rename" /\ UNCHANGED <<left, changes>>
  BY DEF renameNow
<1>2. CASE Refuse
  BY <1>1, <1>2, RefusedInv
<1>3. CASE ~Refuse
  <2> USE DEF Inv
  <2>1. /\ Move(from, to) /\ call' = Idle
        /\ name' = [c \in DOMAIN name |->
                      IF name[c] = from /\ c \in Handles THEN to ELSE name[c]]
        /\ UNCHANGED <<ctx, cleaned, opened, doomed>>
    BY <1>3 DEF renameNow, contextVars
  <2>2. CallTyped' /\ RenameClear' /\ CallHolds' /\ call'.op = "idle"
    BY <2>1, Ends
  <2>3. from \in Path /\ to \in Path
    BY <1>1, CallIs DEF Types
  <2>4. UNCHANGED fds
    BY <2>1 DEF Move
  <2>5. /\ Tree'
        /\ from \in DOMAIN node /\ to \in DOMAIN node' /\ node'[to] = node[from]
        /\ \A q \in DOMAIN node : ~Under(q, from) /\ q # to =>
              q \in DOMAIN node' /\ node'[q] = node[q]
        /\ \A q \in DOMAIN node' : ~Under(q, to) =>
              q \in DOMAIN node /\ node'[q] = node[q]
        /\ Range(node') \subseteq Range(node)
    BY <2>1, <2>3, Renamed DEF Types
  <2>6. Handles' = Handles /\ Handles \subseteq DOMAIN name
    BY <2>1 DEF Handles, Types, Contexts
  <2>7. Contexts'
    <3>1. name' \in [DOMAIN ctx' -> Path]
      BY <2>1, <2>3 DEF Types, Contexts
    <3> QED
      BY <2>1, <3>1 DEF Types, Contexts
  <2>8. Types'
    BY <1>1, <2>2, <2>4, <2>5, <2>7 DEF Types
  <2>9. DescriptorsOwned'
    BY <1>1, <2>1, <2>2, <2>4, OwnedSame
  <2>10. ASSUME NEW c \in Handles
         PROVE  IF name[c] = from THEN name'[c] = to
                ELSE /\ name'[c] = name[c] /\ ~Under(name[c], to) /\ name[c] # to
                     /\ ~Under(name[c], from)
    BY <1>1, <2>1, <2>3, <2>6, UnderItself DEF RenameClear
  <2>11. NameLeads'
    BY <1>1, <2>1, <2>5, <2>6, <2>10 DEF NameLeads
  <2>12. SameName'
    BY <1>1, <2>1, <2>6 DEF SameName
  <2>13. MarkedTogether'
    BY <1>1, <2>1, <2>5, <2>6, <2>10 DEF MarkedTogether
  <2> QED
    BY <2>2, <2>8, <2>9, <2>11, <2>12, <2>13
<1> QED
  BY <1>2, <1>3

\* The entry that a link is to replace goes.
LEMMA SetReparsePointInv ==
    ASSUME Inv, NEW c \in DOMAIN ctx, set_reparse_point(c)
    PROVE  Inv'
<1> DEFINE p == ctx[c].path
           o == node[p]
<1> USE DEF Inv
<1>1. /\ call = Idle /\ Unlink(p)
      /\ call' = [op |-> "relink", path |-> p, was |-> o]
      /\ UNCHANGED <<ctx, cleaned, name, opened, doomed, left, changes>>
  BY DEF set_reparse_point, contextVars, winfspVars
<1>2. p \in Path
  BY DEF Types, Contexts, ContextType
<1>3. /\ p \in DOMAIN node /\ DOMAIN node' = DOMAIN node \ {p}
      /\ Range(node') = Range(node) \ {o}
  BY <1>1, <1>2, Removed DEF Types
<1>4. /\ call.op = "idle" /\ call'.op = "relink" /\ CallTyped'
      /\ call'.path = p /\ call'.was = o
  BY <1>1, <1>2, <1>3 DEF CallTyped, Idle, Types, Tree
<1>5. Handles' = Handles
  BY <1>1 DEF Handles
<1>6. Tree' /\ UNCHANGED fds /\ Names'
  BY <1>1, <1>2, <1>5, TreeAfterUnlink DEF Names
<1>7. Types'
  BY <1>1, <1>4, <1>6 DEF Types, Contexts
<1>8. DescriptorsOwned'
  BY <1>1, <1>4, <1>6, OwnedSame
<1>9. RenameClear'
  BY <1>4 DEF RenameClear
<1>10. CallHolds'
  <2> SUFFICES ASSUME changes = 0
               PROVE  /\ o \notin Range(node')
                      /\ \A h \in Handles :
                            /\ opened[h] = o => name[h] = p
                            /\ name[h] = p /\ opened[h] \in doomed => o \in doomed
    BY <1>1, <1>4, <1>5 DEF CallHolds
  <2>1. ASSUME NEW h \in Handles, opened[h] = o PROVE name[h] = p
    <3>1. name[h] \in DOMAIN node /\ node[name[h]] = o
      BY <1>3, <2>1 DEF NameLeads, Range
    <3> QED
      BY <1>3, <3>1 DEF Types, Tree, OneName
  <2>2. ASSUME NEW h \in Handles, name[h] = p, opened[h] \in doomed PROVE o \in doomed
    BY <1>3, <2>2 DEF MarkedTogether
  <2> QED
    BY <1>3, <2>1, <2>2
<1> QED
  BY <1>6, <1>7, <1>8, <1>9, <1>10 DEF Names

\* The link takes the entry's place, and the handles on it; or nothing does.
LEMMA RelinkInv ==
    ASSUME Inv, relink
    PROVE  Inv'
<1> DEFINE p == call.path
           was == call.was
<1> USE DEF Inv
<1>1. /\ call.op = "relink" /\ call' = Idle
      /\ UNCHANGED <<ctx, cleaned, name, left, changes>>
  BY DEF relink, contextVars
<1>2. CallTyped' /\ RenameClear' /\ CallHolds' /\ call'.op = "idle"
  BY <1>1, Ends
<1>3. p \in Path /\ was \in Object
  BY <1>1, CallIs DEF Types
<1>4. Handles' = Handles /\ Handles \subseteq DOMAIN opened
  BY <1>1 DEF Handles, Types, Contexts
<1>5. changes = 0 =>
         /\ was \notin Range(node)
         /\ \A h \in Handles :
               /\ opened[h] = was => name[h] = p
               /\ name[h] = p /\ opened[h] \in doomed => was \in doomed
  BY <1>1 DEF CallHolds
<1>6. opened \in [DOMAIN ctx -> Object \union {NoObject}] /\ doomed \subseteq Object
  BY DEF Types, Contexts
<1>7. ASSUME NEW o \in Object, Make(p, "leaf", Known \union {was}), node'[p] = o,
             opened' = Instead(opened, o),
             doomed' = IF was \in doomed THEN (doomed \ {was}) \union {o} ELSE doomed
      PROVE  Inv'
  <2>1. PICK n \in Object :
           n \notin Range(node) \union Known \union {was} /\ node' = Put(node, p, n)
    BY <1>7 DEF Make, IsNew
  <2>2. n = o
    BY <1>7, <2>1 DEF Put
  <2>3. /\ Tree'
        /\ DOMAIN node' = DOMAIN node \union {p}
        /\ \A q \in DOMAIN node : q # p /\ node'[q] = node[q]
        /\ Range(node') = Range(node) \union {o}
    BY <1>3, <1>7, <2>1, <2>2, Made DEF Types, Make
  <2>4. UNCHANGED fds
    BY <1>7 DEF Make
  <2>5. \A h \in DOMAIN opened : opened'[h] = IF opened[h] = was THEN o ELSE opened[h]
    BY <1>7 DEF Instead
  <2>6. o # was /\ o \notin doomed /\ \A h \in DOMAIN opened : opened[h] # o
    BY <1>6, <2>1, <2>2, ContextAssumption DEF Known, Range
  <2>7. Contexts'
    <3>1. opened' \in [DOMAIN ctx -> Object \union {NoObject}]
      BY <1>6, <1>7 DEF Instead
    <3> QED
      BY <1>1, <1>6, <1>7, <3>1 DEF Types, Contexts
  <2>8. Types'
    BY <1>1, <1>2, <2>3, <2>4, <2>7 DEF Types
  <2>9. DescriptorsOwned'
    BY <1>1, <1>2, <2>4, OwnedSame
  <2>10. NameLeads'
    BY <1>1, <1>4, <1>5, <1>7, <2>3, <2>5, <2>6 DEF NameLeads
  <2>11. SameName'
    BY <1>1, <1>3, <1>4, <1>6, <2>5, <2>6, ContextAssumption DEF SameName
  <2>12. MarkedTogether'
    <3> SUFFICES ASSUME changes = 0, NEW h \in Handles, opened'[h] \in doomed',
                        name[h] \in DOMAIN node'
                 PROVE  node'[name[h]] \in doomed'
      BY <1>1, <1>4 DEF MarkedTogether
    <3>1. CASE opened[h] = was
      BY <1>4, <1>5, <1>7, <2>5, <3>1
    <3>2. CASE opened[h] # was
      <4>1. opened[h] \in doomed
        BY <1>4, <1>7, <2>5, <2>6, <3>2
      <4>2. CASE name[h] = p
        BY <1>5, <1>7, <4>1, <4>2
      <4>3. CASE name[h] # p
        <5>1. name[h] \in DOMAIN node /\ node'[name[h]] = node[name[h]]
          BY <2>3, <4>3
        <5>2. node[name[h]] \in doomed
          BY <4>1, <5>1 DEF MarkedTogether
        <5>3. node[name[h]] # was
          BY <1>5, <5>1 DEF Range
        <5> QED
          BY <1>7, <5>1, <5>2, <5>3
      <4> QED
        BY <4>2, <4>3
    <3> QED
      BY <3>1, <3>2
  <2> QED
    BY <1>2, <2>8, <2>9, <2>10, <2>11, <2>12
<1>8. ASSUME opened' = Instead(opened, NoObject), doomed' = doomed \ {was},
             UNCHANGED deviceVars
      PROVE  Inv'
  <2>1. UNCHANGED <<node, fds>>
    BY <1>8 DEF deviceVars
  <2>2. \A h \in DOMAIN opened :
           opened'[h] = IF opened[h] = was THEN NoObject ELSE opened[h]
    BY <1>8 DEF Instead
  <2>3. Contexts'
    <3>1. opened' \in [DOMAIN ctx -> Object \union {NoObject}]
      BY <1>6, <1>8 DEF Instead
    <3> QED
      BY <1>1, <1>6, <1>8, <3>1 DEF Types, Contexts
  <2>4. Types'
    BY <1>1, <1>2, <2>1, <2>3 DEF Types, Tree, FP!TreeOK, FP!TreeClosed, OneName
  <2>5. DescriptorsOwned'
    BY <1>1, <1>2, <2>1, OwnedSame
  <2>6. NoObject \notin Range(node)
    BY ContextAssumption DEF Types, Tree, Range
  <2>7. NameLeads'
    BY <1>1, <1>4, <2>1, <2>2, <2>6 DEF NameLeads
  <2>8. SameName'
    BY <1>1, <1>4, <2>2 DEF SameName
  <2>9. MarkedTogether'
    <3> SUFFICES ASSUME changes = 0, NEW h \in Handles, opened'[h] \in doomed',
                        name[h] \in DOMAIN node
                 PROVE  node[name[h]] \in doomed'
      BY <1>1, <1>4, <2>1 DEF MarkedTogether
    <3>1. opened[h] \in doomed
      BY <1>4, <1>6, <1>8, <2>2, ContextAssumption
    <3>2. node[name[h]] \in doomed /\ node[name[h]] # was
      BY <1>5, <3>1 DEF MarkedTogether, Range
    <3> QED
      BY <1>8, <3>2
  <2> QED
    BY <1>2, <2>4, <2>5, <2>7, <2>8, <2>9
<1> QED
  BY <1>7, <1>8 DEF relink

\* Somebody else changes the tree: the facts on names are not stated any more.
LEMMA ElsewhereInv ==
    ASSUME Inv, Elsewhere
    PROVE  Inv'
<1> USE DEF Inv
<1>1. /\ changes < MaxChanges /\ changes' = changes + 1
      /\ UNCHANGED <<ctx, cleaned, call, name, opened, doomed, left>>
  BY DEF Elsewhere, contextVars, winfspVars
<1>2. changes' \in 0..MaxChanges /\ changes' # 0
  BY <1>1, ContextAssumption DEF Types
<1>3. Tree' /\ UNCHANGED fds
  <2>1. ASSUME NEW p \in Path, NEW k, Make(p, k, Known) PROVE Tree' /\ UNCHANGED fds
    <3>1. PICK o \in Object : o \notin Range(node) /\ node' = Put(node, p, o)
      BY <2>1 DEF Make, IsNew
    <3> QED
      BY <2>1, <3>1, Made DEF Make, Types
  <2>2. ASSUME NEW p \in Path, Unlink(p) PROVE Tree' /\ UNCHANGED fds
    BY <2>2, Removed DEF Unlink, Types
  <2>3. ASSUME NEW p \in Path, NEW q \in Path, Move(p, q) PROVE Tree' /\ UNCHANGED fds
    BY <2>3, Renamed DEF Move, Types
  <2> QED
    BY <2>1, <2>2, <2>3 DEF Elsewhere, Outside
<1>4. Handles' = Handles
  BY <1>1 DEF Handles
<1>5. Types'
  BY <1>1, <1>2, <1>3 DEF Types, Contexts, CallTyped
<1>6. DescriptorsOwned'
  BY <1>1, <1>3 DEF DescriptorsOwned
<1>7. NameLeads' /\ SameName' /\ MarkedTogether' /\ CallHolds'
  BY <1>2 DEF NameLeads, SameName, MarkedTogether, CallHolds
<1>8. RenameClear'
  BY <1>1, <1>4 DEF RenameClear
<1> QED
  BY <1>5, <1>6, <1>7, <1>8

LEMMA InitInv == Init => Inv
<1> SUFFICES ASSUME Init PROVE Inv
  OBVIOUS
<1> USE DEF Init
<1>1. node = [p \in {Root} |-> RootObject] /\ fds = <<>>
  BY DEF DeviceInit
<1>2. FP!TreeOK
  <2>1. Root \in Seq(Name) /\ Len(Root) = 0 /\ SubSeq(Root, 1, 0) = Root
    BY DEF Root
  <2>4. Len(Root) <= MaxDepth
    BY <2>1, DeviceAssumptions
  <2>2. Root \in Path
    BY <2>1, <2>4, SameDevice, DeviceAssumptions, FP!PathSeq
  <2>3. \A n \in 0..0 : n = 0
    OBVIOUS
  <2> QED
    BY <1>1, <2>1, <2>2, <2>3, SameDevice DEF FP!TreeOK, FP!TreeClosed
<1>3. RootObject \in Object
  BY DeviceAssumption DEF RootObject, Object
<1>4. Tree
  BY <1>1, <1>2, <1>3 DEF Tree, OneName
<1>5. Contexts
  BY DEF Contexts
<1>6. CallTyped /\ call.op = "idle"
  BY DEF CallTyped, Idle
<1>7. Types
  BY <1>1, <1>4, <1>5, <1>6, ContextAssumption DEF Types
<1>8. DescriptorsOwned
  BY <1>1, <1>6 DEF DescriptorsOwned
<1>9. NameLeads /\ SameName /\ MarkedTogether /\ RenameClear /\ CallHolds
  BY <1>6 DEF NameLeads, SameName, MarkedTogether, RenameClear, CallHolds, Handles
<1> QED
  BY <1>7, <1>8, <1>9 DEF Inv

LEMMA NextInv == Inv /\ [Next]_vars => Inv'
<1> SUFFICES ASSUME Inv, [Next]_vars PROVE Inv'
  OBVIOUS
<1>1. CASE UNCHANGED vars
  <2> USE <1>1 DEF vars, deviceVars, contextVars, winfspVars, Inv
  <2>1. CallTyped' /\ Handles' = Handles
    BY DEF Types, CallTyped, Handles
  <2>2. Types'
    BY <2>1 DEF Types, Tree, FP!TreeOK, FP!TreeClosed, OneName, Contexts
  <2>3. DescriptorsOwned'
    BY DEF DescriptorsOwned
  <2>4. NameLeads' /\ SameName' /\ MarkedTogether'
    BY <2>1 DEF NameLeads, SameName, MarkedTogether
  <2>5. RenameClear' /\ CallHolds'
    BY <2>1 DEF RenameClear, CallHolds, Exists
  <2> QED
    BY <2>2, <2>3, <2>4, <2>5
<1>2. ASSUME NEW p \in Path, open(p) PROVE Inv'
  BY <1>2, OpenInv
<1>3. ASSUME NEW p \in Path, createFile(p) PROVE Inv'
  BY <1>3, CreateFileInv
<1>4. ASSUME NEW p \in Path, NEW kind \in {"dir", "leaf"}, createEntry(p, kind) PROVE Inv'
  BY <1>4, CreateEntryInv
<1>5. ASSUME NEW c \in DOMAIN ctx, cleanup(c) \/ close(c) \/ set_reparse_point(c) PROVE Inv'
  BY <1>5, CleanupInv, CloseInv, SetReparsePointInv
<1>6. ASSUME NEW c \in DOMAIN ctx, NEW delete_file \in BOOLEAN, set_delete(c, delete_file)
      PROVE  Inv'
  BY <1>6, SetDeleteInv
<1>7. ASSUME NEW c \in DOMAIN ctx, NEW to \in Path, NEW replace \in BOOLEAN,
             rename(c, to, replace)
      PROVE  Inv'
  BY <1>7, RenameInv
<1> QED
  BY <1>1, <1>2, <1>3, <1>4, <1>5, <1>6, <1>7, OpenFileInv, StatEntryInv, StatCreatedInv,
     RemoveTargetInv, RenameNowInv, RelinkInv, ElsewhereInv DEF Next
-----------------------------------------------------------------------------
(***************************************************************************)
(* The theorems.                                                           *)
(***************************************************************************)
\* The invariant, of every handler and whatever the device's programs do.
THEOREM Invariant == Spec => []Inv
<1>1. Init => Inv
  BY InitInv
<1>2. Inv /\ [Next]_vars => Inv'
  BY NextInv
<1> QED
  BY <1>1, <1>2, PTL DEF Spec

\* The contexts, WinFsp's names and the handler that runs
\* (windows_filesystem.rs:19-29) have their types.
THEOREM TypeCorrect == Spec => []TypeOK
<1>1. Inv => TypeOK
  <2> SUFFICES ASSUME Inv PROVE TypeOK
    OBVIOUS
  <2>1. DeviceTypeOK
    BY TreePaths DEF Inv, Types, Tree, DeviceTypeOK, Range
  <2>2. left \subseteq DOMAIN fds
    BY DEF Inv, DescriptorsOwned
  <2>3. call.op \in {"idle", "open", "made", "created", "replace", "rename", "relink"}
    BY DEF Inv, Types, CallTyped, Idle
  <2> QED
    BY <2>1, <2>2, <2>3 DEF TypeOK, Inv, Types, Contexts, ContextType
<1> QED
  BY <1>1, Invariant, PTL

\* No descriptor is closed twice or belongs to two handles, and none is lost
\* but by a create that fails after its Open and a Close that is refused
\* (windows_filesystem.rs:179-225, 292-300).
THEOREM Owned == Spec => []DescriptorsOwned
<1>1. Inv => DescriptorsOwned
  BY DEF Inv
<1> QED
  BY <1>1, Invariant, PTL

\* The path of a context leads to the file of its handle unless this file was
\* renamed (windows_filesystem.rs:90-103, 277-290).
THEOREM PathLeads == Spec => []PathLeadsToFile
<1>1. Inv => PathLeadsToFile
  BY DEF Inv, NameLeads, PathLeadsToFile, Exists
<1> QED
  BY <1>1, Invariant, PTL

\* The handlers remove an object of the tree only as NothingElseVanishes says
\* (windows_filesystem.rs:246-290, 504-519).
THEOREM NothingElse == Spec => NothingElseVanishes
<1> DEFINE Why(o) ==
              \/ o \in doomed
              \/ call.op \in {"replace", "rename"} /\ Exists(call.to) /\ node[call.to] = o
              \/ call'.op = "relink" /\ call'.was = o
              \/ \E c \in cleaned' \ cleaned :
                    /\ ctx[c].delete_pending
                    /\ name[c] # ctx[c].path \/ opened[c] \notin doomed
           Gone == Range(node) \ Range(node')
           Step == changes' = 0 => \A o \in Gone : Why(o)
<1>1. ASSUME Inv, [Next]_vars PROVE [Step]_vars
  <2> SUFFICES ASSUME changes' = 0, NEW o \in Gone, Next PROVE Why(o)
    BY <1>1
  <2> USE <1>1
  <2>1. Tree /\ CallTyped
    BY DEF Inv, Types
  <2>2. UNCHANGED node => FALSE
    OBVIOUS
  <2>3. ASSUME NEW p, NEW n, node' = Put(node, p, n), p \notin DOMAIN node PROVE FALSE
    BY <2>3 DEF Put, Range
  <2>4. ASSUME NEW p \in Path, Unlink(p) PROVE p \in DOMAIN node /\ o = node[p]
    BY <2>1, <2>4, Removed
  <2>5. ASSUME NEW p, NEW k, NEW known, Make(p, k, known) PROVE FALSE
    BY <2>3, <2>5 DEF Make, Free, Exists
  <2>6. ASSUME NEW p, NEW mode, Open(p, mode, Known) PROVE FALSE
    BY <2>2, <2>3, <2>6 DEF Open, Free, Exists
  <2>7. CASE \E p \in Path : open(p)
    BY <2>2, <2>7 DEF open, deviceVars
  <2>8. CASE \E p \in Path : createFile(p)
    BY <2>6, <2>8 DEF createFile
  <2>9. CASE \E p \in Path, kind \in {"dir", "leaf"} : createEntry(p, kind)
    BY <2>5, <2>9 DEF createEntry
  <2>10. CASE openFile \/ statEntry \/ statCreated
    BY <2>2, <2>6, <2>10 DEF openFile, statEntry, statCreated, Refuse, deviceVars
  <2>11. ASSUME NEW c \in DOMAIN ctx, cleanup(c) PROVE Why(o)
    <3> DEFINE p == ctx[c].path
    <3>1. p \in Path
      BY DEF Inv, Types, Contexts, ContextType
    <3>2. /\ c \in Handles /\ c \in cleaned' \ cleaned /\ UNCHANGED changes
          /\ (ctx[c].delete_pending /\ Unlink(p)) \/ UNCHANGED deviceVars
      BY <2>11 DEF cleanup, Handles
    <3>3. ctx[c].delete_pending /\ p \in DOMAIN node /\ o = node[p]
      BY <2>2, <2>4, <3>1, <3>2 DEF deviceVars
    <3>4. name[c] = p /\ opened[c] \in doomed => o \in doomed
      BY <3>2, <3>3 DEF Inv, MarkedTogether
    <3> QED
      BY <3>2, <3>3, <3>4
  <2>12. CASE \E c \in DOMAIN ctx : close(c)
    BY <2>2, <2>12 DEF close, CloseFd, deviceVars
  <2>13. ASSUME NEW c \in DOMAIN ctx, set_reparse_point(c) PROVE Why(o)
    <3>1. ctx[c].path \in Path
      BY DEF Inv, Types, Contexts, ContextType
    <3>2. Unlink(ctx[c].path) /\ call'.op = "relink" /\ call'.was = node[ctx[c].path]
      BY <2>13 DEF set_reparse_point
    <3> QED
      BY <2>4, <3>1, <3>2
  <2>14. CASE \E c \in DOMAIN ctx, delete_file \in BOOLEAN : set_delete(c, delete_file)
    BY <2>2, <2>14 DEF set_delete, deviceVars
  <2>15. CASE \E c \in DOMAIN ctx, to \in Path, replace \in BOOLEAN : rename(c, to, replace)
    BY <2>2, <2>15 DEF rename, deviceVars
  <2>16. CASE removeTarget
    <3>1. call.op = "replace" /\ call.to \in Path
      BY <2>1, <2>16, CallIs DEF removeTarget
    <3>2. Unlink(call.to)
      BY <2>2, <2>16 DEF removeTarget, Refuse, deviceVars
    <3> QED
      BY <2>4, <3>1, <3>2 DEF Exists
  <2>17. CASE renameNow
    <3>1. call.op = "rename" /\ call.path \in Path /\ call.to \in Path
      BY <2>1, <2>17, CallIs DEF renameNow
    <3>2. Move(call.path, call.to)
      BY <2>2, <2>17 DEF renameNow, Refuse, deviceVars
    <3>3. call.to \in DOMAIN node /\ node[call.to] = o
      BY <2>1, <3>1, <3>2, Renamed
    <3> QED
      BY <3>1, <3>3 DEF Exists
  <2>18. CASE relink
    BY <2>2, <2>5, <2>18 DEF relink, deviceVars
  <2>19. CASE Elsewhere
    BY <2>19, ContextAssumption DEF Elsewhere, Inv, Types
  <2> QED
    BY <2>7, <2>8, <2>9, <2>10, <2>11, <2>12, <2>13, <2>14, <2>15, <2>16, <2>17, <2>18,
       <2>19 DEF Next
<1> HIDE DEF Step
<1>2. Spec => [][Step]_vars
  BY <1>1, Invariant, PTL DEF Spec
<1> QED
  BY <1>2 DEF NothingElseVanishes, Step
=============================================================================
