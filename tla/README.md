# A TLA+ development of ifuse-rs

ifuse-rs mounts a directory of an iOS device as a file system: on Linux through
fuser (FUSE), on Windows through WinFsp. Everything it does to the device goes
through one worker thread that speaks AFC over one connection. This directory
holds TLA+ modules of its parts, TLC configurations that check them on small
instances, and TLAPS proofs of what the runs check, for every set of names,
users and clients and every bound, and of the conversions no bounded check could settle.

    tlc -workers 2 -config MCBackend.cfg MCBackend.tla      # one run
    tlapm BackendProofs.tla                                 # one proof module

`PROJECT.json` lists the components, the runs, the mutants (plausible bugs each
property must catch), the source lines of every definition, the hazards and
the theorems.

## 1. Inventory

Paths are relative to `src/src/`.

| Component | State | Operations | Correct when |
|---|---|---|---|
| Inode table, `inode.rs` | `next`, `by_inode`, `by_path` | `path`, `inode`, `rename`, `remove` | the maps agree on what is tracked; a number never comes to mean another file; a rename takes the whole subtree along |
| Backend, `backend.rs` | worker thread, command channel, a reply channel per call, the join handle | `start`, `request`, `shutdown`/`stop`, `drop`, the worker's loop | a call is carried out once and answered, or refused and not carried out; nobody waits for ever; nothing runs after `stop` |
| AFC transport, `afc.rs` | the stream, the packet number; on the device a tree, descriptors and a cursor for each | `read`, `write`, `seek`, `truncate`, `open`, `close`, commands on paths | chunked transfers amount to positional I/O; two paths of the mount are two paths on the device |
| FUSE file system, `filesystem.rs` | the inode table, the backend's sender | one handler per FUSE operation | kernel, table and device agree; a change by number reaches the file that is meant; no descriptor is lost |
| Linux mount, `platform_linux.rs`, and the handle, `lib.rs` | two slots under a Mutex each: session, backend | `mount`, `unmount`, `is_mounted`, `drop` | after the last call nothing is left, whatever overlaps or fails |
| Program, `main.rs` | the handle, the signal futures | `run` | it mounts what the command line asks for, ends when it should, and leaves nothing |
| Windows file system, `windows_filesystem.rs` | a context per open handle: path, descriptor, `delete_pending`, a directory snapshot | one handler per WinFsp callback | descriptors have one owner; only what was asked for is deleted; a listing is one snapshot; a write lands where its handle's rights say |
| Windows mount, `platform_windows.rs` | two slots under a Mutex each: host, backend | `mount`, `unmount`, `is_mounted`, `drop` | as on Linux |
| Options and builder, `options.rs` | none | `validate`, `fuser_config`, `parse_network_address`, the builder's setters | nothing is started for a builder that cannot be mounted; the last word on the access counts |
| App listing, connecting, `backend.rs` | none of their own | `list_apps_blocking`, `connect`, `usbmuxd_provider`, `connect_source` | the device, transport and service are the ones asked for |
| Errors, `error.rs`; build script, manifest | none | conversions of errors | pure |

How they interact. A FUSE or WinFsp handler turns what the kernel gives it (an
inode number, a context) into a path or a descriptor, and calls
`backend::request`: it puts a command with a fresh reply channel in the worker's
queue and blocks on the reply. The worker takes one command at a time and calls
the AFC transport, which exchanges packets with the device. `mount` starts the
backend, asks for the device's name and size through it, and hands the file
system to fuser or WinFsp, whose threads call the handlers from then on.
`unmount` ends those threads first and then the worker, by a `Shutdown` command
in the same queue. The program is one user of the `MountHandle`; a library's
users may hold clones of it on many threads.

What is hard in this code:

- **Concurrency**: callers, the worker, the session thread and several users of
  the handle meet at a queue, two slots and a join; `Shutdown` may overtake or be
  overtaken by commands; a Mutex's guard lives as long as a statement in one
  place and as long as the body of an `if let` in another.
- **Others change the tree**: the device's own programs do, between any two
  commands of one handler. Handlers of several commands (make, then stat; list,
  then stat each entry; remove, then rename) see a tree that has moved on.
- **Failure**: any command may fail, at any place in a handler; `mount` has five
  points at which it gives up with things already started; an umount may fail.
- **Order and numbers**: loops over a HashMap, page offsets that are indices,
  chunk loops with short transfers.
- **Waiting**: the code has no timeout. A device that stops answering stops
  everything that waits for it, `unmount` included.

`PROJECT.json` lists 40 hazards with the line at which each bites and the
properties that would catch it; those without a property say why.

## 2. Modules

| Module | Source | What it is |
|---|---|---|
| `AfcPaths` | `inode.rs`, `afc.rs` | paths as sequences of names: `child`, `parent`, prefixes, rebasing; `Put` and `Drop` of maps |
| `InodeTable` | `inode.rs` | the table, one action per operation |
| `InodeTableLoops` | `inode.rs` | the loops of `rename` and `remove`, one entry per step, in any order; refines `InodeTable` |
| `InodeTableProofs` | | theorems about `InodeTable` |
| `AfcService` | | abstract: what the backend promises its callers |
| `Backend` | `backend.rs` | owner, worker, queue and calls; refines `AfcService` |
| `BackendProofs` | | theorems about `Backend` |
| `LinuxMount` | `platform_linux.rs`, `lib.rs` | mounting thread, users of the handle, session thread; composed with `Backend` |
| `WindowsMount` | `platform_windows.rs` | the same for Windows |
| `WindowsMountProofs` | | theorems about `WindowsMount`, from those about `Backend` |
| `Options` | `options.rs` | operators: `validate`, `fuser_config`, `parse_network_address` |
| `Connection` | `backend.rs` | operators: from a target to a device, from a source to a service, the list of apps |
| `IfuseMain` | `main.rs`, `lib.rs` | the program from its command line on, the only user of the `LinuxMount` it extends; with `Connection` and `Options` |
| `LinuxMountProofs` | | theorems about `LinuxMount`, from those about `Backend`, and about `IfuseMain`, from those about the mount |
| `AfcDevice` | external, `afc.rs` | the device: a tree of objects, its descriptors, one operator per command |
| `FuseFs` | `filesystem.rs` | the handlers that change the tree, the table or the kernel's view; instantiates `InodeTable`, extends `AfcDevice` |
| `FuseFsProofs` | | theorems about `FuseFs`, from those about `InodeTable` |
| `ReadDir` | `filesystem.rs`, `windows_filesystem.rs` | `readdir` and `read_directory`, page by page |
| `ReadDirProofs` | | theorems about `ReadDir` |
| `WinFs` | `windows_filesystem.rs` | the handlers that open and close handles or change the tree; extends `AfcDevice` |
| `WinFsProofs` | | theorems about `WinFs`; the lemmas on paths and the tree are those of `FuseFsProofs` |
| `PositionalFile` | | abstract: what a call asks for done in a single step |
| `AfcFile` | `afc.rs` | seeks, chunks and failures; refines `PositionalFile` |
| `FileHandlers` | `filesystem.rs`, `windows_filesystem.rs` | the handlers that move data, over the calls of `AfcFile` |
| `Conversions` | `afc.rs`, `windows_filesystem.rs` | operators: paths below a root, Windows names, times, link targets |
| `DataProofs` | | theorems about `FileHandlers` and `AfcFile`, about the loops of `InodeTableLoops`, and about `Conversions` |

The `MC*` modules only declare model values and symmetry sets for the runs.

### State and actions

**`InodeTable`.** `next`, `by_inode` and `by_path` are the fields of the struct.
`inode(p)`, `rename(from, to)` and `remove(p)` are the methods, each the effect of
its whole loop. `MayRename` is the kernel's part: no rename of the root, into
itself, or without a source. A path is a sequence of at most `MaxDepth` names. The code's test, equality or `path + "/"` as a prefix,
is the prefix of whole names here, so that `/old` and `/older` are two names from the start: a slip in the test itself is out of reach.
What stays behind when a rename replaces a tracked path - a number with no path of
its own - is in the model as in the code.

**`Backend`.** `owner` is where the thread that owns the `Backend` is in start and
stop; `worker` is the thread (`unborn`, `connecting`, `idle`, `busy`,
`returning`, `exited`); `queue` the channel, `current` the command the worker
holds; `waiting`, `reply` and `result` the callers in `request`. Between leaving
its loop and dropping the receiver the worker accepts sends that nobody will
read: `WorkerReturns` drops the queue and with it the reply channels. `runs` counts
what the device did for each call (history).

**`LinuxMount`, `WindowsMount`.** `phase` is how far `mount()` is. `at[u]` is where user
`u` is in `unmount` or `drop`, one place per call that can block: taking the session
out of its slot, umount, join of the session, the Mutex of the backend slot, join of
the worker. The guard that `if let Some(mut backend) = self.backend.lock()...take()`
holds covers its body, so `lock` is held while the worker is joined; on Linux the
session slot's guard goes at the end of its `let` statement, on Windows the host
slot's guard covers stop and unmount. That difference is what finding 1 is about.
`umountFailed` is history.

**`IfuseMain`, `Connection`, `Options`.** `main` is where `run()` is, `cli` the command line and
`builder` the `IfuseBuilder`. `Run` is `run` up to `mount()` or `list_apps`. What `LinuxMount` leaves open is
decided here: `Mount` lets `mount()` begin only when `validate` has no objection, and `Worker` lets the
worker connect only to what `Provider` finds in the list usbmuxd gave it (`GetDevices`, any list, at any time
before). Any call of the idevice crate may still fail. `conn` is the connection that came of it, `acl` who may use
the mount. Since clap has no option for an address, a program on the library that gives one is modelled
along: it starts at `mount()` and goes on as `run` does. Signals before the first poll of the select have
their default action (`SignalKills`), later ones set `signal`. The operators work on what the code tells apart:
a text is blank or not, a path is what is there, an address is a sequence of tokens.

**`AfcDevice`, `FuseFs`, `WinFs`.** The device maps paths to objects; an object is a
kind and a number, so that a file that was removed and one that was made anew at the
same path are told apart. A handler of several commands is in `call` between two of
them; fuser runs one handler at a time with the options the code gives it, and
WinFsp's host is built with `CoarseGuard`, so one `call` is enough. Each command may fail
without an effect. `Elsewhere` is any change by the device's own programs. A descriptor the device hands out is
a free one, always the same: no step depends on which. `Move` has the rules of rename(2), also that a rename of one name
of a file to another one of it (`Twins`) succeeds and leaves both. `open_mode` gives the modes of `open` and `create`: all but
`RdOnly` make the file that is not there. In `FuseFs` the kernel is what it was told: which object each number stood for
(`ident`), what it removed (`gone`), which handles it holds on which number (`held`). A number that was unlinked
or replaced is still in use while a handle on it is open, and `setattr` (`truncate`, `setMtime`, `setattrEnds`) may
be called on it: `Meant` is the object the kernel means by it then. In `WinFs` WinFsp
is what it knows: the name each handle's file has now, and which files are marked. It is taken to ask for no rename of the
root, to the name the file has already, over a name with an open handle, or of a directory with an open handle below it.

**`ReadDir`.** One enumeration from its start to its end or an error. On Linux a listing made anew for every
page and the index arithmetic of the loop; on Windows (`os`) a snapshot of stats one after the other, sorted, cut
into pages by `directory_start`.

**`AfcFile`.** One action per request that succeeds: `Seek`, `ReadChunk`, `WriteChunk`, `Truncate`;
`RequestFails` is any of them failing, a write after a first part. What the call was made with is
visible to `PositionalFile` (`Request`), so that the right bytes at a wrong offset would be a violation;
`ImplementsTable` ties the loops of the inode table to their arguments in the same way.

**`FileHandlers`.** `handler` is where the handler is, over `call` of `AfcFile`. `write_to_eof` is a stat and a
write at the size it found; `overwrite` and `set_file_size` are one command of any size. `access_mode`
decides which handles append. `Elsewhere` is another program at the same file between two commands.

**`Conversions`.** No state: texts and numbers, as the code converts them; 64-bit and 16-bit limits are
written out. A text is the sequence of the UTF-16 units of its characters. A Rust `String` is one in which every surrogate is paired (`WellFormed`);
what WinFsp or a reparse buffer holds need not be, and `wide_string` puts U+FFFD for each unpaired one, as
`to_string_lossy` and `from_utf16_lossy` do.

## 3. Runs

| Run | Properties | What it shows |
|---|---|---|
| `inode_table` | `PathEntriesBacked`, `NumbersNeverReused`, `SubtreesStayTogether`, `CutOffOnlyByReplacement`, `OrphansFrozen` | the maps never disagree on a tracked path; what replacement leaves behind is exactly that, and stays untouched |
| `inode_loops` | `ImplementsTable` | the order of the HashMap does not matter |
| `backend` | `ResultTellsTruth`, `NoStrandedCaller`, `NothingRunsAfterStop`, `EveryCallReturns`, `ImplementsService` | `BackendStopped` means not carried out; every call and every stop returns |
| `mount` | `AllReturnedMeansGone`, `OkMeansBackendStopped`, `FailedMountLeavesNothing`, `UnmountEnds` | two users, failing umounts, outside unmounts, failing mounts: calls return, and after an unmount all is over in the end |
| `mount_overlap` | `OkMeansUnmounted`, violated | finding 1 |
| `windows_mount` | `OkMeansUnmounted`, `BackendOutlivesDispatcher`, `FailedMountLeavesNothing`, `UnmountReturns` | on Windows Ok does mean unmounted |
| `program` | `ExitLeavesNothing`, `MountedAsAsked`, `ConnectsAsAsked`, `ProgramEnds` | the connection and the mount are the ones asked for; a signal or the end of the mount ends the program, and it cleans up |
| `program_early_signal` | `ExitUnmounts`, violated | finding 2 |
| `fuse_fs` | `KernelAgrees`, `SetattrHitsItsFile`, `GoneStaysGone`, `DescriptorsOwned`, `ImplementsInodeTable` | the handlers keep kernel, table and device together, and use the table as `InodeTable` allows, so that what is proved there holds here; `setattr` misses its file only when that was replaced while open |
| `read_dir` | `UnchangedDirectoryReadOnce`, `EachRemovalHidesAtMostOne`, `EachAdditionRepeatsAtMostOne`, `SnapshotReadOnce`, `ListingEnds` | on Linux exact when nothing changes, and each change costs at most one entry; on Windows exact for the snapshot |
| `windows_fs` | `DescriptorsOwned`, `PathLeadsToFile`, `NothingElseVanishes` | who owns descriptors; a context's path is stale only after a rename of its own file; what may disappear, with the cases in which a stale path or mark deletes something else stated as exceptions |
| `file_io` | `ImplementsPositionalFile`, `EofWriteKeepsAll`, `AppendAccessDecides`, `EveryCallEnds` | chunked transfers are positional I/O; a write to the end overwrites only what came since its stat; append access decides where a write lands |

Every property of a passing run has a mutant in `PROJECT.json`: a change of a
definition as a plausible bug would make it (a dropped guard, a stale flag, an
off-by-one), under which TLC finds the property violated.

### Bounds

Every bound is a constant of its module.

- *Paths*: two names (`Name`), two deep (`MaxDepth`) - the least at which a directory has
  a child to take along, a sibling that must stay, and a target that is there already.
  `windows_fs` is one deep with two names: a context has no subtree.
- *Numbers*: `MaxInode` 5 (4 where the table is part of more): removal, creation anew
  and replacement with new numbers all happen.
- *Clients*: three in `backend`, so that one is at the worker, one queued and one about
  to send; the proofs are for any number.
- *Users*: two, as every overlap of `unmount` and `drop` is one of two calls; a third finds
  the slots empty as the second does.
- *Objects and descriptors*: two objects of a kind (the root is a directory), one or two
  descriptors. A device without free descriptors is thereby met too.
- *Changes by others* (`MaxChanges`): one in `fuse_fs` and `windows_fs`, at any moment; two
  in `read_dir`. The properties that need an unchanged tree say so by `changes = 0`.
- *Pages* of two over up to four entries and the two dots, so that a page is exactly full, has
  one entry, and is followed by another; chunks of two bytes (`MAX_TRANSFER` is larger, but only
  whole, short and empty chunks differ) over transfers of up to three; one change of the file by others.
- *Command lines and builders*: every combination of device, transport and source; every kind of mount
  point; every sequence of two items in one `-o` or two; every address of up to five tokens, the
  least that has a scope in brackets. Two devices, each on the cable and in the network, in lists of two in any order.

Symmetry is used for names and contexts in runs of safety properties only.
`CHECK_DEADLOCK FALSE` is given where the system really stops: after the backend, the
mount, the program or an enumeration is over.

### Fairness

Threads run (weak fairness of each thread's steps), and a caller that was woken goes on.
The worker's step is fair, which assumes that the device answers a request or the
connection breaks: the code has no timeout, and with a device that does neither,
no liveness property holds; in `FileHandlers` the thread of the handler is fair as well. Nobody has to call `unmount`, send a signal or make a
request. On Windows `StopHost` is strongly fair: stop keeps the dispatcher from taking
new requests, so a busy mount does not keep it waiting for ever. In `AfcFile` a request need
not fail for a call to end. Where a step
is a program's choice (a new request, an unmount from outside) there is no fairness.

## 4. Findings

1. **Overlapping unmounts on Linux** (`mount_overlap`). `unmount` takes the session out of its
   slot and lets the Mutex go before `umount_and_join` (`platform_linux.rs:36-44`). A second
   `unmount` on a clone finds the slot empty, goes straight to `stop_backend` and returns Ok while
   the file system is mounted, and stops the backend under the session, so that the kernel's
   requests fail. `lib.rs:70` and `README.md:54` promise a clean stop and safe repeated calls. What does hold,
   and is checked: Ok means the backend has stopped, and nothing is left once all calls
   have returned and none failed.
2. **Early signals** (`program_early_signal`). `shutdown_signal` registers its handlers when the select
   first polls it, after `mount()` has returned (`main.rs:120-148`). A signal before that kills the
   process, and a mount that is there already stays, unless `auto_unmount` was given.
   `README.md:33` says that signals unmount cleanly.

## 5. Proofs

TLAPS checks these for every value of the constants, under the named assumptions of the
modules: `DepthAssumption`, `InodeAssumption`, `TableAssumption`, `BoundAssumption`, `TransferAssumption`, `DeviceAssumption` and `ContextAssumption` (the bounds are natural
numbers, and what has to be positive is), `ShutdownAssumption` and `ThreadAssumption` (the `Shutdown` command is not a
client, the two threads that call are two, and no user is the mark of a free lock), `PageAssumption` (a reply has
room for an entry; names are finitely many, are not the dots, and have an order, as texts of at most 255 bytes do),
`AccessAssumption` and `OpenAssumption` (a handle is opened for reading, writing or appending, in the mode `access_mode` gives), and
`InputAssumption`, which is described with the program below.
TLC evaluates each of them on the runs.

Each state machine has its inductive invariant and a lemma per action; the theorems named below follow from it. Before a
proof, TLC checked the invariant on the bounds of the module's run.

**`InodeTableProofs`.** The inductive invariant `Inv` is `TypeOK` with `PathEntriesBacked`: every
tracked path has an inode with that very path. It is needed as a whole: that `rename` keeps
the maps in step rests on no two paths sharing a number, and that `inode` hands out a fresh one
rests on the numbers being below `next`. The lemmas about paths (`UnderSplits`,
`JoinAssociative`, `RebaseAndBack`) carry `rename`: it moves a subtree onto disjoint new paths and
back. From `Inv`: `TypeCorrect`, `Backed`, `NeverReused`, `StayTogether`, `CutOff`, `Frozen` -
all the properties of the run `inode_table`.

**`BackendProofs`.** `Inv` is `TypeOK`, `Threads` (where owner, worker and channel can be together) and,
for each client, `Place` (a blocked call is in the queue once, at the worker, or answered -
exactly one of these) and `Carried` (how often the device has run it by then). `Place` is the
part one would forget: without it a second copy of a command in the queue could answer a call
that was refused. From `Inv`: `TypeCorrect`, `TellsTruth`, `NoneStranded`, `InOnePlace`,
`QuietAfterStop`.

`Serves` is the refinement of `AfcService`, step by step. The mapping is that of `Backend`: a call's stage is read off
the queue, the worker and the reply channels, and a command is late from the moment `Shutdown` is in front of it. Beyond `Inv` it
needs `Stopping`: when `Shutdown` can be in the queue at all, and that nobody calls before the backend runs. The step one would get
wrong is `BeginStop`: it puts `Shutdown` at the end, so it makes no call late that was not.

**`LinuxMountProofs`, `WindowsMountProofs`.** `BackendInside` shows that every step of a mount is a step of `Backend`
or leaves it alone, whoever takes it; so `Inv` and `Stopping` of `BackendProofs` hold in the mounts and are not proved again. `MountInv`
adds what is the mount's own: how far `mount()` is for each state of the owner (`Owned`), who holds the Mutexes (`Locks`),
and who is left to end the session once it is out of its slot (`SessionInHand`; on Windows, that nobody is past the host slot while the
dispatcher runs). From it, for any number of users: `OkIsBackendStopped`, `AllReturnedIsGone` and `FailedLeavesNothing` on Linux;
`OkIsUnmounted`, `DispatcherHasBackend` and `FailedLeavesNothing` on Windows. `OkMeansUnmounted` is the property that finding 1 refutes on Linux: the two
proofs differ where the guards do.

**`FuseFsProofs`.** `UsesInodeTable` (`ImplementsInodeTable`) comes first: each handler uses the table as `InodeTable` allows, which needs
that the kernel's numbers are live (`TrackedLive`) and the tree has no holes (`TreeClosed`), for a rename on the device moves the
same subtree as the one in the table. With it, the invariant of `InodeTableProofs` is part of the one here, and `StaysGone`
follows from numbers never being reused; `TableHolds` states what is proved of the table for the file system it is part of. `HeldKnown` (a handle is of a number the kernel knows or saw go) is what `SetattrHits` rests on. From `Inv`:
`TypeCorrect`, `Agreed`, `StaysGone`, `Owned`, and the action property `SetattrHits`.

**`WinFsProofs`.** The device is the same, so the lemmas about paths and trees are taken from `FuseFsProofs` through an
instance. `OneName` (no hard links here) makes an object's path a function of the object. `NameLeads` and `MarkedTogether` are what `PathLeads` and
`NothingElse` need of the handles; `MarkedTogether` alone is not inductive - two handles on one file could have two names,
one of them marked - so `SameName` is part of the invariant. `RenameClear` and `CallHolds` carry what a handler looked at over to its next command.
From `Inv`: `TypeCorrect`, `Owned`, `PathLeads`, and the action property `NothingElse`.

**`ReadDirProofs`.** An index means something only in the list it was taken from. `Hidden` and `Repeated` therefore compare, for each index, the names before
and behind it in the handler's list with those in the directory as it is now: a removal brings at most one more before it, an addition
one more behind it (`RemovalMoves`, `AdditionMoves`). The changes are divided (`r`, `a`) into those before the list was made, which account for
what has been missed or seen twice, and those since, which account for what will be. When a page is handed over the two
are added up. For Windows `Snapshot` says that what the reader has is what the sorted list begins with and that the marker is its last
name; `StartIsNext` then makes `partition_point` its length, and `SortedOrder` shows that there is an order to sort into. From `Inv`: `UnchangedReadOnce`,
`RemovalsHide`, `AdditionsRepeat`, `SnapshotOnce` - for any page size, and any number of changes between any two steps.

**`LinuxMountProofs`, the program.** `MountInside` shows that the program's steps are steps of a `LinuxMount` with one user, so that
`MountInv` holds in it. What is added is where `run()` is while the mount is where it is (`MainPlace`), what `mount()` was called with (`Asked`),
and which device the worker is about to reach (`Connecting`). From `MainPlace`: `LeavesNothing`, for every point at which a signal, an umount from outside or a
failure may come. `MountedIsAsked` (`MountedAsAsked`) and `ConnectionIsAsked` (`ConnectsAsAsked`) are about loops over lists of options, devices and tokens of
any length. No induction theorem of the library can be used here, so what a loop computes is proved by the least number at which the claim fails
(`LeastNumber`, `UpTo`, `LoopRuns`, `FirstIndex`, `LastIndex`), and the definitions of `Options` and `Connection` say of each loop which element it ends with.
These theorems assume that the program is the only user of its mount (`User = {Main}`, as `main.rs` has it) and `InputAssumption`: what clap accepts
(its `conflicts_with` allow one of root, documents and container), and that addresses are sequences of tokens.

**`DataProofs`, file I/O.** The inductive invariant says how far the loop of the call that runs is: `ReadSoFar`, that its output is what one request of
that length would have returned; `WrittenSoFar`, that the file is what one write of the bytes gone so far would have made of the file it
began with (`before`); both need the cursor to be behind what was moved. From it `LoopsArePositional` (`ImplementsPositionalFile`), in which a call that breaks off
is a shorter transfer, and, with which handler waits for which call, `EofWritesKeepAll` and `AppendRightDecides`.

**`DataProofs`, the loops of the inode table.** `LoopsAreSteps` (`ImplementsTable`): whatever order the HashMap iterates in, `rename` and `remove` amount to the one
step of `InodeTable`. The invariant `TableLoops` has a set of paths the loop has reached (`Reached`): the maps are those the call began with, with these moved or removed,
and what is to do is the rest. That no move undoes an earlier one rests on two facts: no new path lies under the old one (`MovedAway`, from `BothAbove` and
what the kernel refuses), and no two paths share a number (`BeganOnce`, from `PathEntriesBacked`). The invariant of `InodeTableProofs` is used for the table as others see it, by its
`NextInv`, and is not proved again.

**`DataProofs`, conversions.** Nothing here depends on a step, so each theorem is an ASSUME / PROVE about an operator, for every
text and every number. `PathsDistinct` and `PathsInside` say that `AfcTransport::path` keeps absolute
paths apart and begins them with the root of the service, from the form of the two roots `connect_source` gives (a `..` in a path is a
name like any other there). `WindowsNamesDistinct` says that `afc_path` gives it such paths: two names with paired surrogates never become one
path, and any two that do differ only where both have an unpaired surrogate or U+FFFD - which `SurrogatesMerge` shows to happen.
`ListedCanBeOpened` ties the path `read_directory` stats to the one `open` will use, in the root and below: no character goes
across a separator (`WideBelow`), so the lossy conversion of a name is that of its components. `TimesComeBack`, `TicksComeBack` and `TimesKeepOrder` bound the arithmetic of the
times in 64 bits; `TargetsComeBack` that of the reparse data in 16 bits, from the 16 KiB Windows allows.

**Model-checked only**: the liveness properties (`EveryCallReturns`, `UnmountEnds`, `UnmountReturns`, `ProgramEnds`, `ListingEnds`, `EveryCallEnds`) and the
fairness in `ImplementsService`, whose steps `Serves` proves: liveness under fairness and ENABLED are out of the prover's reach. Every other
property of the passing runs is a theorem. No module here uses RECURSIVE.

## 6. Not modelled, and why

- On Linux `getattr`, `readlink`, `statfs`, on Windows `get_file_info`, `get_security_by_name`, `get_volume_info` and the
  getters of reparse points: they only read, and their path is the one `PathOf`, or the context, has. `flush` and `fsync`
  do nothing.
- On Windows `set_basic_info` (a SetMtime of the context's path: where that leads is `PathLeadsToFile`) and
  the volume label (one string under a Mutex).
- The Windows half of `validate`, and lists of apps from a device given by its address: the program on Linux
  is what is composed, and it has neither.
- The registration of the signal handlers in `shutdown_signal` is taken to succeed.
- What clap accepts: the command lines of `MCIfuseMain` are the ones it lets through.
- Packets, the dictionaries of stats, the maps of errors (`errno`, `map_backend_error`): the
  models tell ok, err and stopped apart and take the device's answer as decoded.
- `forget`: the code does not handle it; the table grows with what was ever listed.
- Late answers of the device: requests are sequential on one stream and never given up, so
  a response cannot meet another request; the packet number is not compared.
- `error.rs`, `build.rs`, `Cargo.toml` and logging: nothing that changes state.

## 7. Plan

Done: the inode table and its loops, the backend and the mounts that own it; the program with its options and connection; the
handlers over the tree, the paged listings, file I/O with its handlers, and the conversions. Proved: every property the passing runs check
that is not a liveness property. What is left, in this order:

1. The Windows half of `validate` and `set_basic_info`, once `WinFs` has times: whether a time set through a stale path reaches another file.
2. `ImplementsService` with its fairness, and the liveness properties, when a prover for them is at hand; until then the runs stand for them.
