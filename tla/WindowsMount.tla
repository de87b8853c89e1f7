----------------------------- MODULE WindowsMount -----------------------------
(***************************************************************************)
(* src/src/platform_windows.rs: a mount on Windows, from mount to the drop *)
(* of its last handle, with the backend it owns.                           *)
(*                                                                         *)
(* It differs from LinuxMount in what the host slot's Mutex covers: the    *)
(* guard of `if let Some(mut host) = self.host.lock()...take()` lives to   *)
(* the end of the body, so stop and unmount of the host run under it.      *)
(*                                                                         *)
(* External: WinFsp.  A host can fail to be created, mounted or started;   *)
(* stop waits for the request its dispatcher is at, and neither stop nor   *)
(* unmount fails.  The host is built with CoarseGuard, so the dispatcher   *)
(* runs one handler at a time and is one client of the backend.            *)
(***************************************************************************)
EXTENDS Naturals, Sequences

CONSTANTS User,          \* threads that hold a clone of the MountHandle
          Fs,            \* the dispatcher, as a client of the backend
          Mounter,       \* the mounting thread, as a client of the backend
          Shutdown,
          NoUser           \* no user

ASSUME ThreadAssumption ==
    /\ Fs # Mounter /\ Shutdown \notin {Fs, Mounter}
    /\ NoUser \notin User

VARIABLES owner, worker, ready, queue, current, waiting, reply, result, runs,
          phase,         \* how far mount() is
          mounted,       \* the mount point is there
          serving,       \* the dispatcher runs
          host,          \* the slot: a host is in it
          backend,       \* the slot: a Backend is in it
          hostLock,      \* who holds the Mutex of the host slot
          backendLock,   \* who holds that of the backend slot
          handles,       \* the users that still hold a clone
          at,            \* where each user is in unmount or drop
          outcome        \* what each user's last unmount returned

backendVars == <<owner, worker, ready, queue, current, waiting, reply, result, runs>>
hostVars == <<mounted, serving>>
slots == <<host, backend, hostLock, backendLock>>
userVars == <<handles, at, outcome>>
vars == <<backendVars, phase, hostVars, slots, userVars>>

B == INSTANCE Backend WITH Client <- {Fs, Mounter}
-----------------------------------------------------------------------------
Init ==
    /\ B!Init
    /\ phase = "new"
    /\ mounted = FALSE
    /\ serving = FALSE
    /\ host = FALSE
    /\ backend = FALSE
    /\ hostLock = NoUser
    /\ backendLock = NoUser
    /\ handles = {}
    /\ at = [u \in User |-> "idle"]
    /\ outcome = [u \in User |-> "none"]
-----------------------------------------------------------------------------
(***************************************************************************)
(* mount().                                                                *)
(***************************************************************************)
\* validate may reject the options; then nothing has been started.
MountBegins ==
    /\ phase = "new"
    /\ \/ phase' = "starting" /\ B!Start
       \/ phase' = "failed" /\ UNCHANGED backendVars
    /\ UNCHANGED <<hostVars, slots, userVars>>

BackendStarts ==
    /\ phase = "starting"
    /\ \/ /\ B!Started
          /\ phase' = IF ready = "ok" THEN "info" ELSE "failed"
       \/ /\ owner = "failed"            \* the thread did not spawn
          /\ phase' = "failed"
          /\ UNCHANGED backendVars
    /\ UNCHANGED <<hostVars, slots, userVars>>

AskDeviceInfo ==
    /\ phase = "info"
    /\ B!Send(Mounter)
    /\ phase' = "asked"
    /\ UNCHANGED <<hostVars, slots, userVars>>

GetDeviceInfo ==
    /\ phase = "asked"
    /\ B!Return(Mounter)
    /\ phase' = IF result'[Mounter] = "ok" THEN "host" ELSE "abort"
    /\ UNCHANGED <<hostVars, slots, userVars>>

\* FileSystemHost::new and host.mount, either of which may fail.
HostMounts ==
    /\ phase = "host"
    /\ \/ phase' = "dispatch" /\ mounted' = TRUE
       \/ phase' = "abort" /\ UNCHANGED mounted
    /\ UNCHANGED <<backendVars, serving, slots, userVars>>

\* host.start, and the handle, of which every user gets a clone.
HostStarts ==
    /\ phase = "dispatch"
    /\ phase' = "mounted"
    /\ serving' = TRUE
    /\ host' = TRUE
    /\ backend' = TRUE
    /\ handles' = User
    /\ UNCHANGED <<backendVars, mounted, hostLock, backendLock, at, outcome>>

\* (Mutant: the mount point is left when the dispatcher does not start.)
HostStartFailsMounted ==
    /\ phase = "dispatch"
    /\ phase' = "abort"
    /\ UNCHANGED <<backendVars, hostVars, slots, userVars>>

\* The dispatcher does not start: host.unmount() before the error returns.
HostStartFails ==
    /\ phase = "dispatch"
    /\ phase' = "abort"
    /\ mounted' = FALSE
    /\ UNCHANGED <<backendVars, serving, slots, userVars>>

\* The error returns drop the Backend, which stops it.
Abort ==
    /\ phase = "abort"
    /\ B!BeginStop
    /\ phase' = "aborting"
    /\ UNCHANGED <<hostVars, slots, userVars>>

Aborted ==
    /\ phase = "aborting"
    /\ B!Join
    /\ phase' = "failed"
    /\ UNCHANGED <<hostVars, slots, userVars>>
-----------------------------------------------------------------------------
(***************************************************************************)
(* The dispatcher.                                                         *)
(***************************************************************************)
Serve ==
    /\ serving
    /\ B!Send(Fs)
    /\ UNCHANGED <<phase, hostVars, slots, userVars>>

Served ==
    /\ serving
    /\ B!Return(Fs)
    /\ UNCHANGED <<phase, hostVars, slots, userVars>>
-----------------------------------------------------------------------------
(***************************************************************************)
(* unmount() of a user, and the drop of the last handle, which does the    *)
(* same; get_mut needs no lock there, and nobody else can hold one.        *)
(***************************************************************************)
Goto(u, place) == at' = [at EXCEPT ![u] = place]

Finish(u) ==
    /\ Goto(u, "idle")
    /\ outcome' = [outcome EXCEPT ![u] = IF u \in handles THEN "ok" ELSE "dropped"]

BeginUnmount(u) ==
    /\ at[u] = "idle"
    /\ u \in handles
    /\ Goto(u, "begin")
    /\ outcome' = [outcome EXCEPT ![u] = "none"]
    /\ UNCHANGED <<backendVars, phase, hostVars, slots, handles>>

\* A clone goes; the last one takes the PlatformMount with it.
DropHandle(u) ==
    /\ at[u] = "idle"
    /\ u \in handles
    /\ handles' = handles \ {u}
    /\ IF handles = {u}
       THEN /\ Goto(u, "begin")
            /\ outcome' = [outcome EXCEPT ![u] = "none"]
       ELSE UNCHANGED <<at, outcome>>
    /\ UNCHANGED <<backendVars, phase, hostVars, slots>>

\* (Mutant: the guard of the host slot goes before the host is stopped.)
TakeHostBriefly(u) ==
    /\ at[u] = "begin"
    /\ hostLock = NoUser
    /\ host' = FALSE
    /\ Goto(u, IF host THEN "stop" ELSE "lock")
    /\ UNCHANGED <<backendVars, phase, hostVars, backend, hostLock, backendLock,
                   handles, outcome>>

\* host.lock().take(): with a host the guard stays, without one it goes.
TakeHost(u) ==
    /\ at[u] = "begin"
    /\ hostLock = NoUser
    /\ host' = FALSE
    /\ IF host THEN Goto(u, "stop") /\ hostLock' = u
               ELSE Goto(u, "lock") /\ UNCHANGED hostLock
    /\ UNCHANGED <<backendVars, phase, hostVars, backend, backendLock, handles, outcome>>

\* (Mutant: the dispatcher is left to itself.)
StopHostDetached(u) ==
    /\ at[u] = "stop"
    /\ Goto(u, "umount")
    /\ UNCHANGED <<backendVars, phase, hostVars, slots, handles, outcome>>

\* host.stop(), which waits for the handler that runs.
StopHost(u) ==
    /\ at[u] = "stop"
    /\ Fs \notin waiting
    /\ serving' = FALSE
    /\ Goto(u, "umount")
    /\ UNCHANGED <<backendVars, phase, mounted, slots, handles, outcome>>

\* (Mutant: the guard is not given back.)
UnmountHostLocked(u) ==
    /\ at[u] = "umount"
    /\ mounted' = FALSE
    /\ Goto(u, "lock")
    /\ UNCHANGED <<backendVars, phase, serving, slots, handles, outcome>>

\* host.unmount() and the end of the body.
UnmountHost(u) ==
    /\ at[u] = "umount"
    /\ mounted' = FALSE
    /\ hostLock' = NoUser
    /\ Goto(u, "lock")
    /\ UNCHANGED <<backendVars, phase, serving, host, backend, backendLock, handles,
                   outcome>>

\* The backend slot, which is shut down under its guard in the same way.
LockBackend(u) ==
    /\ at[u] = "lock"
    /\ backendLock = NoUser
    /\ backend' = FALSE
    /\ IF backend
       THEN B!BeginStop /\ Goto(u, "join") /\ backendLock' = u /\ UNCHANGED outcome
       ELSE Finish(u) /\ UNCHANGED <<backendVars, backendLock>>
    /\ UNCHANGED <<phase, hostVars, host, hostLock, handles>>

JoinWorker(u) ==
    /\ at[u] = "join"
    /\ B!Join
    /\ Goto(u, "joined")
    /\ UNCHANGED <<phase, hostVars, slots, handles, outcome>>

UnlockBackend(u) ==
    /\ at[u] = "joined"
    /\ B!Dropped
    /\ backendLock' = NoUser
    /\ Finish(u)
    /\ UNCHANGED <<phase, hostVars, host, backend, hostLock, handles>>
-----------------------------------------------------------------------------
MountStep ==
    \/ MountBegins \/ BackendStarts \/ AskDeviceInfo \/ GetDeviceInfo
    \/ HostMounts \/ HostStarts \/ HostStartFails \/ Abort \/ Aborted

WorkerStep == B!WorkerStep /\ UNCHANGED <<phase, hostVars, slots, userVars>>

UserStep(u) ==
    \/ TakeHost(u) \/ StopHost(u) \/ UnmountHost(u)
    \/ LockBackend(u) \/ JoinWorker(u) \/ UnlockBackend(u)

Next ==
    \/ MountStep
    \/ WorkerStep
    \/ Serve \/ Served
    \/ \E u \in User : BeginUnmount(u) \/ DropHandle(u) \/ UserStep(u)

Spec == Init /\ [][Next]_vars

\* Threads run, and stop keeps the dispatcher from taking new requests, so it
\* is not kept waiting for ever by a busy mount: StopHost is strongly fair.
Fairness ==
    /\ WF_vars(MountStep)
    /\ WF_vars(WorkerStep)
    /\ WF_vars(Served)
    /\ \A u \in User : WF_vars(UserStep(u)) /\ SF_vars(StopHost(u))

FairSpec == Spec /\ Fairness
-----------------------------------------------------------------------------
TypeOK ==
    /\ B!TypeOK
    /\ phase \in {"new", "starting", "info", "asked", "host", "dispatch", "mounted",
                  "abort", "aborting", "failed"}
    /\ mounted \in BOOLEAN /\ serving \in BOOLEAN
    /\ host \in BOOLEAN /\ backend \in BOOLEAN
    /\ {hostLock, backendLock} \subseteq User \union {NoUser}
    /\ handles \subseteq User
    /\ at \in [User -> {"idle", "begin", "stop", "umount", "lock", "join", "joined"}]
    /\ outcome \in [User -> {"none", "ok", "dropped"}]

(***************************************************************************)
(* When unmount has returned Ok the mount is gone, its dispatcher stopped  *)
(* and its backend too, also when two calls overlap (lib.rs:70): the       *)
(* second waits for the Mutex of the host slot.  On Linux it does not.     *)
(***************************************************************************)
OkMeansUnmounted ==
    \A u \in User : outcome[u] \in {"ok", "dropped"} =>
        ~mounted /\ ~serving /\ worker = "exited"

\* The backend lives as long as the dispatcher may need it.
BackendOutlivesDispatcher == serving => owner = "running"

(***************************************************************************)
(* A mount() that fails leaves no mount point, no dispatcher and no        *)
(* backend that waits for commands.                                        *)
(***************************************************************************)
FailedMountLeavesNothing ==
    phase = "failed" =>
        /\ ~mounted /\ ~serving
        /\ worker \in {"unborn", "returning", "exited"}

\* A call of unmount returns, and so does the drop of the last handle.
UnmountReturns == \A u \in User : at[u] # "idle" ~> at[u] = "idle"
=============================================================================
