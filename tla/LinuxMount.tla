----------------------------- MODULE LinuxMount -----------------------------
(***************************************************************************)
(* src/src/platform_linux.rs: a mount, from IfuseBuilder::mount to the     *)
(* drop of its last MountHandle, with the backend it owns.                 *)
(*                                                                         *)
(* The threads: the one that mounts; the users, each with a clone of the   *)
(* handle, who call unmount, is_mounted and drop when they like; the       *)
(* session thread of fuser, which serves the kernel by requests to the     *)
(* backend; the worker of the backend.  Anyone may unmount from outside    *)
(* (fusermount -u).                                                        *)
(*                                                                         *)
(* External: fuser and the kernel.  Session::new and the umount of a       *)
(* session may fail, the latter with the file system still mounted or not. *)
(* The session thread ends when the file system is not mounted any more    *)
(* and the request it serves has been answered.                            *)
(***************************************************************************)
EXTENDS Naturals, Sequences

CONSTANTS User,          \* threads that hold a clone of the MountHandle
          Fs,            \* the session thread, as a client of the backend
          Mounter,       \* the mounting thread, as a client of the backend
          Shutdown,
          NoUser           \* no user

ASSUME ThreadAssumption ==
    /\ Fs # Mounter /\ Shutdown \notin {Fs, Mounter}
    /\ NoUser \notin User

VARIABLES owner, worker, ready, queue, current, waiting, reply, result, runs,
          phase,         \* how far mount() is
          mounted,       \* the kernel has the file system mounted
          sessionThread, \* "none", "serving" or "finished"
          umountFailed,  \* history: an umount or a join returned an error
          session,       \* the slot: a BackgroundSession is in it
          backend,       \* the slot: a Backend is in it
          lock,          \* who holds the Mutex of the backend slot
          handles,       \* the users that still hold a clone
          at,            \* where each user is in unmount or drop
          outcome        \* what each user's last unmount returned

backendVars == <<owner, worker, ready, queue, current, waiting, reply, result, runs>>
kernelVars == <<mounted, sessionThread, umountFailed>>
slots == <<session, backend, lock>>
userVars == <<handles, at, outcome>>
vars == <<backendVars, phase, kernelVars, slots, userVars>>

B == INSTANCE Backend WITH Client <- {Fs, Mounter}

\* A user in drop has no caller to report to: its outcome stays "dropping".
Dropping(u) == outcome[u] = "dropping"
-----------------------------------------------------------------------------
Init ==
    /\ B!Init
    /\ phase = "new"
    /\ mounted = FALSE
    /\ sessionThread = "none"
    /\ umountFailed = FALSE
    /\ session = FALSE
    /\ backend = FALSE
    /\ lock = NoUser
    /\ handles = {}
    /\ at = [u \in User |-> "idle"]
    /\ outcome = [u \in User |-> "none"]
-----------------------------------------------------------------------------
(***************************************************************************)
(* mount().                                                                *)
(***************************************************************************)
\* validate may reject the options; then nothing has been started.
MountBegins ==
    /\ phase = "new"
    /\ \/ phase' = "starting" /\ B!Start
       \/ phase' = "failed" /\ UNCHANGED backendVars
    /\ UNCHANGED <<kernelVars, slots, userVars>>

BackendStarts ==
    /\ phase = "starting"
    /\ \/ /\ B!Started
          /\ phase' = IF ready = "ok" THEN "info" ELSE "failed"
       \/ /\ owner = "failed"            \* the thread did not spawn
          /\ phase' = "failed"
          /\ UNCHANGED backendVars
    /\ UNCHANGED <<kernelVars, slots, userVars>>

AskDeviceInfo ==
    /\ phase = "info"
    /\ B!Send(Mounter)
    /\ phase' = "asked"
    /\ UNCHANGED <<kernelVars, slots, userVars>>

GetDeviceInfo ==
    /\ phase = "asked"
    /\ B!Return(Mounter)
    /\ phase' = IF result'[Mounter] = "ok" THEN "session" ELSE "abort"
    /\ UNCHANGED <<kernelVars, slots, userVars>>

\* Session::new and spawn, and the handle, of which every user gets a clone.
SessionStarts ==
    /\ phase = "session"
    /\ phase' = "mounted"
    /\ mounted' = TRUE
    /\ sessionThread' = "serving"
    /\ session' = TRUE
    /\ backend' = TRUE
    /\ handles' = User
    /\ UNCHANGED <<backendVars, umountFailed, lock, at, outcome>>

\* Session::new fails, or spawn does: that drops the Session, which takes its
\* mount away again before the error is returned.
SessionFails ==
    /\ phase = "session"
    /\ phase' = "abort"
    /\ UNCHANGED <<backendVars, kernelVars, slots, userVars>>

\* (Mutant: the backend is forgotten when the session cannot be started.)
AbortForgets ==
    /\ phase = "abort"
    /\ phase' = "failed"
    /\ UNCHANGED <<backendVars, kernelVars, slots, userVars>>

\* The error returns drop the Backend, which stops it.
Abort ==
    /\ phase = "abort"
    /\ B!BeginStop
    /\ phase' = "aborting"
    /\ UNCHANGED <<kernelVars, slots, userVars>>

Aborted ==
    /\ phase = "aborting"
    /\ B!Join
    /\ phase' = "failed"
    /\ UNCHANGED <<kernelVars, slots, userVars>>
-----------------------------------------------------------------------------
(***************************************************************************)
(* The session thread and the kernel.                                      *)
(***************************************************************************)
Serve ==
    /\ sessionThread = "serving"
    /\ mounted
    /\ B!Send(Fs)
    /\ UNCHANGED <<phase, kernelVars, slots, userVars>>

Served ==
    /\ sessionThread = "serving"
    /\ B!Return(Fs)
    /\ UNCHANGED <<phase, kernelVars, slots, userVars>>

SessionEnds ==
    /\ sessionThread = "serving"
    /\ ~mounted
    /\ Fs \notin waiting
    /\ sessionThread' = "finished"
    /\ UNCHANGED <<backendVars, phase, mounted, umountFailed, slots, userVars>>

ExternalUnmount ==
    /\ mounted
    /\ mounted' = FALSE
    /\ UNCHANGED <<backendVars, phase, sessionThread, umountFailed, slots, userVars>>
-----------------------------------------------------------------------------
(***************************************************************************)
(* unmount() of a user, and the drop of the last handle, which does the    *)
(* same but goes on to the backend when the umount fails.                  *)
(***************************************************************************)
Goto(u, place) == at' = [at EXCEPT ![u] = place]

Finish(u, res) ==
    /\ Goto(u, "idle")
    /\ outcome' = [outcome EXCEPT ![u] = IF Dropping(u) THEN "dropped" ELSE res]

\* is_mounted() of any handle.
IsMounted == session /\ sessionThread # "finished"

\* session.lock().take(); the guard goes at the end of the statement.
TakeSession(u) ==
    /\ at[u] = "idle"
    /\ u \in handles
    /\ Goto(u, IF session THEN "umount" ELSE "lock")
    /\ session' = FALSE
    /\ outcome' = [outcome EXCEPT ![u] = "none"]
    /\ UNCHANGED <<backendVars, phase, kernelVars, backend, lock, handles>>

\* A clone goes; the last one takes the PlatformMount with it.
DropHandle(u) ==
    /\ at[u] = "idle"
    /\ u \in handles
    /\ handles' = handles \ {u}
    /\ IF handles = {u}
       THEN /\ outcome' = [outcome EXCEPT ![u] = "dropping"]
            /\ Goto(u, IF session THEN "umount" ELSE "lock")
            /\ session' = FALSE
       ELSE UNCHANGED <<outcome, at, session>>
    /\ UNCHANGED <<backendVars, phase, kernelVars, backend, lock>>

\* (Mutant: the session is joined without an umount.)
UmountSkipped(u) ==
    /\ at[u] = "umount"
    /\ Goto(u, "join")
    /\ UNCHANGED <<backendVars, phase, kernelVars, slots, handles, outcome>>

\* umount_and_join, the umount.  An error leaves the session thread alone.
Umount(u) ==
    /\ at[u] = "umount"
    /\ \/ /\ mounted' = FALSE
          /\ Goto(u, "join")
          /\ UNCHANGED <<umountFailed, outcome>>
       \/ /\ mounted' \in {mounted, FALSE}
          /\ umountFailed' = TRUE
          /\ IF Dropping(u) THEN Goto(u, "lock") /\ UNCHANGED outcome
                            ELSE Finish(u, "err")
    /\ UNCHANGED <<backendVars, phase, sessionThread, slots, handles>>

\* (Mutant: the session thread is not waited for.)
JoinSessionDetached(u) ==
    /\ at[u] = "join"
    /\ Goto(u, "lock")
    /\ UNCHANGED <<backendVars, phase, kernelVars, slots, handles, outcome>>

\* umount_and_join, the join.  The session may have ended with an error.
JoinSession(u) ==
    /\ at[u] = "join"
    /\ sessionThread = "finished"
    /\ \/ Goto(u, "lock") /\ UNCHANGED <<umountFailed, outcome>>
       \/ ~Dropping(u) /\ Finish(u, "err") /\ umountFailed' = TRUE
    /\ UNCHANGED <<backendVars, phase, mounted, sessionThread, slots, handles>>

\* (Mutant: the guard of the backend slot goes before the shutdown.)
LockBackendBriefly(u) ==
    /\ at[u] = "lock"
    /\ lock = NoUser
    /\ backend' = FALSE
    /\ IF backend
       THEN B!BeginStop /\ Goto(u, "stop") /\ UNCHANGED outcome
       ELSE Finish(u, "ok") /\ UNCHANGED backendVars
    /\ UNCHANGED <<phase, kernelVars, session, lock, handles>>

\* stop_backend: the guard lives as long as the body of the if let, so the
\* shutdown runs under the Mutex.
LockBackend(u) ==
    /\ at[u] = "lock"
    /\ lock = NoUser
    /\ backend' = FALSE
    /\ IF backend
       THEN B!BeginStop /\ Goto(u, "stop") /\ lock' = u /\ UNCHANGED outcome
       ELSE Finish(u, "ok") /\ UNCHANGED <<backendVars, lock>>
    /\ UNCHANGED <<phase, kernelVars, session, handles>>

JoinWorker(u) ==
    /\ at[u] = "stop"
    /\ B!Join
    /\ Goto(u, "stopped")
    /\ UNCHANGED <<phase, kernelVars, slots, handles, outcome>>

UnlockBackend(u) ==
    /\ at[u] = "stopped"
    /\ B!Dropped
    /\ lock' = NoUser
    /\ Finish(u, "ok")
    /\ UNCHANGED <<phase, kernelVars, session, backend, handles>>
-----------------------------------------------------------------------------
MountStep ==
    \/ MountBegins \/ BackendStarts \/ AskDeviceInfo \/ GetDeviceInfo
    \/ SessionStarts \/ SessionFails \/ Abort \/ Aborted

WorkerStep == B!WorkerStep /\ UNCHANGED <<phase, kernelVars, slots, userVars>>

UserStep(u) ==
    Umount(u) \/ JoinSession(u) \/ LockBackend(u) \/ JoinWorker(u) \/ UnlockBackend(u)

Next ==
    \/ MountStep
    \/ WorkerStep
    \/ Serve \/ Served \/ SessionEnds \/ ExternalUnmount
    \/ \E u \in User : TakeSession(u) \/ DropHandle(u) \/ UserStep(u)

Spec == Init /\ [][Next]_vars

\* Threads run; a call that was made is carried on.  Nobody has to unmount.
Fairness ==
    /\ WF_vars(MountStep)
    /\ WF_vars(WorkerStep)
    /\ WF_vars(Served \/ SessionEnds)
    /\ \A u \in User : WF_vars(UserStep(u))

FairSpec == Spec /\ Fairness
-----------------------------------------------------------------------------
Places == {"idle", "umount", "join", "lock", "stop", "stopped"}

TypeOK ==
    /\ B!TypeOK
    /\ phase \in {"new", "starting", "info", "asked", "session", "mounted",
                  "abort", "aborting", "failed"}
    /\ mounted \in BOOLEAN
    /\ sessionThread \in {"none", "serving", "finished"}
    /\ umountFailed \in BOOLEAN
    /\ session \in BOOLEAN
    /\ backend \in BOOLEAN
    /\ lock \in User \union {NoUser}
    /\ handles \subseteq User
    /\ at \in [User -> Places]
    /\ outcome \in [User -> {"none", "ok", "err", "dropping", "dropped"}]

Gone == ~mounted /\ sessionThread = "finished" /\ worker = "exited"

(***************************************************************************)
(* "Cleanly stops the filesystem and removes the mount. Repeated calls are *)
(* safe." (src/src/lib.rs:70): when unmount has returned Ok the mount is   *)
(* gone, its session is over and its backend stopped - if no umount has    *)
(* failed, which another user may have been told of.                       *)
(***************************************************************************)
OkMeansUnmounted ==
    ~umountFailed => \A u \in User : outcome[u] = "ok" => Gone

(***************************************************************************)
(* Whoever gets Ok from unmount may rely on the backend being stopped, no  *)
(* matter who stopped it: a call that finds the slot empty has waited for  *)
(* the shutdown of the call that emptied it (platform_linux.rs:49-53).     *)
(***************************************************************************)
OkMeansBackendStopped ==
    \A u \in User : outcome[u] \in {"ok", "dropped"} => worker = "exited"

(***************************************************************************)
(* Once every unmount that was begun has returned, and one returned Ok,    *)
(* nothing is left, however the calls overlapped - if no umount has failed.*)
(***************************************************************************)
AllReturnedMeansGone ==
    /\ ~umountFailed
    /\ \E u \in User : outcome[u] = "ok"
    /\ \A u \in User : at[u] = "idle"
    => Gone

(***************************************************************************)
(* A mount() that fails leaves nothing behind: no file system, no session, *)
(* no backend that waits for commands (platform_linux.rs:71-86).           *)
(***************************************************************************)
FailedMountLeavesNothing ==
    phase = "failed" =>
        /\ ~mounted /\ sessionThread = "none"
        /\ worker \in {"unborn", "returning", "exited"}
        /\ queue = <<>>

(***************************************************************************)
(* A call of unmount returns, and so does the drop of the last handle; and *)
(* once one has begun all of the mount is over in the end, unless an       *)
(* umount fails (platform_linux.rs:36-69).                                 *)
(***************************************************************************)
UnmountEnds ==
    \A u \in User : /\ at[u] # "idle" ~> at[u] = "idle"
                    /\ at[u] # "idle" ~> Gone \/ umountFailed
=============================================================================
