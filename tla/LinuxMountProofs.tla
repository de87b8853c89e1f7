--------------------------- MODULE LinuxMountProofs ---------------------------
(***************************************************************************)
(* Theorems about LinuxMount, for every set of users, and about IfuseMain, *)
(* the program that is the only user of one.                               *)
(*                                                                         *)
(* The backend of a mount behaves as Backend says (BackendInside), so what *)
(* BackendProofs shows of the worker and the channel is there to be used.  *)
(* The inductive invariant adds how far mount() can be for a state of the  *)
(* owner, who holds the Mutex of the backend slot, and who is left to end  *)
(* the session once it is out of its slot.                                 *)
(*                                                                         *)
(* The program's steps are steps of the mount (MountInside).  Its own      *)
(* invariants say where run() is while the mount is where it is            *)
(* (MainPlace), what mount() was called with (Asked), and which device the *)
(* worker is connecting to (Connecting).  Loops over lists of options and  *)
(* devices are proved about by the least number at which a claim fails.    *)
(***************************************************************************)
EXTENDS IfuseMain, SequenceTheorems, WellFoundedInduction, TLAPS

BP == INSTANCE BackendProofs WITH Client <- {Fs, Mounter}

\* What Backend assumes of its constants holds of the ones it is given here.
LEMMA BackendAssumption == Shutdown \notin {Fs, Mounter}
  BY ThreadAssumption

\* The backend that the theorems of BackendProofs are about is the one in here.
LEMMA SameBackend ==
    /\ B!Init <=> BP!Init
    /\ B!Next <=> BP!Next
<1>1. B!OwnerStep \/ B!BeginStop <=> BP!OwnerStep \/ BP!BeginStop
  BY DEF B!OwnerStep, B!Start, B!Started, B!Join, B!Dropped, B!BeginStop, B!ReceiverAlive,
         BP!OwnerStep, BP!Start, BP!Started, BP!Join, BP!Dropped, BP!BeginStop, BP!ReceiverAlive
<1>2. B!WorkerStep <=> BP!WorkerStep
  <2>1. (B!Connect <=> BP!Connect) /\ (B!Receive <=> BP!Receive) /\ (B!Execute <=> BP!Execute)
    BY DEF B!Connect, B!Receive, B!Execute, B!Outcome,
           BP!Connect, BP!Receive, BP!Execute, BP!Outcome
  <2>2. B!SendReply <=> BP!SendReply
    BY DEF B!SendReply, B!Outcome, BP!SendReply, BP!Outcome
  <2>3. B!WorkerReturns <=> BP!WorkerReturns
    BY DEF B!WorkerReturns, B!Elements, BP!WorkerReturns, BP!Elements
  <2> QED
    BY <2>1, <2>2, <2>3 DEF B!WorkerStep, BP!WorkerStep
<1>3. ASSUME NEW c \in {Fs, Mounter}
      PROVE  B!Send(c) \/ B!Return(c) <=> BP!Send(c) \/ BP!Return(c)
  BY DEF B!Send, B!Return, B!ReceiverAlive, B!MayRequest,
         BP!Send, BP!Return, BP!ReceiverAlive, BP!MayRequest
<1>4. B!Init <=> BP!Init
  BY DEF B!Init, BP!Init
<1> QED
  BY <1>1, <1>2, <1>3, <1>4 DEF B!Next, BP!Next

\* A step of the mount is a step of its backend or leaves it alone.
LEMMA BackendStep == [Next]_vars => [B!Next]_(B!vars)
<1> SUFFICES ASSUME [Next]_vars PROVE B!Next \/ UNCHANGED B!vars
  OBVIOUS
<1>0. UNCHANGED backendVars => UNCHANGED B!vars
  BY DEF backendVars, B!vars
<1>1. CASE MountStep
  <2>1. \/ UNCHANGED backendVars
        \/ B!Start \/ B!Started \/ B!Send(Mounter) \/ B!Return(Mounter)
        \/ B!BeginStop \/ B!Join
    BY <1>1 DEF MountStep, MountBegins, BackendStarts, AskDeviceInfo, GetDeviceInfo,
                SessionStarts, SessionFails, Abort, Aborted
  <2> QED
    BY <1>0, <2>1 DEF B!Next, B!OwnerStep
<1>2. CASE WorkerStep
  BY <1>2 DEF WorkerStep, B!Next
<1>3. CASE Serve \/ Served
  BY <1>3 DEF Serve, Served, B!Next
<1>4. CASE SessionEnds \/ ExternalUnmount
  BY <1>0, <1>4 DEF SessionEnds, ExternalUnmount
<1>5. ASSUME NEW u \in User, TakeSession(u) \/ DropHandle(u) \/ UserStep(u)
      PROVE  B!Next \/ UNCHANGED B!vars
  <2>1. UNCHANGED backendVars \/ B!BeginStop \/ B!Join \/ B!Dropped
    BY <1>5 DEF TakeSession, DropHandle, UserStep, Umount, JoinSession, LockBackend,
                JoinWorker, UnlockBackend
  <2> QED
    BY <1>0, <2>1 DEF B!Next, B!OwnerStep
<1>6. CASE UNCHANGED vars
  BY <1>0, <1>6 DEF vars
<1> QED
  BY <1>1, <1>2, <1>3, <1>4, <1>5, <1>6 DEF Next

\* The backend of a mount behaves as Backend says, whatever the mount does.
THEOREM BackendInside == Spec => B!Spec
<1>1. Init => B!Init
  BY DEF Init
<1> QED
  BY <1>1, BackendStep, PTL DEF Spec, B!Spec

\* What is proved of Backend holds in the mount.
THEOREM BackendInvariant == Spec => [](BP!Inv /\ BP!Stopping)
<1>1. Init => BP!Init
  BY SameBackend DEF Init
<1>2. [Next]_vars => [BP!Next]_(BP!vars)
  <2>1. UNCHANGED B!vars => UNCHANGED BP!vars
    BY DEF B!vars, BP!vars
  <2> QED
    BY <2>1, BackendStep, SameBackend
<1>3. Spec => BP!Spec
  BY <1>1, <1>2, PTL DEF Spec, BP!Spec
<1> QED
  BY <1>3, BP!Invariant, BP!AlwaysStopping, BackendAssumption, PTL
-----------------------------------------------------------------------------
(***************************************************************************)
(* Where mount(), the slots, the lock and the users can be together.       *)
(***************************************************************************)
\* Before the handle is out nobody uses it and nothing is in the slots.
NotMountedYet ==
    phase # "mounted" =>
        /\ handles = {} /\ \A u \in User : at[u] = "idle" /\ outcome[u] = "none"
        /\ ~session /\ ~backend /\ lock = NoUser
        /\ ~mounted /\ sessionThread = "none"

\* How far mount() is says where its Backend is, until it is in the slot.
Owned ==
    /\ phase = "new" => owner = "new"
    /\ phase = "starting" => owner \in {"starting", "failed"}
    /\ phase \in {"info", "asked", "session", "abort"} => owner = "running"
    /\ phase = "aborting" => owner = "joining"
    /\ phase = "failed" => owner \in {"new", "failed", "joined"}
    /\ backend => owner = "running" /\ lock = NoUser
    /\ phase = "mounted" /\ ~backend /\ lock = NoUser => owner = "stopped"

\* Who holds the Mutex of the backend slot.
Locks ==
    \A u \in User :
        /\ at[u] \in {"stop", "stopped"} <=> lock = u
        /\ at[u] = "stop" => owner = "joining"
        /\ at[u] = "stopped" => owner = "joined"

\* Until its thread has finished, a session is in its slot or with the user
\* who took it out - unless the umount or the join of that user failed.
SessionInHand ==
    /\ phase = "mounted" => sessionThread # "none"
    /\ sessionThread = "finished" => ~mounted
    /\ sessionThread = "serving" /\ ~umountFailed =>
          session \/ \E u \in User : at[u] \in {"umount", "join"}
    /\ \A u \in User : at[u] # "idle" \/ outcome[u] = "ok" => ~session

Together == NotMountedYet /\ Owned /\ Locks /\ SessionInHand /\ OkMeansBackendStopped

\* The inductive invariant: what is known of the backend, the types, and what
\* was said above.
MountInv == BP!Inv /\ BP!Stopping /\ TypeOK /\ Together
-----------------------------------------------------------------------------
\* The types of TypeOK that are not the backend's.
LEMMA NextTypes ==
    ASSUME TypeOK, [Next]_vars, BP!Inv'
    PROVE  TypeOK'
<1>1. B!TypeOK'
  BY DEF BP!Inv, BP!TypeOK, B!TypeOK, BP!Outcome, B!Outcome
<1> USE DEF TypeOK, Places, Goto, Finish, Dropping, kernelVars, slots, userVars
<1>2. CASE MountStep
  BY <1>1, <1>2 DEF MountStep, MountBegins, BackendStarts, AskDeviceInfo, GetDeviceInfo,
     SessionStarts, SessionFails, Abort, Aborted
<1>3. CASE WorkerStep \/ Serve \/ Served \/ SessionEnds \/ ExternalUnmount
  <2>1. CASE WorkerStep \/ Serve \/ Served
    BY <1>1, <2>1 DEF WorkerStep, Serve, Served
  <2>2. CASE SessionEnds \/ ExternalUnmount
    BY <1>1, <2>2 DEF SessionEnds, ExternalUnmount
  <2> QED
    BY <1>3, <2>1, <2>2
<1>4. ASSUME NEW u \in User, TakeSession(u) \/ DropHandle(u) PROVE TypeOK'
  BY <1>1, <1>4 DEF TakeSession, DropHandle
<1>5. ASSUME NEW u \in User, Umount(u) \/ JoinSession(u) PROVE TypeOK'
  BY <1>1, <1>5 DEF Umount, JoinSession
<1>6. ASSUME NEW u \in User, LockBackend(u) \/ JoinWorker(u) \/ UnlockBackend(u)
      PROVE  TypeOK'
  <2>1. CASE LockBackend(u)
    BY <1>1, <2>1 DEF LockBackend
  <2>2. CASE JoinWorker(u)
    BY <1>1, <2>2 DEF JoinWorker
  <2>3. CASE UnlockBackend(u)
    BY <1>1, <2>3 DEF UnlockBackend
  <2> QED
    BY <1>6, <2>1, <2>2, <2>3
<1>7. CASE UNCHANGED vars
  BY <1>1, <1>7 DEF vars
<1> QED
  BY <1>2, <1>3, <1>4, <1>5, <1>6, <1>7 DEF Next, UserStep

\* mount(), up to the handle (platform_linux.rs:71-104).
LEMMA MountStepInv == MountInv /\ MountStep => Together'
<1> SUFFICES ASSUME MountInv, MountStep PROVE Together'
  OBVIOUS
<1> USE DEF MountInv, Together, NotMountedYet, Owned, Locks, SessionInHand, OkMeansBackendStopped
<1>1. CASE MountBegins
  BY <1>1 DEF MountBegins, B!Start, backendVars, kernelVars, slots, userVars
<1>2. CASE BackendStarts
  BY <1>2 DEF BackendStarts, B!Started, backendVars, kernelVars, slots, userVars
<1>3. CASE AskDeviceInfo
  BY <1>3 DEF AskDeviceInfo, B!Send, kernelVars, slots, userVars
<1>4. CASE GetDeviceInfo
  BY <1>4 DEF GetDeviceInfo, B!Return, kernelVars, slots, userVars
<1>5. CASE SessionStarts
  BY <1>5, ThreadAssumption DEF SessionStarts, backendVars
<1>6. CASE SessionFails
  BY <1>6 DEF SessionFails, backendVars, kernelVars, slots, userVars
<1>7. CASE Abort
  BY <1>7 DEF Abort, B!BeginStop, kernelVars, slots, userVars
<1>8. CASE Aborted
  BY <1>8 DEF Aborted, B!Join, kernelVars, slots, userVars
<1> QED
  BY <1>1, <1>2, <1>3, <1>4, <1>5, <1>6, <1>7, <1>8 DEF MountStep

\* The worker, and the session thread while it serves (platform_linux.rs:88).
LEMMA ServiceStepInv == MountInv /\ (WorkerStep \/ Serve \/ Served) => Together'
<1> SUFFICES ASSUME MountInv, WorkerStep \/ Serve \/ Served PROVE Together'
  OBVIOUS
<1> USE DEF MountInv, Together, NotMountedYet, Owned, Locks, SessionInHand, OkMeansBackendStopped
<1>1. UNCHANGED <<owner, phase, kernelVars, slots, userVars>>
  BY DEF WorkerStep, Serve, Served, B!Send, B!Return, B!WorkerStep, B!Connect, B!Receive,
     B!Execute, B!SendReply, B!WorkerReturns
<1>2. worker = "exited" => worker' = "exited"
  BY DEF WorkerStep, Serve, Served, B!Send, B!Return, B!WorkerStep, B!Connect, B!Receive,
     B!Execute, B!SendReply, B!WorkerReturns
<1> QED
  BY <1>1, <1>2 DEF kernelVars, slots, userVars

\* The file system is unmounted from outside, the session thread ends.
LEMMA SessionInv == MountInv /\ (SessionEnds \/ ExternalUnmount) => Together'
<1> SUFFICES ASSUME MountInv, SessionEnds \/ ExternalUnmount PROVE Together'
  OBVIOUS
<1> USE DEF MountInv, Together, NotMountedYet, Owned, Locks, SessionInHand, OkMeansBackendStopped
<1>1. UNCHANGED <<backendVars, phase, umountFailed, slots, userVars>>
  BY DEF SessionEnds, ExternalUnmount
<1>2. CASE SessionEnds
  BY <1>1, <1>2 DEF SessionEnds, backendVars, slots, userVars
<1>3. CASE ExternalUnmount
  BY <1>1, <1>3 DEF ExternalUnmount, backendVars, slots, userVars
<1> QED
  BY <1>2, <1>3

\* A user who holds a handle has a mount to use.
LEMMA UserMeansMounted ==
    ASSUME MountInv, NEW u \in User, at[u] # "idle" \/ u \in handles
    PROVE  phase = "mounted"
  BY DEF MountInv, Together, NotMountedYet

\* unmount, or the drop of a handle, takes the session out of its slot
\* (platform_linux.rs:37-40, 58).
LEMMA TakeSessionInv ==
    ASSUME MountInv, NEW u \in User, TakeSession(u) \/ DropHandle(u)
    PROVE  Together'
<1> USE DEF MountInv, Together, NotMountedYet, Owned, Locks, SessionInHand, OkMeansBackendStopped
<1>0. phase = "mounted"
  BY UserMeansMounted DEF TakeSession, DropHandle
<1>1. /\ UNCHANGED <<backendVars, phase, kernelVars, backend, lock>>
      /\ at[u] = "idle"
      /\ \/ UNCHANGED <<session, at, outcome>>
         \/ /\ session' = FALSE
            /\ at' = [at EXCEPT ![u] = IF session THEN "umount" ELSE "lock"]
            /\ \E res \in {"none", "dropping"} : outcome' = [outcome EXCEPT ![u] = res]
  BY DEF TakeSession, DropHandle, Goto
<1>2. CASE UNCHANGED <<session, at, outcome>>
  BY <1>0, <1>1, <1>2 DEF backendVars, kernelVars
<1>3. CASE ~UNCHANGED <<session, at, outcome>>
  <2>1. /\ \A v \in User :
              at'[v] = IF v = u THEN IF session THEN "umount" ELSE "lock" ELSE at[v]
        /\ \A v \in User : outcome'[v] \in {outcome[v], "none", "dropping"}
        /\ ~session'
    BY <1>1, <1>3 DEF TypeOK
  <2>2. SessionInHand'
    BY <1>0, <1>1, <2>1 DEF kernelVars
  <2> QED
    BY <1>0, <1>1, <2>1, <2>2 DEF backendVars, kernelVars
<1> QED
  BY <1>2, <1>3

\* umount_and_join: either half may fail (platform_linux.rs:37-40, 58-62).
LEMMA UmountInv ==
    ASSUME MountInv, NEW u \in User, Umount(u) \/ JoinSession(u)
    PROVE  Together'
<1> USE DEF MountInv, Together, NotMountedYet, Owned, Locks, SessionInHand, OkMeansBackendStopped
<1>0. phase = "mounted" /\ ~session
  BY UserMeansMounted DEF Umount, JoinSession
<1>1. /\ UNCHANGED <<backendVars, phase, sessionThread, slots, handles>>
      /\ at[u] \in {"umount", "join"}
      /\ mounted' \in {mounted, FALSE}
      /\ umountFailed' \in {umountFailed, TRUE}
      /\ \E place \in {"join", "lock", "idle"} : at' = [at EXCEPT ![u] = place]
      /\ \/ outcome' = outcome
         \/ outcome' = [outcome EXCEPT ![u] = "err"]
  BY DEF Umount, JoinSession, Goto, Finish
<1>a. at' = [at EXCEPT ![u] = "join"] \/ umountFailed' \/ sessionThread = "finished"
  BY DEF Umount, JoinSession, Goto
<1>2. /\ \A v \in User : v # u => at'[v] = at[v]
      /\ at'[u] \in {"join", "lock", "idle"}
      /\ \A v \in User : outcome'[v] \in {outcome[v], "err"}
      /\ at'[u] = "join" \/ umountFailed' \/ sessionThread = "finished"
  BY <1>1, <1>a DEF TypeOK
<1>3. sessionThread' = "serving" /\ ~umountFailed' =>
         \E v \in User : at'[v] \in {"umount", "join"}
  <2> SUFFICES ASSUME sessionThread' = "serving", ~umountFailed'
               PROVE  at'[u] = "join"
    OBVIOUS
  <2> QED
    BY <1>1, <1>2
<1>4. sessionThread' = "finished" => ~mounted'
  BY <1>1 DEF TypeOK
<1>5. SessionInHand'
  BY <1>0, <1>1, <1>3, <1>4 DEF slots
<1> QED
  BY <1>0, <1>1, <1>2, <1>5 DEF backendVars, slots

\* The backend is taken out of its slot and told to stop, or somebody else has
\* stopped it already (platform_linux.rs:49-53).
LEMMA LockBackendInv ==
    ASSUME MountInv, NEW u \in User, LockBackend(u)
    PROVE  Together'
<1> USE DEF MountInv, Together, NotMountedYet, Owned, Locks, SessionInHand, OkMeansBackendStopped
<1>0. phase = "mounted" /\ ~session
  BY UserMeansMounted DEF LockBackend
<1>1. /\ at[u] = "lock" /\ lock = NoUser /\ backend' = FALSE
      /\ UNCHANGED <<phase, kernelVars, session, handles>>
  BY DEF LockBackend
<1>2. CASE backend
  <2>1. /\ owner' = "joining" /\ worker' = worker /\ lock' = u
        /\ \A v \in User : at'[v] = IF v = u THEN "stop" ELSE at[v]
        /\ outcome' = outcome
    BY <1>2 DEF TypeOK, LockBackend, Goto, B!BeginStop
  <2> QED
    BY <1>0, <1>1, <1>2, <2>1, ThreadAssumption DEF kernelVars
<1>3. CASE ~backend
  <2>1. /\ UNCHANGED <<backendVars, lock>>
        /\ \A v \in User : at'[v] = IF v = u THEN "idle" ELSE at[v]
        /\ \A v \in User : v # u => outcome'[v] = outcome[v]
    BY <1>3 DEF TypeOK, LockBackend, Finish, Goto
  <2>2. owner = "stopped" /\ worker = "exited"
    BY <1>0, <1>1, <1>3 DEF BP!Inv, BP!Threads
  <2> QED
    BY <1>0, <1>1, <1>3, <2>1, <2>2, ThreadAssumption DEF backendVars, kernelVars
<1> QED
  BY <1>2, <1>3

\* shutdown joins the worker under the Mutex of the backend slot
\* (platform_linux.rs:49-53, backend.rs:70-75).
LEMMA JoinWorkerInv ==
    ASSUME MountInv, NEW u \in User, JoinWorker(u) \/ UnlockBackend(u)
    PROVE  Together'
<1> USE DEF MountInv, Together, NotMountedYet, Owned, Locks, SessionInHand, OkMeansBackendStopped
<1>0. phase = "mounted" /\ ~session
  BY UserMeansMounted DEF JoinWorker, UnlockBackend
<1>a. lock = u /\ \A v \in User : at[v] \in {"stop", "stopped"} => v = u
  BY DEF JoinWorker, UnlockBackend
<1>1. CASE JoinWorker(u)
  <2>1. /\ owner' = "joined" /\ worker' = worker
        /\ \A v \in User : at'[v] = IF v = u THEN "stopped" ELSE at[v]
        /\ UNCHANGED <<phase, kernelVars, slots, handles, outcome>>
        /\ at[u] = "stop"
    BY <1>1 DEF TypeOK, JoinWorker, Goto, B!Join
  <2> QED
    BY <1>0, <1>a, <2>1, ThreadAssumption DEF kernelVars, slots
<1>2. CASE UnlockBackend(u)
  <2>1. /\ owner' = "stopped" /\ worker' = worker /\ lock' = NoUser
        /\ \A v \in User : at'[v] = IF v = u THEN "idle" ELSE at[v]
        /\ \A v \in User : v # u => outcome'[v] = outcome[v]
        /\ at[u] = "stopped" /\ owner = "joined"
        /\ UNCHANGED <<phase, kernelVars, session, backend, handles>>
    BY <1>2 DEF TypeOK, UnlockBackend, Finish, Goto, B!Dropped
  <2>2. worker = "exited"
    BY <2>1 DEF BP!Inv, BP!Threads
  <2> QED
    BY <1>0, <1>a, <2>1, <2>2, ThreadAssumption DEF kernelVars
<1> QED
  BY <1>1, <1>2

\* Every step keeps the mount, its slots and its users together.
LEMMA NextMountInv == MountInv /\ [Next]_vars => Together'
<1> SUFFICES ASSUME MountInv, [Next]_vars PROVE Together'
  OBVIOUS
<1>1. CASE UNCHANGED vars
  BY <1>1 DEF MountInv, Together, NotMountedYet, Owned, Locks, SessionInHand,
     OkMeansBackendStopped, vars, backendVars, kernelVars, slots, userVars
<1>2. CASE Next
  BY <1>2, MountStepInv, ServiceStepInv, SessionInv, TakeSessionInv, UmountInv,
     LockBackendInv, JoinWorkerInv DEF Next, UserStep
<1> QED
  BY <1>1, <1>2

\* The invariant holds in every state, whoever the users are.
THEOREM MountInvariant == Spec => []MountInv
<1>1. Init => TypeOK /\ Together
  <2> SUFFICES ASSUME Init PROVE TypeOK /\ Together
    OBVIOUS
  <2>1. B!TypeOK
    BY DEF Init, B!Init, B!TypeOK, B!Outcome
  <2>2. TypeOK
    BY <2>1 DEF Init, TypeOK, Places
  <2>3. Together
    BY ThreadAssumption
    DEF Init, B!Init, Together, NotMountedYet, Owned, Locks, SessionInHand, OkMeansBackendStopped
  <2> QED
    BY <2>2, <2>3
<1>2. MountInv <=> (BP!Inv /\ BP!Stopping) /\ TypeOK /\ Together
  BY DEF MountInv
<1>3. (BP!Inv /\ BP!Stopping) /\ (BP!Inv /\ BP!Stopping)' /\ TypeOK /\ Together /\ [Next]_vars
        => TypeOK' /\ Together'
  BY <1>2, NextTypes, NextMountInv
<1> QED
  BY <1>1, <1>2, <1>3, BackendInvariant, PTL DEF Spec
-----------------------------------------------------------------------------
\* The slots, the lock and the users stay in their types.
THEOREM TypeCorrect == Spec => []TypeOK
<1>1. MountInv => TypeOK
  BY DEF MountInv
<1> QED
  BY <1>1, MountInvariant, PTL

\* An unmount that has returned Ok, or the last drop, has left a stopped backend,
\* no matter which of the users stopped it (platform_linux.rs:49-69).
THEOREM OkIsBackendStopped == Spec => []OkMeansBackendStopped
<1>1. MountInv => OkMeansBackendStopped
  BY DEF MountInv, Together
<1> QED
  BY <1>1, MountInvariant, PTL

\* When all calls are back and one said Ok, nothing is left, unless an umount
\* failed: the session cannot have got lost between the users
\* (platform_linux.rs:36-69).
THEOREM AllReturnedIsGone == Spec => []AllReturnedMeansGone
<1>1. MountInv => AllReturnedMeansGone
  <2> SUFFICES ASSUME MountInv, ~umountFailed, NEW u \in User, outcome[u] = "ok",
                      \A v \in User : at[v] = "idle"
               PROVE  Gone
    BY DEF AllReturnedMeansGone
  <2>1. worker = "exited"
    BY DEF MountInv, Together, OkMeansBackendStopped
  <2>2. phase = "mounted" /\ ~session
    BY DEF MountInv, Together, NotMountedYet, SessionInHand
  <2>3. sessionThread = "finished" /\ ~mounted
    BY <2>2 DEF MountInv, TypeOK, Together, SessionInHand
  <2> QED
    BY <2>1, <2>3 DEF Gone
<1> QED
  BY <1>1, MountInvariant, PTL

\* A mount() that returns an error leaves no file system, no session, no backend
\* and no command (platform_linux.rs:71-86).
THEOREM FailedLeavesNothing == Spec => []FailedMountLeavesNothing
<1>1. MountInv => FailedMountLeavesNothing
  <2> SUFFICES ASSUME MountInv, phase = "failed"
               PROVE  /\ ~mounted /\ sessionThread = "none"
                      /\ worker \in {"unborn", "returning", "exited"}
                      /\ queue = <<>>
    BY DEF FailedMountLeavesNothing
  <2>1. owner \in {"new", "failed", "joined"} /\ ~mounted /\ sessionThread = "none"
    BY DEF MountInv, Together, NotMountedYet, Owned
  <2>2. worker \in {"unborn", "returning", "exited"}
    BY <2>1 DEF MountInv, BP!Inv, BP!Threads
  <2>3. CASE owner \in {"new", "joined"}
    BY <2>1, <2>2, <2>3 DEF MountInv, BP!Inv, BP!Threads
  <2>4. CASE owner = "failed"
    <3>1. waiting = {} /\ \A k \in DOMAIN queue : queue[k] # Shutdown
      BY <2>4 DEF MountInv, BP!Stopping, BP!Elements
    <3>2. \A c \in {Fs, Mounter} : \A k \in DOMAIN queue : queue[k] # c
      BY <3>1 DEF MountInv, BP!Inv, BP!Place, BP!Queued
    <3>3. queue \in Seq({Fs, Mounter} \union {Shutdown})
      BY DEF MountInv, BP!Inv, BP!TypeOK
    <3>4. \A k \in DOMAIN queue : queue[k] \in {Fs, Mounter} \union {Shutdown}
      BY <3>3
    <3>5. DOMAIN queue = {}
      BY <3>1, <3>2, <3>4
    <3>6. queue = <<>>
      BY <3>3, <3>5
    <3> QED
      BY <2>1, <2>2, <3>6
  <2> QED
    BY <2>1, <2>3, <2>4
<1> QED
  BY <1>1, MountInvariant, PTL
-----------------------------------------------------------------------------
(***************************************************************************)
(* What a loop over a sequence computes.  The loops of Options and of      *)
(* FlattenSeq are recursive functions of the number of elements done; what *)
(* holds of them is shown by the least number for which it does not.       *)
(***************************************************************************)
LEMMA LeastNumber ==
    ASSUME NEW T, T \subseteq Nat, T # {}
    PROVE  \E x \in T : \A y \in T : x <= y
<1> DEFINE R == OpToRel(<, Nat)
<1>1. IsWellFoundedOn(R, Nat)
  BY NatLessThanWellFounded
<1>2. \A x, y \in Nat : x < y => <<x, y>> \in R
  BY DEF OpToRel
<1> HIDE DEF R
<1>3. PICK x \in T : \A y \in T : ~(<<y, x>> \in R)
  BY <1>1, WFMin
<1>4. \A y \in T : ~(y < x)
  BY <1>2, <1>3
<1> QED
  BY <1>3, <1>4

\* What holds at 0 and is handed on holds up to n.
LEMMA UpTo ==
    ASSUME NEW n \in Nat, NEW Good, 0 \in Good,
           \A k \in 1..n : k - 1 \in Good => k \in Good
    PROVE  0..n \subseteq Good
<1> SUFFICES ASSUME (0..n) \ Good # {} PROVE FALSE
  OBVIOUS
<1> DEFINE T == (0..n) \ Good
<1>1. PICK x \in T : \A y \in T : x <= y
  <2>1. T \subseteq Nat /\ T # {}
    OBVIOUS
  <2> HIDE DEF T
  <2> QED
    BY <2>1, LeastNumber
<1>2. x \in 1..n /\ x - 1 \in 0..n
  BY <1>1
<1>3. x - 1 \in Good
  BY <1>1, <1>2
<1> QED
  BY <1>1, <1>2, <1>3

\* A run of the loop that begins with x and applies the step g[k] to what it has.
IsRun(f, n, x, g) == f[0] = x /\ \A k \in 1..n : f[k] = g[k][f[k - 1]]

LEMMA LoopRuns ==
    ASSUME NEW n, n \in Nat, NEW T, NEW x, x \in T, NEW g, g \in [1..n -> [T -> T]]
    PROVE  \E f \in [0..n -> T] : IsRun(f, n, x, g)
<1> DEFINE Runs(m, f) == f = [k \in 0..m |-> IF k = 0 THEN x ELSE g[k][f[k - 1]]]
           Good == {m \in 0..n : \E f \in [0..m -> T] : Runs(m, f)}
<1>1. 0 \in Good
  <2>1. [k \in 0..0 |-> x] \in [0..0 -> T] /\ Runs(0, [k \in 0..0 |-> x])
    OBVIOUS
  <2>2. [k \in 0..0 |-> x] \in [0..0 -> T] /\ 0 \in 0..n
    BY <2>1
  <2> HIDE DEF Runs
  <2> QED
    BY <2>1, <2>2
<1>2. ASSUME NEW m \in 1..n, m - 1 \in Good PROVE m \in Good
  <2>1. PICK f \in [0..(m - 1) -> T] : Runs(m - 1, f)
    BY <1>2
  <2> DEFINE h == [k \in 0..m |-> IF k = m THEN g[m][f[m - 1]] ELSE f[k]]
  <2>2. m - 1 \in 0..(m - 1) /\ 0..m = (0..(m - 1)) \union {m} /\ m \notin 0..(m - 1) /\ m # 0
    OBVIOUS
  <2>3. h \in [0..m -> T]
    BY <2>1, <2>2
  <2>4. ASSUME NEW k \in 0..m PROVE h[k] = IF k = 0 THEN x ELSE g[k][h[k - 1]]
    <3>1. CASE k = m
      <4>1. h[k - 1] = f[m - 1]
        BY <2>2, <3>1
      <4> QED
        BY <2>2, <3>1, <4>1
    <3>2. CASE k # m
      <4>1. k \in 0..(m - 1) /\ h[k] = f[k]
        BY <2>2, <3>2
      <4>2. CASE k = 0
        BY <2>1, <4>1, <4>2
      <4>3. CASE k # 0
        <5>1. k - 1 \in 0..m /\ k - 1 # m
          BY <4>1, <4>3
        <5>2. h[k - 1] = f[k - 1]
          BY <5>1
        <5>3. f[k] = g[k][f[k - 1]]
          BY <2>1, <4>1, <4>3
        <5> QED
          BY <4>1, <4>3, <5>2, <5>3
      <4> QED
        BY <4>2, <4>3
    <3> QED
      BY <3>1, <3>2
  <2>5. Runs(m, h)
    BY <2>4
  <2>6. m \in 0..n
    OBVIOUS
  <2> HIDE DEF Runs, h
  <2> QED
    BY <2>3, <2>5, <2>6
<1> HIDE DEF Good
<1>3. 0..n \subseteq Good
  BY <1>1, <1>2, UpTo
<1>4. n \in Good
  BY <1>3
<1>5. PICK f \in [0..n -> T] : Runs(n, f)
  BY <1>4 DEF Good
<1>6. IsRun(f, n, x, g)
  BY <1>5 DEF IsRun
<1> QED
  BY <1>6

\* The items of all -o's are one sequence.
LEMMA FlattenIsSequence ==
    ASSUME NEW s \in Seq(Seq(Item))
    PROVE  FlattenSeq(s) \in Seq(Item)
<1> DEFINE n == Len(s)
           Runs(f) == f = [k \in 1..n |-> IF k = 1 THEN s[k] ELSE f[k - 1] \o s[k]]
           c == CHOOSE f : Runs(f)
<1>1. CASE n = 0
  <2>1. FlattenSeq(s) = <<>>
    BY <1>1 DEF FlattenSeq
  <2> QED
    BY <2>1
<1>2. CASE n # 0
  <2>1. n \in Nat \ {0} /\ \A k \in 1..n : s[k] \in Seq(Item)
    BY <1>2
  <2> DEFINE g == [k \in 1..n |-> [t \in Seq(Item) |-> t \o s[k]]]
  <2>2. g \in [1..n -> [Seq(Item) -> Seq(Item)]]
    <3> HIDE DEF n
    <3>1. \A k \in 1..n : \A t \in Seq(Item) : t \o s[k] \in Seq(Item)
      BY <2>1
    <3> QED
      BY <3>1
  <2> HIDE DEF n
  <2>3. PICK f \in [0..n -> Seq(Item)] :
           f[0] = <<>> /\ \A k \in 1..n : f[k] = g[k][f[k - 1]]
    <3> DEFINE T == Seq(Item)
               x == <<>>
    <3>1. x \in T /\ n \in Nat /\ g \in [1..n -> [T -> T]]
      BY <2>1, <2>2
    <3> HIDE DEF g, T, x
    <3>2. \E f \in [0..n -> T] : IsRun(f, n, x, g)
      BY ONLY <3>1, LoopRuns, Zenon
    <3> QED
      BY <3>2 DEF T, x, IsRun
  <2> DEFINE h == [k \in 1..n |-> f[k]]
  <2>4. ASSUME NEW k \in 1..n
        PROVE  h[k] = IF k = 1 THEN s[k] ELSE h[k - 1] \o s[k]
    <3>1. k \in 0..n /\ k - 1 \in 0..n /\ k # 0
      BY <2>1
    <3>2. f[k] = f[k - 1] \o s[k]
      BY <2>3, <3>1
    <3>3. CASE k = 1
      <4>1. f[0] = <<>> /\ k - 1 = 0 /\ s[k] \in Seq(Item)
        BY <2>1, <2>3, <3>3
      <4>2. <<>> \o s[k] = s[k]
        BY <4>1
      <4> QED
        BY <3>2, <3>3, <4>1, <4>2
    <3>4. CASE k # 1
      <4>1. k - 1 \in 1..n
        BY <2>1, <3>4
      <4> QED
        BY <3>2, <3>4, <4>1
    <3> QED
      BY <3>3, <3>4
  <2>5. Runs(h)
    BY <2>4
  <2> HIDE DEF Runs, h
  <2>6. Runs(c)
    BY <2>5
  <2>7. FlattenSeq(s) = c[n]
    BY <1>2 DEF FlattenSeq, n, Runs
  <2> HIDE DEF c
  <2> DEFINE Good == {k \in 0..n : k = 0 \/ c[k] \in Seq(Item)}
  <2>8. 0 \in Good
    BY <2>1
  <2>9. ASSUME NEW k \in 1..n, k - 1 \in Good PROVE k \in Good
    <3>1. c[k] = IF k = 1 THEN s[k] ELSE c[k - 1] \o s[k]
      BY <2>6 DEF Runs
    <3>2. CASE k = 1
      BY <2>1, <3>1, <3>2
    <3>3. CASE k # 1
      <4>1. c[k - 1] \in Seq(Item) /\ s[k] \in Seq(Item)
        BY <2>1, <2>9, <3>3
      <4>2. c[k - 1] \o s[k] \in Seq(Item)
        BY ONLY <4>1
      <4>3. k \in 0..n /\ c[k] \in Seq(Item)
        BY <2>1, <3>1, <3>3, <4>2
      <4> QED
        BY <4>3
    <3> QED
      BY <3>2, <3>3
  <2> HIDE DEF Good
  <2>10. 0..n \subseteq Good
    BY <2>1, <2>8, <2>9, UpTo
  <2>11. c[n] \in Seq(Item)
    BY <2>1, <2>10 DEF Good
  <2> QED
    BY <2>7, <2>11
<1> QED
  BY <1>1, <1>2

Deciding == {"allow_other", "allow_root"}

\* What the first k items say of who may use the mount.
Says(items, k, who) ==
    \/ who = "Owner" /\ \A j \in 1..k : items[j] \notin Deciding
    \/ /\ who \in {"All", "RootAndOwner"}
       /\ \E j \in 1..k :
             /\ items[j] = IF who = "All" THEN "allow_other" ELSE "allow_root"
             /\ \A i \in (j + 1)..k : items[i] \notin Deciding

MountOption == Item \union {"fsname=ifuse-rs", "subtype=ifuse-rs"}
Configurations == [acl : {"Owner", "All", "RootAndOwner"}, mount_options : Seq(MountOption)]

LEMMA ConfigureIs ==
    ASSUME NEW config \in Configurations, NEW option \in Item
    PROVE  /\ Configure(config, option) \in Configurations
           /\ Configure(config, option).acl
                = IF option = "allow_other" THEN "All"
                  ELSE IF option = "allow_root" THEN "RootAndOwner" ELSE config.acl
<1>1. CASE option \in {"allow_other", "allow_root", ""}
  BY <1>1 DEF Configure, Configurations
<1>2. CASE option \notin {"allow_other", "allow_root", ""}
  <2>1. Configure(config, option) = [config EXCEPT !.mount_options = Append(@, option)]
    BY <1>2 DEF Configure
  <2>2. Append(config.mount_options, option) \in Seq(MountOption)
    BY DEF Configurations, MountOption
  <2> QED
    BY <1>2, <2>1, <2>2 DEF Configurations
<1> QED
  BY <1>1, <1>2

\* The loop of fuser_config: who may use the mount is what the items said last.
LEMMA ConfigSays ==
    ASSUME NEW b, b.mount_options \in Seq(Seq(Item))
    PROVE  Says(FlattenSeq(b.mount_options), Len(FlattenSeq(b.mount_options)),
                fuser_config(b).acl)
<1> DEFINE items == FlattenSeq(b.mount_options)
           n == Len(items)
           Runs(f) == f = [k \in 0..n |-> IF k = 0 THEN Unconfigured
                                          ELSE Configure(f[k - 1], items[k])]
           c == CHOOSE f : Runs(f)
<1>1. items \in Seq(Item)
  BY FlattenIsSequence
<1>2. n \in Nat /\ \A k \in 1..n : items[k] \in Item
  BY <1>1
<1>3. Unconfigured \in Configurations
  <2>1. <<"fsname=ifuse-rs", "subtype=ifuse-rs">> \in Seq(MountOption)
    BY DEF MountOption
  <2> QED
    BY <2>1 DEF Unconfigured, Configurations
<1>4. fuser_config(b) = c[n]
  BY DEF fuser_config
<1> HIDE DEF items, n
<1>5. Runs(c)
  <2> DEFINE g == [k \in 1..n |-> [t \in Configurations |-> Configure(t, items[k])]]
  <2>1. g \in [1..n -> [Configurations -> Configurations]]
    BY <1>2, ConfigureIs
  <2>2. PICK f \in [0..n -> Configurations] :
           f[0] = Unconfigured /\ \A k \in 1..n : f[k] = g[k][f[k - 1]]
    <3> DEFINE x == Unconfigured
    <3>1. x \in Configurations /\ n \in Nat
      BY <1>2, <1>3
    <3> HIDE DEF g, x
    <3>2. \E f \in [0..n -> Configurations] : IsRun(f, n, x, g)
      BY ONLY <2>1, <3>1, LoopRuns, Zenon
    <3> QED
      BY <3>2 DEF x, IsRun
  <2>3. ASSUME NEW k \in 0..n
        PROVE  f[k] = IF k = 0 THEN Unconfigured ELSE Configure(f[k - 1], items[k])
    <3>1. CASE k = 0
      BY <2>2, <3>1
    <3>2. CASE k # 0
      <4>1. k \in 1..n /\ f[k - 1] \in Configurations
        BY <1>2, <3>2
      <4>2. f[k] = g[k][f[k - 1]]
        BY ONLY <2>2, <4>1
      <4> QED
        BY <3>2, <4>1, <4>2
    <3> QED
      BY <3>1, <3>2
  <2>4. Runs(f)
    BY <2>2, <2>3
  <2> HIDE DEF Runs
  <2> QED
    BY <2>4
<1> HIDE DEF c
<1> DEFINE Good == {k \in 0..n : c[k] \in Configurations /\ Says(items, k, c[k].acl)}
<1>6. 0 \in Good
  <2>1. c[0] = Unconfigured /\ 0 \in 0..n
    BY <1>2, <1>5
  <2>2. Says(items, 0, Unconfigured.acl)
    BY DEF Unconfigured, Says
  <2> QED
    BY <1>3, <2>1, <2>2
<1>7. ASSUME NEW k \in 1..n, k - 1 \in Good PROVE k \in Good
  <2>1. /\ k \in 0..n /\ k # 0 /\ k \in Nat /\ items[k] \in Item
        /\ c[k - 1] \in Configurations /\ Says(items, k - 1, c[k - 1].acl)
    BY <1>2, <1>7
  <2>2. c[k] = Configure(c[k - 1], items[k])
    BY <1>5, <2>1
  <2>3. /\ c[k] \in Configurations
        /\ c[k].acl = IF items[k] = "allow_other" THEN "All"
                      ELSE IF items[k] = "allow_root" THEN "RootAndOwner" ELSE c[k - 1].acl
    BY <2>1, <2>2, ConfigureIs
  <2> HIDE DEF Good
  <2>4. CASE items[k] \in Deciding
    <3>1. k \in 1..k /\ \A i \in (k + 1)..k : FALSE
      BY <2>1
    <3> QED
      BY <2>1, <2>3, <2>4, <3>1 DEF Deciding, Says, Good
  <2>5. CASE items[k] \notin Deciding
    <3>1. c[k].acl = c[k - 1].acl
      BY <2>3, <2>5 DEF Deciding
    <3>2. /\ \A j \in 1..k : j \in 1..(k - 1) \/ j = k
          /\ 1..(k - 1) \subseteq 1..k
          /\ \A j \in 1..(k - 1) : \A i \in (j + 1)..k : i \in (j + 1)..(k - 1) \/ i = k
      BY <2>1
    <3>3. Says(items, k, c[k - 1].acl)
      BY <2>1, <2>5, <3>2 DEF Says
    <3> QED
      BY <2>1, <2>3, <3>1, <3>3 DEF Good
  <2> QED
    BY <2>4, <2>5
<1> HIDE DEF Good
<1>8. 0..n \subseteq Good
  BY <1>2, <1>6, <1>7, UpTo
<1>9. Says(items, n, c[n].acl)
  BY <1>2, <1>8 DEF Good
<1> QED
  BY <1>4, <1>9 DEF items, n

\* What validate lets pass has a directory for its mount point.
LEMMA ValidMountPoint ==
    ASSUME NEW b, b.mount_point \in MountPoints \union {None}, validate(b) = "Ok"
    PROVE  b.mount_point = "dir"
<1> DEFINE objections == Objections(b)
           raised == {k \in DOMAIN objections : objections[k][1]}
<1>1. DOMAIN objections = 1..8
  BY DEF Objections
<1>2. ASSUME NEW k \in 1..8 PROVE objections[k][2] # "Ok"
  <2>1. /\ objections[1][2] # "Ok" /\ objections[2][2] # "Ok" /\ objections[3][2] # "Ok"
        /\ objections[4][2] # "Ok" /\ objections[5][2] # "Ok" /\ objections[6][2] # "Ok"
        /\ objections[7][2] # "Ok" /\ objections[8][2] # "Ok"
    BY Zenon DEF Objections
  <2>2. \/ k = 1 \/ k = 2 \/ k = 3 \/ k = 4 \/ k = 5 \/ k = 6 \/ k = 7 \/ k = 8
    OBVIOUS
  <2> HIDE DEF objections
  <2> QED
    BY <2>1, <2>2
<1>3. raised = {}
  <2> SUFFICES ASSUME raised # {} PROVE FALSE
    OBVIOUS
  <2>1. validate(b) = objections[Min(raised)][2]
    BY DEF validate
  <2>2. raised \subseteq 1..8
    BY <1>1
  <2> HIDE DEF raised, objections
  <2>3. \E x \in raised : \A y \in raised : x <= y
    <3>1. raised \subseteq Nat /\ raised # {}
      BY <2>2
    <3> QED
      BY ONLY <3>1, LeastNumber, Zenon
  <2>4. Min(raised) \in raised
    BY <2>3 DEF Min
  <2> QED
    BY <1>2, <2>1, <2>2, <2>4
<1>4. \A k \in 6..8 : ~objections[k][1]
  <2>1. 6..8 \subseteq 1..8
    OBVIOUS
  <2> HIDE DEF objections
  <2> QED
    BY <1>1, <1>3, <2>1
<1>5. /\ ~objections[6][1] /\ ~objections[7][1] /\ ~objections[8][1]
  BY <1>4
<1>6. /\ b.mount_point \notin {None, ""} /\ b.mount_point # "nothing" /\ b.mount_point # "file"
  BY <1>5 DEF Objections
<1> QED
  BY <1>6 DEF MountPoints
-----------------------------------------------------------------------------
(***************************************************************************)
(* The program of IfuseMain: main is the only user of its mount.           *)
(***************************************************************************)
\* What the program does to its mount is what LinuxMount lets a user do.
LEMMA ProgramStep ==
    ASSUME User = {Main}
    PROVE  [ProgramNext]_programVars => [Next]_vars
<1> SUFFICES ASSUME [ProgramNext]_programVars PROVE Next \/ UNCHANGED vars
  OBVIOUS
<1>1. CASE MainStep
  BY <1>1 DEF MainStep, Run, ListApps, MountReturns, OnSignal, Unmounted, Poll, Leave, Exit, Next
<1>2. CASE SignalArrives \/ SignalKills \/ GetDevices
  BY <1>2 DEF SignalArrives, SignalKills, GetDevices
<1>3. CASE Mount \/ (~Over /\ Worker)
  BY <1>3 DEF Mount, Worker, Next
<1>4. CASE Unmount
  BY <1>4 DEF Unmount, Next
<1>5. CASE Session \/ Requests
  BY <1>5 DEF Session, Requests, Next
<1>6. CASE UNCHANGED programVars
  BY <1>6 DEF programVars
<1> QED
  BY <1>1, <1>2, <1>3, <1>4, <1>5, <1>6 DEF ProgramNext

\* The mount of the program is a mount of LinuxMount, whatever the command line
\* and the signals: all that is shown of a mount holds of it (main.rs:76-139).
THEOREM MountInside ==
    ASSUME User = {Main}
    PROVE  ProgramSpec => Spec
<1>1. ProgramInit => Init
  BY DEF ProgramInit
<1> QED
  BY <1>1, ProgramStep, PTL DEF ProgramSpec, Spec

\* What is behind main and what is left to do, at each place of run().
MainPlace ==
    /\ main \in {"parsed", "listing"} => phase = "new"
    /\ main = "mounting" /\ phase = "mounted" =>
          handles = {Main} /\ at[Main] = "idle" /\ outcome[Main] = "none"
    /\ main \in {"select", "unmounting", "leaving"} =>
          phase = "mounted" /\ handles = {Main} /\ ~Dropping(Main)
    /\ main \in {"select", "leaving"} => at[Main] = "idle"
    /\ main = "dropping" =>
          /\ phase = "mounted" /\ handles = {} /\ ~session
          /\ outcome[Main] = IF at[Main] = "idle" THEN "dropped" ELSE "dropping"
    /\ main = "exit" =>
          \/ phase \in {"new", "failed"}
          \/ phase = "mounted" /\ ~session /\ at[Main] = "idle" /\ outcome[Main] = "dropped"

\* What can be asked of mount().
Wellformed(b) ==
    /\ b.mount_point \in MountPoints \union {None}
    /\ b.mount_options \in Seq(Seq(Item))

\* What is known of the builder, and what it has become in the mount.
Asked ==
    /\ main = "parsed" => cli \in CommandLines
    /\ main = "mounting" /\ phase = "new" => Wellformed(builder)
    /\ phase \notin {"new", "failed"} =>
          Wellformed(builder) /\ validate(builder) = "Ok"
    /\ phase = "mounted" => acl = fuser_config(builder).acl

\* mount() and the worker leave main where it is.
LEMMA MountMainPlace ==
    ASSUME User = {Main}, MountInv, MainPlace, Mount
    PROVE  MainPlace'
<1>1. main = "mounting" /\ main' = main
  BY DEF Mount
<1>2. phase' = "mounted" => phase = "session"
  BY DEF Mount, MountStep, MountBegins, BackendStarts, AskDeviceInfo, GetDeviceInfo,
         SessionStarts, SessionFails, Abort, Aborted
<1>3. phase' = "mounted" => handles' = User /\ UNCHANGED <<at, outcome>>
  BY <1>2 DEF Mount, MountStep, MountBegins, BackendStarts, AskDeviceInfo, GetDeviceInfo,
         SessionStarts, SessionFails, Abort, Aborted
<1>4. phase = "session" => at[Main] = "idle" /\ outcome[Main] = "none"
  BY DEF MountInv, Together, NotMountedYet
<1> QED
  BY <1>1, <1>2, <1>3, <1>4 DEF MainPlace

\* So do the session thread and the kernel.
LEMMA OthersMainPlace ==
    ASSUME MainPlace,
           \/ GetDevices \/ SignalArrives \/ SignalKills
           \/ Worker \/ Session \/ Requests \/ UNCHANGED programVars
    PROVE  MainPlace'
<1>1. UNCHANGED <<phase, session, handles, at, outcome>>
  BY DEF GetDevices, SignalArrives, SignalKills, Worker, WorkerStep, Session, Requests, Serve,
         Served, SessionEnds, ExternalUnmount, programVars, vars, slots, userVars
<1>2. main' = main \/ main' = "killed"
  BY DEF GetDevices, SignalArrives, SignalKills, Worker, Session, Requests, ProgramUnchanged,
         programVars
<1> QED
  BY <1>1, <1>2 DEF MainPlace, Dropping

\* A step of the unmount or the drop that main is in.
LEMMA UnmountMainPlace ==
    ASSUME User = {Main}, MountInv, MainPlace, Unmount
    PROVE  MainPlace'
<1>1. main' = main /\ main \notin {"exit", "killed"} /\ UserStep(Main)
  BY DEF Unmount, ProgramUnchanged, Over
<1>2. UNCHANGED <<phase, session, handles>> /\ at[Main] # "idle"
  BY <1>1 DEF UserStep, Umount, JoinSession, LockBackend, JoinWorker, UnlockBackend, slots
<1>3. phase = "mounted"
  BY <1>2 DEF MountInv, Together, NotMountedYet
<1>4. main \in {"unmounting", "dropping"}
        \/ main \notin {"parsed", "listing", "mounting", "select", "unmounting", "leaving",
                        "dropping", "exit"}
  BY <1>1, <1>2, <1>3 DEF MainPlace
<1>5. at \in [User -> Places] /\ outcome \in [User -> {"none", "ok", "err", "dropping", "dropped"}]
  BY DEF MountInv, TypeOK
<1>6. outcome'[Main] = "dropping" => outcome[Main] = "dropping"
  BY <1>1, <1>5 DEF UserStep, Umount, JoinSession, LockBackend, JoinWorker, UnlockBackend,
                    Finish, Dropping
<1>7. ASSUME outcome[Main] = "dropping"
      PROVE  outcome'[Main] = IF at'[Main] = "idle" THEN "dropped" ELSE "dropping"
  BY <1>1, <1>5, <1>7 DEF UserStep, Umount, JoinSession, LockBackend, JoinWorker, UnlockBackend,
                          Finish, Dropping, Goto
<1>8. main = "dropping" => outcome[Main] = "dropping"
  BY <1>2 DEF MainPlace
<1> QED
  BY <1>1, <1>2, <1>3, <1>4, <1>6, <1>7, <1>8 DEF MainPlace, Dropping

\* The steps of main itself.
LEMMA MainMainPlace ==
    ASSUME User = {Main}, MountInv, MainPlace, MainStep
    PROVE  MainPlace'
<1>0. at \in [User -> Places] /\ outcome \in [User -> {"none", "ok", "err", "dropping", "dropped"}]
  BY DEF MountInv, TypeOK
<1>1. CASE Run \/ ListApps \/ MountReturns
  BY <1>1 DEF MainPlace, Run, ListApps, MountReturns, vars, slots, userVars, Dropping
<1>2. CASE OnSignal
  BY <1>0, <1>2 DEF OnSignal, TakeSession, Goto, MainPlace, Dropping
<1>3. CASE Unmounted \/ Poll
  BY <1>3 DEF MainPlace, Unmounted, Poll, vars, slots, userVars, Dropping
<1>4. CASE Leave
  <2>1. handles = {Main} /\ phase' = "mounted" /\ main' = "dropping"
    BY <1>4 DEF Leave, DropHandle, MainPlace
  <2>2. handles' = {} /\ ~session' /\ at'[Main] # "idle" /\ outcome'[Main] = "dropping"
    BY <1>0, <1>4, <2>1 DEF Leave, DropHandle, Goto
  <2> QED
    BY <2>1, <2>2 DEF MainPlace
<1>5. CASE Exit
  BY <1>5 DEF MainPlace, Exit, vars, slots, userVars
<1> QED
  BY <1>1, <1>2, <1>3, <1>4, <1>5 DEF MainStep

\* Main is where its mount allows it to be (main.rs:76-139).
LEMMA MainPlaceInvariant ==
    ASSUME User = {Main}
    PROVE  ProgramSpec => [](MountInv /\ MainPlace)
<1>1. ProgramInit => MainPlace
  BY DEF ProgramInit, Init, MainPlace
<1>2. MountInv /\ MainPlace /\ [ProgramNext]_programVars => MainPlace'
  BY MountMainPlace, OthersMainPlace, UnmountMainPlace, MainMainPlace DEF ProgramNext
<1>3. ProgramSpec => []MountInv
  BY MountInside, MountInvariant
<1> QED
  BY <1>1, <1>2, <1>3, PTL DEF ProgramSpec

\* When the program has left by itself no worker is at the device, and no file
\* system and no session is left, unless the umount failed (main.rs:117-139).
THEOREM LeavesNothing ==
    ASSUME User = {Main}
    PROVE  ProgramSpec => []ExitLeavesNothing
<1>1. MountInv /\ MainPlace => ExitLeavesNothing
  <2> SUFFICES ASSUME MountInv, MainPlace, main = "exit"
               PROVE  /\ worker \in {"unborn", "returning", "exited"}
                      /\ mounted \/ sessionThread = "serving" => umountFailed
    BY DEF ExitLeavesNothing
  <2>1. CASE phase = "new"
    BY <2>1 DEF MountInv, Together, NotMountedYet, Owned, BP!Inv, BP!Threads
  <2>2. CASE phase = "failed"
    <3>1. owner \in {"new", "failed", "joined"} /\ ~mounted /\ sessionThread = "none"
      BY <2>2 DEF MountInv, Together, NotMountedYet, Owned
    <3> QED
      BY <3>1 DEF MountInv, BP!Inv, BP!Threads
  <2>3. CASE /\ phase = "mounted" /\ ~session /\ at[Main] = "idle" /\ outcome[Main] = "dropped"
    <3>1. worker = "exited"
      BY <2>3 DEF MountInv, Together, OkMeansBackendStopped
    <3>2. sessionThread = "serving" => umountFailed
      BY <2>3 DEF MountInv, Together, SessionInHand
    <3>3. mounted => sessionThread = "serving"
      BY <2>3 DEF MountInv, TypeOK, Together, SessionInHand
    <3> QED
      BY <3>1, <3>2, <3>3
  <2> QED
    BY <2>1, <2>2, <2>3 DEF MainPlace
<1> QED
  BY <1>1, MainPlaceInvariant, PTL

\* The command line makes a builder; then it stays as it is.
LEMMA RunAsked ==
    ASSUME MainPlace, Asked, Run
    PROVE  Asked'
<1>1. main = "parsed" /\ phase = "new" /\ phase' = phase /\ acl' = acl /\ main' # "parsed"
  BY DEF Run, MainPlace, vars, connVars
<1>2. main' = "mounting" => Wellformed(builder')
  <2> SUFFICES ASSUME main' = "mounting" PROVE Wellformed(builder')
    OBVIOUS
  <2>1. cli \in CommandLines
    BY <1>1 DEF Asked
  <2>2. /\ cli.positional \in Seq(MountPoints) /\ cli.mount_options \in Seq(Seq(Item))
        /\ cli.list_apps \in BOOLEAN
    BY <2>1, InputAssumption
  <2>3. /\ cli.positional # <<>>
        /\ builder' = [with_target(CliTarget) EXCEPT
                          !.mount_point = Last(cli.positional),
                          !.source = CliSource,
                          !.mount_options = cli.mount_options]
    BY <2>2 DEF Run
  <2>4. builder'.mount_point = Last(cli.positional) /\ builder'.mount_options = cli.mount_options
    BY <2>3 DEF with_target
  <2>5. Last(cli.positional) \in MountPoints
    BY <2>2, <2>3 DEF Last
  <2> QED
    BY <2>2, <2>4, <2>5 DEF Wellformed
<1> QED
  BY <1>1, <1>2 DEF Asked

\* mount() lets nothing pass that validate objects to, and asks fuser_config once.
LEMMA MountAsked ==
    ASSUME Asked, Mount
    PROVE  Asked'
<1>1. main = "mounting" /\ main' = main /\ builder' = builder /\ cli' = cli
  BY DEF Mount, askedVars
<1>2. /\ phase \in {"new", "starting", "info", "asked", "session", "abort", "aborting"}
      /\ phase' # "new" /\ (phase' = "mounted" => phase = "session")
  BY DEF Mount, MountStep, MountBegins, BackendStarts, AskDeviceInfo, GetDeviceInfo,
         SessionStarts, SessionFails, Abort, Aborted
<1>3. phase = "new" => (phase' = "failed" <=> validate(builder) # "Ok")
  BY DEF Mount
<1>4. phase' # "failed" => Wellformed(builder) /\ validate(builder) = "Ok"
  BY <1>1, <1>2, <1>3 DEF Asked
<1>5. phase' = "mounted" => acl' = fuser_config(builder).acl
  BY <1>2 DEF Mount
<1> QED
  BY <1>1, <1>2, <1>4, <1>5 DEF Asked

\* Nothing else touches what was asked for.
LEMMA OthersAsked ==
    ASSUME Asked, \/ MainStep /\ ~Run
                  \/ GetDevices \/ SignalArrives \/ SignalKills
                  \/ Worker \/ Unmount \/ Session \/ Requests \/ UNCHANGED programVars
    PROVE  Asked'
<1>1. UNCHANGED <<phase, cli, builder, acl>>
  <2>1. CASE MainStep /\ ~Run
    BY <2>1 DEF MainStep, ListApps, MountReturns, OnSignal, Unmounted, Poll, Leave, Exit,
                TakeSession, DropHandle, vars, askedVars, connVars
  <2>2. CASE Unmount
    BY <2>2 DEF Unmount, UserStep, Umount, JoinSession, LockBackend, JoinWorker, UnlockBackend,
                ProgramUnchanged, askedVars, connVars
  <2>3. CASE Worker \/ GetDevices
    BY <2>3 DEF Worker, WorkerStep, GetDevices, vars, askedVars
  <2>4. CASE Session \/ Requests
    BY <2>4 DEF Session, Requests, Serve, Served, SessionEnds, ExternalUnmount,
                ProgramUnchanged, askedVars, connVars
  <2>5. CASE SignalArrives \/ SignalKills \/ UNCHANGED programVars
    BY <2>5 DEF SignalArrives, SignalKills, programVars, vars, askedVars, connVars
  <2> QED
    BY <2>1, <2>2, <2>3, <2>4, <2>5
<1>2. main' = main \/ main' \notin {"parsed", "mounting"}
  BY DEF MainStep, ListApps, MountReturns, OnSignal, Unmounted, Poll, Leave, Exit, GetDevices,
         SignalArrives, SignalKills, Worker, Unmount, Session, Requests, ProgramUnchanged,
         programVars
<1> QED
  BY <1>1, <1>2 DEF Asked

\* There is a mount only on a directory, and who may use it is what the last
\* word over all -o's and their items says, only the owner when there is none:
\* for every command line and every builder (options.rs:123-181, 184-227).
THEOREM MountedIsAsked ==
    ASSUME User = {Main}
    PROVE  ProgramSpec => []MountedAsAsked
<1>1. ProgramInit => Asked
  BY InputAssumption DEF ProgramInit, Init, Asked, Wellformed
<1>2. MountInv /\ MainPlace /\ Asked /\ [ProgramNext]_programVars => Asked'
  BY RunAsked, MountAsked, OthersAsked DEF ProgramNext
<1>3. Asked => MountedAsAsked
  <2> SUFFICES ASSUME Asked, phase = "mounted" PROVE MountedAsAsked
    BY DEF MountedAsAsked
  <2>1. /\ Wellformed(builder) /\ validate(builder) = "Ok"
        /\ acl = fuser_config(builder).acl
    BY DEF Asked
  <2>2. builder.mount_point = "dir"
    BY <2>1, ValidMountPoint DEF Wellformed
  <2> DEFINE items == FlattenSeq(builder.mount_options)
  <2>3. Says(items, Len(items), acl)
    BY <2>1, ConfigSays DEF Wellformed
  <2>4. items \in Seq(Item)
    BY <2>1, FlattenIsSequence DEF Wellformed
  <2> HIDE DEF items
  <2>5. DOMAIN items = 1..Len(items)
    BY <2>4
  <2>6. IF acl = "Owner"
        THEN \A k \in 1..Len(items) : items[k] \notin {"allow_other", "allow_root"}
        ELSE \E k \in DOMAIN items :
                /\ items[k] = IF acl = "All" THEN "allow_other" ELSE "allow_root"
                /\ \A j \in (k + 1)..Len(items) : items[j] \notin {"allow_other", "allow_root"}
    BY <2>3, <2>5 DEF Says, Deciding
  <2> QED
    BY <2>2, <2>6 DEF MountedAsAsked, items
<1> QED
  BY <1>1, <1>2, <1>3, MainPlaceInvariant, PTL DEF ProgramSpec
-----------------------------------------------------------------------------
(***************************************************************************)
(* The device that is connected to.                                        *)
(***************************************************************************)
\* An index that Min finds is the first of its kind.
LEMMA FirstIndex ==
    ASSUME NEW n \in Nat, NEW S, S \subseteq 1..n, S # {}
    PROVE  Min(S) \in S /\ \A j \in 1..(Min(S) - 1) : j \notin S
<1>1. S \subseteq Nat /\ S # {}
  OBVIOUS
<1>2. \E x \in S : \A y \in S : x <= y
  BY ONLY <1>1, LeastNumber, Zenon
<1>3. Min(S) \in S /\ \A y \in S : Min(S) <= y
  BY <1>2 DEF Min
<1> DEFINE m == Min(S)
<1>4. m \in S /\ m \in Nat /\ \A y \in S : m <= y
  BY <1>1, <1>3
<1> HIDE DEF m
<1>5. \A j \in 1..(m - 1) : j \notin S
  BY <1>4
<1> QED
  BY <1>4, <1>5 DEF m

\* And one that Max finds is one of its kind.
LEMMA LastIndex ==
    ASSUME NEW n \in Nat, NEW S, S \subseteq 1..n, S # {}
    PROVE  Max(S) \in S
<1> DEFINE T == {n - k : k \in S}
<1>1. T \subseteq Nat /\ T # {}
  <2>1. \A k \in S : n - k \in Nat
    OBVIOUS
  <2> QED
    BY <2>1
<1> HIDE DEF T
<1>2. PICK x \in T : \A y \in T : x <= y
  BY ONLY <1>1, LeastNumber, Zenon
<1>3. PICK k \in S : x = n - k
  BY <1>2 DEF T
<1>4. \A j \in S : n - k <= n - j
  BY <1>2, <1>3 DEF T
<1>5. \A j \in S : j <= k
  BY <1>4
<1> QED
  BY <1>5 DEF Max

\* The brackets that parse_network_address takes away are a pair
\* (options.rs:237-240).
LEMMA BracketsAreAPair ==
    ASSUME NEW t \in Seq(Token)
    PROVE  /\ Unbracketed(t) \in Seq(Token)
           /\ t \in {Unbracketed(t), <<"[">> \o Unbracketed(t) \o <<"]">>}
<1>1. CASE Len(t) > 1 /\ Head(t) = "[" /\ Last(t) = "]"
  <2> DEFINE n == Len(t)
             u == SubSeq(t, 2, n - 1)
             w == <<"[">> \o u \o <<"]">>
  <2>1. n \in Nat /\ n > 1 /\ t[1] = "[" /\ t[n] = "]" /\ Unbracketed(t) = u
    BY <1>1 DEF Unbracketed, Last
  <2>2. u \in Seq(Token) /\ Len(u) = n - 2
    <3>1. n - 1 \in Int /\ 2 \in Int /\ \A i \in 2..(n - 1) : t[i] \in Token
      BY <2>1
    <3> HIDE DEF n
    <3>2. u \in Seq(Token) /\ Len(u) = IF 2 <= n - 1 THEN (n - 1) - 2 + 1 ELSE 0
      BY <3>1, SubSeqProperties
    <3> QED
      BY <2>1, <3>2
  <2>3. \A k \in 1..(n - 2) : u[k] = t[k + 1]
    BY <2>1
  <2> HIDE DEF u
  <2>4. Len(w) = n /\ DOMAIN w = 1..n /\ w \in Seq(Token \union {"[", "]"})
    BY <2>1, <2>2
  <2>5. ASSUME NEW k \in 1..n PROVE w[k] = t[k]
    <3>1. w[k] = IF k = 1 THEN "[" ELSE IF k = n THEN "]" ELSE u[k - 1]
      BY <2>1, <2>2
    <3>2. CASE k = 1 \/ k = n
      BY <2>1, <3>1, <3>2
    <3>3. CASE k # 1 /\ k # n
      <4>1. k - 1 \in 1..(n - 2) /\ (k - 1) + 1 = k
        BY <2>1, <3>3
      <4>2. u[k - 1] = t[(k - 1) + 1]
        BY ONLY <2>3, <4>1
      <4> QED
        BY <3>1, <3>3, <4>1, <4>2
    <3> QED
      BY <3>2, <3>3
  <2> HIDE DEF w
  <2>6. t = w
    BY <2>4, <2>5
  <2> QED
    BY <2>1, <2>2, <2>6 DEF w
<1>2. CASE ~(Len(t) > 1 /\ Head(t) = "[" /\ Last(t) = "]")
  BY <1>2 DEF Unbracketed
<1> QED
  BY <1>1, <1>2

\* The only texts that parse_network_address reads as an address, and what it
\* reads in them (options.rs:230-259).
LEMMA AddressIsAsked ==
    ASSUME NEW input \in Seq(Token), parse_network_address(input) # None
    PROVE  \E text \in AddressTexts :
              /\ input \in {text, <<"[">> \o text \o <<"]">>}
              /\ parse_network_address(input)
                   = [address |-> text[1], scoped |-> "num" \in Range(text)]
<1> DEFINE t == Unbracketed(input)
           percents == {k \in DOMAIN t : t[k] = "%"}
           k == Max(percents)
           scoped == percents # {} /\ Contains(SubSeq(t, 1, k - 1), "v6")
           address == Literal(IF scoped THEN SubSeq(t, 1, k - 1) ELSE t)
<1>1. /\ address # None
      /\ scoped => SubSeq(t, k + 1, Len(t)) = <<"num">>
      /\ parse_network_address(input) = [address |-> address, scoped |-> scoped]
  BY Zenon DEF parse_network_address
<1>2. t \in Seq(Token) /\ input \in {t, <<"[">> \o t \o <<"]">>}
  BY BracketsAreAPair
<1> HIDE DEF t
<1>3. CASE ~scoped
  <2>1. address = Literal(t)
    BY <1>3
  <2>2. t \in {<<"v4">>, <<"v6">>} /\ address = t[1]
    BY <1>1, <2>1 DEF Literal
  <2>3. "num" \notin Range(t)
    BY <2>2 DEF Range
  <2>4. parse_network_address(input) = [address |-> t[1], scoped |-> "num" \in Range(t)]
    BY <1>1, <1>3, <2>2, <2>3
  <2>5. t \in AddressTexts
    BY <2>2 DEF AddressTexts
  <2> QED
    BY <1>2, <2>4, <2>5
<1>4. CASE scoped
  <2> DEFINE head == SubSeq(t, 1, k - 1)
             rest == SubSeq(t, k + 1, Len(t))
  <2>1. Len(t) \in Nat /\ percents \subseteq 1..Len(t) /\ percents # {}
    BY <1>2, <1>4
  <2>2. k \in 1..Len(t) /\ t[k] = "%"
    <3> HIDE DEF percents
    <3>1. k \in percents
      BY <2>1, LastIndex
    <3> QED
      BY <2>1, <3>1 DEF percents
  <2>3. address = Literal(head) /\ Contains(head, "v6") /\ rest = <<"num">>
    BY <1>1, <1>4
  <2>4. head \in {<<"v4">>, <<"v6">>} /\ address = head[1]
    BY <1>1, <2>3 DEF Literal
  <2> HIDE DEF percents, k, head, rest
  <2>5. head = <<"v6">>
    <3>1. head # <<"v4">>
      <4> SUFFICES ASSUME head = <<"v4">> PROVE FALSE
        OBVIOUS
      <4>1. Len(head) = 1 /\ head[1] = "v4"
        OBVIOUS
      <4>2. PICK i \in 1..Len(head) : head[i] = "v6"
        BY <2>3 DEF Contains
      <4> QED
        BY <4>1, <4>2
    <3> QED
      BY <2>4, <3>1
  <2>6. Len(head) = k - 1 /\ Len(rest) = Len(t) - k
    BY <1>2, <2>1, <2>2 DEF head, rest
  <2>7. k = 2 /\ Len(t) = 3
    <3>1. Len(head) = 1 /\ Len(rest) = 1
      BY <2>3, <2>5
    <3>2. k \in Nat /\ Len(t) \in Nat
      BY <2>1, <2>2
    <3>3. k - 1 = 1 /\ Len(t) - k = 1
      BY ONLY <2>6, <3>1
    <3> QED
      BY ONLY <3>2, <3>3
  <2>8. t[1] = "v6" /\ t[3] = "num"
    <3>1. head[1] = t[1] /\ rest[1] = t[3]
      BY <1>2, <2>7 DEF head, rest
    <3> QED
      BY <2>3, <2>5, <3>1
  <2>9. t = <<"v6", "%", "num">>
    BY <1>2, <2>2, <2>7, <2>8
  <2>10. "num" \in Range(t)
    BY <2>7, <2>8, <1>2 DEF Range
  <2>11. parse_network_address(input) = [address |-> t[1], scoped |-> "num" \in Range(t)]
    <3>1. address = t[1]
      BY <2>4, <2>5, <2>8
    <3>2. parse_network_address(input) = [address |-> address, scoped |-> scoped]
      BY <1>1
    <3> HIDE DEF address, scoped
    <3> QED
      BY <1>4, <2>10, <3>1, <3>2, Zenon
  <2> QED
    BY <1>2, <2>9, <2>11 DEF AddressTexts
<1> QED
  BY <1>3, <1>4

\* The device that usbmuxd_provider finds is the first that matches
\* (backend.rs:212-231).
LEMMA FirstMatch ==
    ASSUME NEW udid, NEW transport, NEW list \in DeviceLists,
           usbmuxd_provider(udid, transport, list) # None
    PROVE  \E k \in DOMAIN list :
              /\ usbmuxd_provider(udid, transport, list) = list[k]
              /\ list[k].transport = transport /\ (udid = None \/ list[k].udid = udid)
              /\ \A j \in 1..(k - 1) :
                    ~(list[j].transport = transport /\ (udid = None \/ list[j].udid = udid))
<1> DEFINE matches == {k \in DOMAIN list :
                         list[k].transport = transport /\ udid \in {None, list[k].udid}}
           first == Min(matches)
<1>1. PICK n \in Nat : DOMAIN list = 1..n
  BY DEF DeviceLists, BoundedSeq, SeqOf
<1>2. matches # {} /\ usbmuxd_provider(udid, transport, list) = list[first]
  BY DEF usbmuxd_provider
<1>3. matches \subseteq 1..n
  BY <1>1
<1>4. first \in matches /\ \A j \in 1..(first - 1) : j \notin matches
  <2> HIDE DEF matches
  <2> QED
    BY <1>2, <1>3, FirstIndex
<1> HIDE DEF first
<1>5. \A j \in 1..(first - 1) : j \in DOMAIN list
  BY <1>1, <1>4
<1> QED
  BY <1>2, <1>4, <1>5

\* What main has made of the command line, and what usbmuxd can have listed.
Built ==
    IF cli = None THEN builder \in Builders
    ELSE /\ cli \in CommandLines /\ ~cli.list_apps
         /\ builder.target = CliTarget /\ builder.source = CliSource

Connecting ==
    /\ devices = None \/ devices \in DeviceLists
    /\ main = "parsed" => cli \in CommandLines
    /\ main = "listing" => cli \in CommandLines /\ cli.list_apps
    /\ main = "mounting" \/ phase # "new" => Built

LEMMA MainConnecting ==
    ASSUME MainPlace, Connecting, Run \/ ListApps
    PROVE  Connecting'
<1>1. CASE Run
  <2>1. /\ main = "parsed" /\ phase = "new" /\ phase' = phase /\ devices' = devices /\ cli' = cli
        /\ main' \in {"exit", "listing", "mounting"}
    BY <1>1 DEF Run, MainPlace, vars, connVars
  <2>2. cli \in CommandLines /\ cli # None /\ cli.list_apps \in BOOLEAN
    BY <2>1, InputAssumption DEF Connecting
  <2>3. main' = "listing" => cli.list_apps
    BY <1>1 DEF Run
  <2>4. ASSUME main' = "mounting" PROVE Built'
    <3>1. /\ ~cli.list_apps
          /\ builder' = [with_target(CliTarget) EXCEPT
                            !.mount_point = Last(cli.positional),
                            !.source = CliSource,
                            !.mount_options = cli.mount_options]
      BY <1>1, <2>2, <2>4 DEF Run
    <3>2. builder'.target = CliTarget /\ builder'.source = CliSource
      BY <3>1 DEF with_target
    <3>3. CliTarget' = CliTarget /\ CliSource' = CliSource
      BY <2>1 DEF CliTarget, CliSource
    <3> QED
      BY <2>1, <2>2, <3>1, <3>2, <3>3 DEF Built
  <2> QED
    BY <2>1, <2>2, <2>3, <2>4 DEF Connecting
<1>2. CASE ListApps
  <2>1. devices' = None /\ main' = "exit" /\ phase = "new" /\ phase' = phase
    BY <1>2 DEF ListApps, MainPlace, vars
  <2> QED
    BY <2>1 DEF Connecting
<1> QED
  BY <1>1, <1>2

LEMMA OthersConnecting ==
    ASSUME MainPlace, Connecting,
           \/ MainStep /\ ~(Run \/ ListApps)
           \/ GetDevices \/ SignalArrives \/ SignalKills \/ Mount
           \/ Worker \/ Unmount \/ Session \/ Requests \/ UNCHANGED programVars
    PROVE  Connecting'
<1>1. UNCHANGED <<cli, builder>>
  BY DEF MainStep, MountReturns, OnSignal, Unmounted, Poll, Leave, Exit, Mount, GetDevices,
         SignalArrives, SignalKills, Worker, Unmount, Session, Requests, ProgramUnchanged,
         programVars, askedVars
<1>2. phase' = phase \/ main = "mounting"
  <2>1. CASE MainStep /\ ~(Run \/ ListApps)
    BY <2>1 DEF MainStep, MountReturns, OnSignal, Unmounted, Poll, Leave, Exit,
                TakeSession, DropHandle, vars
  <2>2. CASE Unmount
    BY <2>2 DEF Unmount, UserStep, Umount, JoinSession, LockBackend, JoinWorker, UnlockBackend
  <2>3. CASE Mount \/ Worker \/ GetDevices
    BY <2>3 DEF Mount, Worker, WorkerStep, GetDevices, vars
  <2>4. CASE Session \/ Requests
    BY <2>4 DEF Session, Requests, Serve, Served, SessionEnds, ExternalUnmount
  <2>5. CASE SignalArrives \/ SignalKills \/ UNCHANGED programVars
    BY <2>5 DEF SignalArrives, SignalKills, programVars, vars
  <2> QED
    BY <2>1, <2>2, <2>3, <2>4, <2>5
<1>3. main' = main \/ main' \notin {"parsed", "listing", "mounting"}
  BY DEF MainStep, MountReturns, OnSignal, Unmounted, Poll, Leave, Exit, Mount, GetDevices,
         SignalArrives, SignalKills, Worker, Unmount, Session, Requests, ProgramUnchanged,
         programVars
<1>4. devices' \in {None, devices} \union DeviceLists
  BY DEF MainStep, MountReturns, OnSignal, Unmounted, Poll, Leave, Exit, Mount, GetDevices,
         SignalArrives, SignalKills, Worker, Unmount, Session, Requests, ProgramUnchanged,
         programVars, connVars
<1>5. Built => Built'
  BY <1>1 DEF Built, CliTarget, CliSource
<1> QED
  BY <1>1, <1>2, <1>3, <1>4, <1>5 DEF Connecting

\* A provider is a device that was asked for.
LEMMA ProviderIsAsked ==
    ASSUME NEW target, NEW list, list = None \/ list \in DeviceLists,
           target.kind # "Network", Provider(target, list) # None
    PROVE  LET transport == IF target.kind = "Usb" THEN "usb" ELSE "network"
           IN  \E k \in DOMAIN list :
                  /\ Provider(target, list) = list[k]
                  /\ /\ list[k].transport = transport
                     /\ target.udid = None \/ list[k].udid = target.udid
                  /\ \A j \in 1..(k - 1) :
                        ~(/\ list[j].transport = transport
                          /\ target.udid = None \/ list[j].udid = target.udid)
<1>1. list # None
  BY DEF Provider
<1>2. list \in DeviceLists
  BY <1>1
<1>3. CASE target.kind = "Usb"
  <2>1. Provider(target, list) = usbmuxd_provider(target.udid, "usb", list)
    BY <1>1, <1>3 DEF Provider
  <2> QED
    BY <1>2, <1>3, <2>1, FirstMatch
<1>4. CASE target.kind # "Usb"
  <2>1. Provider(target, list) = usbmuxd_provider(target.udid, "network", list)
    BY <1>1, <1>4 DEF Provider
  <2> QED
    BY <1>2, <1>4, <2>1, FirstMatch
<1> QED
  BY <1>3, <1>4

\* What a connection has to be, seen from the state it is made in.
AskedConnection(c) ==
    /\ cli # None => ServesAsked(c.for.service)
    /\ "root" \in DOMAIN c.for =>
           (c.for.root = "/Documents" <=> c.for.service = "vend_documents")
    /\ IF cli = None /\ builder.target.kind = "Network"
       THEN \E text \in AddressTexts :
               /\ builder.target.address \in {text, <<"[">> \o text \o <<"]">>}
               /\ c.to = [address |-> text[1], scoped |-> "num" \in Range(text)]
       ELSE \E k \in DOMAIN devices :
               /\ c.to = devices[k]
               /\ IsAsked(devices[k])
               /\ \A j \in 1..(k - 1) : ~IsAsked(devices[j])

LEMMA ListConnects ==
    ASSUME Connecting, ListApps
    PROVE  conn' = conn \/ AskedConnection(conn')
<1> SUFFICES ASSUME conn' # conn PROVE AskedConnection(conn')
  OBVIOUS
<1> DEFINE provider == Provider(CliTarget, devices)
           service == [service |-> "installation_proxy"]
<1>1. main = "listing" /\ provider # None /\ conn' = [to |-> provider, for |-> service]
  BY DEF ListApps
<1>2. cli \in CommandLines /\ cli.list_apps /\ cli # None
  BY <1>1, InputAssumption DEF Connecting
<1>3. CliTarget.kind = (IF cli.network THEN "UsbmuxdNetwork" ELSE "Usb") /\ CliTarget.udid = cli.udid
  BY DEF CliTarget
<1>4. \E k \in DOMAIN devices :
         /\ provider = devices[k]
         /\ IsAsked(devices[k])
         /\ \A j \in 1..(k - 1) : ~IsAsked(devices[j])
  BY <1>1, <1>2, <1>3, ProviderIsAsked DEF Connecting, IsAsked, AskedTransport, AskedUdid
<1>5. ServesAsked(service.service) /\ "root" \notin DOMAIN service
  BY <1>2 DEF ServesAsked
<1> HIDE DEF provider, service
<1> QED
  BY <1>1, <1>2, <1>4, <1>5 DEF AskedConnection

LEMMA WorkerConnects ==
    ASSUME MountInv, Connecting, Worker
    PROVE  conn' = conn \/ AskedConnection(conn')
<1> SUFFICES ASSUME conn' # conn PROVE AskedConnection(conn')
  OBVIOUS
<1> DEFINE provider == Provider(builder.target, devices)
           service == connect_source(builder.source)
<1>1. worker = "connecting" /\ provider # None /\ conn' = [to |-> provider, for |-> service]
  BY DEF Worker
<1>2. phase # "new"
  BY <1>1 DEF MountInv, Together, Owned, BP!Inv, BP!Threads
<1>3. Built
  BY <1>2 DEF Connecting
<1>4. cli # None => ServesAsked(service.service)
  <2> SUFFICES ASSUME cli # None PROVE ServesAsked(service.service)
    OBVIOUS
  <2>1. cli \in CommandLines /\ ~cli.list_apps /\ service = connect_source(CliSource)
    BY <1>3 DEF Built
  <2>2. /\ cli.root \in BOOLEAN
        /\ cli.root => cli.documents = None /\ cli.container = None
        /\ cli.documents = None \/ cli.container = None
    BY <2>1, InputAssumption
  <2> HIDE DEF service
  <2>3. CASE cli.root
    BY <2>1, <2>2, <2>3 DEF CliSource, connect_source, ServesAsked
  <2>4. CASE ~cli.root /\ cli.documents # None
    BY <2>1, <2>2, <2>4 DEF CliSource, connect_source, ServesAsked
  <2>5. CASE ~cli.root /\ cli.documents = None /\ cli.container # None
    BY <2>1, <2>2, <2>5 DEF CliSource, connect_source, ServesAsked
  <2>6. CASE ~cli.root /\ cli.documents = None /\ cli.container = None
    BY <2>1, <2>2, <2>6 DEF CliSource, connect_source, ServesAsked
  <2> QED
    BY <2>3, <2>4, <2>5, <2>6
<1>5. service.root = "/Documents" <=> service.service = "vend_documents"
  BY DEF connect_source
<1>6. CASE cli = None /\ builder.target.kind = "Network"
  <2>1. builder.target.address \in Seq(Token)
    BY <1>3, <1>6, InputAssumption DEF Built
  <2>2. provider = parse_network_address(builder.target.address)
    BY <1>6 DEF Provider
  <2> HIDE DEF provider, service
  <2>3. \E text \in AddressTexts :
           /\ builder.target.address \in {text, <<"[">> \o text \o <<"]">>}
           /\ provider = [address |-> text[1], scoped |-> "num" \in Range(text)]
    BY <1>1, <2>1, <2>2, AddressIsAsked
  <2> QED
    BY <1>1, <1>4, <1>5, <1>6, <2>3 DEF AskedConnection
<1>7. CASE ~(cli = None /\ builder.target.kind = "Network")
  <2>1. cli # None => /\ builder.target.kind = IF cli.network THEN "UsbmuxdNetwork" ELSE "Usb"
                      /\ builder.target.udid = cli.udid
    BY <1>3 DEF Built, CliTarget
  <2>2. builder.target.kind # "Network"
    BY <1>7, <2>1
  <2>3. AskedTransport = (IF builder.target.kind = "Usb" THEN "usb" ELSE "network")
    BY <2>1 DEF AskedTransport
  <2>4. AskedUdid = builder.target.udid
    BY <2>1 DEF AskedUdid
  <2>5. \E k \in DOMAIN devices :
           /\ provider = devices[k]
           /\ IsAsked(devices[k])
           /\ \A j \in 1..(k - 1) : ~IsAsked(devices[j])
    BY <1>1, <2>2, <2>3, <2>4, ProviderIsAsked DEF Connecting, IsAsked
  <2> HIDE DEF provider, service
  <2> QED
    BY <1>1, <1>4, <1>5, <1>7, <2>5 DEF AskedConnection
<1> QED
  BY <1>6, <1>7

\* The device, the address, the service and the root of every connection are
\* those that were asked for, whatever usbmuxd lists and whatever text stands
\* for an address (main.rs:76-106, backend.rs:157-231, options.rs:230-259).
THEOREM ConnectionIsAsked ==
    ASSUME User = {Main}
    PROVE  ProgramSpec => ConnectsAsAsked
<1>1. ProgramInit => Connecting
  BY DEF ProgramInit, Init, Connecting, Built
<1>2. MainPlace /\ Connecting /\ [ProgramNext]_programVars => Connecting'
  BY MainConnecting, OthersConnecting DEF ProgramNext
<1>3. MountInv /\ Connecting /\ [ProgramNext]_programVars => conn' = conn \/ AskedConnection(conn')
  <2> SUFFICES ASSUME MountInv, Connecting, [ProgramNext]_programVars
               PROVE  conn' = conn \/ AskedConnection(conn')
    OBVIOUS
  <2>1. conn' = conn \/ ListApps \/ Worker
    BY DEF ProgramNext, MainStep, Run, MountReturns, OnSignal, Unmounted, Poll, Leave, Exit,
           Mount, GetDevices, SignalArrives, SignalKills, Unmount, Session, Requests,
           ProgramUnchanged, programVars, connVars
  <2> QED
    BY <2>1, ListConnects, WorkerConnects
<1>4. ConnectsAsAsked <=> [][conn' = conn \/ AskedConnection(conn')]_programVars
  BY PTL DEF ConnectsAsAsked, AskedConnection
<1> QED
  BY <1>1, <1>2, <1>3, <1>4, MainPlaceInvariant, PTL DEF ProgramSpec
=============================================================================
