-------------------------- MODULE WindowsMountProofs --------------------------
(***************************************************************************)
(* Theorems about WindowsMount, for every set of users.                    *)
(*                                                                         *)
(* The backend of a mount behaves as Backend says (BackendInside), so what *)
(* BackendProofs shows of the worker and the channel is there to be used.  *)
(* The inductive invariant adds how far mount() can be for a state of the  *)
(* owner, who holds the two Mutexes, and that nobody is past the host slot *)
(* while the dispatcher runs.                                              *)
(***************************************************************************)
EXTENDS WindowsMount, TLAPS

BP == INSTANCE BackendProofs WITH Client <- {Fs, Mounter}

\* What Backend assumes of its constants holds of the ones it is given here.
LEMMA BackendAssumption == Shutdown \notin {Fs, Mounter}
  BY ThreadAssumption

\* The backend that the theorems of BackendProofs are about is the one in here.
LEMMA SameBackend ==
    /\ B!Init <=> BP!Init
    /\ B!Next <=> BP!Next
<1>1. B!OwnerStep \/ B!BeginStop <=> BP!OwnerStep \/ BP!BeginStop
  BY DEF B!OwnerStep, B!Start, B!Started, B!Join, B!Dropped, B!BeginStop, B!ReceiverAlive,
         BP!OwnerStep, BP!Start, BP!Started, BP!Join, BP!Dropped, BP!BeginStop, BP!ReceiverAlive
<1>2. B!WorkerStep <=> BP!WorkerStep
  <2>1. (B!Connect <=> BP!Connect) /\ (B!Receive <=> BP!Receive) /\ (B!Execute <=> BP!Execute)
    BY DEF B!Connect, B!Receive, B!Execute, B!Outcome,
           BP!Connect, BP!Receive, BP!Execute, BP!Outcome
  <2>2. B!SendReply <=> BP!SendReply
    BY DEF B!SendReply, B!Outcome, BP!SendReply, BP!Outcome
  <2>3. B!WorkerReturns <=> BP!WorkerReturns
    BY DEF B!WorkerReturns, B!Elements, BP!WorkerReturns, BP!Elements
  <2> QED
    BY <2>1, <2>2, <2>3 DEF B!WorkerStep, BP!WorkerStep
<1>3. ASSUME NEW c \in {Fs, Mounter}
      PROVE  B!Send(c) \/ B!Return(c) <=> BP!Send(c) \/ BP!Return(c)
  BY DEF B!Send, B!Return, B!ReceiverAlive, B!MayRequest,
         BP!Send, BP!Return, BP!ReceiverAlive, BP!MayRequest
<1>4. B!Init <=> BP!Init
  BY DEF B!Init, BP!Init
<1> QED
  BY <1>1, <1>2, <1>3, <1>4 DEF B!Next, BP!Next

\* A step of the mount is a step of its backend or leaves it alone.
LEMMA BackendStep == [Next]_vars => [B!Next]_(B!vars)
<1> SUFFICES ASSUME [Next]_vars PROVE B!Next \/ UNCHANGED B!vars
  OBVIOUS
<1>0. UNCHANGED backendVars => UNCHANGED B!vars
  BY DEF backendVars, B!vars
<1>1. CASE MountStep
  <2>1. \/ UNCHANGED backendVars
        \/ B!Start \/ B!Started \/ B!Send(Mounter) \/ B!Return(Mounter)
        \/ B!BeginStop \/ B!Join
    BY <1>1 DEF MountStep, MountBegins, BackendStarts, AskDeviceInfo, GetDeviceInfo,
                HostMounts, HostStarts, HostStartFails, Abort, Aborted
  <2> QED
    BY <1>0, <2>1 DEF B!Next, B!OwnerStep
<1>2. CASE WorkerStep
  BY <1>2 DEF WorkerStep, B!Next
<1>3. CASE Serve \/ Served
  BY <1>3 DEF Serve, Served, B!Next
<1>4. ASSUME NEW u \in User, BeginUnmount(u) \/ DropHandle(u) \/ UserStep(u)
      PROVE  B!Next \/ UNCHANGED B!vars
  <2>1. UNCHANGED backendVars \/ B!BeginStop \/ B!Join \/ B!Dropped
    BY <1>4 DEF BeginUnmount, DropHandle, UserStep, TakeHost, StopHost, UnmountHost,
                LockBackend, JoinWorker, UnlockBackend
  <2> QED
    BY <1>0, <2>1 DEF B!Next, B!OwnerStep
<1>5. CASE UNCHANGED vars
  BY <1>0, <1>5 DEF vars
<1> QED
  BY <1>1, <1>2, <1>3, <1>4, <1>5 DEF Next

\* The backend of a mount behaves as Backend says, whatever the mount does.
THEOREM BackendInside == Spec => B!Spec
<1>1. Init => B!Init
  BY DEF Init
<1> QED
  BY <1>1, BackendStep, PTL DEF Spec, B!Spec

\* What is proved of Backend holds in the mount.
THEOREM BackendInvariant == Spec => [](BP!Inv /\ BP!Stopping)
<1>1. Init => BP!Init
  BY SameBackend DEF Init
<1>2. [Next]_vars => [BP!Next]_(BP!vars)
  <2>1. UNCHANGED B!vars => UNCHANGED BP!vars
    BY DEF B!vars, BP!vars
  <2> QED
    BY <2>1, BackendStep, SameBackend
<1>3. Spec => BP!Spec
  BY <1>1, <1>2, PTL DEF Spec, BP!Spec
<1> QED
  BY <1>3, BP!Invariant, BP!AlwaysStopping, BackendAssumption, PTL
-----------------------------------------------------------------------------
(***************************************************************************)
(* Where mount(), the slots, their locks and the users can be together.    *)
(***************************************************************************)
\* Before the handle is out nobody uses it and nothing is in the slots.
NotMountedYet ==
    phase # "mounted" =>
        /\ handles = {} /\ \A u \in User : at[u] = "idle" /\ outcome[u] = "none"
        /\ ~host /\ ~backend /\ hostLock = NoUser /\ backendLock = NoUser
        /\ ~serving
        /\ mounted => phase = "dispatch"

\* How far mount() is says where its Backend is, until it is in the slot.
Owned ==
    /\ phase = "new" => owner = "new"
    /\ phase = "starting" => owner \in {"starting", "failed"}
    /\ phase \in {"info", "asked", "host", "dispatch", "abort"} => owner = "running"
    /\ phase = "aborting" => owner = "joining"
    /\ phase = "failed" => owner \in {"new", "failed", "joined"}
    /\ backend => owner = "running" /\ backendLock = NoUser
    /\ phase = "mounted" /\ ~backend /\ backendLock = NoUser => owner = "stopped"

\* Who holds which Mutex.
Locks ==
    \A u \in User :
        /\ at[u] \in {"stop", "umount"} <=> hostLock = u
        /\ at[u] \in {"join", "joined"} <=> backendLock = u
        /\ at[u] = "join" => owner = "joining"
        /\ at[u] = "joined" => owner = "joined"

\* The dispatcher runs as long as nobody is past the host slot.
Order ==
    /\ host => hostLock = NoUser
    /\ serving => backend
    /\ phase = "mounted" /\ ~host /\ hostLock = NoUser => ~serving /\ ~mounted
    /\ \A u \in User :
          /\ at[u] \in {"lock", "join", "joined"} => ~host /\ ~serving /\ ~mounted
          /\ at[u] = "umount" => ~serving

Together == NotMountedYet /\ Owned /\ Locks /\ Order /\ OkMeansUnmounted

\* The inductive invariant: what is known of the backend, the types, and what
\* was said above.
MountInv == BP!Inv /\ BP!Stopping /\ TypeOK /\ Together
-----------------------------------------------------------------------------
\* The types of TypeOK that are not the backend's.
LEMMA NextTypes ==
    ASSUME TypeOK, [Next]_vars, BP!Inv'
    PROVE  TypeOK'
<1>1. B!TypeOK'
  BY DEF BP!Inv, BP!TypeOK, B!TypeOK, BP!Outcome, B!Outcome
<1>2. CASE MountStep
  BY <1>1, <1>2 DEF TypeOK, MountStep, MountBegins, BackendStarts, AskDeviceInfo, GetDeviceInfo,
     HostMounts, HostStarts, HostStartFails, Abort, Aborted, hostVars, slots, userVars
<1>3. CASE WorkerStep \/ Serve \/ Served
  BY <1>1, <1>3 DEF TypeOK, WorkerStep, Serve, Served, hostVars, slots, userVars
<1>4. ASSUME NEW u \in User, BeginUnmount(u) \/ DropHandle(u) PROVE TypeOK'
  BY <1>1, <1>4 DEF TypeOK, BeginUnmount, DropHandle, Goto, hostVars, slots
<1>5. ASSUME NEW u \in User, TakeHost(u) \/ StopHost(u) \/ UnmountHost(u) PROVE TypeOK'
  BY <1>1, <1>5 DEF TypeOK, TakeHost, StopHost, UnmountHost, Goto, hostVars, slots
<1>6. ASSUME NEW u \in User, LockBackend(u) \/ JoinWorker(u) \/ UnlockBackend(u) PROVE TypeOK'
  BY <1>1, <1>6 DEF TypeOK, LockBackend, JoinWorker, UnlockBackend, Goto, Finish, hostVars, slots
<1>7. CASE UNCHANGED vars
  BY <1>1, <1>7 DEF TypeOK, vars, hostVars, slots, userVars
<1> QED
  BY <1>2, <1>3, <1>4, <1>5, <1>6, <1>7 DEF Next, UserStep

\* mount(), up to the handle (platform_windows.rs:72-116).
LEMMA MountStepInv == MountInv /\ MountStep => Together'
<1> SUFFICES ASSUME MountInv, MountStep PROVE Together'
  OBVIOUS
<1> USE DEF MountInv, Together, NotMountedYet, Owned, Locks, Order, OkMeansUnmounted
<1>1. CASE MountBegins
  BY <1>1 DEF MountBegins, B!Start, backendVars, hostVars, slots, userVars
<1>2. CASE BackendStarts
  BY <1>2 DEF BackendStarts, B!Started, backendVars, hostVars, slots, userVars
<1>3. CASE AskDeviceInfo
  BY <1>3 DEF AskDeviceInfo, B!Send, backendVars, hostVars, slots, userVars
<1>4. CASE GetDeviceInfo
  BY <1>4 DEF GetDeviceInfo, B!Return, backendVars, hostVars, slots, userVars
<1>5. CASE HostMounts
  BY <1>5 DEF HostMounts, backendVars, slots, userVars
<1>6. CASE HostStarts
  BY <1>6, ThreadAssumption DEF TypeOK, HostStarts, backendVars
<1>7. CASE HostStartFails
  BY <1>7 DEF HostStartFails, backendVars, slots, userVars
<1>8. CASE Abort
  BY <1>8 DEF Abort, B!BeginStop, hostVars, slots, userVars
<1>9. CASE Aborted
  BY <1>9 DEF Aborted, B!Join, hostVars, slots, userVars
<1> QED
  BY <1>1, <1>2, <1>3, <1>4, <1>5, <1>6, <1>7, <1>8, <1>9 DEF MountStep

\* The worker and the dispatcher (platform_windows.rs:41-43 stops the latter).
LEMMA ServiceStepInv == MountInv /\ (WorkerStep \/ Serve \/ Served) => Together'
<1> SUFFICES ASSUME MountInv, WorkerStep \/ Serve \/ Served PROVE Together'
  OBVIOUS
<1> USE DEF MountInv, Together, NotMountedYet, Owned, Locks, Order, OkMeansUnmounted
<1>1. UNCHANGED <<owner, phase, hostVars, slots, userVars>>
  BY DEF WorkerStep, Serve, Served, B!Send, B!Return, B!WorkerStep, B!Connect, B!Receive,
     B!Execute, B!SendReply, B!WorkerReturns
<1>2. worker = "exited" => worker' = "exited"
  BY DEF WorkerStep, Serve, Served, B!Send, B!Return, B!WorkerStep, B!Connect, B!Receive,
     B!Execute, B!SendReply, B!WorkerReturns
<1> QED
  BY <1>1, <1>2 DEF hostVars, slots, userVars

\* A user who holds a handle has a mount to use.
LEMMA UserMeansMounted ==
    ASSUME MountInv, NEW u \in User, at[u] # "idle" \/ u \in handles
    PROVE  phase = "mounted"
  BY DEF MountInv, Together, NotMountedYet

\* unmount is called, or a handle goes (lib.rs:70, platform_windows.rs:52).
LEMMA BeginInv ==
    ASSUME MountInv, NEW u \in User, BeginUnmount(u) \/ DropHandle(u)
    PROVE  Together'
<1> USE DEF MountInv, Together, NotMountedYet, Owned, Locks, Order, OkMeansUnmounted
<1>0. phase = "mounted"
  BY UserMeansMounted DEF BeginUnmount, DropHandle
<1>1. /\ UNCHANGED <<backendVars, phase, hostVars, slots>>
      /\ at[u] = "idle"
      /\ \/ UNCHANGED <<at, outcome>>
         \/ at' = [at EXCEPT ![u] = "begin"] /\ outcome' = [outcome EXCEPT ![u] = "none"]
  BY DEF BeginUnmount, DropHandle, Goto
<1>2. /\ \A v \in User : at'[v] = at[v] \/ (v = u /\ at'[v] = "begin")
      /\ \A v \in User : outcome'[v] \in {outcome[v], "none"}
  BY <1>1 DEF TypeOK
<1> QED
  BY <1>0, <1>1, <1>2 DEF backendVars, hostVars, slots

\* The host is taken out of its slot; with one, the Mutex is kept
\* (platform_windows.rs:40).
LEMMA TakeHostInv ==
    ASSUME MountInv, NEW u \in User, TakeHost(u)
    PROVE  Together'
<1> USE DEF MountInv, Together, NotMountedYet, Owned, Locks, Order, OkMeansUnmounted
<1>0. phase = "mounted"
  BY UserMeansMounted DEF TakeHost
<1>1. /\ UNCHANGED <<backendVars, phase, hostVars, backend, backendLock, handles, outcome>>
      /\ at[u] = "begin" /\ hostLock = NoUser /\ host' = FALSE
      /\ \/ host /\ hostLock' = u /\ at' = [at EXCEPT ![u] = "stop"]
         \/ ~host /\ hostLock' = NoUser /\ at' = [at EXCEPT ![u] = "lock"]
  BY DEF TakeHost, Goto
<1>2. CASE host
  <2>1. /\ \A v \in User : at'[v] = IF v = u THEN "stop" ELSE at[v]
        /\ hostLock' = u
    BY <1>1, <1>2 DEF TypeOK
  <2> QED
    BY <1>0, <1>1, <1>2, <2>1, ThreadAssumption DEF backendVars, hostVars
<1>3. CASE ~host
  <2>1. \A v \in User : at'[v] = IF v = u THEN "lock" ELSE at[v]
    BY <1>1, <1>3 DEF TypeOK
  <2> QED
    BY <1>0, <1>1, <1>3, <2>1, ThreadAssumption DEF backendVars, hostVars
<1> QED
  BY <1>2, <1>3

\* The dispatcher stops, then the mount point goes, both under the Mutex
\* (platform_windows.rs:41-43).
LEMMA StopHostInv ==
    ASSUME MountInv, NEW u \in User, StopHost(u) \/ UnmountHost(u)
    PROVE  Together'
<1> USE DEF MountInv, Together, NotMountedYet, Owned, Locks, Order, OkMeansUnmounted
<1>0. phase = "mounted"
  BY UserMeansMounted DEF StopHost, UnmountHost
<1>a. \A v \in User : at[v] \in {"stop", "umount"} => v = u
  BY DEF StopHost, UnmountHost
<1>b. hostLock = u /\ ~host
  BY ThreadAssumption DEF StopHost, UnmountHost
<1>1. CASE StopHost(u)
  <2>1. /\ \A v \in User : at'[v] = IF v = u THEN "umount" ELSE at[v]
        /\ serving' = FALSE
        /\ UNCHANGED <<backendVars, phase, mounted, slots, handles, outcome>>
    BY <1>1 DEF TypeOK, StopHost, Goto
  <2> QED
    BY <1>0, <1>1, <2>1, ThreadAssumption DEF backendVars, slots, StopHost
<1>2. CASE UnmountHost(u)
  <2>1. /\ \A v \in User : at'[v] = IF v = u THEN "lock" ELSE at[v]
        /\ at[u] = "umount" /\ mounted' = FALSE /\ hostLock' = NoUser
        /\ UNCHANGED <<backendVars, phase, serving, host, backend, backendLock, handles, outcome>>
    BY <1>2 DEF TypeOK, UnmountHost, Goto
  <2> QED
    BY <1>0, <1>a, <1>b, <2>1, ThreadAssumption DEF backendVars
<1> QED
  BY <1>1, <1>2

\* The backend is taken out of its slot and told to stop, or somebody else has
\* stopped it already (platform_windows.rs:45-47).
LEMMA LockBackendInv ==
    ASSUME MountInv, NEW u \in User, LockBackend(u)
    PROVE  Together'
<1> USE DEF MountInv, Together, NotMountedYet, Owned, Locks, Order, OkMeansUnmounted
<1>0. phase = "mounted"
  BY UserMeansMounted DEF LockBackend
<1>1. /\ at[u] = "lock" /\ backendLock = NoUser /\ backend' = FALSE
      /\ UNCHANGED <<phase, hostVars, host, hostLock, handles>>
  BY DEF LockBackend
<1>2. CASE backend
  <2>1. /\ owner' = "joining" /\ worker' = worker /\ backendLock' = u
        /\ \A v \in User : at'[v] = IF v = u THEN "join" ELSE at[v]
        /\ outcome' = outcome
    BY <1>2 DEF TypeOK, LockBackend, Goto, B!BeginStop
  <2> QED
    BY <1>0, <1>1, <1>2, <2>1, ThreadAssumption DEF hostVars
<1>3. CASE ~backend
  <2>1. /\ UNCHANGED <<backendVars, backendLock>>
        /\ \A v \in User : at'[v] = IF v = u THEN "idle" ELSE at[v]
        /\ \A v \in User : v # u => outcome'[v] = outcome[v]
    BY <1>3 DEF TypeOK, LockBackend, Finish, Goto
  <2>2. owner = "stopped" /\ worker = "exited"
    BY <1>0, <1>1, <1>3 DEF BP!Inv, BP!Threads
  <2> QED
    BY <1>0, <1>1, <1>3, <2>1, <2>2, ThreadAssumption DEF backendVars, hostVars
<1> QED
  BY <1>2, <1>3

\* shutdown joins the worker under the Mutex of the backend slot
\* (platform_windows.rs:45-47, backend.rs:70-75).
LEMMA JoinWorkerInv ==
    ASSUME MountInv, NEW u \in User, JoinWorker(u) \/ UnlockBackend(u)
    PROVE  Together'
<1> USE DEF MountInv, Together, NotMountedYet, Owned, Locks, Order, OkMeansUnmounted
<1>0. phase = "mounted"
  BY UserMeansMounted DEF JoinWorker, UnlockBackend
<1>a. backendLock = u /\ \A v \in User : at[v] \in {"join", "joined"} => v = u
  BY DEF JoinWorker, UnlockBackend
<1>1. CASE JoinWorker(u)
  <2>1. /\ owner' = "joined" /\ worker' = worker
        /\ \A v \in User : at'[v] = IF v = u THEN "joined" ELSE at[v]
        /\ UNCHANGED <<phase, hostVars, slots, handles, outcome>>
        /\ at[u] = "join"
    BY <1>1 DEF TypeOK, JoinWorker, Goto, B!Join
  <2> QED
    BY <1>0, <1>a, <2>1, ThreadAssumption DEF hostVars, slots
<1>2. CASE UnlockBackend(u)
  <2>1. /\ owner' = "stopped" /\ worker' = worker /\ backendLock' = NoUser
        /\ \A v \in User : at'[v] = IF v = u THEN "idle" ELSE at[v]
        /\ \A v \in User : v # u => outcome'[v] = outcome[v]
        /\ at[u] = "joined" /\ owner = "joined"
        /\ UNCHANGED <<phase, hostVars, host, backend, hostLock, handles>>
    BY <1>2 DEF TypeOK, UnlockBackend, Finish, Goto, B!Dropped
  <2>2. worker = "exited"
    BY <2>1 DEF BP!Inv, BP!Threads
  <2> QED
    BY <1>0, <1>a, <2>1, <2>2, ThreadAssumption DEF hostVars
<1> QED
  BY <1>1, <1>2

\* Every step keeps the mount, its slots and its users together.
LEMMA NextMountInv == MountInv /\ [Next]_vars => Together'
<1> SUFFICES ASSUME MountInv, [Next]_vars PROVE Together'
  OBVIOUS
<1> USE DEF MountInv, Together, NotMountedYet, Owned, Locks, Order, OkMeansUnmounted
<1>1. CASE UNCHANGED vars
  BY <1>1 DEF vars, backendVars, hostVars, slots, userVars
<1>2. CASE Next
  BY <1>2, MountStepInv, ServiceStepInv, BeginInv, TakeHostInv, StopHostInv, LockBackendInv,
     JoinWorkerInv DEF Next, UserStep
<1> QED
  BY <1>1, <1>2

\* The invariant holds in every state, whoever the users are.
THEOREM MountInvariant == Spec => []MountInv
<1>1. Init => TypeOK /\ Together
  <2> SUFFICES ASSUME Init PROVE TypeOK /\ Together
    OBVIOUS
  <2>1. B!TypeOK
    BY DEF Init, B!Init, B!TypeOK, B!Outcome
  <2>2. TypeOK
    BY <2>1 DEF Init, TypeOK
  <2>3. Together
    BY ThreadAssumption
    DEF Init, B!Init, Together, NotMountedYet, Owned, Locks, Order, OkMeansUnmounted
  <2> QED
    BY <2>2, <2>3
<1>2. MountInv <=> (BP!Inv /\ BP!Stopping) /\ TypeOK /\ Together
  BY DEF MountInv
<1>3. (BP!Inv /\ BP!Stopping) /\ (BP!Inv /\ BP!Stopping)' /\ TypeOK /\ Together /\ [Next]_vars
        => TypeOK' /\ Together'
  BY <1>2, NextTypes, NextMountInv
<1> QED
  BY <1>1, <1>2, <1>3, BackendInvariant, PTL DEF Spec
-----------------------------------------------------------------------------
\* The slots, the locks and the users stay in their types.
THEOREM TypeCorrect == Spec => []TypeOK
<1>1. MountInv => TypeOK
  BY DEF MountInv
<1> QED
  BY <1>1, MountInvariant, PTL

\* An unmount that has returned Ok has left nothing, however many calls overlap:
\* the Mutex of the host slot is held over stop and unmount (lib.rs:70,
\* platform_windows.rs:39-49).
THEOREM OkIsUnmounted == Spec => []OkMeansUnmounted
<1>1. MountInv => OkMeansUnmounted
  BY DEF MountInv, Together
<1> QED
  BY <1>1, MountInvariant, PTL

\* The dispatcher never runs without its backend (platform_windows.rs:39-70).
THEOREM DispatcherHasBackend == Spec => []BackendOutlivesDispatcher
<1>1. MountInv => BackendOutlivesDispatcher
  BY DEF MountInv, Together, Owned, Order, BackendOutlivesDispatcher
<1> QED
  BY <1>1, MountInvariant, PTL

\* A mount() that returns an error has cleaned up (platform_windows.rs:72-109).
THEOREM FailedLeavesNothing == Spec => []FailedMountLeavesNothing
<1>1. MountInv => FailedMountLeavesNothing
  BY DEF MountInv, Together, NotMountedYet, Owned, BP!Inv, BP!Threads, FailedMountLeavesNothing
<1> QED
  BY <1>1, MountInvariant, PTL
=============================================================================
