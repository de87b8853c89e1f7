------------------------------- MODULE Backend -------------------------------
(***************************************************************************)
(* src/src/backend.rs: the thread "ifuse-afc" that owns the connection to  *)
(* the device, the channel of BackendCommands in front of it, the blocking *)
(* `request` of the threads that need the device, and the owner that       *)
(* starts and stops it.                                                    *)
(*                                                                         *)
(* A command is the client that sent it: `request` blocks, so a client has *)
(* at most one command under way.  Which command it is, and its data, are  *)
(* left to the modules of the handlers; here the device answers "ok" or    *)
(* "err", as it pleases.                                                   *)
(*                                                                         *)
(* Not modelled: the exit of the loop because every Sender is gone.  The   *)
(* Backend keeps a Sender for as long as it lives and both ways it can end *)
(* send Shutdown first (backend.rs:70-82).                                 *)
(***************************************************************************)
EXTENDS Naturals, Sequences

CONSTANTS Client,    \* the threads that hold a Sender
          Shutdown   \* the message BackendCommand::Shutdown

ASSUME ShutdownAssumption == Shutdown \notin Client

VARIABLES owner,     \* where the thread that owns the Backend is
          worker,    \* where the worker thread is
          ready,     \* the rendezvous of start: what the worker reported
          queue,     \* the commands sent and not received
          current,   \* the command the worker is at (Shutdown: none)
          waiting,   \* the clients blocked in request
          reply,     \* the reply channel of each client's command
          result,    \* what each client's last request returned
          runs       \* how often the device carried out each client's
                     \* command (history)

vars == <<owner, worker, ready, queue, current, waiting, reply, result, runs>>

Outcome == {"ok", "err"}

\* The receiver lives from start until the worker returns.
ReceiverAlive == worker \in {"connecting", "idle", "busy", "returning"}

Elements(q) == {q[k] : k \in DOMAIN q}
ShutdownSent == Shutdown \in Elements(queue) \/ worker \in {"returning", "exited"}
-----------------------------------------------------------------------------
Init ==
    /\ owner = "new"
    /\ worker = "unborn"
    /\ ready = "empty"
    /\ queue = <<>>
    /\ current = Shutdown
    /\ waiting = {}
    /\ reply = [c \in Client |-> "empty"]
    /\ result = [c \in Client |-> "none"]
    /\ runs = [c \in Client |-> 0]
-----------------------------------------------------------------------------
(***************************************************************************)
(* start, shutdown and drop: the owner.                                    *)
(***************************************************************************)
\* start, up to ready_rx.recv().  The thread may fail to spawn.
Start ==
    /\ owner = "new"
    /\ \/ owner' = "starting" /\ worker' = "connecting"
       \/ owner' = "failed" /\ UNCHANGED worker
    /\ UNCHANGED <<ready, queue, current, waiting, reply, result, runs>>

\* start, from ready_rx.recv().  A Backend exists only when it succeeds.
Started ==
    /\ owner = "starting"
    /\ ready # "empty"
    /\ owner' = IF ready = "ok" THEN "running" ELSE "failed"
    /\ ready' = "empty"
    /\ UNCHANGED <<worker, queue, current, waiting, reply, result, runs>>

\* (Mutant: the owner joins without telling the worker.)
BeginStopSilent ==
    /\ owner = "running"
    /\ owner' = "joining"
    /\ UNCHANGED <<worker, ready, queue, current, waiting, reply, result, runs>>

\* stop, the send; when the worker is gone it fails and that is ignored.
BeginStop ==
    /\ owner = "running"
    /\ owner' = "joining"
    /\ queue' = IF ReceiverAlive THEN Append(queue, Shutdown) ELSE queue
    /\ UNCHANGED <<worker, ready, current, waiting, reply, result, runs>>

\* (Mutant: the worker is let go instead of joined.)
JoinDetached ==
    /\ owner = "joining"
    /\ owner' = "joined"
    /\ UNCHANGED <<worker, ready, queue, current, waiting, reply, result, runs>>

\* stop, the join.
Join ==
    /\ owner = "joining"
    /\ worker = "exited"
    /\ owner' = "joined"
    /\ UNCHANGED <<worker, ready, queue, current, waiting, reply, result, runs>>

\* The drop of the Backend at the end of shutdown stops it a second time: the
\* send fails and there is nothing left to join.
Dropped ==
    /\ owner = "joined"
    /\ owner' = "stopped"
    /\ queue' = IF ReceiverAlive THEN Append(queue, Shutdown) ELSE queue
    /\ UNCHANGED <<worker, ready, current, waiting, reply, result, runs>>
-----------------------------------------------------------------------------
(***************************************************************************)
(* The worker thread.                                                      *)
(***************************************************************************)
\* runtime and connect: either fails or both succeed.
Connect ==
    /\ worker = "connecting"
    /\ \E r \in Outcome :
          /\ ready' = r
          /\ worker' = IF r = "ok" THEN "idle" ELSE "returning"
    /\ UNCHANGED <<owner, queue, current, waiting, reply, result, runs>>

\* (Mutant: a command drawn after Shutdown was found in the queue.)
ReceiveSkipsShutdown ==
    /\ worker = "idle"
    /\ queue # <<>>
    /\ IF Elements(queue) = {Shutdown}
       THEN /\ worker' = "returning"
            /\ queue' = Tail(queue)
            /\ UNCHANGED current
       ELSE \E k \in DOMAIN queue :
               /\ queue[k] # Shutdown
               /\ \A j \in 1..(k - 1) : queue[j] = Shutdown
               /\ worker' = "busy"
               /\ current' = queue[k]
               /\ queue' = SubSeq(queue, 1, k - 1) \o SubSeq(queue, k + 1, Len(queue))
    /\ UNCHANGED <<owner, ready, waiting, reply, result, runs>>

Receive ==
    /\ worker = "idle"
    /\ queue # <<>>
    /\ queue' = Tail(queue)
    /\ IF Head(queue) = Shutdown
       THEN worker' = "returning" /\ UNCHANGED current
       ELSE worker' = "busy" /\ current' = Head(queue)
    /\ UNCHANGED <<owner, ready, waiting, reply, result, runs>>

\* (Mutant: a command the device refused is sent a second time.)
ExecuteRetries ==
    /\ worker = "busy"
    /\ runs[current] < 2
    /\ runs' = [runs EXCEPT ![current] = @ + 1]
    /\ UNCHANGED <<owner, worker, ready, queue, current, waiting, reply, result>>

\* block_on(afc....): the device carries the command out, or refuses it.
Execute ==
    /\ worker = "busy"
    /\ runs[current] = 0
    /\ runs' = [runs EXCEPT ![current] = @ + 1]
    /\ UNCHANGED <<owner, worker, ready, queue, current, waiting, reply, result>>

SendReply ==
    /\ worker = "busy"
    /\ runs[current] > 0
    /\ \E r \in Outcome : reply' = [reply EXCEPT ![current] = r]
    /\ worker' = "idle"
    /\ current' = Shutdown
    /\ UNCHANGED <<owner, ready, queue, waiting, result, runs>>

\* (Mutant: what is still queued keeps its reply channel.)
WorkerReturnsKeepingQueue ==
    /\ worker = "returning"
    /\ worker' = "exited"
    /\ UNCHANGED <<owner, ready, queue, current, waiting, reply, result, runs>>

\* The worker returns: its receiver goes, the commands that are still queued
\* go with it, and their reply channels are closed.
WorkerReturns ==
    /\ worker = "returning"
    /\ worker' = "exited"
    /\ queue' = <<>>
    /\ reply' = [c \in Client |-> IF c \in Elements(queue) THEN "closed" ELSE reply[c]]
    /\ UNCHANGED <<owner, ready, current, waiting, result, runs>>
-----------------------------------------------------------------------------
(***************************************************************************)
(* request: a client, which got its Sender from a Backend that started.    *)
(***************************************************************************)
MayRequest == owner \in {"running", "joining", "joined", "stopped"}

\* A fresh reply channel and the send; it fails at once when the worker is gone.
Send(c) ==
    /\ MayRequest
    /\ c \notin waiting
    /\ IF ReceiverAlive
       THEN /\ queue' = Append(queue, c)
            /\ waiting' = waiting \union {c}
            /\ reply' = [reply EXCEPT ![c] = "empty"]
            /\ runs' = [runs EXCEPT ![c] = 0]
            /\ UNCHANGED result
       ELSE /\ result' = [result EXCEPT ![c] = "stopped"]
            /\ runs' = [runs EXCEPT ![c] = 0]
            /\ UNCHANGED <<queue, waiting, reply>>
    /\ UNCHANGED <<owner, worker, ready, current>>

\* reply_rx.recv(): the answer, or BackendStopped when the channel is closed.
Return(c) ==
    /\ c \in waiting
    /\ reply[c] # "empty"
    /\ result' = [result EXCEPT ![c] = IF reply[c] = "closed" THEN "stopped" ELSE reply[c]]
    /\ waiting' = waiting \ {c}
    /\ UNCHANGED <<owner, worker, ready, queue, current, reply, runs>>
-----------------------------------------------------------------------------
OwnerStep == Start \/ Started \/ Join \/ Dropped
WorkerStep == Connect \/ Receive \/ Execute \/ SendReply \/ WorkerReturns

Next ==
    \/ OwnerStep
    \/ BeginStop
    \/ WorkerStep
    \/ \E c \in Client : Send(c) \/ Return(c)

Spec == Init /\ [][Next]_vars

\* The threads run when they can.  For the worker this holds if the device
\* answers every request or the connection breaks: the code has no timeout.
Fairness ==
    /\ WF_vars(OwnerStep)
    /\ WF_vars(WorkerStep)
    /\ \A c \in Client : WF_vars(Return(c))

FairSpec == Spec /\ Fairness
-----------------------------------------------------------------------------
TypeOK ==
    /\ owner \in {"new", "starting", "running", "joining", "joined", "stopped", "failed"}
    /\ worker \in {"unborn", "connecting", "idle", "busy", "returning", "exited"}
    /\ ready \in Outcome \union {"empty"}
    /\ queue \in Seq(Client \union {Shutdown})
    /\ current \in Client \union {Shutdown}
    /\ waiting \subseteq Client
    /\ reply \in [Client -> Outcome \union {"empty", "closed"}]
    /\ result \in [Client -> Outcome \union {"none", "stopped"}]
    /\ runs \in [Client -> Nat]

(***************************************************************************)
(* A request that comes back with BackendStopped was never carried out, so *)
(* its caller may report that nothing happened; one that comes back with   *)
(* the device's answer was carried out once (backend.rs:305-314).          *)
(***************************************************************************)
ResultTellsTruth ==
    \A c \in Client \ waiting :
        /\ result[c] = "stopped" => runs[c] = 0
        /\ result[c] \in Outcome => runs[c] = 1

(***************************************************************************)
(* When the worker is gone nobody waits for it: every client still blocked *)
(* has an answer or a closed channel to wake up from.  A stranded client   *)
(* would be the session thread of the mount, and unmount would never end.  *)
(***************************************************************************)
NoStrandedCaller ==
    worker = "exited" => \A c \in waiting : reply[c] # "empty"

(***************************************************************************)
(* Once stop has joined the worker the device is not touched any more,     *)
(* whoever still holds a Sender.                                           *)
(***************************************************************************)
NothingRunsAfterStop ==
    [][\A c \in Client :
          owner \in {"joined", "stopped", "failed"} => runs'[c] <= runs[c]]_vars

(***************************************************************************)
(* A blocked client is always either in the queue, once, or at the worker, *)
(* or has its answer: no command is lost or served twice.                  *)
(***************************************************************************)
EachCallInOnePlace ==
    \A c \in Client :
        LET queued == {k \in DOMAIN queue : queue[k] = c}
        IN  /\ \A j, k \in queued : j = k
            /\ queued # {} => c \in waiting /\ current # c /\ reply[c] = "empty" /\ runs[c] = 0
            /\ current = c => c \in waiting /\ worker = "busy" /\ reply[c] = "empty"
            /\ c \in waiting /\ reply[c] = "empty" => queued # {} \/ current = c

(***************************************************************************)
(* Every request comes back, whatever the owner does; and stopping ends,   *)
(* however many requests are queued before or come in after                *)
(* (backend.rs:66-75, 305-314).                                            *)
(***************************************************************************)
EveryCallReturns ==
    /\ \A c \in Client : c \in waiting ~> c \notin waiting
    /\ owner = "joining" ~> owner = "stopped"
-----------------------------------------------------------------------------
(***************************************************************************)
(* The backend implements AfcService.  A queued command is late when it    *)
(* stands behind Shutdown.                                                 *)
(***************************************************************************)
BehindShutdown(c) ==
    \/ worker = "returning"
    \/ \E j, k \in DOMAIN queue : j < k /\ queue[j] = Shutdown /\ queue[k] = c

Stage(c) ==
    CASE c \notin waiting -> "idle"
      [] c \in waiting /\ reply[c] \in Outcome -> "answered"
      [] c \in waiting /\ reply[c] = "closed" -> "refused"
      [] c \in waiting /\ reply[c] = "empty" /\ current = c ->
            IF runs[c] = 0 THEN "admitted" ELSE "executed"
      [] OTHER -> IF BehindShutdown(c) THEN "late" ELSE "admitted"

ServiceState ==
    CASE worker = "exited" -> "closed"
      [] ShutdownSent /\ worker # "exited" -> "closing"
      [] OTHER -> "open"

Service == INSTANCE AfcService WITH
              service <- ServiceState,
              stage <- [c \in Client |-> Stage(c)],
              result <- result

\* The backend keeps the promises of AfcService, fairness included.
ImplementsService == Service!FairSpec
=============================================================================
