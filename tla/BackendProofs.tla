---------------------------- MODULE BackendProofs ----------------------------
(***************************************************************************)
(* Theorems about Backend, for every set of clients.                       *)
(*                                                                         *)
(* The inductive invariant adds to the properties where the threads can be *)
(* (Threads) and what the device has done for each call so far (Carried).  *)
(***************************************************************************)
EXTENDS Backend, TLAPS

Queued(c) == \E k \in DOMAIN queue : queue[k] = c

QueuedOnce(c) ==
    \A j, k \in DOMAIN queue : queue[j] = c /\ queue[k] = c => j = k

\* Where the owner, the worker and what is between them can be together.
Threads ==
    /\ current # Shutdown <=> worker = "busy"
    /\ worker \in {"unborn", "exited"} => queue = <<>>
    /\ owner = "new" => worker = "unborn"
    /\ owner = "new" => ready = "empty"
    /\ ready = "err" => worker \in {"returning", "exited"}
    /\ owner = "failed" => worker \in {"unborn", "returning", "exited"}
    /\ owner \in {"joined", "stopped"} => worker = "exited"

\* Where a call is.
Place(c) ==
    /\ QueuedOnce(c)
    /\ Queued(c) => c \in waiting /\ current # c /\ reply[c] = "empty" /\ runs[c] = 0
    /\ current = c => c \in waiting /\ reply[c] = "empty" /\ runs[c] \in {0, 1}
    /\ c \in waiting /\ reply[c] = "empty" => Queued(c) \/ current = c

\* What the device did for a call that has its answer, or has returned.
Carried(c) ==
    /\ c \in waiting /\ reply[c] = "closed" => runs[c] = 0
    /\ c \in waiting /\ reply[c] \in Outcome => runs[c] = 1
    /\ c \notin waiting /\ result[c] = "stopped" => runs[c] = 0
    /\ c \notin waiting /\ result[c] \in Outcome => runs[c] = 1

Inv ==
    /\ TypeOK
    /\ Threads
    /\ \A c \in Client : Place(c) /\ Carried(c)
-----------------------------------------------------------------------------
(***************************************************************************)
(* The queue.                                                              *)
(***************************************************************************)
LEMMA AppendQueue ==
    ASSUME NEW S, NEW q \in Seq(S), NEW x \in S
    PROVE  /\ Append(q, x) \in Seq(S)
           /\ DOMAIN Append(q, x) = 1..(Len(q) + 1)
           /\ DOMAIN q = 1..Len(q) /\ Len(q) \in Nat
           /\ \A k \in DOMAIN q : Append(q, x)[k] = q[k]
           /\ Append(q, x)[Len(q) + 1] = x
  OBVIOUS

\* What Tail leaves of a queue.
LEMMA TailQueue ==
    ASSUME NEW S, NEW q \in Seq(S), q # <<>>
    PROVE  /\ Tail(q) \in Seq(S)
           /\ Head(q) \in S /\ Head(q) = q[1]
           /\ Len(q) \in Nat \ {0}
           /\ DOMAIN q = 1..Len(q)
           /\ DOMAIN Tail(q) = 1..(Len(q) - 1)
           /\ \A k \in DOMAIN Tail(q) : Tail(q)[k] = q[k + 1]
  OBVIOUS
-----------------------------------------------------------------------------
\* The invariant holds before start (backend.rs:44-56).
LEMMA InitInv == Init => Inv
  BY ShutdownAssumption
  DEF Init, Inv, TypeOK, Threads, Place, Carried, Queued, QueuedOnce, Outcome

\* A step that leaves the calls alone.
LEMMA CallsAlone ==
    ASSUME Inv, UNCHANGED <<current, waiting, reply, result, runs>>,
           \/ queue' = queue
           \/ queue' = Append(queue, Shutdown)
    PROVE  \A c \in Client : Place(c)' /\ Carried(c)'
<1> SUFFICES ASSUME NEW c \in Client PROVE Place(c)' /\ Carried(c)'
  OBVIOUS
<1>0. c # Shutdown /\ queue \in Seq(Client \union {Shutdown})
  BY ShutdownAssumption DEF Inv, TypeOK
<1>1. QueuedOnce(c)' /\ (Queued(c)' <=> Queued(c))
  <2>1. CASE queue' = queue
    BY <2>1 DEF Inv, Place, Queued, QueuedOnce
  <2>2. CASE queue' = Append(queue, Shutdown)
    BY <1>0, <2>2, AppendQueue DEF Inv, Place, Queued, QueuedOnce
  <2> QED
    BY <2>1, <2>2
<1> QED
  BY <1>1 DEF Inv, Place, Carried

\* start spawns the worker, or fails to (backend.rs:44-52).
LEMMA StartInv == Inv /\ Start => Inv'
<1> SUFFICES ASSUME Inv, Start PROVE Inv'
  OBVIOUS
<1>1. TypeOK' /\ Threads'
  BY DEF Inv, Start, TypeOK, Threads
<1> QED
  BY <1>1, CallsAlone DEF Inv, Start

\* start gets the worker's report (backend.rs:53-56).
LEMMA StartedInv == Inv /\ Started => Inv'
<1> SUFFICES ASSUME Inv, Started PROVE Inv'
  OBVIOUS
<1>1. TypeOK' /\ Threads'
  BY DEF Inv, Started, TypeOK, Threads, Outcome
<1> QED
  BY <1>1, CallsAlone DEF Inv, Started

\* stop sends Shutdown, which is no client's command (backend.rs:71).
LEMMA BeginStopInv == Inv /\ BeginStop => Inv'
<1> SUFFICES ASSUME Inv, BeginStop PROVE Inv'
  OBVIOUS
<1>1. TypeOK'
  BY AppendQueue DEF Inv, BeginStop, TypeOK
<1>2. Threads'
  BY DEF Inv, BeginStop, TypeOK, Threads, ReceiverAlive
<1> QED
  BY <1>1, <1>2, CallsAlone DEF Inv, BeginStop

\* stop joins the worker (backend.rs:72-74).
LEMMA JoinInv == Inv /\ Join => Inv'
<1> SUFFICES ASSUME Inv, Join PROVE Inv'
  OBVIOUS
<1>1. TypeOK' /\ Threads'
  BY DEF Inv, Join, TypeOK, Threads
<1> QED
  BY <1>1, CallsAlone DEF Inv, Join

\* The drop that follows a shutdown finds the worker gone (backend.rs:78-82).
LEMMA DroppedInv == Inv /\ Dropped => Inv'
<1> SUFFICES ASSUME Inv, Dropped PROVE Inv'
  OBVIOUS
<1>1. queue' = queue
  BY DEF Inv, Dropped, Threads, ReceiverAlive
<1>2. TypeOK' /\ Threads'
  BY <1>1 DEF Inv, Dropped, TypeOK, Threads
<1> QED
  BY <1>1, <1>2, CallsAlone DEF Inv, Dropped

\* The worker reports whether it is connected (backend.rs:90-107).
LEMMA ConnectInv == Inv /\ Connect => Inv'
<1> SUFFICES ASSUME Inv, Connect PROVE Inv'
  OBVIOUS
<1>1. TypeOK' /\ Threads'
  BY DEF Inv, Connect, TypeOK, Threads, Outcome
<1> QED
  BY <1>1, CallsAlone DEF Inv, Connect

\* The worker takes the first message of the channel (backend.rs:109-110).
LEMMA ReceiveInv == Inv /\ Receive => Inv'
<1> SUFFICES ASSUME Inv, Receive PROVE Inv'
  OBVIOUS
<1>0. /\ queue \in Seq(Client \union {Shutdown}) /\ queue # <<>>
      /\ queue' = Tail(queue)
      /\ current = Shutdown
  BY DEF Inv, TypeOK, Receive, Threads
<1>1. TypeOK'
  BY <1>0, TailQueue DEF Inv, Receive, TypeOK
<1>2. Threads'
  BY <1>0, TailQueue, ShutdownAssumption DEF Inv, Receive, TypeOK, Threads
<1>3. ASSUME NEW c \in Client PROVE Place(c)' /\ Carried(c)'
  <2>0. Place(c) /\ Carried(c) /\ c # Shutdown
    BY <1>3, ShutdownAssumption DEF Inv
  <2>1. QueuedOnce(c)'
    BY <1>0, <2>0, TailQueue DEF Place, QueuedOnce
  <2>2. Head(queue) = c => Queued(c) /\ ~Queued(c)'
    BY <1>0, <2>0, TailQueue DEF Place, Queued, QueuedOnce
  <2>3. Head(queue) # c => (Queued(c)' <=> Queued(c))
    <3> SUFFICES ASSUME Head(queue) # c PROVE Queued(c)' <=> Queued(c)
      OBVIOUS
    <3>1. ASSUME Queued(c) PROVE Queued(c)'
      <4>1. PICK k \in DOMAIN queue : queue[k] = c
        BY <3>1 DEF Queued
      <4>2. k # 1 /\ k - 1 \in DOMAIN Tail(queue) /\ Tail(queue)[k - 1] = c
        BY <1>0, <4>1, TailQueue
      <4> QED
        BY <1>0, <4>2 DEF Queued
    <3>2. ASSUME Queued(c)' PROVE Queued(c)
      <4>1. PICK k \in DOMAIN Tail(queue) : Tail(queue)[k] = c
        BY <1>0, <3>2 DEF Queued
      <4>2. k + 1 \in DOMAIN queue /\ queue[k + 1] = c
        BY <1>0, <4>1, TailQueue
      <4> QED
        BY <4>2 DEF Queued
    <3> QED
      BY <3>1, <3>2
  <2>4. CASE Head(queue) = Shutdown
    BY <2>0, <2>1, <2>3, <2>4 DEF Receive, Place, Carried
  <2>5. CASE Head(queue) # Shutdown
    <3>1. current' = Head(queue) /\ UNCHANGED <<waiting, reply, result, runs>>
      BY <2>5 DEF Receive
    <3>2. CASE Head(queue) = c
      BY <1>0, <2>0, <2>1, <2>2, <3>1, <3>2 DEF Place, Carried
    <3>3. CASE Head(queue) # c
      BY <1>0, <2>0, <2>1, <2>3, <3>1, <3>3 DEF Place, Carried
    <3> QED
      BY <3>2, <3>3
  <2> QED
    BY <2>4, <2>5
<1> QED
  BY <1>1, <1>2, <1>3 DEF Inv

\* The device carries out the worker's command.
LEMMA ExecuteInv == Inv /\ Execute => Inv'
<1> SUFFICES ASSUME Inv, Execute PROVE Inv'
  OBVIOUS
<1>0. current \in Client
  BY DEF Inv, Execute, TypeOK, Threads
<1>1. TypeOK' /\ Threads'
  BY <1>0 DEF Inv, Execute, TypeOK, Threads
<1>2. ASSUME NEW c \in Client PROVE Place(c)' /\ Carried(c)'
  <2>1. Place(c) /\ Carried(c) /\ runs' = [runs EXCEPT ![current] = @ + 1]
    BY <1>2 DEF Inv, Execute
  <2>2. CASE c = current
    BY <1>0, <2>1, <2>2 DEF Inv, TypeOK, Execute, Place, Carried, Queued, QueuedOnce, Outcome
  <2>3. CASE c # current
    BY <1>0, <2>1, <2>3 DEF Inv, TypeOK, Execute, Place, Carried, Queued, QueuedOnce
  <2> QED
    BY <2>2, <2>3
<1> QED
  BY <1>1, <1>2 DEF Inv

\* The answer goes to the client of the command (backend.rs:301-303).
LEMMA SendReplyInv == Inv /\ SendReply => Inv'
<1> SUFFICES ASSUME Inv, SendReply PROVE Inv'
  OBVIOUS
<1>0. current \in Client
  BY DEF Inv, SendReply, TypeOK, Threads
<1>1. PICK r \in Outcome : reply' = [reply EXCEPT ![current] = r]
  BY DEF SendReply
<1>2. TypeOK' /\ Threads'
  BY <1>0, <1>1 DEF Inv, SendReply, TypeOK, Threads
<1>3. ASSUME NEW c \in Client PROVE Place(c)' /\ Carried(c)'
  <2>1. /\ Place(c) /\ Carried(c) /\ current' = Shutdown /\ c # Shutdown
        /\ UNCHANGED <<queue, waiting, result, runs>>
        /\ runs[current] > 0
    BY <1>3, ShutdownAssumption DEF Inv, SendReply
  <2>2. CASE c = current
    BY <1>0, <1>1, <2>1, <2>2 DEF Inv, TypeOK, Place, Carried, Queued, QueuedOnce, Outcome
  <2>3. CASE c # current
    BY <1>0, <1>1, <2>1, <2>3 DEF Inv, TypeOK, Place, Carried, Queued, QueuedOnce
  <2> QED
    BY <2>2, <2>3
<1> QED
  BY <1>2, <1>3 DEF Inv

\* The worker's end closes the reply channels of what is queued.
LEMMA WorkerReturnsInv == Inv /\ WorkerReturns => Inv'
<1> SUFFICES ASSUME Inv, WorkerReturns PROVE Inv'
  OBVIOUS
<1>0. \A c \in Client : c \in Elements(queue) <=> Queued(c)
  BY DEF Elements, Queued
<1>1. TypeOK' /\ Threads'
  BY DEF Inv, WorkerReturns, TypeOK, Threads
<1>2. ASSUME NEW c \in Client PROVE Place(c)' /\ Carried(c)'
  <2>1. /\ Place(c) /\ Carried(c) /\ current = Shutdown /\ c # Shutdown
        /\ queue' = <<>>
        /\ UNCHANGED <<current, waiting, result, runs>>
        /\ reply'[c] = IF Queued(c) THEN "closed" ELSE reply[c]
    BY <1>0, <1>2, ShutdownAssumption DEF Inv, WorkerReturns, Threads
  <2>2. QueuedOnce(c)' /\ ~Queued(c)'
    BY <2>1 DEF Queued, QueuedOnce
  <2> QED
    BY <2>1, <2>2 DEF Place, Carried, Outcome
<1> QED
  BY <1>1, <1>2 DEF Inv

\* A client sends a command, or finds the worker gone (backend.rs:309-312).
LEMMA SendInv == ASSUME Inv, NEW d \in Client, Send(d) PROVE Inv'
<1>0. queue \in Seq(Client \union {Shutdown}) /\ d \notin waiting /\ d # Shutdown
  BY ShutdownAssumption DEF Inv, TypeOK, Send
<1>1. TypeOK'
  <2>1. CASE ReceiverAlive
    <3>1. queue' \in Seq(Client \union {Shutdown})
      <4>1. queue' = Append(queue, d)
        BY <2>1 DEF Send
      <4> QED
        BY <1>0, <4>1, AppendQueue
    <3>a. /\ waiting' = waiting \union {d}
          /\ reply' = [reply EXCEPT ![d] = "empty"]
          /\ runs' = [runs EXCEPT ![d] = 0]
      BY <2>1 DEF Send
    <3>b. /\ waiting \subseteq Client
          /\ reply \in [Client -> Outcome \union {"empty", "closed"}]
          /\ runs \in [Client -> Nat]
      BY DEF Inv, TypeOK
    <3>2. /\ waiting' \subseteq Client
          /\ reply' \in [Client -> Outcome \union {"empty", "closed"}]
          /\ runs' \in [Client -> Nat]
      BY <3>a, <3>b
    <3>3. UNCHANGED <<owner, worker, ready, current, result>>
      BY <2>1 DEF Send
    <3> QED
      BY <3>1, <3>2, <3>3 DEF Inv, TypeOK
  <2>2. CASE ~ReceiverAlive
    <3>1. /\ result' = [result EXCEPT ![d] = "stopped"]
          /\ runs' = [runs EXCEPT ![d] = 0]
          /\ UNCHANGED <<owner, worker, ready, queue, current, waiting, reply>>
      BY <2>2 DEF Send
    <3> QED
      BY <3>1 DEF Inv, TypeOK, Outcome
  <2> QED
    BY <2>1, <2>2
<1>2. Threads'
  BY <1>0 DEF Inv, Send, TypeOK, Threads, ReceiverAlive
<1>3. ASSUME NEW c \in Client PROVE Place(c)' /\ Carried(c)'
  <2>0. Place(c) /\ Carried(c) /\ UNCHANGED current
    BY <1>3 DEF Inv, Send
  <2>1. CASE ReceiverAlive
    <3>0. /\ queue' = Append(queue, d) /\ waiting' = waiting \union {d}
          /\ reply' = [reply EXCEPT ![d] = "empty"]
          /\ runs' = [runs EXCEPT ![d] = 0]
          /\ result' = result
      BY <2>1 DEF Send
    <3>1. CASE c = d
      <4>1. ~Queued(c) /\ current # c
        BY <1>0, <2>0, <3>1 DEF Place
      <4>2. QueuedOnce(c)' /\ Queued(c)'
        BY <1>0, <3>0, <3>1, <4>1, AppendQueue DEF Queued, QueuedOnce
      <4> QED
        BY <2>0, <3>0, <3>1, <4>1, <4>2 DEF Inv, TypeOK, Place, Carried, Outcome
    <3>2. CASE c # d
      <4>1. QueuedOnce(c)' /\ (Queued(c)' <=> Queued(c))
        BY <1>0, <2>0, <3>0, <3>2, AppendQueue DEF Place, Queued, QueuedOnce
      <4> QED
        BY <2>0, <3>0, <3>2, <4>1 DEF Inv, TypeOK, Place, Carried
    <3> QED
      BY <3>1, <3>2
  <2>2. CASE ~ReceiverAlive
    <3>0. /\ UNCHANGED <<queue, waiting, reply>>
          /\ result' = [result EXCEPT ![d] = "stopped"]
          /\ runs' = [runs EXCEPT ![d] = 0]
      BY <2>2 DEF Send
    <3>1. (QueuedOnce(c) <=> QueuedOnce(c)') /\ (Queued(c)' <=> Queued(c))
      BY <3>0 DEF Queued, QueuedOnce
    <3> QED
      BY <1>0, <2>0, <3>0, <3>1 DEF Inv, TypeOK, Place, Carried, Outcome
  <2> QED
    BY <2>1, <2>2
<1> QED
  BY <1>1, <1>2, <1>3 DEF Inv

\* A client gets its answer (backend.rs:313).
LEMMA ReturnInv == ASSUME Inv, NEW d \in Client, Return(d) PROVE Inv'
<1>0. d \in waiting /\ reply[d] # "empty"
  BY DEF Return
<1>1. TypeOK' /\ Threads'
  BY <1>0 DEF Inv, Return, TypeOK, Threads, Outcome
<1>2. ASSUME NEW c \in Client PROVE Place(c)' /\ Carried(c)'
  <2>0. /\ Place(c) /\ Carried(c)
        /\ waiting' = waiting \ {d}
        /\ result' = [result EXCEPT ![d] = IF reply[d] = "closed" THEN "stopped" ELSE reply[d]]
        /\ UNCHANGED <<queue, current, reply, runs>>
    BY <1>2 DEF Inv, Return
  <2>1. (QueuedOnce(c) <=> QueuedOnce(c)') /\ (Queued(c)' <=> Queued(c))
    BY <2>0 DEF Queued, QueuedOnce
  <2>2. CASE c = d
    BY <1>0, <2>0, <2>1, <2>2 DEF Inv, TypeOK, Place, Carried, Outcome
  <2>3. CASE c # d
    BY <2>0, <2>1, <2>3 DEF Inv, TypeOK, Place, Carried
  <2> QED
    BY <2>2, <2>3
<1> QED
  BY <1>1, <1>2 DEF Inv

\* Every step preserves the invariant.
LEMMA NextInv == Inv /\ [Next]_vars => Inv'
<1> SUFFICES ASSUME Inv, [Next]_vars PROVE Inv'
  OBVIOUS
<1>1. CASE OwnerStep
  BY <1>1, StartInv, StartedInv, JoinInv, DroppedInv DEF OwnerStep
<1>2. CASE BeginStop
  BY <1>2, BeginStopInv
<1>3. CASE WorkerStep
  BY <1>3, ConnectInv, ReceiveInv, ExecuteInv, SendReplyInv, WorkerReturnsInv DEF WorkerStep
<1>4. CASE \E c \in Client : Send(c) \/ Return(c)
  BY <1>4, SendInv, ReturnInv
<1>5. CASE UNCHANGED vars
  <2>1. TypeOK' /\ Threads'
    BY <1>5 DEF vars, Inv, TypeOK, Threads
  <2> QED
    BY <1>5, <2>1, CallsAlone DEF vars, Inv
<1> QED
  BY <1>1, <1>2, <1>3, <1>4, <1>5 DEF Next

\* The inductive invariant holds in every state.
THEOREM Invariant == Spec => []Inv
<1> QED
  BY InitInv, NextInv, PTL DEF Spec

\* The channel, the calls and the threads stay in their types.
THEOREM TypeCorrect == Spec => []TypeOK
<1>1. Inv => TypeOK
  BY DEF Inv
<1> QED
  BY <1>1, Invariant, PTL
-----------------------------------------------------------------------------
\* What a request returns is what happened on the device (backend.rs:305-314).
THEOREM TellsTruth == Spec => []ResultTellsTruth
<1>1. Inv => ResultTellsTruth
  BY DEF Inv, Carried, ResultTellsTruth
<1> QED
  BY <1>1, Invariant, PTL

\* Nobody is left waiting for a worker that is gone (backend.rs:109, 305-314).
THEOREM NoneStranded == Spec => []NoStrandedCaller
<1>1. Inv => NoStrandedCaller
  <2> SUFFICES ASSUME Inv, worker = "exited", NEW c \in waiting PROVE reply[c] # "empty"
    BY DEF NoStrandedCaller
  <2>1. c \in Client /\ c # Shutdown /\ queue = <<>> /\ current = Shutdown
    BY ShutdownAssumption DEF Inv, TypeOK, Threads
  <2>2. ~Queued(c)
    BY <2>1 DEF Queued
  <2> QED
    BY <2>1, <2>2 DEF Inv, Place
<1> QED
  BY <1>1, Invariant, PTL

\* A call is in the queue, at the worker, or answered (backend.rs:109-154).
THEOREM InOnePlace == Spec => []EachCallInOnePlace
<1>1. Inv => EachCallInOnePlace
  <2> SUFFICES ASSUME Inv, NEW c \in Client
               PROVE  LET queued == {k \in DOMAIN queue : queue[k] = c}
                      IN  /\ \A j, k \in queued : j = k
                          /\ queued # {} => c \in waiting /\ current # c
                                            /\ reply[c] = "empty" /\ runs[c] = 0
                          /\ current = c => c \in waiting /\ worker = "busy"
                                            /\ reply[c] = "empty"
                          /\ c \in waiting /\ reply[c] = "empty" => queued # {} \/ current = c
    BY DEF EachCallInOnePlace
  <2>1. c # Shutdown
    BY ShutdownAssumption
  <2> QED
    BY <2>1 DEF Inv, Threads, Place, Queued, QueuedOnce
<1> QED
  BY <1>1, Invariant, PTL

\* After stop has joined, the device is left alone (backend.rs:70-75).
THEOREM QuietAfterStop == Spec => NothingRunsAfterStop
<1> DEFINE Quiet == \A c \in Client :
                       owner \in {"joined", "stopped", "failed"} => runs'[c] <= runs[c]
<1>1. Inv /\ [Next]_vars => [Quiet]_vars
  <2> SUFFICES ASSUME Inv, [Next]_vars, NEW c \in Client,
                      owner \in {"joined", "stopped", "failed"}
               PROVE  runs'[c] <= runs[c] \/ UNCHANGED vars
    OBVIOUS
  <2>0. runs \in [Client -> Nat] /\ worker # "busy"
    BY DEF Inv, TypeOK, Threads
  <2>1. CASE OwnerStep \/ BeginStop
    BY <2>0, <2>1 DEF OwnerStep, Start, Started, Join, Dropped, BeginStop
  <2>2. CASE WorkerStep
    BY <2>0, <2>2 DEF WorkerStep, Connect, Receive, Execute, SendReply, WorkerReturns
  <2>3. ASSUME NEW d \in Client, Send(d) \/ Return(d) PROVE runs'[c] <= runs[c]
    BY <2>0, <2>3 DEF Send, Return
  <2> QED
    BY <2>1, <2>2, <2>3 DEF Next
<1>2. Spec => [][Quiet]_vars
  BY <1>1, Invariant, PTL DEF Spec
<1> QED
  BY <1>2 DEF NothingRunsAfterStop
-----------------------------------------------------------------------------
(***************************************************************************)
(* The backend implements AfcService, step by step.  Beyond Inv the proof  *)
(* needs to know when Shutdown can be in the queue, since a command behind *)
(* it is late, and that nobody calls before the backend is there.          *)
(***************************************************************************)
Stopping ==
    /\ owner \in {"new", "starting", "running", "failed"} => Shutdown \notin Elements(queue)
    /\ owner = "running" => worker \in {"idle", "busy"}
    /\ owner \in {"new", "starting", "failed"} => waiting = {}
    /\ worker = "unborn" => owner \in {"new", "failed"}
    /\ worker = "connecting" => owner = "starting" /\ ready = "empty"
    /\ ready = "ok" => worker \in {"idle", "busy"}
    /\ ready # "empty" => owner = "starting"

\* Stopping holds before start.
LEMMA InitStopping == Init => Stopping
  BY DEF Init, Stopping, Elements

\* What the two ends of the queue do to its elements.
LEMMA ElementsOfQueue ==
    ASSUME NEW S, NEW q \in Seq(S), NEW x \in S
    PROVE  /\ Elements(Append(q, x)) = Elements(q) \union {x}
           /\ q # <<>> => Elements(Tail(q)) \subseteq Elements(q) /\ Head(q) \in Elements(q)
<1>1. Elements(Append(q, x)) = Elements(q) \union {x}
  BY AppendQueue DEF Elements
<1>2. ASSUME q # <<>>
      PROVE  Elements(Tail(q)) \subseteq Elements(q) /\ Head(q) \in Elements(q)
  <2>1. \A k \in DOMAIN Tail(q) : k + 1 \in DOMAIN q
    BY <1>2, TailQueue
  <2>2. 1 \in DOMAIN q /\ Head(q) = q[1]
    BY <1>2, TailQueue
  <2>3. \A k \in DOMAIN Tail(q) : Tail(q)[k] = q[k + 1]
    BY <1>2, TailQueue
  <2> QED
    BY <2>1, <2>2, <2>3 DEF Elements
<1> QED
  BY <1>1, <1>2

\* Every step preserves Stopping.
LEMMA NextStopping == Inv /\ Stopping /\ [Next]_vars => Stopping'
<1> SUFFICES ASSUME Inv, Stopping, [Next]_vars PROVE Stopping'
  OBVIOUS
<1>0. queue \in Seq(Client \union {Shutdown}) /\ Shutdown \notin Client
  BY ShutdownAssumption DEF Inv, TypeOK
<1>1. CASE Start \/ Started \/ Join \/ BeginStop
  BY <1>1 DEF Inv, TypeOK, Threads, Stopping, Start, Started, Join, BeginStop, Outcome
<1>2. CASE Dropped
  BY <1>2 DEF Inv, TypeOK, Threads, Stopping, Dropped
<1>3. CASE Connect
  BY <1>3 DEF Inv, TypeOK, Threads, Stopping, Connect, Outcome
<1>4. CASE Receive
  BY <1>0, <1>4, ElementsOfQueue DEF Inv, Threads, Stopping, Receive
<1>5. CASE Execute \/ SendReply
  BY <1>5 DEF Inv, Stopping, Execute, SendReply
<1>6. CASE WorkerReturns
  BY <1>6 DEF Inv, Stopping, WorkerReturns, Elements
<1>7. ASSUME NEW c \in Client, Send(c) PROVE Stopping'
  <2>0. queue' = queue \/ queue' = Append(queue, c)
    BY <1>7 DEF Send
  <2>1. Elements(queue') \subseteq Elements(queue) \union {c}
    <3>1. Elements(Append(queue, c)) = Elements(queue) \union {c}
      BY <1>0, ElementsOfQueue
    <3> QED
      BY <2>0, <3>1
  <2> QED
    BY <1>0, <1>7, <2>1 DEF Inv, TypeOK, Stopping, Send, MayRequest
<1>8. ASSUME NEW c \in Client, Return(c) PROVE Stopping'
  BY <1>8 DEF Inv, Stopping, Return
<1>9. CASE UNCHANGED vars
  BY <1>9 DEF vars, Stopping
<1> QED
  BY <1>1, <1>2, <1>3, <1>4, <1>5, <1>6, <1>7, <1>8, <1>9 DEF Next, OwnerStep, WorkerStep

\* Stopping holds in every state.
THEOREM AlwaysStopping == Spec => []Stopping
  BY InitStopping, NextStopping, Invariant, PTL DEF Spec

\* Only the step that a call takes moves it.
LEMMA OneMoves ==
    ASSUME NEW d \in Client, NEW to,
           Stage(d)' = to,
           \A c \in Client : c # d => Stage(c)' = Stage(c)
    PROVE  [c \in Client |-> Stage(c)]' = [[c \in Client |-> Stage(c)] EXCEPT ![d] = to]
  OBVIOUS

\* A step that leaves the calls and the queue alone moves none.
LEMMA NoneMoves ==
    ASSUME UNCHANGED <<queue, current, waiting, reply, runs>>,
           worker' = "returning" <=> worker = "returning"
    PROVE  \A c \in Client : Stage(c)' = Stage(c)
  BY DEF Stage, BehindShutdown

\* What the abstract step has to say when the service does nothing.
LEMMA Stutters ==
    ASSUME ServiceState' = ServiceState, \A c \in Client : Stage(c)' = Stage(c),
           result' = result
    PROVE  UNCHANGED Service!vars
  BY DEF Service!vars

\* Shutdown at the end of the queue makes none of the calls before it late.
LEMMA StopMovesNone ==
    ASSUME Inv, Stopping, BeginStop
    PROVE  \A c \in Client : Stage(c)' = Stage(c)
<1> SUFFICES ASSUME NEW c \in Client PROVE Stage(c)' = Stage(c)
  OBVIOUS
<1>1. /\ queue \in Seq(Client \union {Shutdown}) /\ c # Shutdown
      /\ queue' = Append(queue, Shutdown)
      /\ UNCHANGED <<worker, current, waiting, reply, runs>>
  BY ShutdownAssumption DEF Inv, TypeOK, BeginStop, Stopping, ReceiverAlive
<1>2. BehindShutdown(c)' <=> BehindShutdown(c)
  BY <1>1, AppendQueue DEF BehindShutdown
<1> QED
  BY <1>1, <1>2 DEF Stage

\* A call made before Shutdown is admitted, one made after it is late, and one
\* made after the worker's end is rejected (backend.rs:309-312).
LEMMA SendServes ==
    ASSUME Inv, Stopping, NEW d \in Client, Send(d)
    PROVE  Service!Call(d) \/ Service!Reject(d)
<1>0. /\ queue \in Seq(Client \union {Shutdown}) /\ d # Shutdown /\ d \notin waiting
      /\ ~Queued(d) /\ current # d
  BY ShutdownAssumption DEF Inv, TypeOK, Send, Place
<1>a. Stage(d) = "idle"
  BY <1>0 DEF Stage
<1>1. CASE ReceiverAlive
  <2>0. /\ queue' = Append(queue, d) /\ waiting' = waiting \union {d}
        /\ reply' = [reply EXCEPT ![d] = "empty"]
        /\ runs' = [runs EXCEPT ![d] = 0]
        /\ UNCHANGED <<result, worker, current>>
        /\ worker \in {"idle", "busy", "returning"}
    BY <1>1 DEF Send, Stopping, ReceiverAlive, MayRequest
  <2>1. ServiceState' = ServiceState
    <3>1. Elements(queue') = Elements(queue) \union {d}
      BY <1>0, <2>0, ElementsOfQueue
    <3> QED
      BY <1>0, <2>0, <3>1 DEF ServiceState, ShutdownSent
  <2>2. BehindShutdown(d)' <=> ShutdownSent
    <3>1. \A k \in DOMAIN queue' : queue'[k] = d <=> k = Len(queue) + 1
      BY <1>0, <2>0, AppendQueue DEF Queued
    <3>2. BehindShutdown(d)' <=>
            worker = "returning" \/ \E j \in DOMAIN queue : queue[j] = Shutdown
      BY <1>0, <2>0, <3>1, AppendQueue DEF BehindShutdown
    <3> QED
      BY <2>0, <3>2 DEF ShutdownSent, Elements
  <2>3. Stage(d)' = IF ServiceState = "open" THEN "admitted" ELSE "late"
    <3>1. reply'[d] = "empty" /\ d \in waiting' /\ current' # d
      BY <1>0, <2>0 DEF Inv, TypeOK
    <3>2. ServiceState = "open" <=> ~ShutdownSent
      BY <2>0 DEF ServiceState, ShutdownSent
    <3> QED
      BY <2>2, <3>1, <3>2 DEF Stage, Outcome
  <2>4. ASSUME NEW c \in Client, c # d PROVE Stage(c)' = Stage(c)
    <3>1. c # Shutdown
      BY ShutdownAssumption
    <3>2. BehindShutdown(c)' <=> BehindShutdown(c)
      <4>1. /\ DOMAIN queue = 1..Len(queue) /\ Len(queue) \in Nat
            /\ DOMAIN queue' = 1..(Len(queue) + 1)
            /\ \A k \in DOMAIN queue : queue'[k] = queue[k]
            /\ queue'[Len(queue) + 1] = d
        BY <1>0, <2>0, AppendQueue
      <4>2. \A k : k \in DOMAIN queue' /\ queue'[k] # d => k \in DOMAIN queue
        BY <4>1
      <4>3. d # c /\ d # Shutdown /\ worker' = worker
        BY <1>0, <2>0, <2>4
      <4> QED
        BY <3>1, <4>1, <4>2, <4>3 DEF BehindShutdown
    <3>3. /\ reply'[c] = reply[c] /\ runs'[c] = runs[c]
          /\ c \in waiting' <=> c \in waiting
      BY <2>0, <2>4 DEF Inv, TypeOK
    <3> QED
      BY <2>0, <3>2, <3>3 DEF Stage
  <2>5. [c \in Client |-> Stage(c)]'
          = [[c \in Client |-> Stage(c)] EXCEPT
               ![d] = IF ServiceState = "open" THEN "admitted" ELSE "late"]
    BY <2>3, <2>4, OneMoves
  <2> QED
    BY <1>a, <2>0, <2>1, <2>5 DEF Service!Call, Service!MoveTo
<1>2. CASE ~ReceiverAlive
  <2>0. /\ worker = "exited" /\ UNCHANGED <<queue, waiting, reply, worker, current>>
        /\ result' = [result EXCEPT ![d] = "stopped"]
        /\ runs' = [runs EXCEPT ![d] = 0]
    BY <1>2 DEF Inv, TypeOK, Send, Stopping, ReceiverAlive, MayRequest
  <2>1. ServiceState = "closed" /\ ServiceState' = ServiceState
    BY <2>0 DEF ServiceState
  <2>2. ASSUME NEW c \in Client PROVE Stage(c)' = Stage(c)
    <3>1. current # c
      BY <2>0, ShutdownAssumption DEF Inv, Threads
    <3>2. BehindShutdown(c)' <=> BehindShutdown(c)
      BY <2>0 DEF BehindShutdown
    <3> QED
      BY <2>0, <3>1, <3>2 DEF Stage
  <2> QED
    BY <1>a, <2>0, <2>1, <2>2 DEF Service!Reject
<1> QED
  BY <1>1, <1>2

\* The caller wakes up with the answer, or with BackendStopped (backend.rs:313).
LEMMA ReturnServes ==
    ASSUME Inv, Stopping, NEW d \in Client, Return(d)
    PROVE  Service!Return(d)
<1>0. /\ d \in waiting /\ waiting' = waiting \ {d}
      /\ reply[d] \in Outcome \union {"closed"}
      /\ result' = [result EXCEPT ![d] = IF reply[d] = "closed" THEN "stopped" ELSE reply[d]]
      /\ UNCHANGED <<owner, worker, ready, queue, current, reply, runs>>
  BY DEF Inv, TypeOK, Return
<1>1. ServiceState' = ServiceState
  BY <1>0 DEF ServiceState, ShutdownSent
<1>2. Stage(d) = (IF reply[d] = "closed" THEN "refused" ELSE "answered") /\ Stage(d)' = "idle"
  BY <1>0 DEF Stage, Outcome
<1>3. ASSUME NEW c \in Client, c # d PROVE Stage(c)' = Stage(c)
  BY <1>0, <1>3 DEF Stage, BehindShutdown
<1>4. [c \in Client |-> Stage(c)]' = [[c \in Client |-> Stage(c)] EXCEPT ![d] = "idle"]
  BY <1>2, <1>3, OneMoves
<1>5. CASE reply[d] = "closed"
  BY <1>0, <1>1, <1>2, <1>4, <1>5 DEF Service!Return, Service!MoveTo
<1>6. CASE reply[d] \in Outcome
  <2>1. reply[d] # "closed"
    BY <1>6 DEF Outcome
  <2>2. \E r \in Service!Outcome : result' = [result EXCEPT ![d] = r]
    BY <1>0, <1>6, <2>1 DEF Outcome, Service!Outcome
  <2> QED
    BY <1>1, <1>2, <1>4, <2>1, <2>2 DEF Service!Return, Service!MoveTo
<1> QED
  BY <1>0, <1>5, <1>6

\* Taking a command out of the channel is no step of the service: the one at
\* the head was not late, the ones behind Shutdown stay late (backend.rs:109).
LEMMA ReceiveStutters ==
    ASSUME Inv, Stopping, Receive
    PROVE  UNCHANGED Service!vars
<1>0. /\ queue \in Seq(Client \union {Shutdown}) /\ queue # <<>> /\ queue' = Tail(queue)
      /\ worker = "idle" /\ current = Shutdown
      /\ UNCHANGED <<waiting, reply, result, runs>>
  BY DEF Inv, TypeOK, Receive, Threads
<1>1. CASE Head(queue) = Shutdown
  <2>0. worker' = "returning" /\ current' = current
    BY <1>1 DEF Receive
  <2>1. ServiceState = "closing" /\ ServiceState' = "closing"
    BY <1>0, <1>1, <2>0, ElementsOfQueue DEF ServiceState, ShutdownSent
  <2>2. ASSUME NEW c \in Client PROVE Stage(c)' = Stage(c)
    <3>1. CASE c \in waiting /\ reply[c] = "empty"
      <4>1. Queued(c) /\ c # Shutdown
        BY <1>0, <3>1, ShutdownAssumption DEF Inv, Place
      <4>2. BehindShutdown(c)
        <5>1. PICK k \in DOMAIN queue : queue[k] = c
          BY <4>1 DEF Queued
        <5>2. 1 \in DOMAIN queue /\ queue[1] = Shutdown /\ 1 < k
          BY <1>0, <1>1, <4>1, <5>1, TailQueue
        <5> QED
          BY <5>1, <5>2 DEF BehindShutdown
      <4>3. BehindShutdown(c)'
        BY <2>0 DEF BehindShutdown
      <4> QED
        BY <1>0, <2>0, <3>1, <4>1, <4>2, <4>3 DEF Stage, Outcome
    <3>2. CASE ~(c \in waiting /\ reply[c] = "empty")
      <4>1. c \in waiting => reply[c] \in Outcome \union {"closed"}
        BY <3>2 DEF Inv, TypeOK
      <4> QED
        BY <1>0, <2>0, <4>1 DEF Stage
    <3> QED
      BY <3>1, <3>2
  <2> QED
    BY <1>0, <2>1, <2>2, Stutters
<1>2. CASE Head(queue) # Shutdown
  <2>0. worker' = "busy" /\ current' = Head(queue) /\ Head(queue) \in Client
    BY <1>0, <1>2, TailQueue DEF Receive
  <2>a. /\ Len(queue) \in Nat \ {0} /\ DOMAIN queue = 1..Len(queue)
        /\ DOMAIN queue' = 1..(Len(queue) - 1)
        /\ \A k \in DOMAIN queue' : queue'[k] = queue[k + 1]
        /\ queue[1] # Shutdown
        /\ queue[1] = Head(queue)
    BY <1>0, <1>2, TailQueue
  <2>1. Shutdown \in Elements(queue) <=> Shutdown \in Elements(queue')
    <3>1. ASSUME Shutdown \in Elements(queue) PROVE Shutdown \in Elements(queue')
      <4>1. PICK k \in DOMAIN queue : queue[k] = Shutdown
        BY <3>1 DEF Elements
      <4>2. k - 1 \in DOMAIN queue' /\ queue'[k - 1] = Shutdown
        BY <2>a, <4>1
      <4> QED
        BY <4>2 DEF Elements
    <3> QED
      BY <1>0, <3>1, ElementsOfQueue
  <2>2. ServiceState' = ServiceState
    BY <1>0, <2>0, <2>1 DEF ServiceState, ShutdownSent
  <2>3. ASSUME NEW c \in Client PROVE BehindShutdown(c)' <=> BehindShutdown(c)
    <3>1. ASSUME NEW j \in DOMAIN queue, NEW k \in DOMAIN queue,
                 j < k, queue[j] = Shutdown, queue[k] = c
          PROVE  BehindShutdown(c)'
      <4>1. /\ j - 1 \in DOMAIN queue' /\ k - 1 \in DOMAIN queue' /\ j - 1 < k - 1
            /\ queue'[j - 1] = Shutdown /\ queue'[k - 1] = c
        BY <2>a, <3>1
      <4> QED
        BY <4>1 DEF BehindShutdown
    <3>2. ASSUME NEW j \in DOMAIN queue', NEW k \in DOMAIN queue',
                 j < k, queue'[j] = Shutdown, queue'[k] = c
          PROVE  BehindShutdown(c)
      <4>1. /\ j + 1 \in DOMAIN queue /\ k + 1 \in DOMAIN queue /\ j + 1 < k + 1
            /\ queue[j + 1] = Shutdown /\ queue[k + 1] = c
        BY <2>a, <3>2
      <4> QED
        BY <4>1 DEF BehindShutdown
    <3> QED
      BY <1>0, <2>0, <3>1, <3>2 DEF BehindShutdown
  <2>4. ASSUME NEW c \in Client PROVE Stage(c)' = Stage(c)
    <3>0. c # Shutdown
      BY ShutdownAssumption
    <3>1. CASE c = Head(queue)
      <4>1. Queued(c)
        BY <2>a, <3>1 DEF Queued
      <4>2. c \in waiting /\ reply[c] = "empty" /\ runs[c] = 0 /\ QueuedOnce(c)
        BY <4>1 DEF Inv, Place
      <4>3. ~BehindShutdown(c)
        BY <1>0, <2>a, <3>1, <4>2 DEF BehindShutdown, QueuedOnce
      <4> QED
        BY <1>0, <2>0, <3>0, <3>1, <4>2, <4>3 DEF Stage, Outcome
    <3>2. CASE c # Head(queue)
      BY <1>0, <2>0, <2>3, <3>0, <3>2 DEF Stage
    <3> QED
      BY <3>1, <3>2
  <2> QED
    BY <1>0, <2>2, <2>4, Stutters
<1> QED
  BY <1>1, <1>2

\* The device carries out an admitted call, while the service is not closed.
LEMMA ExecuteServes ==
    ASSUME Inv, Stopping, Execute
    PROVE  Service!Execute(current)
<1>0. /\ worker = "busy" /\ current \in Client /\ runs[current] = 0
      /\ runs' = [runs EXCEPT ![current] = 1]
      /\ UNCHANGED <<owner, worker, ready, queue, current, waiting, reply, result>>
      /\ current \in waiting /\ reply[current] = "empty"
  BY DEF Inv, TypeOK, Execute, Threads, Place
<1>1. ServiceState # "closed" /\ ServiceState' = ServiceState
  BY <1>0 DEF ServiceState, ShutdownSent
<1>2. Stage(current) = "admitted" /\ Stage(current)' = "executed"
  BY <1>0 DEF Inv, TypeOK, Stage, Outcome
<1>3. ASSUME NEW c \in Client, c # current PROVE Stage(c)' = Stage(c)
  BY <1>0, <1>3 DEF Stage, BehindShutdown
<1>4. [c \in Client |-> Stage(c)]'
        = [[c \in Client |-> Stage(c)] EXCEPT ![current] = "executed"]
  BY <1>0, <1>2, <1>3, OneMoves
<1> QED
  BY <1>0, <1>1, <1>2, <1>4 DEF Service!Execute, Service!MoveTo

\* The answer is sent after the device has carried the call out (backend.rs:301).
LEMMA SendReplyServes ==
    ASSUME Inv, Stopping, SendReply
    PROVE  Service!Answer(current)
<1>0. /\ worker = "busy" /\ current \in Client /\ runs[current] > 0
      /\ worker' = "idle" /\ current' = Shutdown
      /\ UNCHANGED <<owner, ready, queue, waiting, result, runs>>
      /\ current \in waiting /\ reply[current] = "empty"
  BY DEF Inv, TypeOK, SendReply, Threads, Place
<1>a. PICK r \in Outcome : reply' = [reply EXCEPT ![current] = r]
  BY DEF SendReply
<1>1. ServiceState' = ServiceState
  BY <1>0 DEF ServiceState, ShutdownSent
<1>2. Stage(current) = "executed"
  BY <1>0 DEF Stage, Outcome
<1>3. reply'[current] \in Outcome
  BY <1>0, <1>a DEF Inv, TypeOK
<1>4. ASSUME NEW c \in Client
      PROVE  Stage(c)' = IF c = current THEN "answered" ELSE Stage(c)
  <2>0. c # Shutdown
    BY ShutdownAssumption
  <2>1. CASE c = current
    <3>1. c \in waiting' /\ reply'[c] \in Outcome
      BY <1>0, <1>3, <2>1
    <3> QED
      BY <2>1, <3>1 DEF Stage, Outcome
  <2>2. CASE c # current
    <3>1. reply'[c] = reply[c]
      BY <1>0, <1>a, <2>2 DEF Inv, TypeOK
    <3> QED
      BY <1>0, <2>0, <2>2, <3>1 DEF Stage, BehindShutdown
  <2> QED
    BY <2>1, <2>2
<1>5. [c \in Client |-> Stage(c)]'
        = [[c \in Client |-> Stage(c)] EXCEPT ![current] = "answered"]
  BY <1>0, <1>4
<1> QED
  BY <1>0, <1>1, <1>2, <1>5 DEF Service!Answer, Service!MoveTo

\* The worker's end closes the service: all that was admitted is answered, all
\* that is still queued is refused (backend.rs:109-110).
LEMMA WorkerReturnsServes ==
    ASSUME Inv, Stopping, WorkerReturns
    PROVE  Service!Close
<1>0. /\ worker = "returning" /\ worker' = "exited" /\ current = Shutdown /\ queue' = <<>>
      /\ reply' = [c \in Client |-> IF c \in Elements(queue) THEN "closed" ELSE reply[c]]
      /\ UNCHANGED <<owner, ready, current, waiting, result, runs>>
  BY DEF Inv, WorkerReturns, Threads
<1>1. ServiceState = "closing" /\ ServiceState' = "closed"
  BY <1>0 DEF ServiceState, ShutdownSent
<1>2. ASSUME NEW c \in Client
      PROVE  /\ Stage(c) \notin {"admitted", "executed"}
             /\ Stage(c)' = IF Stage(c) = "late" THEN "refused" ELSE Stage(c)
  <2>0. c # Shutdown /\ current # c /\ BehindShutdown(c)
    BY <1>0, ShutdownAssumption DEF BehindShutdown
  <2>1. reply'[c] = IF c \in Elements(queue) THEN "closed" ELSE reply[c]
    BY <1>0
  <2>2. c \in Elements(queue) <=> c \in waiting /\ reply[c] = "empty"
    BY <2>0 DEF Inv, Place, Queued, Elements
  <2>3. CASE c \notin waiting
    BY <1>0, <2>3 DEF Stage
  <2>4. CASE c \in waiting /\ reply[c] = "empty"
    <3>1. Stage(c) = "late"
      BY <2>0, <2>4 DEF Stage, Outcome
    <3>2. c \in waiting' /\ reply'[c] = "closed"
      BY <1>0, <2>1, <2>2, <2>4
    <3> QED
      BY <3>1, <3>2 DEF Stage, Outcome
  <2>5. CASE c \in waiting /\ reply[c] # "empty"
    <3>1. reply[c] \in Outcome \union {"closed"}
      BY <2>5 DEF Inv, TypeOK
    <3>2. c \in waiting' /\ reply'[c] = reply[c]
      BY <1>0, <2>1, <2>2, <2>5
    <3> QED
      BY <2>5, <3>1, <3>2 DEF Stage, Outcome
  <2> QED
    BY <2>3, <2>4, <2>5
<1> QED
  BY <1>0, <1>1, <1>2 DEF Service!Close

\* Every step of the backend is a step of the service or leaves it alone.
LEMMA NextServes == Inv /\ Stopping /\ [Next]_vars => [Service!Next]_(Service!vars)
<1> SUFFICES ASSUME Inv, Stopping, [Next]_vars
             PROVE  Service!Next \/ UNCHANGED Service!vars
  OBVIOUS
<1>1. CASE OwnerStep
  <2>1. /\ UNCHANGED <<queue, current, waiting, reply, result, runs>>
        /\ worker' = worker \/ (worker = "unborn" /\ worker' = "connecting")
    BY <1>1 DEF Inv, Threads, OwnerStep, Start, Started, Join, Dropped, ReceiverAlive
  <2>2. ServiceState' = ServiceState
    BY <2>1 DEF ServiceState, ShutdownSent
  <2> QED
    BY <2>1, <2>2, NoneMoves, Stutters
<1>2. CASE BeginStop
  <2>1. /\ queue \in Seq(Client \union {Shutdown})
        /\ queue' = Append(queue, Shutdown)
        /\ UNCHANGED <<worker, result>>
        /\ worker \in {"idle", "busy"} /\ Shutdown \notin Elements(queue)
    BY <1>2 DEF Inv, TypeOK, Stopping, BeginStop, ReceiverAlive
  <2>2. ServiceState = "open" /\ ServiceState' = "closing"
    BY <2>1, ElementsOfQueue DEF ServiceState, ShutdownSent
  <2>3. Service!BeginClose
    BY <1>2, <2>1, <2>2, StopMovesNone DEF Service!BeginClose
  <2> QED
    BY <2>3 DEF Service!Next
<1>3. CASE Connect
  <2>1. /\ UNCHANGED <<queue, current, waiting, reply, result, runs>>
        /\ worker = "connecting" /\ worker' \in {"idle", "returning"}
        /\ waiting = {} /\ Shutdown \notin Elements(queue)
    BY <1>3 DEF Stopping, Connect
  <2>2. \A c \in Client : Stage(c)' = Stage(c)
    BY <2>1 DEF Stage
  <2>3. ServiceState = "open"
    BY <2>1 DEF ServiceState, ShutdownSent
  <2>4. ServiceState' \in {"open", "closing"}
    BY <2>1 DEF ServiceState, ShutdownSent
  <2>5. CASE ServiceState' = "open"
    BY <2>1, <2>2, <2>3, <2>5, Stutters
  <2>6. CASE ServiceState' = "closing"
    BY <2>1, <2>2, <2>3, <2>6 DEF Service!Next, Service!BeginClose
  <2> QED
    BY <2>4, <2>5, <2>6
<1>4. CASE Receive
  BY <1>4, ReceiveStutters
<1>5. CASE Execute \/ SendReply
  <2>1. current \in Client
    BY <1>5 DEF Inv, TypeOK, Threads, Execute, SendReply
  <2> QED
    BY <1>5, <2>1, ExecuteServes, SendReplyServes DEF Service!Next
<1>6. CASE WorkerReturns
  BY <1>6, WorkerReturnsServes DEF Service!Next
<1>7. ASSUME NEW c \in Client, Send(c) \/ Return(c) PROVE Service!Next
  BY <1>7, SendServes, ReturnServes DEF Service!Next
<1>8. CASE UNCHANGED vars
  <2>1. UNCHANGED <<worker, queue, current, waiting, reply, result, runs>>
    BY <1>8 DEF vars
  <2>2. ServiceState' = ServiceState
    BY <2>1 DEF ServiceState, ShutdownSent
  <2> QED
    BY <2>1, <2>2, NoneMoves, Stutters
<1> QED
  BY <1>1, <1>2, <1>3, <1>4, <1>5, <1>6, <1>7, <1>8 DEF Next, WorkerStep

(***************************************************************************)
(* The thread, the channel and Shutdown implement AfcService, whose calls  *)
(* are carried out once, or refused, and which closes when all it admitted *)
(* is answered (backend.rs:44-82, 109-154, 301-314).  This is the safety   *)
(* part of ImplementsService.                                              *)
(***************************************************************************)
THEOREM Serves == Spec => Service!Spec
<1>1. Init => Service!Init
  <2> SUFFICES ASSUME Init PROVE Service!Init
    OBVIOUS
  <2>1. \A c \in Client : Stage(c) = "idle"
    BY DEF Init, Stage
  <2>2. ServiceState = "open"
    BY DEF Init, ServiceState, ShutdownSent, Elements
  <2> QED
    BY <2>1, <2>2 DEF Init, Service!Init
<1> QED
  BY <1>1, NextServes, Invariant, AlwaysStopping, PTL DEF Spec, Service!Spec
=============================================================================
