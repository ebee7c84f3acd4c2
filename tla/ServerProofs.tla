----------------------------- MODULE ServerProofs -----------------------------
(***************************************************************************)
(* For any number of workers, ports, clients and signals, wherever a       *)
(* signal lands: workers and the queue are freed after their last use, the *)
(* ports that were bound are polled, and a connection has one owner from   *)
(* accept to connection_free.                                              *)
(***************************************************************************)
EXTENDS Server, TLAPS

-----------------------------------------------------------------------------
(* The queue *)

\* The threads of the process and of the handler are different ones.
LEMMA Distinct ==
  /\ NThreads \in Nat /\ NThreads >= 1 /\ NPorts \in Nat /\ NPorts >= 1
  /\ Main \notin Workers /\ Handler \notin Workers /\ Main # Handler
  /\ Main \in Q!Threads /\ Handler \in Q!Threads /\ Workers \subseteq Q!Threads
<1>1. NThreads \in Nat \ {0} /\ NPorts \in Nat \ {0}
  BY ServerAssumption, Zenon DEF ServerAssumption
<1>2. Main \notin Workers /\ Handler \notin Workers /\ Main # Handler
  BY <1>1 DEF Main, Handler, Workers
<1>. QED
  BY <1>1, <1>2 DEF Q!Threads

\* pc is a function on the threads, whatever its values.
Places(f) == f = [t \in Q!Threads |-> f[t]]

\* In a step of thread t nobody else leaves or enters the queue.
Alone(t) ==
    /\ Places(pc')
    /\ \A u \in Q!Threads \ {t} : pc[u] = "idle" <=> pc'[u] = "idle"

\* A step of message_queue_push
LEMMA PushAlone ==
  ASSUME Places(pc), (\E v : Q!Push(Main, v)) \/ Q!PushStep(Main)
  PROVE  Alone(Main)
<1>1. Main \in Q!Threads
  BY Zenon DEF Q!Threads
<1>2. CASE Q!PushSignal(Main)
  BY <1>1, <1>2, Zenon DEF Alone, Places, Q!PushSignal, Q!Waiting, Q!At
<1>. QED
  BY <1>1, <1>2 DEF Alone, Places, Q!Push, Q!PushStep, Q!PushLock, Q!PushAdd, Q!PushUnlock,
     Q!Lock, Q!Unlock, Q!At, Q!Goto

\* A step of message_queue_pop
LEMMA PopAlone ==
  ASSUME NEW w \in Workers, Places(pc), Q!Pop(w) \/ Q!PopStep(w) \/ Q!SpuriousWakeup(w)
  PROVE  Alone(w)
<1>1. w \in Q!Threads
  BY Zenon DEF Q!Threads
<1>. QED
  BY <1>1 DEF Alone, Places, Q!Pop, Q!PopStep, Q!PopLock, Q!PopGiveUp, Q!PopRemove, Q!PopWait,
     Q!PopReacquire, Q!PopUnlock, Q!SpuriousWakeup, Q!Lock, Q!Unlock, Q!At, Q!Goto

\* A step of message_queue_unlock
LEMMA CloseAlone ==
  ASSUME Places(pc), Q!Close(Handler) \/ Q!CloseStep(Handler)
  PROVE  Alone(Handler)
<1>1. Handler \in Q!Threads
  BY Zenon DEF Q!Threads
<1>2. CASE Q!CloseBroadcast(Handler)
  BY <1>1, <1>2, Zenon DEF Alone, Places, Q!CloseBroadcast, Q!Waiting, Q!At
<1>. QED
  BY <1>1, <1>2 DEF Alone, Places, Q!Close, Q!CloseStep, Q!CloseLock, Q!CloseSet, Q!CloseUnlock,
     Q!Lock, Q!Unlock, Q!At, Q!Goto

-----------------------------------------------------------------------------
(* The invariant *)

\* Threads that server_start has not created yet have done nothing.
Unspawned ==
    /\ main \in {"start", "queue", "pool"} => \A w \in Workers : work[w] = "none"
    /\ main = "spawn" => \A w \in Workers : w >= index => work[w] = "none"
    /\ main = "store" => \A w \in Workers : w > index => work[w] = "none"

\* Only a worker inside message_queue_pop uses the queue.
OutsideQueue == \A w \in Workers : work[w] # "popping" => pc[w] = "idle"

IInv ==
    /\ Places(pc)
    /\ work = [w \in Workers |-> work[w]]
    /\ index \in Nat /\ slot \in 1..(NThreads + 1)
    /\ Unspawned
    /\ OutsideQueue
    /\ FreedAfterExit

\* Before server_start
LEMMA IInvInit == Init => IInv
<1>1. NThreads \in Nat
  BY ServerAssumption, Zenon DEF ServerAssumption
<1>2. \A w \in Workers : w \in Q!Threads
  BY Zenon DEF Q!Threads
<1>. QED
  BY <1>1, <1>2 DEF Init, Q!Init, IInv, Places, Unspawned, OutsideQueue, FreedAfterExit

\* A step that moves no worker and leaves the queue and the handler alone
LEMMA QuietStep ==
  ASSUME IInv, proc = "running", proc' # "clean", Unspawned', index' \in Nat,
         UNCHANGED <<work, handler, slot>>, Places(pc'),
         \A w \in Workers : pc[w] = "idle" => pc'[w] = "idle"
  PROVE  IInv'
BY Zenon DEF IInv, OutsideQueue, FreedAfterExit

\* server_start and server_acceptConnections
LEMMA MainKeeps ==
  ASSUME IInv, MainStep
  PROVE  IInv'
<1>1. proc = "running" /\ handler = "off" /\ NThreads \in Nat /\ index \in Nat
  BY ServerAssumption DEF ServerAssumption, MainStep, MainAt, InstallHandlers, CreateQueue, CreatePool,
     SpawnWorker, StoreWorker, PoolComplete, Listen, StartAccepting, Poll, Accept, NextPort,
     Handshake, HandshakeShutdown, BeginPush, Pushing, IInv
<1>2. \A w \in Workers : w # Main /\ w \in Q!Threads
  BY <1>1 DEF Workers, Main, Q!Threads
<1>3. CASE SpawnWorker
  <2>1. CASE Exit("failure")
    BY <1>1, <1>3, <2>1, QuietStep, Zenon
       DEF Exit, queueVars, mainVars, workerVars, signalVars, Unspawned, IInv
  <2>2. CASE /\ main' = "store" /\ work' = [work EXCEPT ![index] = "loop"]
             /\ UNCHANGED <<pc, proc, index, handler, slot>>
    <3>1. index \in Workers => work[index] = "none"
      BY <1>3 DEF SpawnWorker, MainAt, IInv, Unspawned
    <3>2. Unspawned'
      BY <1>1, <1>3, <2>2 DEF SpawnWorker, MainAt, IInv, Unspawned, Workers
    <3>3. OutsideQueue'
      BY <2>2, <3>1, Zenon DEF IInv, OutsideQueue
    <3>4. FreedAfterExit'
      BY <1>1, <2>2, Zenon DEF FreedAfterExit
    <3>. QED
      BY <2>2, <3>2, <3>3, <3>4, Zenon DEF IInv, Places
  <2>. QED
    BY <1>3, <2>1, <2>2, Zenon DEF SpawnWorker, queueVars, signalVars
<1>4. CASE BeginPush \/ Pushing
  <2>1. Alone(Main)
    BY <1>4, PushAlone, Zenon DEF BeginPush, Pushing, IInv
  <2>2. UNCHANGED <<work, handler, slot, proc, index>> /\ main' \in {"pushing", "accept"}
    BY <1>4, Zenon DEF BeginPush, Pushing, workerVars, signalVars
  <2>. QED
    BY <1>1, <1>2, <2>1, <2>2, QuietStep, Zenon DEF Alone, Unspawned
<1>5. CASE \/ InstallHandlers \/ CreateQueue \/ CreatePool \/ StoreWorker \/ PoolComplete
           \/ Listen \/ StartAccepting \/ Poll \/ Accept \/ NextPort
           \/ Handshake \/ HandshakeShutdown
  <2>1. UNCHANGED <<pc, work, handler, slot>> /\ proc' # "clean" /\ index' \in Nat
    <3>1. UNCHANGED <<pc, work, handler, slot>>
      BY <1>5 DEF InstallHandlers, CreateQueue, CreatePool, StoreWorker, PoolComplete,
         Listen, StartAccepting, Poll, Accept, NextPort, Handshake, HandshakeShutdown,
         Exit, queueVars, workerVars, signalVars
    <3>2. proc' \in {proc, "failure", "fatal", "crashed"}
      BY <1>5 DEF InstallHandlers, CreateQueue, CreatePool, StoreWorker, PoolComplete,
         Listen, StartAccepting, Poll, Accept, NextPort, Handshake, HandshakeShutdown, Exit
    <3>3. index' \in {index, index + 1, 1}
      BY <1>5 DEF InstallHandlers, CreateQueue, CreatePool, StoreWorker, PoolComplete,
         Listen, StartAccepting, Poll, Accept, NextPort, Handshake, HandshakeShutdown,
         Exit, mainVars
    <3>. QED
      BY <1>1, <3>1, <3>2, <3>3
  <2>2. Unspawned'
    <3>1. CASE InstallHandlers \/ CreateQueue \/ CreatePool \/ StoreWorker \/ PoolComplete
      BY <1>1, <2>1, <3>1 DEF InstallHandlers, CreateQueue, CreatePool, StoreWorker, PoolComplete,
         MainAt, Exit, mainVars, IInv, Unspawned, Workers
    <3>2. CASE \/ Listen \/ StartAccepting \/ Poll \/ Accept \/ NextPort
               \/ Handshake \/ HandshakeShutdown
      <4>1. main' \in {"listen", "poll", "accept", "tls", "push"}
        BY <3>2 DEF Listen, StartAccepting, Poll, Accept, NextPort, Handshake,
           HandshakeShutdown, MainAt, Exit, mainVars
      <4>. QED
        BY <4>1, Zenon DEF Unspawned
    <3>. QED
      BY <1>5, <3>1, <3>2, Zenon
  <2>. QED
    BY <1>1, <2>1, <2>2, QuietStep, Zenon DEF IInv, Places
<1>. QED
  BY <1>3, <1>4, <1>5, Zenon DEF MainStep

\* worker_entryPoint: a worker that has exited stays so.
LEMMA WorkerKeeps ==
  ASSUME IInv, NEW w \in Workers, WorkerStep(w) \/ WorkerSpuriousWakeup(w)
  PROVE  IInv'
<1>1. /\ proc = "running" /\ work[w] \notin {"none", "exited"}
      /\ UNCHANGED <<proc, main, index, handler, slot>>
  BY DEF WorkerStep, WorkerPop, WorkerPopping, WorkerPopped, WorkerServe, WorkerSpuriousWakeup,
     WorkerAt, mainVars, signalVars
<1>2. Places(pc') /\ \A u \in Workers \ {w} : pc[u] = "idle" => pc'[u] = "idle"
  <2>1. CASE UNCHANGED pc
    BY <2>1, Zenon DEF IInv, Places
  <2>2. CASE Q!Pop(w) \/ Q!PopStep(w) \/ Q!SpuriousWakeup(w)
    BY <2>2, PopAlone, Zenon DEF IInv, Alone, Q!Threads
  <2>. QED
    BY <2>1, <2>2 DEF WorkerStep, WorkerPop, WorkerPopping, WorkerPopped, WorkerServe,
       WorkerSpuriousWakeup, queueVars
<1>3. /\ work' = [u \in Workers |-> work'[u]]
      /\ \A u \in Workers \ {w} : work'[u] = work[u]
      /\ work'[w] # "popping" => pc'[w] = "idle"
  <2>1. CASE WorkerPop(w)
    BY <2>1, Zenon DEF WorkerPop, IInv
  <2>2. CASE WorkerPopping(w)
    BY <2>2, Zenon DEF WorkerPopping, WorkerAt, IInv
  <2>3. CASE WorkerPopped(w)
    BY <2>3, Zenon DEF WorkerPopped, WorkerAt, queueVars, IInv, OutsideQueue
  <2>4. CASE WorkerServe(w)
    BY <2>4, Zenon DEF WorkerServe, WorkerAt, queueVars, IInv, OutsideQueue
  <2>5. CASE WorkerSpuriousWakeup(w)
    BY <2>5, Zenon DEF WorkerSpuriousWakeup, WorkerAt, workerVars, IInv
  <2>. QED
    BY <2>1, <2>2, <2>3, <2>4, <2>5, Zenon DEF WorkerStep
<1>4. Unspawned'
  BY <1>1, <1>3, Zenon DEF IInv, Unspawned
<1>5. OutsideQueue'
  BY <1>2, <1>3, Zenon DEF IInv, OutsideQueue
<1>6. FreedAfterExit'
  <2>1. \A u \in 1..(slot - 1) : u \in Workers
    <3>1. NThreads \in Nat /\ slot \in 1..(NThreads + 1)
      BY ServerAssumption, Zenon DEF ServerAssumption, IInv
    <3>. QED
      BY <3>1 DEF Workers
  <2>. QED
    BY <1>1, <1>3, <2>1, Zenon DEF IInv, FreedAfterExit
<1>. QED
  BY <1>1, <1>2, <1>3, <1>4, <1>5, <1>6, Zenon DEF IInv

\* server_closeGracefully waits for each worker before it frees it, and for
\* all of them before it frees the queue.
LEMMA HandlerKeeps ==
  ASSUME IInv, HandlerStep \/ Deliver \/ DeliverAgain
  PROVE  IInv'
<1>1. proc = "running" /\ NThreads \in Nat /\ slot \in 1..(NThreads + 1)
  BY ServerAssumption DEF ServerAssumption, IInv, HandlerStep, Deliver, DeliverAgain, HandlerAt,
     ReplaceHandlers, CloseSockets, SuspendWorker, BeginUnlock, Unlocking, JoinWorker, FreeAndExit
<1>2. UNCHANGED <<work, main, index>>
  BY DEF HandlerStep, Deliver, DeliverAgain, ReplaceHandlers, CloseSockets, SuspendWorker,
     BeginUnlock, Unlocking, JoinWorker, FreeAndExit, Exit, mainVars, workerVars
<1>3. Unspawned'
  BY <1>2, Zenon DEF IInv, Unspawned
<1>4. Places(pc') /\ \A w \in Workers : pc[w] = "idle" => pc'[w] = "idle"
  <2>1. CASE UNCHANGED pc
    BY <2>1, Zenon DEF IInv, Places
  <2>2. CASE BeginUnlock \/ Unlocking
    <3>1. Alone(Handler)
      BY <2>2, CloseAlone, Zenon DEF BeginUnlock, Unlocking, IInv
    <3>2. \A w \in Workers : w # Handler /\ w \in Q!Threads
      BY <1>1 DEF Workers, Handler, Q!Threads
    <3>. QED
      BY <3>1, <3>2, Zenon DEF Alone
  <2>. QED
    BY <2>1, <2>2 DEF HandlerStep, Deliver, DeliverAgain, ReplaceHandlers, CloseSockets,
       SuspendWorker, JoinWorker, FreeAndExit, Exit, queueVars
<1>5. OutsideQueue'
  BY <1>2, <1>4, Zenon DEF IInv, OutsideQueue
<1>6. slot' \in 1..(NThreads + 1) /\ FreedAfterExit'
  <2>1. CASE JoinWorker
    <3>1. /\ slot' = slot + 1 /\ slot <= NThreads /\ work[slot] = "exited" /\ handler = "join"
          /\ UNCHANGED <<work, proc, handler>>
      BY <2>1, Zenon DEF JoinWorker, HandlerAt
    <3>2. \A w \in 1..(slot' - 1) : w = slot \/ w \in 1..(slot - 1)
      BY <1>1, <3>1
    <3>3. \A w \in 1..(slot - 1) : work[w] = "exited"
      BY <3>1, Zenon DEF IInv, FreedAfterExit
    <3>4. slot' \in 1..(NThreads + 1) /\ proc' # "clean"
      BY <1>1, <3>1
    <3>. QED
      BY <3>1, <3>2, <3>3, <3>4, Zenon DEF FreedAfterExit
  <2>2. CASE FreeAndExit
    <3>1. /\ slot > NThreads /\ handler = "join" /\ UNCHANGED <<work, pc, handler, slot>>
      BY <2>2, Zenon DEF FreeAndExit, HandlerAt, queueVars, workerVars, signalVars
    <3>2. \A w \in Workers : w \in 1..(slot - 1)
      BY <1>1, <3>1 DEF Workers
    <3>. QED
      BY <1>1, <3>1, <3>2, Zenon DEF IInv, FreedAfterExit, OutsideQueue
  <2>3. CASE Unlocking
    <3>1. slot' = 1 /\ proc' = proc
      BY <2>3, Zenon DEF Unlocking
    <3>. QED
      BY <1>1, <3>1 DEF FreedAfterExit
  <2>4. CASE \/ ReplaceHandlers \/ CloseSockets \/ SuspendWorker \/ BeginUnlock
             \/ Deliver \/ DeliverAgain
    <3>1. slot' \in {slot, 1} \/ (slot' = slot + 1 /\ slot <= NThreads)
      <4>1. CASE SuspendWorker
        BY <4>1, Zenon DEF SuspendWorker, Exit, signalVars
      <4>2. CASE CloseSockets
        BY <4>2, Zenon DEF CloseSockets
      <4>3. CASE ReplaceHandlers \/ BeginUnlock \/ Deliver \/ DeliverAgain
        BY <4>3, Zenon DEF ReplaceHandlers, BeginUnlock, Deliver, DeliverAgain
      <4>. QED
        BY <2>4, <4>1, <4>2, <4>3, Zenon
    <3>2. proc' \in {"running", "crashed", "closed twice"}
      BY <1>1, <2>4 DEF ReplaceHandlers, CloseSockets, SuspendWorker, BeginUnlock, Deliver,
         DeliverAgain, Exit
    <3>3. handler' = "join" => handler = "join" /\ slot' = slot
      BY <2>4 DEF ReplaceHandlers, CloseSockets, SuspendWorker, BeginUnlock, Deliver, DeliverAgain,
         HandlerAt, Exit, signalVars
    <3>. QED
      <4>1. slot' \in 1..(NThreads + 1)
        BY <1>1, <3>1
      <4>2. handler' = "join" => \A w \in 1..(slot' - 1) : work'[w] = "exited"
        BY <1>2, <3>3, Zenon DEF IInv, FreedAfterExit
      <4>. QED
        BY <3>2, <4>1, <4>2, Zenon DEF FreedAfterExit
  <2>. QED
    BY <2>1, <2>2, <2>3, <2>4, Zenon DEF HandlerStep
<1>. QED
  BY <1>2, <1>3, <1>4, <1>5, <1>6, Zenon DEF IInv

\* Every step keeps the invariant.
LEMMA IInvStep == IInv /\ [Next]_vars => IInv'
<1>. SUFFICES ASSUME IInv, [Next]_vars PROVE IInv'
  OBVIOUS
<1>1. CASE MainStep
  BY <1>1, MainKeeps, Zenon
<1>2. CASE \E w \in Workers : WorkerStep(w) \/ WorkerSpuriousWakeup(w)
  BY <1>2, WorkerKeeps, Zenon
<1>3. CASE HandlerStep \/ Deliver \/ DeliverAgain
  BY <1>3, HandlerKeeps, Zenon
<1>4. CASE (\E c \in Connections, i \in Ports : Connect(c, i)) \/ SendSignal \/ UNCHANGED vars
  <2>1. UNCHANGED <<pc, work, main, index, handler, slot, proc>>
    BY <1>4, Zenon DEF Connect, SendSignal, vars, queueVars, mainVars, workerVars, signalVars
  <2>. QED
    BY <2>1, Zenon DEF IInv, Places, Unspawned, OutsideQueue, FreedAfterExit
<1>. QED
  BY <1>1, <1>2, <1>3, <1>4, Zenon DEF Next, Ended

\* For any number of workers and wherever signals land: server_closeGracefully
\* frees a worker after its thread has exited, and the pool and the queue
\* after all of them have, with nobody left inside message_queue_pop.
THEOREM FreedAfterUse == Spec => []FreedAfterExit
<1>1. IInv => FreedAfterExit
  BY Zenon DEF IInv
<1>. QED
  BY <1>1, IInvInit, IInvStep, PTL DEF Spec

-----------------------------------------------------------------------------
(* The ports that are polled *)

\* A run of bound ports from the first one on is never longer than the counter.
\* The sockets are open until the handler has closed the first `count` ones.
Bound ==
    /\ descriptor \in [Ports -> BOOLEAN]
    /\ index \in Nat \ {0}
    /\ count \in Nat
    /\ main \in {"start", "queue", "pool", "spawn", "store"}
          => \A i \in Ports : ~descriptor[i]
    /\ main = "listen" => \A i \in Ports : descriptor[i] => i < index
    /\ \A n \in Ports : (\A i \in 1..n : descriptor[i]) => n <= count
    /\ listening = IF handler \in {"off", "enter", "sockets"}
                   THEN {i \in Ports : descriptor[i]}
                   ELSE {i \in Ports : descriptor[i] /\ i > count}

\* server_closeGracefully, the clients, and whoever sends signals
Others ==
    \/ HandlerStep \/ Deliver \/ DeliverAgain \/ SendSignal \/ UNCHANGED vars
    \/ \E c \in Connections, i \in Ports : Connect(c, i)

\* Steps that bind or close no socket and stay before or after the binding
LEMMA BoundKept ==
  ASSUME Bound, UNCHANGED <<descriptor, count, listening>>, index' \in Nat \ {0},
         main' # "listen",
         main' \in {"start", "queue", "pool", "spawn", "store"}
            => main \in {"start", "queue", "pool", "spawn", "store"},
         handler' \in {"off", "enter", "sockets"} <=> handler \in {"off", "enter", "sockets"}
  PROVE  Bound'
BY Zenon DEF Bound

\* server_start and server_acceptConnections
LEMMA MainBinds ==
  ASSUME Bound, MainStep
  PROVE  Bound'
<1>0. index' \in Nat \ {0}
  <2>1. index' \in {1, index, index + 1}
    BY Zenon DEF MainStep, InstallHandlers, CreateQueue, CreatePool, SpawnWorker, StoreWorker,
       PoolComplete, Listen, StartAccepting, Poll, Accept, NextPort, Handshake,
       HandshakeShutdown, BeginPush, Pushing, Exit, mainVars
  <2>. QED
    BY <2>1 DEF Bound
<1>. handler' = handler
  BY Zenon DEF MainStep, InstallHandlers, CreateQueue, CreatePool, SpawnWorker, StoreWorker,
     PoolComplete, Listen, StartAccepting, Poll, Accept, NextPort, Handshake, HandshakeShutdown,
     BeginPush, Pushing, Exit, signalVars
<1>1. CASE Listen
  <2>. index \in Ports /\ index' = index + 1 /\ main = "listen" /\ main' = main /\ handler = "off"
    BY <1>1, Distinct DEF Listen, MainAt, Bound, Ports
  <2>. descriptor \in [Ports -> BOOLEAN]
    BY Zenon DEF Bound
  <2>. count \in Nat
    BY Zenon DEF Bound
  <2>1. ASSUME UNCHANGED <<descriptor, count, listening>>
        PROVE  Bound'
    BY <2>1, Distinct DEF Bound, Ports
  <2>2. ASSUME descriptor' = [descriptor EXCEPT ![index] = TRUE], count' = count + 1,
               listening' = listening \union {index}
        PROVE  Bound'
    <3>1. \A i \in Ports : descriptor'[i] <=> descriptor[i] \/ i = index
      BY <2>2, Zenon
    <3>2. \A i \in Ports : descriptor'[i] => i < index'
      BY <3>1, Distinct DEF Bound, Ports
    <3>3. ASSUME NEW n \in Ports, \A i \in 1..n : descriptor'[i]
          PROVE  n <= count'
      <4>1. n < index + 1 /\ n \in 1..n
        BY <3>2, <3>3, Distinct DEF Ports
      <4>2. CASE n < index
        <5>. \A i \in 1..n : descriptor[i]
          BY <3>1, <3>3, <4>2, Distinct DEF Ports
        <5>. QED
          BY <2>2, Distinct DEF Bound, Ports
      <4>3. CASE n = index /\ index > 1
        <5>. \A i \in 1..(n - 1) : descriptor[i]
          BY <3>1, <3>3, <4>3, Distinct DEF Ports
        <5>. n - 1 \in Ports
          BY <4>3, Distinct DEF Ports
        <5>. n - 1 <= count
          BY Zenon DEF Bound
        <5>. QED
          BY <2>2, Distinct DEF Ports
      <4>. QED
        BY <2>2, <4>1, <4>2, <4>3, Distinct DEF Ports
    <3>4. listening' = {i \in Ports : descriptor'[i]}
      BY <2>2, <3>1, Zenon DEF Bound
    <3>5. descriptor' \in [Ports -> BOOLEAN] /\ count' \in Nat
      BY <2>2
    <3>. QED
      BY <1>0, <3>2, <3>3, <3>4, <3>5, Zenon DEF Bound
  <2>. QED
    BY <1>1, <2>1, <2>2, Zenon DEF Listen
<1>2. CASE PoolComplete
  BY <1>2 DEF PoolComplete, MainAt, Bound, clientVars
<1>3. ASSUME MainStep, ~Listen, ~PoolComplete
      PROVE  /\ UNCHANGED <<descriptor, count, listening>>
             /\ main' = "listen" => main = "listen" /\ UNCHANGED <<main, index>>
             /\ main' \in {"start", "queue", "pool", "spawn", "store"}
                   => main \in {"start", "queue", "pool", "spawn", "store"}
  <2>1. CASE InstallHandlers \/ CreateQueue \/ CreatePool \/ SpawnWorker \/ StoreWorker
    BY <2>1 DEF InstallHandlers, CreateQueue, CreatePool, SpawnWorker, StoreWorker, Exit, MainAt,
       mainVars, clientVars
  <2>2. CASE StartAccepting \/ Poll \/ NextPort \/ Handshake \/ HandshakeShutdown
    BY <2>2 DEF StartAccepting, Poll, NextPort, Handshake, HandshakeShutdown, Exit, MainAt,
       mainVars, clientVars
  <2>3. CASE Accept
    BY <2>3, Zenon DEF Accept, MainAt
  <2>4. CASE BeginPush \/ Pushing
    BY <2>4, Zenon DEF BeginPush, Pushing, MainAt, clientVars
  <2>. QED
    BY <1>3, <2>1, <2>2, <2>3, <2>4, Zenon DEF MainStep
<1>4. CASE main' # "listen" /\ ~Listen /\ ~PoolComplete
  BY <1>0, <1>3, <1>4, BoundKept, Zenon
<1>5. CASE main' = "listen" /\ ~Listen /\ ~PoolComplete
  BY <1>3, <1>5, Zenon DEF Bound
<1>. QED
  BY <1>1, <1>2, <1>4, <1>5, Zenon

\* server_closeGracefully, the workers and the environment
LEMMA OthersBind ==
  ASSUME Bound, Others \/ \E w \in Workers : WorkerStep(w) \/ WorkerSpuriousWakeup(w)
  PROVE  Bound'
<1>. UNCHANGED <<descriptor, count, main, index>>
  BY DEF Others, HandlerStep, ReplaceHandlers, CloseSockets, SuspendWorker, BeginUnlock, Unlocking,
     JoinWorker, FreeAndExit, Deliver, DeliverAgain, SendSignal, Connect, WorkerStep, WorkerPop,
     WorkerPopping, WorkerSpuriousWakeup, WorkerPopped, WorkerServe, Exit, mainVars, vars
<1>1. CASE CloseSockets
  <2>. count \in Nat /\ handler = "sockets" /\ handler' = "suspend"
    BY <1>1, Zenon DEF CloseSockets, HandlerAt, Bound
  <2>. listening' = {i \in Ports : descriptor[i] /\ i > count}
    BY <1>1, Distinct DEF CloseSockets, Bound, Ports
  <2>. QED
    BY Zenon DEF Bound
<1>2. ASSUME ~CloseSockets
      PROVE  /\ listening' = listening
             /\ handler' \in {"off", "enter", "sockets"} <=> handler \in {"off", "enter", "sockets"}
  BY <1>2 DEF Others, HandlerStep, ReplaceHandlers, SuspendWorker, BeginUnlock, Unlocking,
     JoinWorker, FreeAndExit, Deliver, DeliverAgain, SendSignal, Connect, WorkerStep, WorkerPop,
     WorkerPopping, WorkerSpuriousWakeup, WorkerPopped, WorkerServe, Exit, HandlerAt, clientVars,
     signalVars, vars
<1>. QED
  BY <1>1, <1>2, Zenon DEF Bound

\* For any number of ports and whichever of them fail to bind: when the ports
\* that are open are the first ones, server_acceptConnections polls them all.
THEOREM BoundPolled == Spec => []AllBoundPolled
<1>1. Init => Bound
  BY DEF Init, Bound, Ports
<1>2. Bound /\ [Next]_vars => Bound'
  BY MainBinds, OthersBind, Zenon DEF Next, Ended, Others
<1>3. Bound => AllBoundPolled
  <2>. SUFFICES ASSUME Bound, NEW n \in 0..NPorts, listening = 1..n,
                       NEW i \in Ports, descriptor[i]
                PROVE  i <= count
    BY Zenon DEF AllBoundPolled
  <2>. count \in Nat
    BY Zenon DEF Bound
  <2>1. CASE handler \in {"off", "enter", "sockets"}
    <3>1. i <= n /\ n \in Ports /\ \A j \in 1..n : descriptor[j]
      BY <2>1, Distinct DEF Bound, Ports
    <3>. QED
      BY <3>1, Distinct DEF Bound, Ports
  <2>2. CASE handler \notin {"off", "enter", "sockets"} /\ i > count
    <3>1. i \in 1..n
      BY <2>2, Zenon DEF Bound
    <3>2. 1 \in 1..n
      BY <3>1, Distinct DEF Ports
    <3>3. 1 \in Ports /\ descriptor[1] /\ 1 > count
      BY <2>2, <3>2, Zenon DEF Bound
    <3>. QED
      BY <3>3 DEF Bound, Ports
  <2>. QED
    BY <2>1, <2>2, Distinct DEF Ports
<1>. QED
  BY <1>1, <1>2, <1>3, PTL DEF Spec

-----------------------------------------------------------------------------
(* Ownership: types *)

\* The first of a list
LEMMA FirstOf ==
  ASSUME NEW S, NEW s \in Seq(S), s # <<>>
  PROVE  Head(s) \in S
OBVIOUS

\* The queue keeps its types.
LEMMA QueueTypes ==
  ASSUME Q!TypeOK, Q!Next
  PROVE  Q!TypeOK'
<1>. USE Distinct DEF Q!TypeOK, Q!Threads, Q!ProducerPc, Q!ConsumerPc, Q!CloserPc, Q!At, Q!Goto
<1>1. ASSUME NEW v \in Connections, Q!Push(Main, v) PROVE Q!TypeOK'
  BY <1>1, Zenon DEF Q!Push
<1>2. CASE Q!PushLock(Main)
  BY <1>2, Zenon DEF Q!PushLock, Q!Lock
<1>3. CASE Q!PushAdd(Main)
  BY <1>3 DEF Q!PushAdd
<1>4. CASE Q!PushSignal(Main)
  BY <1>4, Zenon DEF Q!PushSignal, Q!Waiting
<1>5. CASE Q!PushUnlock(Main)
  BY <1>5, Zenon DEF Q!PushUnlock, Q!Unlock
<1>6. ASSUME NEW w \in Workers, Q!Pop(w) PROVE Q!TypeOK'
  BY <1>6, Zenon DEF Q!Pop
<1>7. ASSUME NEW w \in Workers, Q!PopLock(w) PROVE Q!TypeOK'
  BY <1>7, Zenon DEF Q!PopLock, Q!Lock
<1>8. ASSUME NEW w \in Workers, Q!PopGiveUp(w) PROVE Q!TypeOK'
  BY <1>8, Zenon DEF Q!PopGiveUp
<1>9. ASSUME NEW w \in Workers, Q!PopRemove(w) PROVE Q!TypeOK'
  BY <1>9 DEF Q!PopRemove
<1>10. ASSUME NEW w \in Workers, Q!PopWait(w) PROVE Q!TypeOK'
  BY <1>10, Zenon DEF Q!PopWait, Q!Unlock
<1>11. ASSUME NEW w \in Workers, Q!SpuriousWakeup(w) PROVE Q!TypeOK'
  BY <1>11, Zenon DEF Q!SpuriousWakeup
<1>12. ASSUME NEW w \in Workers, Q!PopReacquire(w) PROVE Q!TypeOK'
  BY <1>12, Zenon DEF Q!PopReacquire, Q!Lock
<1>13. ASSUME NEW w \in Workers, Q!PopUnlock(w) PROVE Q!TypeOK'
  BY <1>13, Zenon DEF Q!PopUnlock, Q!Unlock
<1>14. CASE Q!Close(Handler)
  BY <1>14, Zenon DEF Q!Close
<1>15. CASE Q!CloseLock(Handler)
  BY <1>15, Zenon DEF Q!CloseLock, Q!Lock
<1>16. CASE Q!CloseSet(Handler)
  BY <1>16, Zenon DEF Q!CloseSet
<1>17. CASE Q!CloseBroadcast(Handler)
  BY <1>17, Zenon DEF Q!CloseBroadcast, Q!Waiting
<1>18. CASE Q!CloseUnlock(Handler)
  BY <1>18, Zenon DEF Q!CloseUnlock, Q!Unlock
<1>. QED
  BY <1>1, <1>2, <1>3, <1>4, <1>5, <1>6, <1>7, <1>8, <1>9, <1>10, <1>11,
     <1>12, <1>13, <1>14, <1>15, <1>16, <1>17, <1>18, Zenon
     DEF Q!Next, Q!PushStep, Q!PopStep, Q!CloseStep

MainTypes ==
    /\ proc \in {"running", "clean", "failure", "fatal", "crashed", "closed twice"}
    /\ main \in {"start", "queue", "pool", "spawn", "store", "listen", "poll",
                 "accept", "tls", "push", "pushing"}
    /\ queueMade \in BOOLEAN
    /\ current \in Connections \union {NULL}
    /\ descriptor \in [Ports -> BOOLEAN]

\* The loop counters of server_start and server_acceptConnections
Counters ==
    /\ index \in 1..(NThreads + NPorts + 1)
    /\ count \in 0..NPorts
    /\ pool \subseteq Workers
    /\ ready \subseteq Ports
    /\ main \in {"start", "queue", "pool", "spawn", "store"} => count = 0
    /\ main = "store" => index <= NThreads
    /\ main = "listen" => index <= NPorts + 1 /\ count < index
    /\ main \in {"poll", "accept", "tls", "push", "pushing"} => count >= 1
    /\ main \in {"accept", "tls", "push", "pushing"} => index <= count

WorkerTypes ==
    /\ work \in [Workers -> {"none", "loop", "popping", "popped", "working", "exited"}]
    /\ shouldRun \in [Workers -> BOOLEAN]
    /\ connection \in [Workers -> Connections \union {NULL}]

ClientTypes ==
    /\ listening \subseteq Ports
    /\ backlog \in [Ports -> SUBSET Connections]
    /\ fate \in [Connections -> {"new", "waiting", "accepted", "served", "closed",
                                 "leaked", "dropped", "refused"}]

SignalTypes ==
    /\ pending \in 0..MaxSignals /\ sent \in 0..MaxSignals
    /\ pending <= sent
    /\ handler \in {"off", "enter", "sockets", "suspend", "unlocking", "join"}

Types == Q!TypeOK /\ MainTypes /\ Counters /\ WorkerTypes /\ ClientTypes /\ SignalTypes

\* What a thread has at hand agrees with where it is.
Stages ==
    /\ current # NULL <=> main \in {"tls", "push"}
    /\ main # "pushing" => pc[Main] = "idle"
    /\ \A w \in Workers :
          /\ connection[w] # NULL => work[w] \in {"popped", "working", "exited"}
          /\ work[w] = "working" => connection[w] # NULL
          /\ pc[w] \in {"pop", "pop_locked", "pop_wait", "pop_woken"} => value[w] = NULL

\* server_start and server_acceptConnections keep the types.
LEMMA MainTyped ==
  ASSUME Types, Stages, MainStep
  PROVE  Types'
<1>1. Q!TypeOK'
  <2>1. CASE BeginPush
    <3>1. current \in Connections
      BY <2>1, Zenon DEF BeginPush, MainAt, Types, MainTypes, Stages
    <3>. QED
      BY <2>1, <3>1, QueueTypes, Zenon DEF BeginPush, Types, Q!Next
  <2>2. CASE Pushing
    BY <2>2, QueueTypes, Zenon DEF Pushing, Types, Q!Next
  <2>3. CASE UNCHANGED queueVars
    BY <2>3, Zenon DEF queueVars, Types, Q!TypeOK
  <2>. QED
    BY <2>1, <2>2, <2>3, Zenon DEF MainStep, InstallHandlers, CreateQueue, CreatePool,
       SpawnWorker,
       StoreWorker, PoolComplete, Listen, StartAccepting, Poll, Accept, NextPort, Handshake,
       HandshakeShutdown, Exit
<1>2. MainTypes'
  <2>1. CASE Accept
    <3>1. backlog[index] \subseteq Connections
      BY <2>1, Zenon DEF Accept, Types, Counters, ClientTypes
    <3>. QED
      BY <2>1, <3>1, Zenon DEF Accept, Types, MainTypes
  <2>2. CASE Listen
    BY <2>2, Zenon DEF Listen, Types, MainTypes
  <2>3. CASE InstallHandlers \/ CreateQueue \/ CreatePool \/ SpawnWorker \/ StoreWorker \/ PoolComplete
    BY <2>3, Zenon DEF InstallHandlers, CreateQueue, CreatePool, SpawnWorker, StoreWorker,
       PoolComplete,
       Exit, mainVars, Types, MainTypes
  <2>4. CASE StartAccepting \/ Poll \/ NextPort \/ Handshake \/ HandshakeShutdown \/ BeginPush \/ Pushing
    BY <2>4, Zenon DEF StartAccepting, Poll, NextPort, Handshake, HandshakeShutdown,
       BeginPush, Pushing,
       Exit, mainVars, Types, MainTypes
  <2>. QED
    BY <2>1, <2>2, <2>3, <2>4, Zenon DEF MainStep
<1>3. Counters'
  <2>. USE Distinct DEF Counters, MainAt, Ports
  <2>. Counters
    BY Zenon DEF Types
  <2>1. CASE InstallHandlers \/ CreateQueue
    BY <2>1, Zenon DEF InstallHandlers, CreateQueue, Exit, mainVars
  <2>11. CASE CreatePool \/ PoolComplete
    <3>1. CASE Exit("failure")
      BY <3>1, Zenon DEF Exit, mainVars
    <3>2. CASE index' = 1 /\ main' = "spawn" /\ main = "pool" /\ UNCHANGED <<count, pool, ready>>
      BY <3>2
    <3>3. CASE index' = 1 /\ main' = "listen" /\ main = "spawn" /\ UNCHANGED <<count, pool, ready>>
      BY <3>3
    <3>. QED
      BY <2>11, <3>1, <3>2, <3>3, Zenon DEF CreatePool, PoolComplete
  <2>2. CASE SpawnWorker
    BY <2>2, Zenon DEF SpawnWorker, Exit, mainVars
  <2>12. CASE StoreWorker
    BY <2>12 DEF StoreWorker, Workers
  <2>3. CASE Listen
    BY <2>3 DEF Listen
  <2>4. CASE StartAccepting \/ HandshakeShutdown
    <3>1. CASE UNCHANGED mainVars
      BY <3>1, Zenon DEF mainVars
    <3>2. CASE count # 0 /\ main' = "poll" /\ UNCHANGED <<index, count, pool, ready>>
      BY <3>2
    <3>. QED
      BY <2>4, <3>1, <3>2, Zenon DEF StartAccepting, HandshakeShutdown, Exit
  <2>5. CASE Poll
    BY <2>5 DEF Poll
  <2>6. CASE NextPort
    BY <2>6 DEF NextPort
  <2>7. CASE Accept \/ Handshake \/ BeginPush \/ Pushing
    BY <2>7, Zenon DEF Accept, Handshake, BeginPush, Pushing
  <2>. QED
    BY <2>1, <2>11, <2>2, <2>12, <2>3, <2>4, <2>5, <2>6, <2>7, Zenon DEF MainStep
<1>4. WorkerTypes'
  <2>1. CASE SpawnWorker
    BY <2>1, Zenon DEF SpawnWorker, Exit, workerVars, Types, WorkerTypes
  <2>2. CASE UNCHANGED workerVars
    BY <2>2, Zenon DEF workerVars, Types, WorkerTypes
  <2>. QED
    BY <2>1, <2>2, Zenon DEF MainStep, InstallHandlers, CreateQueue, CreatePool,
       StoreWorker, PoolComplete, Listen, StartAccepting, Poll, Accept, NextPort, Handshake,
       HandshakeShutdown, BeginPush, Pushing, Exit
<1>5. ClientTypes'
  <2>1. CASE Listen
    <3>1. index \in Ports
      BY <2>1, Distinct DEF Listen, Ports, Types, Counters
    <3>. QED
      BY <2>1, <3>1, Zenon DEF Listen, Types, ClientTypes
  <2>2. CASE Accept
    <3>1. index \in Ports
      BY <2>2, Zenon DEF Accept, Types, Counters
    <3>. QED
      BY <2>2, <3>1 DEF Accept, Types, ClientTypes
  <2>3. CASE Handshake
    BY <2>3, Zenon DEF Handshake, Types, ClientTypes
  <2>4. CASE UNCHANGED clientVars
    BY <2>4, Zenon DEF clientVars, Types, ClientTypes
  <2>. QED
    BY <2>1, <2>2, <2>3, <2>4, Zenon
       DEF MainStep, InstallHandlers, CreateQueue, CreatePool, SpawnWorker,
       StoreWorker, PoolComplete, StartAccepting, Poll, NextPort, HandshakeShutdown,
       BeginPush, Pushing, Exit
<1>6. SignalTypes'
  <2>1. UNCHANGED signalVars
    BY Zenon DEF MainStep, InstallHandlers, CreateQueue, CreatePool, SpawnWorker,
       StoreWorker, PoolComplete, Listen, StartAccepting, Poll, Accept, NextPort, Handshake,
       HandshakeShutdown, BeginPush, Pushing, Exit
  <2>. QED
    BY <2>1, Zenon DEF signalVars, Types, SignalTypes
<1>. QED
  BY <1>1, <1>2, <1>3, <1>4, <1>5, <1>6, Zenon DEF Types

\* So does worker_entryPoint.
LEMMA WorkerTyped ==
  ASSUME Types, NEW w \in Workers, WorkerStep(w) \/ WorkerSpuriousWakeup(w)
  PROVE  Types'
<1>1. Q!TypeOK'
  <2>1. CASE UNCHANGED queueVars
    BY <2>1, Zenon DEF queueVars, Types, Q!TypeOK
  <2>2. CASE Q!Pop(w) \/ Q!PopStep(w) \/ Q!SpuriousWakeup(w)
    BY <2>2, QueueTypes, Zenon DEF Types, Q!Next
  <2>. QED
    BY <2>1, <2>2, Zenon DEF WorkerStep, WorkerPop, WorkerPopping, WorkerPopped,
       WorkerServe,
       WorkerSpuriousWakeup
<1>2. UNCHANGED <<proc, mainVars, signalVars>>
  BY DEF WorkerStep, WorkerPop, WorkerPopping, WorkerPopped, WorkerServe,
     WorkerSpuriousWakeup
<1>3. MainTypes' /\ Counters' /\ SignalTypes'
  <2>1. MainTypes'
    BY <1>2, Zenon DEF mainVars, Types, MainTypes
  <2>2. Counters'
    BY <1>2, Zenon DEF mainVars, Types, Counters
  <2>3. SignalTypes'
    BY <1>2, Zenon DEF signalVars, Types, SignalTypes
  <2>. QED
    BY <2>1, <2>2, <2>3, Zenon
<1>4. WorkerTypes'
  <2>1. value[w] \in Connections \union {NULL}
    BY Distinct, Zenon DEF Types, Q!TypeOK, Q!Threads
  <2>. QED
    BY <2>1 DEF WorkerStep, WorkerPop, WorkerPopping, WorkerPopped, WorkerServe,
       WorkerSpuriousWakeup, workerVars, Types, WorkerTypes
<1>5. ClientTypes'
  BY DEF WorkerStep, WorkerPop, WorkerPopping, WorkerPopped, WorkerServe,
     WorkerSpuriousWakeup,
     clientVars, Types, ClientTypes
<1>. QED
  BY <1>1, <1>3, <1>4, <1>5, Zenon DEF Types

\* So do server_closeGracefully, the clients and the signals.
LEMMA OthersTyped ==
  ASSUME Types, Others
  PROVE  Types'
<1>1. Q!TypeOK'
  <2>1. CASE BeginUnlock \/ Unlocking
    BY <2>1, QueueTypes, Zenon DEF BeginUnlock, Unlocking, Types, Q!Next
  <2>2. CASE UNCHANGED queueVars
    BY <2>2, Zenon DEF queueVars, Types, Q!TypeOK
  <2>. QED
    BY <2>1, <2>2, Zenon DEF Others, HandlerStep, ReplaceHandlers, CloseSockets,
       SuspendWorker,
       JoinWorker,
       FreeAndExit, Exit, Deliver, DeliverAgain, SendSignal, Connect, vars
<1>2. /\ UNCHANGED <<main, index, current, descriptor, count, ready>>
      /\ proc' \in {proc, "crashed", "closed twice", "clean"}
      /\ pool' \in {pool, {}} /\ queueMade' \in {queueMade, FALSE}
  BY Zenon DEF Others, HandlerStep, ReplaceHandlers, CloseSockets, SuspendWorker,
     BeginUnlock, Unlocking,
     JoinWorker, FreeAndExit, Exit, Deliver, DeliverAgain, SendSignal, Connect, vars,
     mainVars
<1>3. MainTypes'
  BY <1>2, Zenon DEF Types, MainTypes
<1>4. Counters'
  BY <1>2, Zenon DEF Types, Counters
<1>5. WorkerTypes'
  <2>1. CASE SuspendWorker
    BY <2>1, Zenon DEF SuspendWorker, Exit, workerVars, Types, WorkerTypes
  <2>2. CASE JoinWorker
    BY <2>2, Zenon DEF JoinWorker, Types, WorkerTypes
  <2>3. CASE UNCHANGED workerVars
    BY <2>3, Zenon DEF workerVars, Types, WorkerTypes
  <2>. QED
    BY <2>1, <2>2, <2>3, Zenon DEF Others, HandlerStep, ReplaceHandlers, CloseSockets,
       BeginUnlock,
       Unlocking,
       FreeAndExit, Deliver, DeliverAgain, SendSignal, Connect, vars
<1>6. ClientTypes'
  <2>1. CASE CloseSockets
    BY <2>1, Zenon DEF CloseSockets, Types, ClientTypes
  <2>2. CASE JoinWorker \/ FreeAndExit
    BY <2>2, Zenon DEF JoinWorker, FreeAndExit, Types, ClientTypes
  <2>3. CASE \E c \in Connections, i \in Ports : Connect(c, i)
    BY <2>3 DEF Connect, Types, ClientTypes
  <2>4. CASE UNCHANGED clientVars
    BY <2>4, Zenon DEF clientVars, Types, ClientTypes
  <2>. QED
    BY <2>1, <2>2, <2>3, <2>4, Zenon
       DEF Others, HandlerStep, ReplaceHandlers, SuspendWorker,
       BeginUnlock, Unlocking,
       Exit, Deliver, DeliverAgain, SendSignal, vars
<1>7. SignalTypes'
  <2>. MaxSignals \in Nat /\ SignalTypes
    BY ServerAssumption, Zenon DEF ServerAssumption, Types
  <2>1. CASE Deliver \/ DeliverAgain
    <3>1. /\ pending > 0 /\ pending' = pending - 1 /\ sent' = sent
          /\ handler' \in {handler, "enter"}
      BY <2>1, Zenon DEF Deliver, DeliverAgain
    <3>. QED
      BY <3>1 DEF SignalTypes
  <2>2. CASE SendSignal
    BY <2>2 DEF SendSignal, SignalTypes
  <2>3. CASE HandlerStep
    BY <2>3 DEF HandlerStep, ReplaceHandlers, CloseSockets, SuspendWorker, BeginUnlock,
       Unlocking,
       JoinWorker, FreeAndExit, Exit, signalVars, SignalTypes
  <2>4. CASE UNCHANGED signalVars
    BY <2>4, Zenon DEF signalVars, SignalTypes
  <2>. QED
    BY <2>1, <2>2, <2>3, <2>4, Zenon DEF Others, Connect, vars
<1>. QED
  BY <1>1, <1>3, <1>4, <1>5, <1>6, <1>7, Zenon DEF Types

-----------------------------------------------------------------------------
(* Owners *)

Users == {Main} \union Workers

\* A connection that is accepted has one place, a thread or the list.
Own ==
    \A c \in Connections :
        /\ \A t, u \in Users : Holds(t, c) /\ Holds(u, c) => t = u
        /\ \A i, j \in DOMAIN list : list[i] = c /\ list[j] = c => i = j
        /\ \A t \in Users, i \in DOMAIN list : Holds(t, c) => list[i] # c
        /\ fate[c] = "accepted" <=> \/ \E t \in Users : Holds(t, c)
                                    \/ \E i \in DOMAIN list : list[i] = c

\* Thread t and connection c aside, the threads hold what they held.
SameBut(t, c) ==
    \A u \in Users, d \in Connections :
        u # t \/ d # c => (Holds(u, d)' <=> Holds(u, d))

\* Connection c aside, the same connections are open.
OpenBut(c) ==
    \A d \in Connections \ {c} : fate'[d] = "accepted" <=> fate[d] = "accepted"

\* Nothing changes hands.
LEMMA SameOwner ==
  ASSUME Own, list' = list,
         \A u \in Users, d \in Connections : Holds(u, d)' <=> Holds(u, d),
         \A d \in Connections : fate'[d] = "accepted" <=> fate[d] = "accepted"
  PROVE  Own'
BY DEF Own

\* A connection is accepted.
LEMMA Gains ==
  ASSUME Own, NEW t \in Users, NEW c \in Connections, list' = list, SameBut(t, c), OpenBut(c),
         fate[c] # "accepted", fate'[c] = "accepted", Holds(t, c)'
  PROVE  Own'
BY DEF Own, SameBut, OpenBut

\* A connection is freed.
LEMMA Loses ==
  ASSUME Own, NEW t \in Users, NEW c \in Connections, list' = list, SameBut(t, c), OpenBut(c),
         Holds(t, c), ~ Holds(t, c)', fate'[c] # "accepted"
  PROVE  Own'
BY DEF Own, SameBut, OpenBut

\* list_addValue takes a connection over from a thread.
LEMMA Enqueues ==
  ASSUME Own, NEW t \in Users, NEW c \in Connections, list \in Seq(Connections),
         list' = Append(list, c), SameBut(t, c), fate' = fate, Holds(t, c), ~ Holds(t, c)'
  PROVE  Own'
<1>1. /\ Len(list) \in Nat /\ DOMAIN list = 1..Len(list) /\ DOMAIN list' = 1..(Len(list) + 1)
      /\ \A i \in 1..Len(list) : list'[i] = list[i]
      /\ list'[Len(list) + 1] = c
  OBVIOUS
<1>2. DOMAIN list' = DOMAIN list \union {Len(list) + 1} /\ Len(list) + 1 \notin DOMAIN list
  BY <1>1
<1>3. \A i \in DOMAIN list : list'[i] = list[i] /\ list[i] # c
  BY <1>1, Zenon DEF Own
<1>. HIDE DEF Holds
<1>. QED
  BY <1>1, <1>2, <1>3 DEF Own, SameBut

\* list_removeValue hands the first one to a thread.
LEMMA Dequeues ==
  ASSUME Own, NEW t \in Users, NEW c \in Connections, list \in Seq(Connections), list # <<>>,
         c = Head(list), list' = Tail(list), SameBut(t, c), fate' = fate, Holds(t, c)'
  PROVE  Own'
<1>1. /\ Len(list) \in Nat /\ Len(list) >= 1 /\ DOMAIN list = 1..Len(list)
      /\ DOMAIN list' = 1..(Len(list) - 1)
      /\ \A i \in DOMAIN list' : list'[i] = list[i + 1] /\ i + 1 \in DOMAIN list
      /\ list[1] = c
  OBVIOUS
<1>2. \A i \in DOMAIN list' : list'[i] # c
  BY <1>1 DEF Own
<1>3. \A i \in DOMAIN list : i = 1 \/ \E j \in DOMAIN list' : list'[j] = list[i]
  <2>1. \A i \in DOMAIN list : i = 1 \/ i - 1 \in DOMAIN list'
    BY <1>1
  <2>. QED
    BY <1>1, <2>1
<1>4. ASSUME NEW d \in Connections PROVE
        \A i, j \in DOMAIN list' : list'[i] = d /\ list'[j] = d => i = j
  BY <1>1 DEF Own
<1>5. ASSUME NEW d \in Connections PROVE
        (\E i \in DOMAIN list : list[i] = d) <=> d = c \/ \E i \in DOMAIN list' : list'[i] = d
  BY <1>1, <1>3
<1>6. ASSUME NEW d \in Connections, NEW u \in Users, NEW i \in DOMAIN list', Holds(u, d)'
      PROVE  list'[i] # d
  BY <1>1, <1>2, <1>6 DEF Own, SameBut
<1>7. ASSUME NEW d \in Connections, NEW u \in Users, NEW v \in Users, Holds(u, d)', Holds(v, d)'
      PROVE  u = v
  <2>1. CASE d = c
    <3>1. \A x \in Users : ~ Holds(x, c)
      BY <1>1 DEF Own
    <3>. QED
      BY <1>7, <2>1, <3>1, Zenon DEF SameBut
  <2>2. CASE d # c
    BY <1>7, <2>2, Zenon DEF Own, SameBut
  <2>. QED
    BY <2>1, <2>2, Zenon
<1>8. ASSUME NEW d \in Connections PROVE
        fate'[d] = "accepted" <=> \/ \E u \in Users : Holds(u, d)'
                                  \/ \E i \in DOMAIN list' : list'[i] = d
  <2>1. CASE d = c
    BY <1>5, <2>1, Zenon DEF Own
  <2>2. CASE d # c
    BY <1>5, <2>2, Zenon DEF Own, SameBut
  <2>. QED
    BY <2>1, <2>2, Zenon
<1>. QED
  BY <1>4, <1>6, <1>7, <1>8, Zenon DEF Own

-----------------------------------------------------------------------------
(* What the queue's operations do to what the threads have at hand *)

\* The workers stay where they are, or are woken.
Undisturbed(ws) ==
    \A w \in ws : /\ value'[w] = value[w]
                  /\ pc'[w] = pc[w] \/ (pc[w] = "pop_wait" /\ pc'[w] = "pop_woken")

\* The places of a push at which the connection is not in the list yet
Carrying == {"push", "push_locked"}

\* Main's step in messageQueue_push: its connection is still with it, or in the list.
LEMMA PushMoves ==
  ASSUME Q!TypeOK, Q!PushStep(Main)
  PROVE  /\ Undisturbed(Workers) /\ value' = value
         /\ pc'[Main] \in Carrying => pc[Main] \in Carrying
         /\ \/ list' = list /\ (pc[Main] \in Carrying => pc'[Main] \in Carrying)
            \/ /\ list' = Append(list, value[Main])
               /\ pc[Main] \in Carrying /\ pc'[Main] \notin Carrying
<1>. USE Distinct DEF Q!Threads, Carrying
<1>1. CASE Q!PushSignal(Main)
  BY <1>1, Zenon DEF Q!PushSignal, Q!Waiting, Q!At, Q!TypeOK, Undisturbed
<1>2. CASE Q!PushAdd(Main)
  BY <1>2, Zenon DEF Q!PushAdd, Q!At, Q!Goto, Q!TypeOK, Undisturbed
<1>3. CASE Q!PushLock(Main) \/ Q!PushUnlock(Main)
  BY <1>3 DEF Q!PushLock, Q!PushUnlock, Q!Lock, Q!Unlock, Q!At, Q!Goto, Q!TypeOK,
     Undisturbed
<1>. QED
  BY <1>1, <1>2, <1>3, Zenon DEF Q!PushStep

\* The places of a pop at which nothing has been removed yet
Empty == {"pop", "pop_locked", "pop_wait", "pop_woken"}

\* A worker's step in messageQueue_pop: it takes nothing, or the first of the list.
LEMMA PopMoves ==
  ASSUME Q!TypeOK, NEW w \in Workers, Q!PopStep(w) \/ Q!SpuriousWakeup(w)
  PROVE  /\ Undisturbed(Workers \ {w}) /\ pc'[Main] = pc[Main] /\ value'[Main] = value[Main]
         /\ \/ /\ pc[w] \in Empty /\ pc'[w] \in Empty
               /\ list' = list /\ value' = value
            \/ /\ pc[w] \in Empty /\ pc'[w] = "pop_leave"
               /\ list' = list /\ value' = value
            \/ /\ pc[w] \in Empty /\ pc'[w] = "pop_leave"
               /\ list # <<>> /\ list' = Tail(list) /\ value'[w] = Head(list)
            \/ /\ pc[w] = "pop_leave" /\ pc'[w] = "idle"
               /\ list' = list /\ value' = value
<1>. USE Distinct DEF Q!Threads, Empty, Q!TypeOK, Undisturbed, Q!At, Q!Goto
<1>1. CASE Q!PopRemove(w)
  BY <1>1, Zenon DEF Q!PopRemove
<1>2. CASE Q!PopGiveUp(w) \/ Q!SpuriousWakeup(w)
  BY <1>2, Zenon DEF Q!PopGiveUp, Q!SpuriousWakeup
<1>3. CASE Q!PopLock(w) \/ Q!PopReacquire(w)
  BY <1>3, Zenon DEF Q!PopLock, Q!PopReacquire, Q!Lock
<1>4. CASE Q!PopWait(w) \/ Q!PopUnlock(w)
  BY <1>4, Zenon DEF Q!PopWait, Q!PopUnlock, Q!Unlock
<1>. QED
  BY <1>1, <1>2, <1>3, <1>4, Zenon DEF Q!PopStep

\* messageQueue_close moves no connection.
LEMMA CloseMoves ==
  ASSUME Q!TypeOK, Q!Close(Handler) \/ Q!CloseStep(Handler)
  PROVE  Undisturbed(Workers) /\ pc'[Main] = pc[Main] /\ value' = value /\ list' = list
<1>. USE Distinct DEF Q!Threads, Q!TypeOK, Undisturbed, Q!At, Q!Goto
<1>1. CASE Q!CloseBroadcast(Handler)
  BY <1>1, Zenon DEF Q!CloseBroadcast, Q!Waiting
<1>2. CASE Q!Close(Handler) \/ Q!CloseSet(Handler)
  BY <1>2, Zenon DEF Q!Close, Q!CloseSet
<1>3. CASE Q!CloseLock(Handler) \/ Q!CloseUnlock(Handler)
  BY <1>3, Zenon DEF Q!CloseLock, Q!CloseUnlock, Q!Lock, Q!Unlock
<1>. QED
  BY <1>1, <1>2, <1>3, Zenon DEF Q!CloseStep

-----------------------------------------------------------------------------
(* The invariant *)

\* A client waits in one backlog until it is accepted or refused.
Waits ==
    /\ \A i \in Ports : \A c \in backlog[i] : fate[c] = "waiting"
    /\ \A i, j \in Ports : backlog[i] \intersect backlog[j] # {} => i = j

Inv ==
    /\ IInv
    /\ Types
    /\ Stages
    /\ Waits
    /\ proc = "running" => Own

\* Undisturbed workers are at the same stage and hold the same.
LEMMA UndisturbedHold ==
  ASSUME NEW ws \in SUBSET Workers, Undisturbed(ws), UNCHANGED connection
  PROVE  \A w \in ws, c \in Connections : Holds(w, c)' <=> Holds(w, c)
BY Distinct, Zenon DEF Undisturbed, Holds

\* A step that leaves the workers alone leaves them at their stage.
LEMMA UndisturbedStage ==
  ASSUME Stages, UNCHANGED <<connection, work>>, Undisturbed(Workers),
         current' # NULL <=> main' \in {"tls", "push"},
         main' # "pushing" => pc'[Main] = "idle"
  PROVE  Stages'
BY Zenon DEF Stages, Undisturbed

\* The accepting thread
LEMMA MainStages ==
  ASSUME Inv, MainStep
  PROVE  Stages'
<1>. Q!TypeOK /\ Stages /\ NULL \notin Connections
  BY ServerAssumption, Zenon DEF ServerAssumption, Inv, Types
<1>1. CASE SpawnWorker
  <2>1. CASE Exit("failure")
    BY <2>1, Zenon DEF Exit, queueVars, mainVars, workerVars, Stages
  <2>2. CASE main' = "store" /\ work' = [work EXCEPT ![index] = "loop"]
             /\ UNCHANGED <<queueVars, current, connection>>
    <3>1. index \in Workers => work[index] = "none"
      BY <1>1 DEF SpawnWorker, MainAt, Inv, IInv, Unspawned
    <3>2. \A w \in Workers : work'[w] = work[w] \/ (work[w] = "none" /\ work'[w] = "loop")
      BY <2>2, <3>1, Zenon DEF Inv, Types, WorkerTypes
    <3>3. main = "spawn"
      BY <1>1, Zenon DEF SpawnWorker, MainAt
    <3>. QED
      BY <2>2, <3>2, <3>3, Zenon DEF Stages, queueVars
  <2>. QED
    BY <1>1, <2>1, <2>2, Zenon DEF SpawnWorker
<1>2. CASE BeginPush
  <2>1. /\ main = "push" /\ main' = "pushing" /\ current' = NULL
        /\ UNCHANGED <<connection, work>> /\ Q!Push(Main, current)
    BY <1>2, Zenon DEF BeginPush, MainAt, workerVars
  <2>2. Undisturbed(Workers)
    BY <2>1, Distinct, Zenon DEF Q!Push, Q!At, Q!Goto, Q!TypeOK, Q!Threads, Undisturbed
  <2>. QED
    BY <2>1, <2>2, UndisturbedStage, Zenon
<1>3. CASE Pushing
  <2>1. /\ main = "pushing" /\ main' = (IF pc'[Main] = "idle" THEN "accept" ELSE "pushing")
        /\ UNCHANGED <<connection, work, current>> /\ Q!PushStep(Main)
    BY <1>3, Zenon DEF Pushing, MainAt, workerVars
  <2>2. Undisturbed(Workers)
    BY <2>1, PushMoves, Zenon
  <2>. QED
    BY <2>1, <2>2, UndisturbedStage, Zenon DEF Stages
<1>4. CASE \/ InstallHandlers \/ CreateQueue \/ CreatePool \/ StoreWorker \/ PoolComplete
           \/ Listen \/ StartAccepting \/ Poll \/ Accept \/ NextPort
           \/ Handshake \/ HandshakeShutdown
  <2>1. UNCHANGED <<pc, value, connection, work>>
    BY <1>4, Zenon DEF InstallHandlers, CreateQueue, CreatePool, StoreWorker,
       PoolComplete, Listen,
       StartAccepting, Poll, Accept, NextPort, Handshake, HandshakeShutdown, Exit,
       queueVars, workerVars
  <2>2. /\ main # "pushing" \/ main' = main
        /\ current' # NULL <=> main' \in {"tls", "push"}
    <3>1. CASE Accept
      <4>1. backlog[index] \subseteq Connections
        BY <3>1, Zenon DEF Accept, Inv, Types, Counters, ClientTypes
      <4>. QED
        BY <3>1, <4>1, Zenon DEF Accept, MainAt, Stages
    <3>2. CASE Handshake
      <4>1. /\ main = "tls"
            /\ \/ main' = "push" /\ current' = current
               \/ main' = "accept" /\ current' = NULL
        BY <3>2, Zenon DEF Handshake, MainAt
      <4>2. current # NULL
        BY <4>1 DEF Stages
      <4>. QED
        BY ONLY <4>1, <4>2
    <3>3. CASE InstallHandlers \/ CreateQueue \/ CreatePool \/ StoreWorker \/ PoolComplete
      BY <3>3 DEF InstallHandlers, CreateQueue, CreatePool, StoreWorker, PoolComplete,
         MainAt, Exit, mainVars, Stages
    <3>4. CASE Listen \/ StartAccepting \/ Poll \/ NextPort \/ HandshakeShutdown
      BY <3>4, Zenon DEF Listen, StartAccepting, Poll, NextPort, HandshakeShutdown,
         MainAt, Exit, mainVars, Stages
    <3>. QED
      BY <1>4, <3>1, <3>2, <3>3, <3>4, Zenon
  <2>. QED
    BY <2>1, <2>2, Zenon DEF Stages
<1>. QED
  BY <1>1, <1>2, <1>3, <1>4, Zenon DEF MainStep

\* A client waits for accept until main takes it off the backlog.
LEMMA MainWaits ==
  ASSUME Inv, MainStep
  PROVE  Waits'
<1>. Waits /\ ClientTypes
  BY Zenon DEF Inv, Types
<1>1. CASE Accept
  <2>1. PICK c \in backlog[index] :
           /\ backlog' = [backlog EXCEPT ![index] = @ \ {c}]
           /\ \A d \in Connections \ {c} : fate'[d] = fate[d]
    BY <1>1, Zenon DEF Accept, ClientTypes
  <2>2. index \in Ports
    BY <1>1, Zenon DEF Accept, Inv, Types, Counters
  <2>3. \A i \in Ports : backlog'[i] \subseteq backlog[i] /\ c \notin backlog'[i]
    BY <2>1, <2>2, Zenon DEF Waits, ClientTypes
  <2>. QED
    BY <2>1, <2>3 DEF Waits, ClientTypes
<1>2. CASE Handshake
  <2>1. current \in Connections /\ proc = "running" /\ main = "tls"
    BY <1>2, Zenon DEF Handshake, MainAt, Inv, Types, MainTypes, Stages
  <2>2. Holds(Main, current)
    BY Zenon DEF Holds
  <2>3. fate[current] = "accepted"
    BY <2>1, <2>2, Zenon DEF Inv, Own, Users
  <2>4. backlog' = backlog /\ \A d \in Connections \ {current} : fate'[d] = fate[d]
    BY <1>2, Zenon DEF Handshake, ClientTypes
  <2>5. \A i \in Ports : current \notin backlog[i]
    BY <2>3, Zenon DEF Waits
  <2>. QED
    BY <2>4, <2>5, Zenon DEF Waits, ClientTypes
<1>3. CASE UNCHANGED <<backlog, fate>>
  BY <1>3, Zenon DEF Waits
<1>. QED
  BY <1>1, <1>2, <1>3, Zenon DEF MainStep, InstallHandlers, CreateQueue, CreatePool,
     SpawnWorker,
     StoreWorker, PoolComplete, Listen, StartAccepting, Poll, NextPort, HandshakeShutdown,
     BeginPush, Pushing, Exit, clientVars

\* The accepting thread takes connections over from the kernel, frees those
\* whose handshake fails, and gives the others away in message_queue_push.
LEMMA MainOwns ==
  ASSUME Inv, MainStep, proc' = "running"
  PROVE  Own'
<1>. Q!TypeOK /\ Stages /\ Own /\ Waits /\ ClientTypes /\ NULL \notin Connections
  BY ServerAssumption, Zenon DEF ServerAssumption, Inv, Types, MainStep, MainAt,
     InstallHandlers,
     CreateQueue, CreatePool, SpawnWorker, StoreWorker, PoolComplete, Listen,
     StartAccepting, Poll,
     Accept, NextPort, Handshake, HandshakeShutdown, BeginPush, Pushing
<1>. Main \in Users /\ \A u \in Users : u = Main \/ u \in Workers
  BY Zenon DEF Users
<1>1. CASE Accept
  <2>1. UNCHANGED <<pc, value, list, connection>> /\ current = NULL /\ pc[Main] = "idle"
    BY <1>1, Zenon DEF Accept, MainAt, queueVars, workerVars, Stages
  <2>2. PICK c \in backlog[index] :
           \/ fate' = [fate EXCEPT ![c] = "closed"] /\ UNCHANGED current
           \/ fate' = [fate EXCEPT ![c] = "leaked"] /\ UNCHANGED current
           \/ fate' = [fate EXCEPT ![c] = "accepted"] /\ current' = c
    BY <1>1, Zenon DEF Accept
  <2>3. c \in Connections /\ fate[c] = "waiting"
    BY <1>1, Zenon DEF Accept, Inv, Types, Counters, ClientTypes, Waits
  <2>4. CASE current' = c /\ fate' = [fate EXCEPT ![c] = "accepted"]
    <3>1. SameBut(Main, c) /\ Holds(Main, c)'
      BY <2>1, <2>4, Zenon DEF SameBut, Holds
    <3>2. OpenBut(c) /\ fate'[c] = "accepted"
      BY <2>3, <2>4, Zenon DEF OpenBut, ClientTypes
    <3>. QED
      BY <2>1, <2>3, <3>1, <3>2, Gains, Zenon
  <2>5. CASE UNCHANGED current /\ \E f \in {"closed", "leaked"} : fate' = [fate EXCEPT ![c] = f]
    <3>1. \A u \in Users, d \in Connections : Holds(u, d)' <=> Holds(u, d)
      BY <2>1, <2>5, Zenon DEF Holds
    <3>2. \A d \in Connections : fate'[d] = "accepted" <=> fate[d] = "accepted"
      BY <2>3, <2>5, Zenon DEF ClientTypes
    <3>. QED
      BY <2>1, <3>1, <3>2, SameOwner, Zenon
  <2>. QED
    BY <2>2, <2>4, <2>5, Zenon
<1>2. CASE Handshake
  <2>1. /\ UNCHANGED <<pc, value, list, connection>> /\ current \in Connections
        /\ pc[Main] = "idle"
    BY <1>2, Zenon DEF Handshake, MainAt, queueVars, workerVars, Stages, Inv, Types, MainTypes
  <2>2. CASE UNCHANGED <<current, fate>>
    BY <2>1, <2>2, SameOwner, Zenon DEF Holds
  <2>3. CASE fate' = [fate EXCEPT ![current] = "closed"] /\ current' = NULL
    <3>. PICK c \in Connections : c = current
      BY <2>1, Zenon
    <3>1. SameBut(Main, c) /\ Holds(Main, c) /\ ~ Holds(Main, c)'
      BY <2>1, <2>3, Zenon DEF SameBut, Holds
    <3>2. OpenBut(c) /\ fate'[c] # "accepted"
      BY <2>1, <2>3, Zenon DEF OpenBut, ClientTypes
    <3>. QED
      BY <2>1, <3>1, <3>2, Loses, Zenon
  <2>. QED
    BY <1>2, <2>2, <2>3, Zenon DEF Handshake
<1>3. CASE BeginPush
  <2>1. /\ current' = NULL /\ UNCHANGED <<connection, fate, list>> /\ Q!Push(Main, current)
    BY <1>3, Zenon DEF BeginPush, workerVars, clientVars, Q!Push
  <2>2. /\ Undisturbed(Workers) /\ pc[Main] = "idle" /\ pc'[Main] = "push"
        /\ value'[Main] = current
    BY <2>1, Distinct, SMTT(20) DEF Q!Push, Q!At, Q!Goto, Q!TypeOK, Q!Threads, Undisturbed
  <2>3. \A d \in Connections : Holds(Main, d)' <=> Holds(Main, d)
    BY <2>1, <2>2, Zenon DEF Holds
  <2>. QED
    BY <2>1, <2>2, <2>3, UndisturbedHold, SameOwner, Zenon
<1>4. CASE Pushing
  <2>1. UNCHANGED <<current, connection, fate>> /\ Q!PushStep(Main) /\ current = NULL
    BY <1>4, Zenon DEF Pushing, MainAt, workerVars, clientVars, Stages
  <2>2. \A w \in Workers, d \in Connections : Holds(w, d)' <=> Holds(w, d)
    BY <2>1, PushMoves, UndisturbedHold, Zenon
  <2>3. CASE list' = list /\ (pc[Main] \in Carrying <=> pc'[Main] \in Carrying) /\ value' = value
    <3>1. \A d \in Connections : Holds(Main, d)' <=> Holds(Main, d)
      BY <2>1, <2>3, Zenon DEF Holds, Carrying
    <3>. QED
      BY <2>1, <2>2, <2>3, <3>1, SameOwner, Zenon
  <2>4. CASE /\ list' = Append(list, value[Main]) /\ value' = value
             /\ pc[Main] \in Carrying /\ pc'[Main] \notin Carrying
    <3>1. value[Main] \in Connections /\ list \in Seq(Connections)
      BY <2>4, Zenon DEF Q!TypeOK, Carrying
    <3>2. /\ \A d \in Connections : d # value[Main] => (Holds(Main, d)' <=> Holds(Main, d))
          /\ Holds(Main, value[Main]) /\ ~ Holds(Main, value[Main])'
      BY <2>1, <2>4, <3>1, Zenon DEF Holds, Carrying
    <3>3. SameBut(Main, value[Main])
      BY <2>2, <3>2, SMTT(20) DEF SameBut
    <3>. QED
      BY <2>1, <2>4, <3>1, <3>2, <3>3, Enqueues, SMTT(20)
  <2>. QED
    BY <2>1, <2>3, <2>4, PushMoves, Zenon
<1>5. CASE \/ InstallHandlers \/ CreateQueue \/ CreatePool \/ SpawnWorker \/ StoreWorker
           \/ PoolComplete \/ Listen \/ StartAccepting \/ Poll \/ NextPort \/ HandshakeShutdown
  <2>1. UNCHANGED <<pc, value, list, connection, current, fate>>
    BY <1>5, Zenon DEF InstallHandlers, CreateQueue, CreatePool, SpawnWorker, StoreWorker,
       PoolComplete,
       Listen, StartAccepting, Poll, NextPort, HandshakeShutdown, Exit, queueVars, mainVars,
       workerVars, clientVars
  <2>. QED
    BY <2>1, SameOwner, Zenon DEF Holds
<1>. QED
  BY <1>1, <1>2, <1>3, <1>4, <1>5, Zenon DEF MainStep

\* A worker
LEMMA WorkerStages ==
  ASSUME Inv, NEW w \in Workers, WorkerStep(w) \/ WorkerSpuriousWakeup(w)
  PROVE  Stages'
<1>. Q!TypeOK /\ Stages /\ WorkerTypes /\ OutsideQueue
  BY Zenon DEF Inv, IInv, Types
<1>1. UNCHANGED <<main, current>> /\ pc'[Main] = pc[Main] /\ Undisturbed(Workers \ {w})
  <2>1. CASE Q!Pop(w)
    BY <2>1, Distinct, Zenon DEF Q!Pop, Q!At, Q!Goto, Q!TypeOK, Q!Threads, Undisturbed,
       WorkerStep,
       WorkerPop,
       WorkerPopping, WorkerPopped, WorkerServe, WorkerSpuriousWakeup, mainVars
  <2>2. CASE Q!PopStep(w) \/ Q!SpuriousWakeup(w)
    BY <2>2, PopMoves, Zenon DEF WorkerStep, WorkerPop, WorkerPopping, WorkerPopped,
       WorkerServe,
       WorkerSpuriousWakeup, mainVars
  <2>3. CASE UNCHANGED queueVars
    BY <2>3, Zenon DEF queueVars, Undisturbed, WorkerStep, WorkerPop, WorkerPopping,
       WorkerPopped,
       WorkerServe,
       WorkerSpuriousWakeup, mainVars
  <2>. QED
    BY <2>1, <2>2, <2>3, Zenon DEF WorkerStep, WorkerPop, WorkerPopping, WorkerPopped,
       WorkerServe,
       WorkerSpuriousWakeup
<1>2. \A u \in Workers \ {w} : connection'[u] = connection[u] /\ work'[u] = work[u]
  BY Zenon DEF WorkerStep, WorkerPop, WorkerPopping, WorkerPopped, WorkerServe,
     WorkerSpuriousWakeup,
     workerVars, WorkerTypes
<1>3. /\ connection'[w] # NULL => work'[w] \in {"popped", "working", "exited"}
      /\ work'[w] = "working" => connection'[w] # NULL
      /\ pc'[w] \in Empty => value'[w] = NULL
  <2>1. CASE WorkerPop(w)
    BY <2>1, Distinct, Zenon DEF WorkerPop, WorkerAt, Q!Pop, Q!At, Q!Goto, Q!TypeOK,
       Q!Threads,
       WorkerTypes, Stages, Empty
  <2>2. CASE WorkerPopping(w) \/ WorkerSpuriousWakeup(w)
    <3>1. /\ work[w] = "popping" /\ connection[w] = NULL
          /\ \/ work'[w] = "popped"
             \/ work'[w] = work[w] /\ connection'[w] = connection[w]
      BY <2>2, Zenon DEF WorkerPopping, WorkerSpuriousWakeup, WorkerAt, workerVars,
         WorkerTypes, Stages
    <3>2. pc'[w] \in Empty => pc[w] \in Empty /\ value' = value
      BY <2>2, PopMoves, Zenon DEF WorkerPopping, WorkerSpuriousWakeup, Empty
    <3>. QED
      BY <3>1, <3>2, Zenon DEF Stages, Empty
  <2>3. CASE WorkerPopped(w)
    BY <2>3, SMTT(20) DEF WorkerPopped, WorkerAt, queueVars, WorkerTypes, Stages, Empty
  <2>4. CASE WorkerServe(w)
    BY <2>4, Zenon DEF WorkerServe, WorkerAt, queueVars, WorkerTypes, Stages, Empty
  <2>. QED
    BY <2>1, <2>2, <2>3, <2>4, Zenon DEF WorkerStep
<1>. QED
  BY <1>1, <1>2, <1>3, Zenon DEF Stages, Undisturbed, Empty

\* A worker takes the first connection of the list and frees it in the end.
LEMMA WorkerOwns ==
  ASSUME Inv, NEW w \in Workers, WorkerStep(w) \/ WorkerSpuriousWakeup(w)
  PROVE  Own'
<1>. Q!TypeOK /\ Stages /\ WorkerTypes /\ ClientTypes /\ OutsideQueue /\ Own /\ NULL \notin Connections
  BY ServerAssumption, Zenon DEF ServerAssumption, Inv, IInv, Types, WorkerStep, WorkerPop,
     WorkerPopping,
     WorkerPopped, WorkerServe, WorkerSpuriousWakeup, WorkerAt
<1>. /\ w \in Users /\ w # Main /\ Main \notin Workers
     /\ \A u \in Users : u = Main \/ u = w \/ u \in Workers \ {w}
  BY Distinct, Zenon DEF Users
<1>1. CASE WorkerPop(w)
  <2>1. /\ UNCHANGED <<current, connection, fate, list>> /\ pc[w] = "idle" /\ pc'[w] = "pop"
        /\ \A u \in Users \ {w} : pc'[u] = pc[u] /\ value'[u] = value[u]
    BY <1>1, Distinct DEF WorkerPop, Q!Pop, Q!At, Q!Goto, Q!TypeOK, Q!Threads, mainVars,
       clientVars, Users
  <2>. QED
    BY <2>1, SameOwner, Zenon DEF Holds
<1>2. CASE WorkerPopping(w) \/ WorkerSpuriousWakeup(w)
  <2>1. /\ work[w] = "popping" /\ connection[w] = NULL /\ UNCHANGED <<current, fate>>
        /\ IF pc'[w] = "idle" /\ connection' # connection
           THEN connection' = [connection EXCEPT ![w] = value[w]]
           ELSE connection' = connection
        /\ Q!PopStep(w) \/ Q!SpuriousWakeup(w)
    BY <1>2, Zenon DEF WorkerPopping, WorkerSpuriousWakeup, WorkerAt, Stages, mainVars,
       workerVars,
       clientVars
  <2>2. /\ Undisturbed(Workers \ {w}) /\ pc'[Main] = pc[Main] /\ value'[Main] = value[Main]
    BY <2>1, PopMoves, Zenon
  <2>3. \A u \in Users \ {w}, d \in Connections : Holds(u, d)' <=> Holds(u, d)
    BY <2>1, <2>2, Zenon DEF Holds, Undisturbed, WorkerTypes
  <2>4. CASE /\ pc[w] \in Empty /\ pc'[w] \in Empty \union {"pop_leave"}
             /\ list' = list /\ value' = value
    <3>1. value[w] = NULL /\ connection' = connection
      BY <2>1, <2>4, Zenon DEF Stages, Empty
    <3>2. \A d \in Connections : Holds(w, d)' <=> Holds(w, d)
      BY <2>1, <2>4, <3>1, Zenon DEF Holds
    <3>. QED
      BY <2>1, <2>3, <2>4, <3>2, SameOwner, Zenon
  <2>5. CASE /\ pc[w] \in Empty /\ pc'[w] = "pop_leave"
             /\ list # <<>> /\ list' = Tail(list) /\ value'[w] = Head(list)
    <3>1. list \in Seq(Connections) /\ Head(list) \in Connections
      <4>1. list \in Seq(Connections)
        BY Zenon DEF Q!TypeOK
      <4>. QED
        BY <2>5, <4>1, FirstOf, Zenon
    <3>. PICK c \in Connections : c = Head(list)
      BY ONLY <3>1, Zenon
    <3>2. connection' = connection /\ pc[w] # "pop_leave"
      BY ONLY <2>1, <2>5 DEF Empty
    <3>3. Holds(w, c)' /\ \A d \in Connections \ {c} : Holds(w, d)' <=> Holds(w, d)
      BY <2>5, <3>2, Zenon DEF Holds
    <3>4. SameBut(w, c)
      BY <2>3, <3>3, Zenon DEF SameBut
    <3>. QED
      BY <2>1, <2>5, <3>1, <3>3, <3>4, Dequeues, Zenon
  <2>6. CASE /\ pc[w] = "pop_leave" /\ pc'[w] = "idle"
             /\ list' = list /\ value' = value
    <3>1. connection'[w] = value[w]
      BY <1>2, <2>6, <2>1, Zenon DEF WorkerPopping, WorkerSpuriousWakeup, WorkerTypes,
         Q!SpuriousWakeup, Q!At
    <3>2. \A d \in Connections : Holds(w, d)' <=> Holds(w, d)
      BY <2>1, <2>6, <3>1, Zenon DEF Holds
    <3>. QED
      BY <2>1, <2>3, <2>6, <3>2, SameOwner, Zenon
  <2>. QED
    BY <2>1, <2>4, <2>5, <2>6, PopMoves, Zenon
<1>3. CASE WorkerPopped(w)
  <2>1. UNCHANGED <<pc, value, list, connection, current, fate>>
    BY <1>3, Zenon DEF WorkerPopped, queueVars, mainVars, clientVars
  <2>. QED
    BY <2>1, SameOwner, Zenon DEF Holds
<1>4. CASE WorkerServe(w)
  <2>1. /\ work[w] = "working" /\ connection[w] \in Connections /\ pc[w] = "idle"
        /\ UNCHANGED <<pc, value, list, current>>
        /\ fate' = [fate EXCEPT ![connection[w]] = "served"]
        /\ connection' = [connection EXCEPT ![w] = NULL]
    BY <1>4, Zenon DEF WorkerServe, WorkerAt, Stages, WorkerTypes, OutsideQueue,
       queueVars, mainVars
  <2>. PICK c \in Connections : c = connection[w]
    BY <2>1, Zenon
  <2>2. SameBut(w, c) /\ Holds(w, c) /\ ~ Holds(w, c)'
    BY <2>1, Zenon DEF SameBut, Holds, WorkerTypes
  <2>3. OpenBut(c) /\ fate'[c] # "accepted"
    BY <2>1, Zenon DEF OpenBut, ClientTypes
  <2>. QED
    BY <2>1, <2>2, <2>3, Loses, Zenon
<1>. QED
  BY <1>1, <1>2, <1>3, <1>4, Zenon DEF WorkerStep

\* No worker takes a client off a backlog.
LEMMA WorkerWaits ==
  ASSUME Inv, NEW w \in Workers, WorkerStep(w) \/ WorkerSpuriousWakeup(w)
  PROVE  Waits'
<1>. Waits /\ ClientTypes
  BY Zenon DEF Inv, Types
<1>1. CASE WorkerServe(w)
  <2>1. /\ connection[w] \in Connections /\ UNCHANGED backlog /\ proc = "running"
        /\ fate' = [fate EXCEPT ![connection[w]] = "served"]
    BY <1>1, Zenon DEF WorkerServe, WorkerAt, Inv, Types, WorkerTypes, Stages
  <2>2. Holds(w, connection[w])
    BY Distinct, Zenon DEF Holds
  <2>3. fate[connection[w]] = "accepted"
    BY <2>1, <2>2, Zenon DEF Inv, Own, Users
  <2>. QED
    BY <2>1, <2>3, Zenon DEF Waits, ClientTypes
<1>2. CASE UNCHANGED <<backlog, fate>>
  BY <1>2, Zenon DEF Waits
<1>. QED
  BY <1>1, <1>2, Zenon DEF WorkerStep, WorkerPop, WorkerPopping, WorkerPopped,
     WorkerSpuriousWakeup, clientVars

\* The signal handler and the clients leave every thread at its stage.
LEMMA OthersStages ==
  ASSUME Inv, Others
  PROVE  Stages'
<1>. Q!TypeOK /\ Stages /\ WorkerTypes
  BY Zenon DEF Inv, Types
<1>1. UNCHANGED <<main, current, work>>
  BY Zenon DEF Others, HandlerStep, ReplaceHandlers, CloseSockets, SuspendWorker,
     BeginUnlock, Unlocking,
     JoinWorker, FreeAndExit, Exit, Deliver, DeliverAgain, SendSignal, Connect, vars,
     mainVars, workerVars
<1>2. Undisturbed(Workers) /\ pc'[Main] = pc[Main]
  <2>1. CASE BeginUnlock \/ Unlocking
    BY <2>1, CloseMoves, Zenon DEF BeginUnlock, Unlocking
  <2>2. CASE UNCHANGED queueVars
    BY <2>2, Zenon DEF queueVars, Undisturbed
  <2>. QED
    BY <2>1, <2>2, Zenon DEF Others, HandlerStep, ReplaceHandlers, CloseSockets,
       SuspendWorker,
       JoinWorker, FreeAndExit, Exit, Deliver, DeliverAgain, SendSignal, Connect, vars
<1>3. CASE JoinWorker
  <2>1. work[slot] = "exited" /\ connection' = [connection EXCEPT ![slot] = NULL]
    BY <1>3, Zenon DEF JoinWorker
  <2>2. \A w \in Workers : /\ connection'[w] \in {connection[w], NULL}
                           /\ work[w] # "exited" => connection'[w] = connection[w]
    BY <2>1, SMTT(20) DEF WorkerTypes
  <2>. QED
    BY <1>1, <1>2, <2>2, Zenon DEF Stages, Undisturbed
<1>4. CASE UNCHANGED connection
  BY <1>1, <1>2, <1>4, UndisturbedStage, SMTT(20) DEF Stages
<1>. QED
  BY <1>3, <1>4, Zenon DEF Others, HandlerStep, ReplaceHandlers, CloseSockets,
     SuspendWorker,
     BeginUnlock,
     Unlocking, FreeAndExit, Exit, Deliver, DeliverAgain, SendSignal, Connect, vars,
     workerVars

\* A connection that a worker has at hand is open.
LEMMA AtHand ==
  ASSUME Inv, proc = "running", NEW w \in Workers, NEW c \in Connections, connection[w] = c
  PROVE  fate[c] = "accepted" /\ Holds(w, c)
<1>1. w \in Users /\ Holds(w, c)
  BY Distinct, Zenon DEF Users, Holds
<1>. QED
  BY <1>1, Zenon DEF Inv, Own

\* A socket that is closed turns away the clients on its backlog.
LEMMA OthersWait ==
  ASSUME Inv, Others
  PROVE  Waits'
<1>. Waits /\ ClientTypes /\ WorkerTypes
  BY Zenon DEF Inv, Types
<1>1. CASE CloseSockets
  <2>1. PICK closing \in SUBSET Ports :
           /\ backlog' = [i \in Ports |-> IF i \in closing THEN {} ELSE backlog[i]]
           /\ fate' = [c \in Connections |->
                          IF \E i \in closing : c \in backlog[i] THEN "refused" ELSE fate[c]]
    <3>1. {i \in 1..count : descriptor[i]} \in SUBSET Ports
      BY Distinct DEF Inv, Types, Counters, Ports
    <3>. QED
      BY <1>1, <3>1, Zenon DEF CloseSockets
  <2>2. \A i \in Ports : backlog'[i] \subseteq backlog[i] /\ (i \in closing => backlog'[i] = {})
    BY <2>1, Zenon
  <2>3. \A i \in Ports : \A c \in backlog'[i] : fate'[c] = fate[c]
    BY <2>1, <2>2, Zenon DEF Waits, ClientTypes
  <2>. QED
    BY <2>2, <2>3, Zenon DEF Waits
<1>2. CASE JoinWorker
  <2>1. /\ UNCHANGED backlog /\ slot \in Workers /\ proc = "running"
        /\ fate' = [c \in Connections |-> IF c = connection[slot] THEN "dropped" ELSE fate[c]]
    BY <1>2, Distinct DEF JoinWorker, HandlerAt, Inv, IInv, Workers
  <2>2. \A c \in Connections : c = connection[slot] => fate[c] = "accepted"
    BY <2>1, AtHand, Zenon
  <2>. QED
    BY <2>1, <2>2, Zenon DEF Waits, ClientTypes
<1>3. CASE FreeAndExit
  BY <1>3, Zenon DEF FreeAndExit, Waits, ClientTypes
<1>4. CASE \E c \in Connections, i \in Ports : Connect(c, i)
  <2>1. PICK c \in Connections, i \in Ports : Connect(c, i)
    BY <1>4, Zenon
  <2>2. /\ fate[c] = "new" /\ fate' = [fate EXCEPT ![c] = "waiting"]
        /\ backlog' = [backlog EXCEPT ![i] = @ \union {c}]
    BY <2>1, Zenon DEF Connect
  <2>3. \A j \in Ports : c \notin backlog[j]
    BY <2>2, Zenon DEF Waits
  <2>. QED
    BY <2>2, <2>3 DEF Waits, ClientTypes
<1>5. CASE UNCHANGED <<backlog, fate>>
  BY <1>5, Zenon DEF Waits
<1>. QED
  BY <1>1, <1>2, <1>3, <1>4, <1>5, Zenon
     DEF Others, HandlerStep, ReplaceHandlers, SuspendWorker,
     BeginUnlock,
     Unlocking, Exit, Deliver, DeliverAgain, SendSignal, vars, clientVars

\* worker_free frees the connection of a worker that was told to stop between
\* the pop and its test of shouldRun.
LEMMA OthersOwn ==
  ASSUME Inv, Others, proc' = "running"
  PROVE  Own'
<1>. Q!TypeOK /\ Stages /\ WorkerTypes /\ ClientTypes /\ Waits /\ OutsideQueue /\ NULL \notin Connections
  BY ServerAssumption, Zenon DEF ServerAssumption, Inv, IInv, Types
<1>1. proc = "running"
  BY Zenon DEF Others, HandlerStep, HandlerAt, ReplaceHandlers, CloseSockets, SuspendWorker,
     BeginUnlock, Unlocking,
     JoinWorker, FreeAndExit, Exit, Deliver, DeliverAgain, SendSignal, Connect, vars
<1>. Own
  BY <1>1, Zenon DEF Inv
<1>. \A u \in Users : u = Main \/ u \in Workers
  BY Zenon DEF Users
<1>2. UNCHANGED <<list, current>>
  <2>1. CASE BeginUnlock \/ Unlocking
    BY <2>1, CloseMoves, Zenon DEF BeginUnlock, Unlocking, mainVars
  <2>. QED
    BY <2>1, Zenon DEF Others, HandlerStep, ReplaceHandlers, CloseSockets, SuspendWorker,
       JoinWorker, FreeAndExit, Exit, Deliver, DeliverAgain, SendSignal, Connect, vars,
       queueVars, mainVars
<1>3. CASE JoinWorker
  <2>1. /\ UNCHANGED <<pc, value>> /\ slot \in Workers /\ pc[slot] = "idle" /\ slot # Main
        /\ connection' = [connection EXCEPT ![slot] = NULL]
        /\ fate' = [c \in Connections |-> IF c = connection[slot] THEN "dropped" ELSE fate[c]]
    BY <1>3, Distinct DEF JoinWorker, Inv, IInv, Workers, queueVars, OutsideQueue
  <2>2. CASE connection[slot] = NULL
    <3>1. connection' = connection /\ \A c \in Connections : fate'[c] = fate[c]
      BY <2>1, <2>2, Zenon DEF WorkerTypes
    <3>. QED
      BY <1>2, <2>1, <3>1, SameOwner, Zenon DEF Holds
  <2>3. CASE connection[slot] # NULL
    <3>. PICK c \in Connections, w \in Workers : c = connection[slot] /\ w = slot
      BY <2>1, <2>3, Zenon DEF WorkerTypes
    <3>1. SameBut(w, c) /\ Holds(w, c) /\ ~ Holds(w, c)'
      BY <1>2, <2>1, Zenon DEF SameBut, Holds, WorkerTypes
    <3>2. OpenBut(c) /\ fate'[c] # "accepted"
      BY <2>1, Zenon DEF OpenBut
    <3>. QED
      BY <1>2, <3>1, <3>2, Loses, Zenon DEF Users
  <2>. QED
    BY <2>2, <2>3, Zenon
<1>4. CASE BeginUnlock \/ Unlocking
  <2>1. UNCHANGED <<connection, fate>> /\ Undisturbed(Workers) /\ pc'[Main] = pc[Main] /\ value' = value
    BY <1>4, CloseMoves, Zenon DEF BeginUnlock, Unlocking, workerVars, clientVars
  <2>2. \A d \in Connections : Holds(Main, d)' <=> Holds(Main, d)
    BY <1>2, <2>1, Zenon DEF Holds
  <2>. QED
    BY <1>2, <2>1, <2>2, UndisturbedHold, SameOwner, Zenon
<1>5. ASSUME UNCHANGED <<queueVars, connection>>,
             \A c \in Connections : fate'[c] = "accepted" <=> fate[c] = "accepted"
      PROVE  Own'
  BY <1>2, <1>5, SameOwner, Zenon DEF Holds, queueVars
<1>6. CASE CloseSockets
  <2>1. \A i \in {j \in 1..count : descriptor[j]} : i \in Ports
    BY Distinct DEF Inv, Types, Counters, Ports
  <2>2. \A c \in Connections : fate'[c] = fate[c]
             \/ (fate'[c] = "refused" /\ \E i \in Ports : c \in backlog[i])
    BY <1>6, <2>1, Zenon DEF CloseSockets
  <2>3. \A c \in Connections : fate'[c] = "accepted" <=> fate[c] = "accepted"
    BY <2>2, Zenon DEF Waits
  <2>. QED
    BY <1>5, <1>6, <2>3, Zenon DEF CloseSockets, workerVars
<1>7. CASE \E c \in Connections, i \in Ports : Connect(c, i)
  <2>1. \A c \in Connections : fate'[c] = "accepted" <=> fate[c] = "accepted"
    BY <1>7, Zenon DEF Connect, ClientTypes
  <2>. QED
    BY <1>5, <1>7, <2>1, Zenon DEF Connect, workerVars
<1>8. CASE ReplaceHandlers \/ SuspendWorker \/ Deliver \/ DeliverAgain \/ SendSignal \/ UNCHANGED vars
  <2>1. UNCHANGED <<queueVars, connection, fate>>
    BY <1>8 DEF ReplaceHandlers, SuspendWorker, Exit, Deliver, DeliverAgain, SendSignal,
       vars,
       workerVars, clientVars
  <2>. QED
    BY <1>5, <2>1, Zenon
<1>9. CASE FreeAndExit
  BY <1>9, Zenon DEF FreeAndExit
<1>. QED
  BY <1>3, <1>4, <1>6, <1>7, <1>8, <1>9, Zenon DEF Others, HandlerStep

\* Before server_start
LEMMA InvInit == Init => Inv
<1>. SUFFICES ASSUME Init PROVE Inv
  OBVIOUS
<1>. USE Distinct
<1>1. <<>> \in Seq(Connections) /\ DOMAIN <<>> = {}
  OBVIOUS
<1>2. Q!TypeOK
  BY <1>1, Zenon DEF Init, Q!Init, Q!TypeOK, Q!Threads, Q!ProducerPc, Q!ConsumerPc,
     Q!CloserPc
<1>3. MainTypes /\ WorkerTypes
  BY Zenon DEF Init, MainTypes, WorkerTypes
<1>4. ClientTypes
  BY Zenon DEF Init, ClientTypes
<1>5. Counters
  BY DEF Init, Counters
<1>6. SignalTypes
  <2>1. MaxSignals \in Nat
    BY ServerAssumption, Zenon DEF ServerAssumption
  <2>. QED
    BY <2>1 DEF Init, SignalTypes
<1>7. Stages
  BY Zenon DEF Init, Q!Init, Q!Threads, Stages
<1>8. Waits
  BY Zenon DEF Init, Waits
<1>9. Own
  <2>1. NULL \notin Connections
    BY ServerAssumption, Zenon DEF ServerAssumption
  <2>2. \A t \in Users, c \in Connections : ~ Holds(t, c)
    BY <2>1, Zenon DEF Init, Q!Init, Q!Threads, Users, Holds
  <2>. QED
    BY <1>1, <2>2, Zenon DEF Init, Q!Init, Own
<1>. QED
  BY <1>2, <1>3, <1>4, <1>5, <1>6, <1>7, <1>8, <1>9, IInvInit, Zenon DEF Inv, Types

\* Every step keeps the invariant.
LEMMA InvStep == Inv /\ [Next]_vars => Inv'
<1>. SUFFICES ASSUME Inv, [Next]_vars PROVE Inv'
  OBVIOUS
<1>. IInv' /\ Types /\ Stages
  BY IInvStep, Zenon DEF Inv
<1>1. CASE MainStep
  BY <1>1, MainTyped, MainStages, MainWaits, MainOwns, Zenon DEF Inv
<1>2. CASE \E w \in Workers : WorkerStep(w) \/ WorkerSpuriousWakeup(w)
  BY <1>2, WorkerTyped, WorkerStages, WorkerWaits, WorkerOwns, Zenon DEF Inv
<1>3. CASE Others
  BY <1>3, OthersTyped, OthersStages, OthersWait, OthersOwn, Zenon DEF Inv
<1>. QED
  BY <1>1, <1>2, <1>3, Zenon DEF Next, Ended, Others

-----------------------------------------------------------------------------
(* OneOwner counts the places of a connection: there is one. *)

\* The function Cardinality is defined by.
Counts(f, S) == f = [T \in SUBSET S |-> IF T = {} THEN 0 ELSE 1 + f[T \ {CHOOSE x : x \in T}]]

\* Cardinality by that function
LEMMA CountsDef == \A S : Cardinality(S) = (CHOOSE f : Counts(f, S))[S]
  BY Zenon DEF Cardinality, Counts

\* The empty set has no element.
LEMMA NoElement == Cardinality({}) = 0
<1>. DEFINE g == [T \in SUBSET {} |-> 0]
<1>1. Counts(g, {})
  BY Zenon DEF Counts
<1>2. PICK f : f = (CHOOSE h : Counts(h, {})) /\ Counts(f, {})
  BY <1>1, Zenon
<1>3. f[{}] = 0
  BY <1>2, Zenon DEF Counts
<1>. QED
  BY <1>2, <1>3, CountsDef, Zenon

\* A set of one element has one.
LEMMA OneElement == ASSUME NEW x PROVE Cardinality({x}) = 1
<1>. DEFINE g == [T \in SUBSET {x} |-> IF T = {} THEN 0 ELSE 1]
<1>1. \A T \in SUBSET {x} : T = {} \/ (T = {x} /\ (CHOOSE y : y \in T) = x)
  OBVIOUS
<1>2. Counts(g, {x})
  BY <1>1 DEF Counts
<1>3. PICK f : f = (CHOOSE h : Counts(h, {x})) /\ Counts(f, {x})
  BY <1>2, Zenon
<1>4. f = [T \in SUBSET {x} |-> IF T = {} THEN 0 ELSE 1 + f[T \ {CHOOSE y : y \in T}]]
  BY <1>3, Zenon DEF Counts
<1>5. {x} \ {CHOOSE y : y \in {x}} = {} /\ {x} # {}
  BY <1>1, Zenon
<1>6. f[{x}] = 1 + f[{x} \ {CHOOSE y : y \in {x}}]
  BY <1>4, <1>5, Zenon
<1>7. f[{x}] = 1 + f[{}] /\ f[{}] = 0
  BY <1>4, <1>5, <1>6, Zenon
<1>8. f[{x}] = 1
  BY <1>7
<1>. QED
  BY <1>3, <1>8, CountsDef, Zenon

\* One place is counted once.
LEMMA Counted ==
  ASSUME Own, NEW c \in Connections
  PROVE  Cardinality({t \in Users : Holds(t, c)}) + Cardinality({i \in DOMAIN list : list[i] = c})
         = IF fate[c] = "accepted" THEN 1 ELSE 0
<1>. DEFINE T == {t \in Users : Holds(t, c)}
            L == {i \in DOMAIN list : list[i] = c}
<1>. Cardinality({}) = 0 /\ \A x : Cardinality({x}) = 1
  BY NoElement, OneElement, Zenon
<1>1. CASE fate[c] # "accepted"
  <2>1. T = {} /\ L = {}
    BY <1>1, Zenon DEF Own
  <2>. QED
    BY <1>1, <2>1
<1>2. ASSUME fate[c] = "accepted", NEW t \in Users, Holds(t, c)
      PROVE  Cardinality(T) + Cardinality(L) = 1
  <2>1. T = {t} /\ L = {}
    BY <1>2 DEF Own
  <2>. QED
    BY <2>1
<1>3. ASSUME fate[c] = "accepted", ~ \E t \in Users : Holds(t, c)
      PROVE  Cardinality(T) + Cardinality(L) = 1
  <2>1. PICK i \in DOMAIN list : list[i] = c
    BY <1>3, Zenon DEF Own
  <2>2. \A j \in DOMAIN list : list[j] = c => j = i
    BY <2>1, Zenon DEF Own
  <2>3. T = {} /\ L = {i}
    BY <1>3, <2>1, <2>2, Zenon
  <2>4. Cardinality(T) = 0 /\ Cardinality(L) = 1
    BY <2>3, Zenon
  <2>. QED
    BY <2>4
<1>. QED
  BY <1>1, <1>2, <1>3, Zenon

\* For any number of workers, ports, clients and signals, and whichever calls
\* fail: a connection that was accepted is held by exactly one thread or is
\* once in the queue until it is freed, and nobody holds one that was freed.
THEOREM OneOwnerAlways == Spec => []OneOwner
<1>1. Inv => OneOwner
  <2>. SUFFICES ASSUME Inv PROVE OneOwner
    OBVIOUS
  <2>1. TypeOK
    BY Zenon DEF Inv, IInv, Types, MainTypes, Counters, WorkerTypes, ClientTypes,
       SignalTypes, TypeOK
  <2>. QED
    BY <2>1, Counted, Zenon DEF Inv, OneOwner, Users
<1>. QED
  BY <1>1, InvInit, InvStep, PTL DEF Spec

=============================================================================
