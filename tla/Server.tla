------------------------------- MODULE Server -------------------------------
(***************************************************************************)
(* One server process (server/server.c with the worker loop of             *)
(* worker/worker.c): the main thread starts the pool, binds the ports and  *)
(* accepts connections; pool threads pop connections from the message      *)
(* queue; SIGINT or SIGTERM runs server_closeGracefully as a signal        *)
(* handler on top of whatever the main thread was doing.                   *)
(*                                                                         *)
(* The queue is the MessageQueue module.  The handler is a thread of its   *)
(* own there: it shares the main thread's stack, so the main thread stands *)
(* still while it runs, but a mutex the main thread holds is not its own.  *)
(***************************************************************************)
EXTENDS Naturals, Sequences, FiniteSets

CONSTANTS
    NThreads,     \* config_getNumberOfThreads
    NPorts,       \* number of distinct configured ports
    BindFails,    \* ports server_listen may fail to bind
    Connections,  \* client connections, each made at most once
    TLSClients,   \* the ones that start with a TLS client hello
    MaxSignals,   \* bound on the signals sent to the process
    SignalAt,     \* positions of the main thread at which a signal may land
    Faults,       \* resources whose allocation or set-up may fail
    NULL

ASSUME ServerAssumption ==
    /\ NThreads \in Nat \ {0}
    /\ NPorts \in Nat \ {0}
    /\ BindFails \subseteq 1..NPorts
    /\ TLSClients \subseteq Connections
    /\ NULL \notin Connections
    /\ MaxSignals \in Nat
    /\ Faults \subseteq {"queue", "pool", "spawn", "nonblocking", "connection", "tls", "tls shutdown"}

Workers == 1..NThreads
Ports == 1..NPorts
Main == 0
Handler == NThreads + 1

VARIABLES
    \* the message queue
    list, unlocked, mutex, pc, value, pushed, popped,
    \* the process and its main thread
    proc,         \* "running", or how the process ended
    main,         \* position of the main thread
    index,        \* loop counter of server_start and server_acceptConnections
    current,      \* connection the main thread is setting up
    queueMade,    \* server_connectionQueue is set
    pool,         \* slots of server_workerPool that are set
    descriptor,   \* socketDescriptors[i].fd is a listening socket
    count,        \* socketDescriptorCount
    ready,        \* entries the last poll reported
    \* the pool
    work,         \* position of each worker in worker_entryPoint
    shouldRun,    \* worker->shouldRun
    connection,   \* worker->connection
    \* the environment
    listening,    \* ports with an open listening socket
    backlog,      \* clients waiting in the kernel, by port
    fate,         \* what became of each connection
    \* the signal handler
    pending,      \* signals sent and not yet delivered
    sent,         \* signals sent so far
    handler,      \* position in server_closeGracefully
    slot          \* its loop counter

queueVars == <<list, unlocked, mutex, pc, value, pushed, popped>>
mainVars == <<main, index, current, queueMade, pool, descriptor, count, ready>>
workerVars == <<work, shouldRun, connection>>
clientVars == <<listening, backlog, fate>>
signalVars == <<pending, sent, handler, slot>>
vars == <<queueVars, proc, mainVars, workerVars, clientVars, signalVars>>

Q == INSTANCE MessageQueue WITH
        Producers <- {Main}, Consumers <- Workers, Closers <- {Handler},
        Values <- Connections

Init ==
    /\ Q!Init
    /\ proc = "running"
    /\ main = "start"
    /\ index = 1
    /\ current = NULL
    /\ queueMade = FALSE
    /\ pool = {}
    /\ descriptor = [i \in Ports |-> FALSE]
    /\ count = 0
    /\ ready = {}
    /\ work = [w \in Workers |-> "none"]
    /\ shouldRun = [w \in Workers |-> FALSE]
    /\ connection = [w \in Workers |-> NULL]
    /\ listening = {}
    /\ backlog = [i \in Ports |-> {}]
    /\ fate = [c \in Connections |-> "new"]
    /\ pending = 0
    /\ sent = 0
    /\ handler = "off"
    /\ slot = 1

-----------------------------------------------------------------------------
(* server_start.  `return EXIT_FAILURE` ends the process: its caller exits. *)

MainAt(here) == proc = "running" /\ handler = "off" /\ main = here

Exit(how) == proc' = how /\ UNCHANGED <<queueVars, mainVars, workerVars, clientVars, signalVars>>

InstallHandlers ==
    /\ MainAt("start")
    /\ main' = "queue"
    /\ UNCHANGED <<queueVars, proc, index, current, queueMade, pool, descriptor,
                   count, ready, workerVars, clientVars, signalVars>>

CreateQueue ==
    /\ MainAt("queue")
    /\ \/ "queue" \in Faults /\ Exit("failure")
       \/ /\ main' = "pool"
          /\ queueMade' = TRUE
          /\ UNCHANGED <<queueVars, proc, index, current, pool, descriptor, count,
                         ready, workerVars, clientVars, signalVars>>

CreatePool ==
    /\ MainAt("pool")
    /\ \/ "pool" \in Faults /\ Exit("failure")
       \/ /\ main' = "spawn"
          /\ index' = 1
          /\ UNCHANGED <<queueVars, proc, current, queueMade, pool, descriptor, count,
                         ready, workerVars, clientVars, signalVars>>

\* worker_spawn: the thread runs before its slot in the pool is written.
SpawnWorker ==
    /\ MainAt("spawn")
    /\ index <= NThreads
    /\ \/ "spawn" \in Faults /\ Exit("failure")
       \/ /\ main' = "store"
          /\ work' = [work EXCEPT ![index] = "loop"]
          /\ shouldRun' = [shouldRun EXCEPT ![index] = TRUE]
          /\ UNCHANGED <<queueVars, proc, index, current, queueMade, pool, descriptor,
                         count, ready, connection, clientVars, signalVars>>

StoreWorker ==
    /\ MainAt("store")
    /\ pool' = pool \union {index}
    /\ index' = index + 1
    /\ main' = "spawn"
    /\ UNCHANGED <<queueVars, proc, current, queueMade, descriptor, count, ready,
                   workerVars, clientVars, signalVars>>

PoolComplete ==
    /\ MainAt("spawn")
    /\ index > NThreads
    /\ main' = "listen"
    /\ index' = 1
    /\ UNCHANGED <<queueVars, proc, current, queueMade, pool, descriptor, count,
                   ready, workerVars, clientVars, signalVars>>

\* server_listen returns a socket, or fails in socket(), setsockopt(), fcntl(),
\* bind() or listen().
ListenResults(port) == IF port \in BindFails THEN {TRUE, FALSE} ELSE {TRUE}

\* Mutant: the entries are filled in from the end.
Listen_Backwards ==
    /\ MainAt("listen")
    /\ index <= NPorts
    /\ index' = index + 1
    /\ \E bound \in ListenResults(index) :
          IF bound
          THEN /\ descriptor' = [descriptor EXCEPT ![NPorts + 1 - index] = TRUE]
               /\ count' = count + 1
               /\ listening' = listening \union {index}
          ELSE UNCHANGED <<descriptor, count, listening>>
    /\ UNCHANGED <<queueVars, proc, main, current, queueMade, pool, ready,
                   workerVars, backlog, fate, signalVars>>

\* Entry i belongs to port i; the counter counts the ports that were bound.
Listen ==
    /\ MainAt("listen")
    /\ index <= NPorts
    /\ index' = index + 1
    /\ \E bound \in ListenResults(index) :
          IF bound
          THEN /\ descriptor' = [descriptor EXCEPT ![index] = TRUE]
               /\ count' = count + 1
               /\ listening' = listening \union {index}
          ELSE UNCHANGED <<descriptor, count, listening>>
    /\ UNCHANGED <<queueVars, proc, main, current, queueMade, pool, ready,
                   workerVars, backlog, fate, signalVars>>

StartAccepting ==
    /\ MainAt("listen")
    /\ index > NPorts
    /\ \/ count = 0 /\ Exit("fatal")
       \/ /\ count # 0
          /\ main' = "poll"
          /\ UNCHANGED <<queueVars, proc, index, current, queueMade, pool, descriptor,
                         count, ready, workerVars, clientVars, signalVars>>

-----------------------------------------------------------------------------
(* server_acceptConnections *)

\* Mutant: the last entry is left out.
Poll_AllButLast ==
    /\ MainAt("poll")
    /\ ready' = {i \in 1..(count - 1) : descriptor[i] /\ backlog[i] # {}}
    /\ ready' # {}
    /\ index' = 1
    /\ main' = "accept"
    /\ UNCHANGED <<queueVars, proc, current, queueMade, pool, descriptor, count,
                   workerVars, clientVars, signalVars>>

\* poll looks at the first `count` entries only.
Poll ==
    /\ MainAt("poll")
    /\ ready' = {i \in 1..count : descriptor[i] /\ backlog[i] # {}}
    /\ ready' # {}
    /\ index' = 1
    /\ main' = "accept"
    /\ UNCHANGED <<queueVars, proc, current, queueMade, pool, descriptor, count,
                   workerVars, clientVars, signalVars>>

\* accept succeeded; what happens before the connection is set up may fail.
Accept ==
    /\ MainAt("accept")
    /\ index \in ready
    /\ \E c \in backlog[index] :
          /\ backlog' = [backlog EXCEPT ![index] = @ \ {c}]
          /\ \/ /\ "nonblocking" \in Faults
                /\ fate' = [fate EXCEPT ![c] = "closed"]
                /\ UNCHANGED <<main, current>>
             \/ /\ "connection" \in Faults
                /\ fate' = [fate EXCEPT ![c] = "leaked"]
                /\ UNCHANGED <<main, current>>
             \/ /\ fate' = [fate EXCEPT ![c] = "accepted"]
                /\ current' = c
                /\ main' = IF c \in TLSClients THEN "tls" ELSE "push"
    /\ UNCHANGED <<queueVars, proc, index, queueMade, pool, descriptor, count, ready,
                   workerVars, listening, signalVars>>

\* The entry was not ready, or accept has returned -1.
NextPort ==
    /\ MainAt("accept")
    /\ index \notin ready \/ backlog[index] = {}
    /\ main' = IF index = count THEN "poll" ELSE "accept"
    /\ index' = index + 1
    /\ UNCHANGED <<queueVars, proc, current, queueMade, pool, descriptor, count, ready,
                   workerVars, clientVars, signalVars>>

\* Mutant: a connection whose handshake failed is freed and queued all the same.
Handshake_Freed ==
    /\ MainAt("tls")
    /\ \/ main' = "push" /\ UNCHANGED <<current, fate>>
       \/ /\ "tls" \in Faults
          /\ fate' = [fate EXCEPT ![current] = "closed"]
          /\ main' = "push"
          /\ UNCHANGED current
    /\ UNCHANGED <<queueVars, proc, index, queueMade, pool, descriptor, count, ready,
                   workerVars, listening, backlog, signalVars>>

\* server_handleSSL returns a session, or 0 after SSL_accept has failed; the
\* connection is then freed.  It waits for the client without a time limit:
\* that clients go on with their handshake is a fairness assumption.
Handshake ==
    /\ MainAt("tls")
    /\ \/ main' = "push" /\ UNCHANGED <<current, fate>>
       \/ /\ "tls" \in Faults
          /\ fate' = [fate EXCEPT ![current] = "closed"]
          /\ current' = NULL
          /\ main' = "accept"
    /\ UNCHANGED <<queueVars, proc, index, queueMade, pool, descriptor, count, ready,
                   workerVars, listening, backlog, signalVars>>

\* SSL_accept returned 0: the session is freed and the loop goes on with it.
HandshakeShutdown ==
    /\ MainAt("tls")
    /\ "tls shutdown" \in Faults
    /\ Exit("crashed")

\* message_queue_push(server_connectionQueue, connection)
BeginPush ==
    /\ MainAt("push")
    /\ Q!Push(Main, current)
    /\ main' = "pushing"
    /\ current' = NULL
    /\ UNCHANGED <<proc, index, queueMade, pool, descriptor, count, ready,
                   workerVars, clientVars, signalVars>>

Pushing ==
    /\ MainAt("pushing")
    /\ Q!PushStep(Main)
    /\ main' = IF pc'[Main] = "idle" THEN "accept" ELSE "pushing"
    /\ UNCHANGED <<proc, index, current, queueMade, pool, descriptor, count, ready,
                   workerVars, clientVars, signalVars>>

MainStep ==
    \/ InstallHandlers \/ CreateQueue \/ CreatePool \/ SpawnWorker \/ StoreWorker
    \/ PoolComplete \/ Listen \/ StartAccepting
    \/ Poll \/ Accept \/ NextPort \/ Handshake \/ HandshakeShutdown
    \/ BeginPush \/ Pushing

-----------------------------------------------------------------------------
(* worker_entryPoint, in pool mode: no caller uses the immediate mode *)

WorkerAt(w, here) == proc = "running" /\ work[w] = here

WorkerPop(w) ==
    /\ WorkerAt(w, "loop")
    /\ Q!Pop(w)
    /\ work' = [work EXCEPT ![w] = "popping"]
    /\ UNCHANGED <<proc, mainVars, shouldRun, connection, clientVars, signalVars>>

WorkerPopping(w) ==
    /\ WorkerAt(w, "popping")
    /\ Q!PopStep(w)
    /\ IF pc'[w] = "idle"
       THEN /\ work' = [work EXCEPT ![w] = "popped"]
            /\ connection' = [connection EXCEPT ![w] = value[w]]
       ELSE UNCHANGED <<work, connection>>
    /\ UNCHANGED <<proc, mainVars, shouldRun, clientVars, signalVars>>

WorkerSpuriousWakeup(w) ==
    /\ WorkerAt(w, "popping")
    /\ Q!SpuriousWakeup(w)
    /\ UNCHANGED <<proc, mainVars, workerVars, clientVars, signalVars>>

\* shouldRun is read after the pop, whatever the pop returned.
WorkerPopped(w) ==
    /\ WorkerAt(w, "popped")
    /\ work' = [work EXCEPT ![w] = IF ~shouldRun[w] THEN "exited"
                                   ELSE IF connection[w] = NULL THEN "loop"
                                   ELSE "working"]
    /\ UNCHANGED <<queueVars, proc, mainVars, shouldRun, connection, clientVars,
                   signalVars>>

\* worker_handleConnection and connection_free
WorkerServe(w) ==
    /\ WorkerAt(w, "working")
    /\ fate' = [fate EXCEPT ![connection[w]] = "served"]
    /\ connection' = [connection EXCEPT ![w] = NULL]
    /\ work' = [work EXCEPT ![w] = "loop"]
    /\ UNCHANGED <<queueVars, proc, mainVars, shouldRun, listening, backlog,
                   signalVars>>

WorkerStep(w) == WorkerPop(w) \/ WorkerPopping(w) \/ WorkerPopped(w) \/ WorkerServe(w)

-----------------------------------------------------------------------------
(* server_closeGracefully *)

HandlerAt(here) == proc = "running" /\ handler = here

\* The main thread is chosen for a signal unless it is already handling one.
Deliver ==
    /\ HandlerAt("off")
    /\ pending > 0
    /\ main \in SignalAt
    /\ handler' = "enter"
    /\ pending' = pending - 1
    /\ UNCHANGED <<queueVars, proc, mainVars, workerVars, clientVars, sent, slot>>

\* A signal during the shutdown: before the handlers are replaced a thread of
\* the pool runs server_closeGracefully too, afterwards the empty handler runs.
DeliverAgain ==
    /\ proc = "running"
    /\ handler # "off"
    /\ pending > 0
    /\ pending' = pending - 1
    /\ proc' = IF handler = "enter" /\ \E w \in Workers : work[w] \notin {"none", "exited"}
               THEN "closed twice" ELSE proc
    /\ UNCHANGED <<queueVars, mainVars, workerVars, clientVars, sent, handler, slot>>

ReplaceHandlers ==
    /\ HandlerAt("enter")
    /\ handler' = "sockets"
    /\ UNCHANGED <<queueVars, proc, mainVars, workerVars, clientVars, pending, sent, slot>>

CloseSockets ==
    /\ HandlerAt("sockets")
    /\ LET closing == {i \in 1..count : descriptor[i]}
       IN  /\ listening' = listening \ closing
           /\ backlog' = [i \in Ports |-> IF i \in closing THEN {} ELSE backlog[i]]
           /\ fate' = [c \in Connections |->
                          IF \E i \in closing : c \in backlog[i] THEN "refused" ELSE fate[c]]
    /\ handler' = "suspend"
    /\ slot' = 1
    /\ UNCHANGED <<queueVars, proc, mainVars, workerVars, pending, sent>>

\* Mutant: the workers are not told to exit.
SuspendWorker_Forget ==
    /\ HandlerAt("suspend")
    /\ slot <= NThreads
    /\ \/ /\ slot \notin pool
          /\ Exit("crashed")
       \/ /\ slot \in pool
          /\ slot' = slot + 1
          /\ UNCHANGED <<queueVars, proc, mainVars, workerVars, clientVars,
                         pending, sent, handler>>

\* worker_closeGracefully on each slot; before the pool is allocated, or when a
\* slot is not set yet, the pointer it reads is null or garbage.
SuspendWorker ==
    /\ HandlerAt("suspend")
    /\ slot <= NThreads
    /\ \/ /\ slot \notin pool
          /\ Exit("crashed")
       \/ /\ slot \in pool
          /\ shouldRun' = [shouldRun EXCEPT ![slot] = FALSE]
          /\ slot' = slot + 1
          /\ UNCHANGED <<queueVars, proc, mainVars, work, connection, clientVars,
                         pending, sent, handler>>

\* message_queue_unlock(server_connectionQueue)
BeginUnlock ==
    /\ HandlerAt("suspend")
    /\ slot > NThreads
    /\ Q!Close(Handler)
    /\ handler' = "unlocking"
    /\ UNCHANGED <<proc, mainVars, workerVars, clientVars, pending, sent, slot>>

Unlocking ==
    /\ HandlerAt("unlocking")
    /\ Q!CloseStep(Handler)
    /\ handler' = IF pc'[Handler] = "idle" THEN "join" ELSE "unlocking"
    /\ slot' = 1
    /\ UNCHANGED <<proc, mainVars, workerVars, clientVars, pending, sent>>

\* Mutant: the worker is freed without pthread_join.
JoinWorker_NoJoin ==
    /\ HandlerAt("join")
    /\ slot <= NThreads
    /\ fate' = [c \in Connections |-> IF c = connection[slot] THEN "dropped" ELSE fate[c]]
    /\ connection' = [connection EXCEPT ![slot] = NULL]
    /\ slot' = slot + 1
    /\ UNCHANGED <<queueVars, proc, mainVars, work, shouldRun, listening, backlog,
                   pending, sent, handler>>

\* worker_waitForExit and worker_free
JoinWorker ==
    /\ HandlerAt("join")
    /\ slot <= NThreads
    /\ work[slot] = "exited"
    /\ fate' = [c \in Connections |-> IF c = connection[slot] THEN "dropped" ELSE fate[c]]
    /\ connection' = [connection EXCEPT ![slot] = NULL]
    /\ slot' = slot + 1
    /\ UNCHANGED <<queueVars, proc, mainVars, work, shouldRun, listening, backlog,
                   pending, sent, handler>>

\* Frees the pool, the descriptors and the queue, and exits: connections still
\* in the list, or with the main thread, are cut.
FreeAndExit ==
    /\ HandlerAt("join")
    /\ slot > NThreads
    /\ proc' = "clean"
    /\ pool' = {}
    /\ queueMade' = FALSE
    /\ fate' = [c \in Connections |-> IF fate[c] = "accepted" THEN "dropped" ELSE fate[c]]
    /\ UNCHANGED <<queueVars, main, index, current, descriptor, count, ready,
                   workerVars, listening, backlog, signalVars>>

HandlerStep ==
    \/ ReplaceHandlers \/ CloseSockets \/ SuspendWorker \/ BeginUnlock \/ Unlocking
    \/ JoinWorker \/ FreeAndExit

-----------------------------------------------------------------------------
(* The environment: clients, and whoever sends SIGINT or SIGTERM *)

Connect(c, i) ==
    /\ proc = "running"
    /\ fate[c] = "new"
    /\ i \in listening
    /\ backlog' = [backlog EXCEPT ![i] = @ \union {c}]
    /\ fate' = [fate EXCEPT ![c] = "waiting"]
    /\ UNCHANGED <<queueVars, proc, mainVars, workerVars, listening, signalVars>>

SendSignal ==
    /\ proc = "running"
    /\ main # "start"
    /\ sent < MaxSignals
    /\ sent' = sent + 1
    /\ pending' = pending + 1
    /\ UNCHANGED <<queueVars, proc, mainVars, workerVars, clientVars, handler, slot>>

Ended == proc # "running" /\ UNCHANGED vars

Next ==
    \/ MainStep
    \/ \E w \in Workers : WorkerStep(w) \/ WorkerSpuriousWakeup(w)
    \/ Deliver \/ DeliverAgain \/ HandlerStep
    \/ \E c \in Connections, i \in Ports : Connect(c, i)
    \/ SendSignal
    \/ Ended

Spec == Init /\ [][Next]_vars

\* Every thread keeps running and gets the mutex in the end, clients go on
\* with their handshakes, requests are handled in finite time, and a signal
\* that was sent is delivered.  Clients and signals may or may not come.
Fairness ==
    /\ SF_vars(MainStep)
    /\ \A w \in Workers : SF_vars(WorkerStep(w))
    /\ SF_vars(HandlerStep)
    /\ SF_vars(Deliver)

FairSpec == Spec /\ Fairness

-----------------------------------------------------------------------------
(* Properties *)

\* Type invariant of the process, its threads and its clients.
TypeOK ==
    /\ Q!TypeOK
    /\ proc \in {"running", "clean", "failure", "fatal", "crashed", "closed twice"}
    /\ main \in {"start", "queue", "pool", "spawn", "store", "listen", "poll",
                 "accept", "tls", "push", "pushing"}
    /\ index \in 1..(NThreads + NPorts + 1)
    /\ current \in Connections \union {NULL}
    /\ queueMade \in BOOLEAN
    /\ pool \subseteq Workers
    /\ descriptor \in [Ports -> BOOLEAN]
    /\ count \in 0..NPorts
    /\ ready \subseteq Ports
    /\ work \in [Workers -> {"none", "loop", "popping", "popped", "working", "exited"}]
    /\ shouldRun \in [Workers -> BOOLEAN]
    /\ connection \in [Workers -> Connections \union {NULL}]
    /\ listening \subseteq Ports
    /\ backlog \in [Ports -> SUBSET Connections]
    /\ fate \in [Connections -> {"new", "waiting", "accepted", "served", "closed",
                                 "leaked", "dropped", "refused"}]
    /\ pending \in 0..MaxSignals /\ sent \in 0..MaxSignals
    /\ handler \in {"off", "enter", "sockets", "suspend", "unlocking", "join"}
    /\ slot \in 1..(NThreads + 1)

\* Thread t has a pointer to connection c that it may still use.
Holds(t, c) ==
    IF t = Main
    THEN current = c \/ (pc[Main] \in {"push", "push_locked"} /\ value[Main] = c)
    ELSE connection[t] = c \/ (pc[t] = "pop_leave" /\ value[t] = c)

\* Ownership of a connection is handed from the accepting thread through the
\* queue to one worker: while it is open exactly one of them holds it, so
\* connection_free runs once, and nobody holds one that was freed.
OneOwner ==
    /\ TypeOK
    /\ proc = "running" => \A c \in Connections :
          Cardinality({t \in {Main} \union Workers : Holds(t, c)})
              + Cardinality({i \in DOMAIN list : list[i] = c})
          = IF fate[c] = "accepted" THEN 1 ELSE 0

\* server_closeGracefully frees a worker, and in the end the queue, only after
\* the threads that use them have left worker_entryPoint.
FreedAfterExit ==
    /\ handler = "join" => \A w \in 1..(slot - 1) : work[w] = "exited"
    /\ proc = "clean" => \A w \in Workers : work[w] = "exited" /\ pc[w] = "idle"

\* server_acceptConnections polls every port that was bound, as server.h says
\* ("Block until at least one of the bound ports receives a request"), provided
\* that no port failed before one that was bound: the entries with a socket
\* are then the first `count` ones.
AllBoundPolled ==
    (main = "poll" /\ \E n \in 0..NPorts : listening = 1..n)
        => \A i \in Ports : descriptor[i] => i <= count

\* Every client that waits at a port that is polled is answered, or given up
\* by an error path of accept or of the handshake, unless the server is asked
\* to stop or has ended.
ClientsServed ==
    \A c \in Connections :
        (\E i \in 1..count : c \in backlog[i])
            ~> \/ fate[c] \in {"served", "closed", "leaked"}
               \/ pending > 0 \/ handler # "off" \/ proc # "running"

\* Once server_closeGracefully has replaced the signal handlers, and if the
\* pool was complete when the signal came, the process exits cleanly: sockets
\* closed, workers told, woken and joined.  main.c, line 217, counts on it: "the
\* SIGINT will be received by the worker process as well, killing it automatically".
ShutdownCompletes == (handler = "sockets" /\ pool = Workers) ~> (proc = "clean")

=============================================================================
