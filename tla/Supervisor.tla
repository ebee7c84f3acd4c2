----------------------------- MODULE Supervisor -----------------------------
(***************************************************************************)
(* The main process (main.c): forks a server process, sleeps, restarts the *)
(* server when it has died, and passes SIGINT and SIGTERM on to it.  A     *)
(* server process is here only what the main process can see of it: it     *)
(* starts, serves, closes when it is told to, and ends in some way.        *)
(***************************************************************************)
EXTENDS Naturals, FiniteSets

CONSTANTS
    MaxInstances,  \* forks the system grants; the next one fails
    Ends,          \* ways a server process may end on its own
    MaxSignals,    \* bound on the signals sent to the main process
    Terminal,      \* signals come from a terminal and reach the server too
    SignalAt       \* positions of the main process at which a signal may land

SupervisorAssumption ==
    /\ MaxInstances \in Nat
    /\ Ends \subseteq {"failure", "fatal", "crashed"}
    /\ MaxSignals \in Nat
    /\ Terminal \in BOOLEAN

Instances == 1..MaxInstances

VARIABLES
    sup,          \* position of the main process
    instance,     \* main_serverInstance: the number of the fork, 0 before it
    shouldRun,    \* main_serverShouldRun
    child,        \* what each server process is doing, or how it ended
    reaped,       \* server processes collected by wait or waitpid
    pending,      \* signals for the main process, not yet delivered
    sent,         \* signals sent so far
    killed        \* server processes with an undelivered SIGINT

supVars == <<sup, instance, shouldRun>>
vars == <<supVars, child, reaped, pending, sent, killed>>

Alive == {i \in Instances : child[i] \in {"starting", "serving", "closing"}}
Forked == {i \in Instances : child[i] # "unborn"}
Dead == Forked \ Alive

Init ==
    /\ sup = "start"
    /\ instance = 0
    /\ shouldRun = TRUE
    /\ child = [i \in Instances |-> "unborn"]
    /\ reaped = {}
    /\ pending = 0
    /\ sent = 0
    /\ killed = {}

-----------------------------------------------------------------------------
(* The main process *)

\* server_createInstance: the child starts, or fork fails.
CreateInstance(there) ==
    IF Forked = Instances
    THEN sup' = "failed" /\ UNCHANGED child
    ELSE sup' = there /\ child' = [child EXCEPT ![Cardinality(Forked) + 1] = "starting"]

Start ==
    /\ sup = "start"
    /\ CreateInstance("handlers")
    /\ instance' = Cardinality({i \in Instances : child'[i] # "unborn"})
    /\ UNCHANGED <<shouldRun, reaped, pending, sent, killed>>

InstallHandlers ==
    /\ sup = "handlers"
    /\ sup' = "loop"
    /\ UNCHANGED <<instance, shouldRun, child, reaped, pending, sent, killed>>

\* Mutant: the loop does not look at main_serverShouldRun.
Loop_Forever ==
    /\ sup = "loop"
    /\ sup' = "sleep"
    /\ UNCHANGED <<instance, shouldRun, child, reaped, pending, sent, killed>>

Loop ==
    /\ sup = "loop"
    /\ sup' = IF shouldRun THEN "sleep" ELSE "drain"
    /\ UNCHANGED <<instance, shouldRun, child, reaped, pending, sent, killed>>

\* sleep(10) ends by itself, or at once when a signal is handled.
WakeUp ==
    /\ sup = "sleep"
    /\ sup' = "waitpid"
    /\ UNCHANGED <<instance, shouldRun, child, reaped, pending, sent, killed>>

\* Mutant: a child that is still running counts as one that has ended.
Waitpid_AnyResult ==
    /\ sup = "waitpid"
    /\ sup' = "decide" /\ reaped' = reaped \union {instance}
    /\ UNCHANGED <<instance, shouldRun, child, pending, sent, killed>>

\* waitpid(main_serverInstance, &status, WNOHANG)
Waitpid ==
    /\ sup = "waitpid"
    /\ IF instance \in Alive
       THEN sup' = "loop" /\ UNCHANGED reaped
       ELSE sup' = "decide" /\ reaped' = reaped \union {instance}
    /\ UNCHANGED <<instance, shouldRun, child, pending, sent, killed>>

\* WIFEXITED is false for a process that a signal has ended.
Exited == child[instance] # "crashed"

\* Mutant: only a server that was killed by a signal is restarted.
Decide_CrashOnly ==
    /\ sup = "decide"
    /\ sup' = IF ~Exited /\ instance # 0 THEN "fork" ELSE "loop"
    /\ UNCHANGED <<instance, shouldRun, child, reaped, pending, sent, killed>>

Decide ==
    /\ sup = "decide"
    /\ sup' = IF Exited /\ shouldRun
              THEN IF child[instance] = "fatal" THEN "failed" ELSE "fork"
              ELSE IF ~Exited /\ instance # 0 THEN "fork" ELSE "loop"
    /\ UNCHANGED <<instance, shouldRun, child, reaped, pending, sent, killed>>

Fork ==
    /\ sup = "fork"
    /\ CreateInstance("assign")
    /\ UNCHANGED <<instance, shouldRun, reaped, pending, sent, killed>>

\* main_serverInstance = newInstance
Assign ==
    /\ sup = "assign"
    /\ instance' = Cardinality(Forked)
    /\ sup' = "loop"
    /\ UNCHANGED <<shouldRun, child, reaped, pending, sent, killed>>

\* wait(0) collects a child that has ended, blocks while there are only live
\* ones, and fails when there are none.
Drain ==
    /\ sup = "drain"
    /\ \/ /\ reaped = Forked
          /\ sup' = "done"
          /\ UNCHANGED reaped
       \/ /\ \E i \in Dead \ reaped : reaped' = reaped \union {i}
          /\ UNCHANGED sup
    /\ UNCHANGED <<instance, shouldRun, child, pending, sent, killed>>

SupStep == Start \/ InstallHandlers \/ Loop \/ WakeUp \/ Waitpid \/ Decide \/ Fork
           \/ Assign \/ Drain

\* handleSignalSIGINT and handleSignalSIGTERM; kill does nothing for a process
\* that was collected.
HandleSignal ==
    /\ pending > 0
    /\ sup \in SignalAt \ {"start", "handlers"}
    /\ pending' = pending - 1
    /\ killed' = IF instance \in reaped THEN killed ELSE killed \union {instance}
    /\ shouldRun' = FALSE
    /\ UNCHANGED <<sup, instance, child, reaped, sent>>

\* Before its handlers are installed a signal ends the main process.
DefaultSignal ==
    /\ pending > 0
    /\ sup = "handlers"
    /\ sup \in SignalAt
    /\ pending' = pending - 1
    /\ sup' = "killed"
    /\ UNCHANGED <<instance, shouldRun, child, reaped, sent, killed>>

-----------------------------------------------------------------------------
(* A server process *)

\* Its end raises SIGCHLD, which can do no more than cut the sleep short.
End(i, how) ==
    /\ child' = [child EXCEPT ![i] = how]
    /\ UNCHANGED <<sup, instance, shouldRun, reaped, pending, sent>>

\* server_start has installed its own handlers.
Serve(i) ==
    /\ child[i] = "starting"
    /\ child' = [child EXCEPT ![i] = "serving"]
    /\ UNCHANGED <<supVars, reaped, pending, sent, killed>>

EndItself(i) ==
    /\ child[i] \in {"serving", "closing"}
    /\ \E how \in Ends : /\ child[i] = "closing" => how = "crashed"
                         /\ End(i, how)
    /\ UNCHANGED killed

\* A process that has not reached server_start yet has the handlers of the
\* moment it was forked: the default ones in the first, which end it; those of
\* the main process in the others, which there have no effect on it.
ReceiveSignal(i) ==
    /\ i \in killed
    /\ killed' = killed \ {i}
    /\ \/ child[i] = "starting" /\ i = 1 /\ End(i, "crashed")
       \/ /\ child[i] = "serving"
          /\ child' = [child EXCEPT ![i] = "closing"]
          /\ UNCHANGED <<supVars, reaped, pending, sent>>
       \/ /\ child[i] # "serving"
          /\ ~(child[i] = "starting" /\ i = 1)
          /\ UNCHANGED <<supVars, child, reaped, pending, sent>>

\* server_closeGracefully ends with exit(0).
CloseGracefully(i) ==
    /\ child[i] = "closing"
    /\ End(i, "clean")
    /\ UNCHANGED killed

-----------------------------------------------------------------------------
Ended == sup \in {"done", "failed", "killed"}

SendSignal ==
    /\ sup # "start"
    /\ ~Ended
    /\ sent < MaxSignals
    /\ sent' = sent + 1
    /\ pending' = pending + 1
    /\ killed' = IF Terminal THEN killed \union Alive ELSE killed
    /\ UNCHANGED <<supVars, child, reaped>>

Over == Ended /\ UNCHANGED vars

InstanceStep(i) == Serve(i) \/ EndItself(i) \/ ReceiveSignal(i) \/ CloseGracefully(i)

Next ==
    \/ SupStep \/ HandleSignal \/ DefaultSignal
    \/ \E i \in Instances : InstanceStep(i)
    \/ SendSignal
    \/ Over

Spec == Init /\ [][Next]_vars

\* The main process runs, a signal is delivered, and so is SIGINT to a server
\* process, which starts and, when told to, closes.  It need not end otherwise.
Fairness ==
    /\ WF_vars(SupStep)
    /\ SF_vars(HandleSignal)
    /\ \A i \in Instances :
          /\ WF_vars(Serve(i))
          /\ WF_vars(ReceiveSignal(i))
          /\ WF_vars(CloseGracefully(i))

FairSpec == Spec /\ Fairness

-----------------------------------------------------------------------------
(* Properties *)

\* Type invariant of the main process and its children.
TypeOK ==
    /\ sup \in {"start", "handlers", "loop", "sleep", "waitpid", "decide", "fork",
                "assign", "drain", "done", "failed", "killed"}
    /\ instance \in 0..MaxInstances
    /\ shouldRun \in BOOLEAN
    /\ child \in [Instances -> {"unborn", "starting", "serving", "closing",
                                "clean", "failure", "fatal", "crashed"}]
    /\ reaped \subseteq Instances
    /\ pending \in 0..MaxSignals /\ sent \in 0..MaxSignals
    /\ killed \subseteq Instances

\* Whatever ends, and whenever signals come, the main process has one server
\* at most, since two would compete for the ports; it calls waitpid only for a
\* child it has not collected yet, so `status` is never read uninitialised
\* (main.c, lines 183-185); and it ends only after its servers have (lines 217-221).
OneInstance ==
    /\ TypeOK
    /\ Cardinality(Alive) <= 1
    /\ sup = "waitpid" => instance \in Forked \ reaped
    /\ sup \in {"done", "failed"} => Alive = {}

\* A server that has ended is replaced, unless the main process was told to
\* stop, gave up, or could not fork.
Restarted ==
    \A i \in Instances :
        (i \in Dead) ~> (\/ \E j \in Forked : j > i
                         \/ ~shouldRun \/ Ended)

\* A signal handled while the server is serving, and passed on to it, ends both
\* processes ("killing it automatically", main.c, line 217), whatever the main
\* process was doing, unless the server crashes on its way.  A signal that is
\* handled during a restart goes to the old server and need not end the new one.
ServingStops ==
    \A i \in Instances :
        (~shouldRun /\ i = instance /\ i \in killed /\ child[i] = "serving")
            ~> (sup = "done" \/ child[i] = "crashed")

=============================================================================
