------------------------------- MODULE MCMain -------------------------------
(* The main process for TLC: its start-up and its supervision of the server,  *)
(* each on its own.                                                           *)
EXTENDS Startup, Supervision, TLC

INSTANCE MCSettings

ASSUME StartupAssumption /\ Sup!SupervisorAssumption

\* The one that does not run has come to its end.
Supervised ==
    /\ sup = "done" /\ instance = 0 /\ shouldRun = FALSE
    /\ child = [k \in Sup!Instances |-> "unborn"]
    /\ reaped = {} /\ pending = 0 /\ sent = MaxSignals /\ killed = {}

Stopped ==
    /\ pc = "stopped" /\ arguments = Silent
    /\ document = [server |-> NULL, others |-> 0, servers |-> NULL]
    /\ i = 0 /\ server = NULL /\ serverConfigs = <<>>
    /\ settings = [daemon |-> 0, logfile |-> NULL, loggingLevel |-> 0,
                   threads |-> 0, backlog |-> 0]
    /\ ports = {} /\ daemonized = FALSE /\ noContext = {}
    /\ live = {} /\ misuse = FALSE

MainInit == (Init /\ Supervised) \/ (Stopped /\ Sup!Init)

MainNext ==
    \/ Next /\ UNCHANGED supervision
    \/ Sup!Next /\ UNCHANGED vars

MainSpec == MainInit /\ [][MainNext]_<<vars, supervision>> /\ Sup!Fairness

=============================================================================
