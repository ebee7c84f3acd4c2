\* Start-up: up to three servers of thirteen kinds.  Supervision: four forks,
\* servers that end in every way, two signals anywhere.
SPECIFICATION MainSpec
CONSTANTS
    Documents <- MCDocuments
    Arguments <- MCArguments
    Files = {"good"}
    SOMAXCONN = 128
    MaxInstances = 4
    Ends = {"failure", "fatal", "crashed"}
    MaxSignals = 2
    Terminal = TRUE
    SignalAt = {"handlers", "loop", "sleep", "waitpid", "decide", "fork", "assign", "drain"}
    NULL = NULL
INVARIANTS  PortsServed ConfigFreed OneInstance
PROPERTIES Restarted 
