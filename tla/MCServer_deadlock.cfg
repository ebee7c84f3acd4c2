\* One client and one signal, which lands inside message_queue_push.
SPECIFICATION FairSpec
CONSTANTS
    NThreads = 2
    NPorts = 1
    BindFails = {}
    Connections = {c1}
    TLSClients = {}
    MaxSignals = 1
    SignalAt = {"pushing"}
    Faults = {}
    NULL = NULL
PROPERTIES ShutdownCompletes
CHECK_DEADLOCK FALSE
