\* Two ports of which the first may fail, and one signal while the server accepts.
SPECIFICATION FairSpec
CONSTANTS
    NThreads = 2
    NPorts = 2
    BindFails = {1}
    Connections = {c1, c2}
    TLSClients = {c2}
    MaxSignals = 1
    SignalAt = {"poll", "accept", "tls", "push"}
    Faults = {"tls"}
    NULL = NULL
PROPERTIES ClientsServed ShutdownCompletes
