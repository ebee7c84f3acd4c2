\* Two workers, two ports either of which may fail to be bound, a plain client
\* and one with TLS, and up to two signals outside message_queue_push.
SPECIFICATION Spec
CONSTANTS
    NThreads = 2
    NPorts = 2
    BindFails = {1, 2}
    Connections = {c1, c2}
    TLSClients = {c2}
    MaxSignals = 2
    SignalAt = {"queue", "pool", "spawn", "store", "listen", "poll", "accept", "tls", "push"}
    Faults = {"queue", "pool", "spawn", "nonblocking", "connection", "tls", "tls shutdown"}
    NULL = NULL
INVARIANTS OneOwner FreedAfterExit 
