\* Every text of up to four characters, with and without TLS, with and without
\* a body, sent in any pieces, while calls may fail.
SPECIFICATION FairSpec
CONSTANTS
    Alphabet = {"char", "newline", "blank", "nul"}
    MaxLength = 4
    Messages <- MCMessages
    MaxRecord = 2
    MaxHeader = 4
    BodyLengths = {0, 2}
    Response = 3
    SendBuffer = 2
    Retries = 1
    Faults = {"ioctl", "recv", "interrupt"}
    NULL = NULL
INVARIANTS LinesInOrder HeaderBelowLimit
PROPERTIES WholeBodyIsRead WorkerReleased
