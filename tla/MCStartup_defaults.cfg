\* One server's settings at a time, daemon among them.
SPECIFICATION Spec
CONSTANTS
    Documents <- MCDocuments
    Arguments <- MCArguments
    Files = {"good"}
    SOMAXCONN = 128
    NULL = NULL
INVARIANTS DaemonOnRequest
