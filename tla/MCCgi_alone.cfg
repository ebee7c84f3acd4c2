\* One worker, and more chunks each way than a pipe holds.
SPECIFICATION FairSpec
CONSTANTS
    Workers = {w1}
    MaxSockets = 1
    Body = 3
    Output = 3
    Capacity = 2
    Retries = 1
    NULL = NULL
INVARIANTS CompleteResponse 
 
