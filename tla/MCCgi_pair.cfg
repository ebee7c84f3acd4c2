\* Two workers that share the descriptor table, without a body.
SPECIFICATION Spec
CONSTANTS
    Workers = {w1, w2}
    MaxSockets = 0
    Body = 0
    Output = 1
    Capacity = 1
    Retries = 0
    NULL = NULL
SYMMETRY Symmetry
INVARIANTS DescriptorsReturned
