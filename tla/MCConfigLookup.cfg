\* Two workers look up two virtual hosts.
SPECIFICATION Spec
CONSTANTS
    Readers = {w1, w2}
    NConfigs = 2
    SizeBits = 16
    NULL = NULL
INVARIANTS LookupFinds
