\* Two workers, the accepting thread, three connections, one closer.
SPECIFICATION FairSpec
CONSTANTS
    Producers = {main}
    Consumers = {w1, w2}
    Closers = {handler}
    Values = {c1, c2, c3}
    NULL = NULL
INVARIANTS MutualExclusion FifoOrder NoLostWakeup CloseWakesAll
PROPERTIES ImplementsFifo PushCompletes ImplementsFairFifo
