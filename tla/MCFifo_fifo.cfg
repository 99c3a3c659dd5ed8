SPECIFICATION FairSpec
CONSTANTS
    Worker = {w1, w2}
    Sandbox = {1, 2, 3}
    Capacity = 2
    DEQUE_MAX_SZ = 3
    NULL = NULL
INVARIANTS
    OnePlace
PROPERTIES
    IsQueue
    EventuallyServed
