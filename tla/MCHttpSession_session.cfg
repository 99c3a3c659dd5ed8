SPECIFICATION FairSpec
CONSTANTS
    Session = {s1, s2}
    Worker = {w1}
    Listener = listener
    Tenant = tenant
    HeaderLength = 1
    MaxBody = 2
    QueueCapacity = 1
    MemoryMayFail = TRUE
    NULL = NULL
\* The process dies when memory runs out or the request queue is full.
CHECK_DEADLOCK FALSE
INVARIANTS OneHolder EventsAreFresh InOrder
PROPERTIES WholeResponse SessionsEnd
