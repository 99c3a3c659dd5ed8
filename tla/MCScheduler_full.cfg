CONSTANTS
    Worker = {w1}
    Sandbox = {s1, s2}
    Deadline = {1, 2}
    QueueCapacity = 1
    Triaged = FALSE
    SpinloopPause = FALSE
    ModuleDoes = {"sys", "fini", "trap"}
    PrepareMayFail = FALSE
    NULL = NULL
    Base = Base
SPECIFICATION Spec
CHECK_DEADLOCK FALSE
INVARIANTS
    FullQueueIsRefused
