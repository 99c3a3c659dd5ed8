CONSTANTS
    Worker = {w1}
    Sandbox = {s1, s2}
    Deadline = {1, 2}
    QueueCapacity = 2
    Triaged = TRUE
    SpinloopPause = TRUE
    ModuleDoes = {"sys", "fini", "trap"}
    PrepareMayFail = FALSE
    NULL = NULL
    Base = Base
SPECIFICATION FairSpec
PROPERTIES
    UrgentIsPickedUp
    EveryRequestAnswered
