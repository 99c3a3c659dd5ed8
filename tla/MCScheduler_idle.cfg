CONSTANTS
    Worker = {w1, w2}
    Sandbox = {s1, s2}
    Deadline = {1}
    QueueCapacity = 2
    Triaged = TRUE
    SpinloopPause = TRUE
    ModuleDoes = {"sys"}
    PrepareMayFail = FALSE
    NULL = NULL
    Base = Base
SPECIFICATION FairSpec
PROPERTIES
    IdleWorkerPicksUp
