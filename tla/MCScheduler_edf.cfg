CONSTANTS
    Worker = {w1, w2}
    Sandbox = {s1, s2}
    Deadline = {1, 2}
    QueueCapacity = 1
    Triaged = FALSE
    SpinloopPause = FALSE
    ModuleDoes = {"sys", "fini", "trap"}
    PrepareMayFail = TRUE
    NULL = NULL
    Base = Base
SPECIFICATION Spec
SYMMETRY Symmetric
\* The runtime aborts when a preparation fails or the global queue is full.
CHECK_DEADLOCK FALSE
INVARIANTS
    OnePlace
    StackAlive
    AssertionsHold
    RunsEarliest
PROPERTIES
    ImplementsLifecycle
