SPECIFICATION Spec
CONSTANTS
    Worker = {w1, w2}
    Sandbox = {s1, s2}
    small = small
    large = large
    Module = {small, large}
    RuntimeGlobals = {small}
    StartingPages <- MCStartingPages
    MaxPages = 2
    PageWrap = 8
    GlobalsLen = 2
    Grow = {1}
    Assigned = {0}
    DatabaseCapacity = 2
    MemoryBound = 2
    NULL = NULL
SYMMETRY Symmetric
\* The runtime aborts when no linear memory can be mapped.
CHECK_DEADLOCK FALSE
INVARIANTS CacheIsCurrent KeepsItsGlobals KeepsItsMemory OneHolder ReferencesAreSandboxes
