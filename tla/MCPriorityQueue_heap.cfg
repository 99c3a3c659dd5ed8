CONSTANTS
    Element <- MCElement
    PriorityOf <- Paired
    MaxPriority = 100
    Capacity = 7
    AnyDelete = FALSE
    NULL = NULL
SPECIFICATION Spec
INVARIANTS
    PeekOverlooksNothing
PROPERTIES
    ImplementsOrderedQueue
