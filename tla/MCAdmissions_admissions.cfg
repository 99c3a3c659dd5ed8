SPECIFICATION Spec
CONSTANTS
    Sandbox = {s1, s2, s3}
    Worker = {w1, w2}
    Capacity = 8
    Granularity = 10
    RelativeDeadline = 20
    Time <- MCTime
    WindowSize = 4
    Percentile = 70
    MaxCount = 8
    NULL = NULL
SYMMETRY Symmetric
\* The runtime panics on an estimate of 0, and rejects everything once the capacity is used up for nothing.
CHECK_DEADLOCK FALSE
INVARIANTS SlidingWindow PercentileIsRight WithinCapacity TotalIsInFlight
