SPECIFICATION Spec
CONSTANTS
    Requests <- AllRequests
    MaxHeaders = 2
    MaxKey = 2
    MaxValue = 3
    MaxParams = 2
    MaxParamLength = 3
    MaxUrl = 4
\* A complete or refused request is the end.
CHECK_DEADLOCK FALSE
INVARIANTS ValuesAreWhole LimitsRefuse ParsedAsSent
