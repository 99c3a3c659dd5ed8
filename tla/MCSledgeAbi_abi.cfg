SPECIFICATION Spec
CONSTANTS
    Sandbox = {"s1", "s2"}
    MemSize = 34
    Byte = 4
    BodyLen = 4
    ArgLens <- MCArgLens
    ReadLens <- MCReadLens
    WriteLens <- MCWriteLens
    Plan <- MCPlan
    Key = {"k1", "k2", "k3"}
    HashOf <- MCHashOf
    BucketCount = 1
    ValueOf <- MCValueOf
    BufLen = {1, 2}
CHECK_DEADLOCK FALSE
INVARIANTS
    StdinIsBody
    StdoutInOrder
    ArgsAsSent
    NoStrayBytes
PROPERTIES
    
    OneEntryChanges
