\* Two workers flush over two connections while up to two faults occur.  The flush
\* ends, or the process dies: both are states without a successor.
CONSTANTS
    w1 = w1
    w2 = w2
    Workers = {w1, w2}
    Conns = {c1, c2}
    NilConn = NilConn
    Size = 2
    Faults = {"dial", "idle", "late", "stall", "hangup", "reset"}
    Metrics <- SomeMetrics
    TypeOf <- EntryType
    OwnerOf <- EntryOwner
    Percentiles = 0
    MaxFaults = 2
SPECIFICATION FairFlushSpec
INVARIANTS
    LinesAccounted
    LossBounded
PROPERTIES
    FlushEnds
CHECK_DEADLOCK FALSE
