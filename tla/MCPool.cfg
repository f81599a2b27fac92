\* Two workers, every fault, fair scheduling of the calls in progress.
CONSTANTS
    w1 = w1
    w2 = w2
    c1 = c1
    c2 = c2
    NilConn = NilConn
    Workers <- TwoWorkers
    Conns <- TwoConns
    Size = 2
    Faults <- AllFaults
SPECIFICATION FairSpec
INVARIANTS
    TypeOK
    SlotAccounting
    ReleaseNeverBlocks
    ExclusiveConn
    PanicOnlyAfterLoss
    AtMostOnce
    ErrorCountBounded
PROPERTIES
    CallReturns
    ImplementsFairLines
