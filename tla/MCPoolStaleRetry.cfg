\* Two workers and a healthy backend: the retry meets a second expired connection.
CONSTANTS
    w1 = w1
    w2 = w2
    c1 = c1
    c2 = c2
    NilConn = NilConn
    Workers <- TwoWorkers
    Conns <- TwoConns
    Size = 2
    Faults <- IdleOnly
SPECIFICATION Spec
INVARIANTS
    HealthyBackendNeverDrops
