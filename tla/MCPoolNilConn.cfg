\* The shipped default of one worker: one failed dial, then the retry.
CONSTANTS
    w1 = w1
    w2 = w2
    c1 = c1
    c2 = c2
    NilConn = NilConn
    Workers <- OneWorker
    Conns <- OneConn
    Size = 1
    Faults = {"idle", "dial"}
SPECIFICATION Spec
PROPERTIES
    TimeoutRecreates
