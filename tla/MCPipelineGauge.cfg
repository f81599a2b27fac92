\* Two relay workers and one client that sends two values of one gauge.
CONSTANTS
    r1 = r1
    r2 = r2
    w1 = w1
    w2 = w2
    Internal = Internal
    None = None
    Lines <- OneClientLines
    Valid <- OneClientLines
    Key <- OneClientKey
    Readers <- OneReader
    Script <- OneClientScript
    Workers <- TwoWorkers
    MaxReqs = 1
    RuntimeKeys = {}
    FlushKeys = {}
    BackendFails = FALSE
SPECIFICATION Spec
INVARIANTS
    LastInWins
