\* One relay worker, the shipped default, fair scheduling, and two clients that
\* use the keys of the internal metrics.
CONSTANTS
    r1 = r1
    r2 = r2
    w1 = w1
    w2 = w2
    Internal = Internal
    None = None
    Lines <- MixedLines
    Valid <- MixedValid
    Key <- MixedKey
    Readers <- TwoReaders
    Script <- MixedScript
    Workers <- OneWorker
    MaxReqs = 2
    RuntimeKeys = {"alloc"}
    FlushKeys = {"count"}
    BackendFails = TRUE
SPECIFICATION FairSpec
INVARIANTS
    TypeOK
    OnePlace
    OverwrittenOnlyRuntime
    LastInWins
PROPERTIES
    EveryLineSettled
    ImplementsFlow
    ImplementsFairFlow
