\* Every history of up to five lines of one key, of three different ones at most,
\* and of six of two, under four configurations.
CONSTANTS
    Inputs <- SomeInputs
    Configs <- SomeConfigs
    None = None
    Unit = 1920
    Quantum = 120
    Millionth = 192
    Mantissa = 3
    Digits <- SomeDigits
    MaxLines = 6
SPECIFICATION Spec
CONSTRAINT FewKinds
INVARIANTS
    TypeOK
    LastValueFromReset
    TimerFigures
    SetCardinality
    PercentilesNested
    RateAgainstInterval
    BackendAccurate
    DeathExplained
    NamesDistinct
