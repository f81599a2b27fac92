\* The reported value of a counter; violated.
CONSTANTS
    Inputs <- SomeCounters
    Configs <- SomeConfigs
    None = None
    Unit = 1920
    Quantum = 120
    Millionth = 192
    Mantissa = 3
    Digits <- SomeDigits
    MaxLines = 3
SPECIFICATION Spec
INVARIANT CountersInflated
