\* Reloads, stops, kills and restarts in any number, with three files.
CONSTANTS
    Files <- SomeFiles
    Hosts <- SomeHosts
    Tokens <- SomeTokens
    LocalHost = "local"
SPECIFICATION FairSpec
INVARIANTS
    TypeOK
    WholeOutsideLoad
    TokensFromFiles
    CloseFindsSocket
    CleanExit
    RestartWorks
PROPERTIES
    TermEnds
