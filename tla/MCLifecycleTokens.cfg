\* A reload of a file in which a token has become valid, or is no longer.
CONSTANTS
    Files <- SomeFiles
    Hosts <- SomeHosts
    Tokens <- SomeTokens
    LocalHost = "local"
SPECIFICATION FairSpec
PROPERTIES
    TokensNeedRestart
