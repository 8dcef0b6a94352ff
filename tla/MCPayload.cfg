CONSTANTS
    MaxChain = 4
    Exchange <- Exchanges
    MaxResponses = 3
    MaxHeaderLines = 3
    MaxBody = 2
    LineLimit = 4
SPECIFICATION FairPayloadSpec
INVARIANTS
    SSHBytesKept
    ChainIsTransparent
PROPERTY NegotiationEnds
CHECK_DEADLOCK FALSE
