CONSTANTS
    QueueSize = 1
    pollLimit = 2
    maxPollDelay = 3
    numSenders = 2
    MaxHold = 2
    MaxConns = 3
    MaxInFlight = 1
    MaxData = 2
    MaxSends = 1
SPECIFICATION FairSpec
INVARIANTS
    OneConnection
PROPERTIES
    DataFetched
    RetryAfterHonoured
