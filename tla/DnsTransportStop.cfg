CONSTANTS
    QueueSize = 1
    pollLimit = 1
    maxPollDelay = 2
    numSenders = 2
    MaxHold = 2
    MaxConns = 2
    MaxInFlight = 1
    MaxData = 1
    MaxSends = 1
SPECIFICATION FairSpec
PROPERTY StopClosesTransport
