CONSTANTS
    Client = {"c1", "c2"}
    Dest = {"d1", "name"}
    NotIP = {"name"}
    MaxID = 3
    MaxInFlight = 1
    Requested = {"10.0.0.1", "1.1.1.1"}
    Configured <- MCConfigured
SPECIFICATION FairServers
INVARIANTS
    RepliesReachAsker
    NothingLeftOpen
PROPERTIES
    LastWordsDelivered
    HandlerEnds
CHECK_DEADLOCK FALSE
