CONSTANTS
    DomainLength <- AllDomains
    Messages <- MCMessages
    Domain <- MCDomain
    Plain = {"a", "A"}
    compressionPointerLimit = 10
    PointerRange = 6
    MaxUint16 = 10
    MaxString = 3
    MaxNameLength = 9
    MaxWords = 2
SPECIFICATION MCSpec
INVARIANTS
    EveryPacketFits
    MessageReadBack
    ServerWordsServed
PROPERTIES
    ReadingShrinks
    StreamReleased
CHECK_DEADLOCK FALSE
