CONSTANTS
    Host = {h1, h2}
    Target = target
    NoHost = none
    ListText = text
    EntryPorts = {80}
    Ports = {0}
    TargetPort = 22
    MaxList = 2
SPECIFICATION Spec
INVARIANT EveryHostTried
CHECK_DEADLOCK FALSE
