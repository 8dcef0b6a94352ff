CONSTANTS
    Host = {h1, h2}
    Target = target
    NoHost = none
    ListText = text
    EntryPorts = {0, 80}
    Ports = {8080}
    TargetPort = 22
    MaxList = 3
SPECIFICATION Spec
INVARIANTS
    NoStrayConnection
    ControlHostsAreDialled
    EveryHostTried
CHECK_DEADLOCK FALSE
