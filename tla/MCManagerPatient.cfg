CONSTANTS
    NoProfile = NoProfile
    MaxSessions = 2
    Patient = TRUE
    ServersAnswer = TRUE
    Timely = TRUE
    Profile = {"dnstt", "sshPlain", "xrayTun", "openvpn"}
    Mode <- AllModes
    Tun <- TunProfiles
    Proxifier <- ProxifierProfiles
    Reconnect <- ReconnectProfiles
    MaxRetries <- SomeUnlimited
    TempAuth <- TempAuthProfiles
    Addr <- SameAddr
SPECIFICATION FairSpec
INVARIANT NothingLeaks
PROPERTIES
    OnlyLostTunnelsReconnect
    StartEnds
    StopEndsLoop
    DeadTunnelNoticed
