CONSTANTS
    NoProfile = NoProfile
    MaxSessions = 1
    Patient = TRUE
    ServersAnswer = TRUE
    Timely = TRUE
    Profile = {"sshPlain"}
    Mode <- AllModes
    Tun <- TunProfiles
    Proxifier <- ProxifierProfiles
    Reconnect <- ReconnectProfiles
    MaxRetries <- OneRetry
    TempAuth <- TempAuthProfiles
    Addr <- SameAddr
SPECIFICATION Spec
INVARIANT TrafficIsOfThisTunnel
