CONSTANTS
    NoProfile = NoProfile
    MaxSessions = 2
    Patient = TRUE
    ServersAnswer = TRUE
    Timely = TRUE
    Profile = {"openvpn", "ssh"}
    Mode <- AllModes
    Tun <- TunProfiles
    Proxifier <- ProxifierProfiles
    Reconnect <- ReconnectProfiles
    MaxRetries <- OneRetry
    TempAuth <- TempAuthProfiles
    Addr <- SameAddr
SPECIFICATION Spec
PROPERTY HealthyTunnelsStay
