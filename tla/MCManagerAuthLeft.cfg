CONSTANTS
    NoProfile = NoProfile
    MaxSessions = 2
    Patient = FALSE
    ServersAnswer = TRUE
    Timely = FALSE
    Profile = {"openvpn", "openvpn2"}
    Mode <- AllModes
    Tun <- TunProfiles
    Proxifier <- ProxifierProfiles
    Reconnect <- ReconnectProfiles
    MaxRetries <- OneRetry
    TempAuth <- TempAuthProfiles
    Addr <- SameAddr
SPECIFICATION Spec
INVARIANT CredentialsRemoved
