CONSTANTS
    NoProfile = NoProfile
    MaxSessions = 2
    Patient = FALSE
    ServersAnswer = TRUE
    Timely = TRUE
    Profile = {"ssh"}
    Mode <- AllModes
    Tun <- TunProfiles
    Proxifier <- ProxifierProfiles
    Reconnect <- ReconnectProfiles
    MaxRetries <- Unlimited
    TempAuth <- TempAuthProfiles
    Addr <- SameAddr
SPECIFICATION FairSpec
PROPERTY DeadTunnelNoticed
