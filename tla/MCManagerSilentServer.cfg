CONSTANTS
    NoProfile = NoProfile
    MaxSessions = 2
    Patient = TRUE
    ServersAnswer = FALSE
    Timely = TRUE
    Profile = {"sshTun", "dnstt", "sshPlain"}
    Mode <- AllModes
    Tun <- TunProfiles
    Proxifier <- ProxifierProfiles
    Reconnect <- ReconnectProfiles
    MaxRetries <- OneRetry
    TempAuth <- TempAuthProfiles
    Addr <- SameAddr
SPECIFICATION FairSpec
PROPERTY StopEndsLoop
