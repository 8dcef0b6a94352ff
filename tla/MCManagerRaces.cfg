CONSTANTS
    NoProfile = NoProfile
    MaxSessions = 2
    Patient = FALSE
    ServersAnswer = TRUE
    Timely = FALSE
    Profile = {"sshTun", "openvpn", "xray", "dnstt", "sshProxifier"}
    Mode <- AllModes
    Tun <- TunProfiles
    Proxifier <- ProxifierProfiles
    Reconnect <- ReconnectProfiles
    MaxRetries <- Unlimited
    TempAuth <- TempAuthProfiles
    Addr <- SameAddr
SPECIFICATION Spec
INVARIANTS
    OneLiveSession
    StatusIsOwned
    OneReconnectLoop
PROPERTY ImplementsTunnelStatus
