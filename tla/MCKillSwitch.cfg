CONSTANTS
    NoProfile = NoProfile
    Profile = {"ssh", "tun", "openvpn"}
    Host = {"plain", "dual"}
    Uplink = {"v4", "v6"}
    AddrOf <- BothFamilies
    NeedsDNS = {"plain"}
    Server <- ServerOf
    Control <- ControlOf
    Dialled <- DialledOf
    OpenVPN = {"openvpn"}
    TunAll = {"tun"}
    TunOn = {"tun"}
    IPv6Enabled = {"tun"}
    AllowIPv6Leak = {}
    MaxConnects = 2
    MaxRestarts = 1
    MayCrash = TRUE
SPECIFICATION Spec
INVARIANTS
    KillSwitchHolds
    NoOrphanRoutes
    RestoredWhenOff
