CONSTANTS
    NoProfile = NoProfile
    Profile = {"tun"}
    Host = {"plain", "dual"}
    Uplink = {"v4"}
    AddrOf <- BothFamilies
    NeedsDNS = {}
    Server <- ServerOf
    Control <- ControlOf
    Dialled <- DialledOf
    OpenVPN = {"openvpn"}
    TunAll = {"tun"}
    TunOn = {"tun"}
    IPv6Enabled = {"tun"}
    AllowIPv6Leak = {}
    MaxConnects = 1
    MaxRestarts = 0
    MayCrash = TRUE
SPECIFICATION Spec
INVARIANT ServersStayReachable
