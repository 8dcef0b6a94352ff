CONSTANTS
    NoProfile = NoProfile
    Profile = {"ssh"}
    Host = {"plain", "dual"}
    Uplink = {"v4"}
    AddrOf <- BothFamilies
    NeedsDNS = {}
    Server <- ServerOf
    Control <- ControlOf
    Dialled <- DialledOf
    OpenVPN = {"openvpn"}
    TunAll = {"tun"}
    TunOn = {"tun"}
    IPv6Enabled = {"tun"}
    AllowIPv6Leak = {}
    MaxConnects = 1
    MaxRestarts = 1
    MayCrash = FALSE
SPECIFICATION Spec
PROPERTY SwitchingOffRestores
