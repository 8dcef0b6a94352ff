CONSTANTS
    Imports <- MCImports
    MaxIDs = 2
    MaxEdits = 2
    RingSize = 2
    TextSize = 3
    MaxLogs = 4
    MaxClears = 2
    Job = {j1}
    Tools = {"xray", "openvpn", "app"}
    MayLack = {"geosite.dat", "tapctl.exe"}
    MaxVersion = 3
    MaxUpdates = 2
    Servers <- MCServers
    Ports = {"443"}
SPECIFICATION MCSpec
INVARIANTS
    EditorConsistent
    EachLineOnce
    UpdatedMeansReplaced
    LinkServerKept
PROPERTIES
    OnlyShownProfileChanges
    LinesAppear
CHECK_DEADLOCK FALSE
