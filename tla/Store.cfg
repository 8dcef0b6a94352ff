CONSTANTS
    Profile = {p1, p2}
    Bundled = {p2}
    Settings = settings
    NoFile = none
    Torn = torn
    MaxVersions = 4
SPECIFICATION Spec
INVARIANTS
    SavesAreAtomic
    OnlyCrashesLitter
