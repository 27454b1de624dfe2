SPECIFICATION Spec
CONSTANTS
    p = p
    c = c
    Threads = {p, c}
    Parent <- Family
    External = {}
    Hops = {h}
    MaxHops = 3
    Cwds = {w1, w2}
    HostCwd = HostCwd
    Local = Local
    None = None
    MaxEntries = 2
    MaxSwitches <- FamilySwitches
SYMMETRY CwdSymmetry
INVARIANTS
    TypeOK
    CursorBacked
    LauncherFollowsCursor
    BaseRegistered
    MetadataNeverMissing
    StatusMatchesResolution
    MapsWithinCap
PROPERTY CursorSpec
