SPECIFICATION Spec
CONSTANTS
    p = p
    c = c
    Threads = {p, c}
    Parent <- Family
    External = {}
    Hops = {h}
    MaxHops = 1
    Cwds = {w1, w2}
    HostCwd = HostCwd
    Local = Local
    None = None
    MaxEntries = 3
    MaxSwitches <- TornSwitches
PROPERTY ImplicitAnswersCurrentCwd
