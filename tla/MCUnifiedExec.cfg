SPECIFICATION Safety
CONSTANTS
    Calls = {c1, c2}
    Remote = {}
    Approved = {c2}
    Ids = {i1, i2}
    Writers = {w1}
    MaxProcesses = 1
    Protected = 0
    MaxOps = 2
    NoCall = NoCall
    NoId = NoId
SYMMETRY IdSymmetry
INVARIANTS
    TypeOK
    OneEnd
    WithinLimit
    TerminateTakesOwn
    ReachableUnlessSlipped
    IdGivenBack
CHECK_DEADLOCK FALSE
