SPECIFICATION Spec
CONSTANTS
    Calls = {c1, c2}
    Remote = {c2}
    Approved = {c2}
    Ids = {i1}
    Writers = {w1}
    MaxProcesses = 1
    Protected = 0
    MaxOps = 1
    NoCall = NoCall
    NoId = NoId
INVARIANT
    OneEnd
PROPERTY
    EveryBeginEnds
CHECK_DEADLOCK FALSE
