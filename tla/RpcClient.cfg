SPECIFICATION Spec
CONSTANTS
    Calls = {r1, r2, r3}
    MaxUnsolicited = 2
CHECK_DEADLOCK FALSE
INVARIANTS TypeOK NoStrandedCall
PROPERTIES ResponsesWin CallsEnd
