SPECIFICATION Safety
CONSTANTS
    Conns = {c1, c2}
    None = None
CHECK_DEADLOCK FALSE
INVARIANT RemovedIsShutDown
