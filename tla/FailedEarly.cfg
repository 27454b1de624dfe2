SPECIFICATION Spec
CONSTANTS
    Readers = {r1}
    MaxChunks = 1
CHECK_DEADLOCK FALSE
PROPERTY FailedIsLast
