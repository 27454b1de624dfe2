SPECIFICATION Spec
CONSTANTS
    Readers = {r1}
    MaxChunks = 1
CHECK_DEADLOCK FALSE
INVARIANTS TypeOK RouteUntilEnd NoOrphanRoute
PROPERTIES StreamSpec StreamEnds
