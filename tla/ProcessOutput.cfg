SPECIFICATION Spec
CONSTANTS
    Sizes = {1, 2, 3}
    RetainedBytes = 2
    EventCapacity = 1
    ByteCapacity = 2
    Budgets = {0, 1}
    MaxChunks = 2
INVARIANTS
    TypeOK
    OnceInOrder
    NothingLostAtEnd
PROPERTY ConsumerEnds
CHECK_DEADLOCK FALSE
