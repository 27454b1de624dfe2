SPECIFICATION Spec
CONSTANTS
    Inputs = {u1}
    Mails = {m1}
    Trigger = {m1}
    Turns = {1, 2, 3, 4}
    Slots = {1, 2, 3, 4}
    MaxAborts = 2
    MaxIdle = 1
CONSTRAINT Uncontended
INVARIANTS TypeOK OneTerminalEvent OneTurnRuns NothingLost
PROPERTY InputSettled
CHECK_DEADLOCK FALSE
