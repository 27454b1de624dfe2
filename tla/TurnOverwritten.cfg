SPECIFICATION Safety
CONSTANTS
    Inputs = {u1}
    Mails = {m1}
    Trigger = {m1}
    Turns = {1, 2, 3, 4}
    Slots = {1, 2, 3, 4}
    MaxAborts = 1
    MaxIdle = 1
INVARIANT NoTaskOverwritten
CHECK_DEADLOCK FALSE
