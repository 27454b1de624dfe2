SPECIFICATION Spec
CONSTANTS
    Conns = {c1, c2, c3}
    None = None
CHECK_DEADLOCK FALSE
INVARIANTS TypeOK OwnerKept NotificationsStayHome
PROPERTY AbandonedSessionExpires
