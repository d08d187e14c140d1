SPECIFICATION FairSpec
CONSTANTS
    None = None
    u1 = u1
    s1 = s1
    s2 = s2
    Users = {u1}
    Sockets = {s1, s2}
    UserOf <- MCUserOf
    Faults = {"crash"}
INVARIANTS
    TypeOK
    IndexComplete
    IndexExact
PROPERTIES
    ConnectedIsCounted
    GoneIsNotCounted
CHECK_DEADLOCK FALSE
