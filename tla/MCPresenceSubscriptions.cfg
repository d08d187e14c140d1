SPECIFICATION FairSpec
CONSTANTS
    ann = ann
    bob = bob
    a1 = a1
    b1 = b1
    Users = {ann, bob}
    Sockets = {a1, b1}
    UserOf <- MCUserOf
    Wants <- MCWants
    Scenarios <- MCScenarios
    Faults = {}
INVARIANTS
    TypeOK
    Mirrored
    NoChangeMissed
PROPERTIES
    GoneWatchNobody
CHECK_DEADLOCK FALSE
