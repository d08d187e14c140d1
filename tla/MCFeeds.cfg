SPECIFICATION Spec
CONSTANTS
    None = None
    Ids = {1, 2, 3}
    MaxTime = 3
    ContactIds = {1, 2}
    Clock <- MCClock
    Limit = 1
    Peers = {p1, p2}
    Flags = {"isBlocked", "isMuted"}
    Bodies <- MCBodies
    Requests = {r1, r2}
    Parts = {"contacts", "blocks", "callLogs", "notifications"}
SYMMETRY MCSymmetry
INVARIANTS
    TypeOK
    SyncMissesNothing
    LogsShownOnce
    NoneSkipped
PROPERTIES
    BlockStays
CHECK_DEADLOCK FALSE
