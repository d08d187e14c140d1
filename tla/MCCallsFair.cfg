SPECIFICATION FairSpec
CONSTANTS
    None = None
    u1 = u1
    u2 = u2
    r1 = r1
    h1 = h1
    j1 = j1
    Users = {u1, u2}
    Rooms = {r1}
    Requests = {h1}
    JobWorkers = {j1}
    Events = {"offer", "answer", "decline", "cancel", "end"}
    Faults = {"stall"}
PROPERTIES
    EveryCallFreed
    EveryCallLogged
CHECK_DEADLOCK FALSE
