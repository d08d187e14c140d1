SPECIFICATION Spec
CONSTANTS
    None = None
    u1 = u1
    u2 = u2
    r1 = r1
    r2 = r2
    h1 = h1
    j1 = j1
    Users = {u1, u2}
    Rooms = {r1, r2}
    Requests = {h1}
    JobWorkers = {j1}
    Events = {"offer", "answer", "decline", "cancel", "end"}
    Faults = {}
SYMMETRY Symmetry
PROPERTIES
    JobEndsItsRoom
CHECK_DEADLOCK FALSE
