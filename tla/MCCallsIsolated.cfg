SPECIFICATION IsolatedSpec
CONSTANTS
    None = None
    u1 = u1
    u2 = u2
    u3 = u3
    r1 = r1
    r2 = r2
    h1 = h1
    h2 = h2
    Users = {u1, u2, u3}
    Rooms = {r1, r2}
    Requests = {h1}
    JobWorkers = {h2}
    Events = {"offer", "answer", "end"}
    Faults = {"expire"}
SYMMETRY Symmetry
INVARIANTS
    AcceptedOnce
    LoggedOnce
PROPERTIES
    NoDoubleBooking
    JobEndsItsRoom
    DeletesOnlyItsCall
    ImplementsCallSession
CHECK_DEADLOCK FALSE
