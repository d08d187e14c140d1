SPECIFICATION Spec
CONSTANTS
    None = None
    u1 = u1
    u2 = u2
    r1 = r1
    h1 = h1
    h2 = h2
    Users = {u1, u2}
    Rooms = {r1}
    Requests = {h1, h2}
    JobWorkers = {h1, h2}
    Events = {"offer", "answer", "end", "ice"}
    Faults = {"expire", "abort", "stall"}
SYMMETRY Symmetry
INVARIANTS
    CompletedWasAnswered
    MissedCallOnce
    NotifiedIsLogged
    EndedNeverRings
PROPERTIES
    EndLeavesNothing
CHECK_DEADLOCK FALSE
