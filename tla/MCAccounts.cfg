SPECIFICATION Spec
CONSTANTS
    None = None
    Ids = {u1, u2}
    Sids = {s1, s2}
    Names = {n1, n2}
    Emails = {e1}
    Passwords = {p1, p2}
    Tokens = {t1}
    Collections = {"notifications"}
    Requests = {r1, r2}
    Scenarios <- MCScenarios
    Faults = {"error"}
SYMMETRY MCSymmetry
INVARIANTS
    TypeOK
    UniqueUsers
    OldPasswordOut
    NothingLeftBehind
PROPERTIES
    TokenOfAnotherKept
CHECK_DEADLOCK FALSE
