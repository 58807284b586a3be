CONSTANTS
    PullRequests = {p1, p2}
    Users = {u1}
    Callers = {c1, c2}
    NoDoc = NoDoc
SPECIFICATION Spec
INVARIANTS
    RefusedWasPresent
SYMMETRY Symmetry
