CONSTANTS
    PullRequests = {p1, p2}
    Users = {u1}
    Shas = {s1}
    Requests = {r1, r2}
    MaxReported = 1
    Workload = {"add", "remove", "opened"}
    NoInfo = NoInfo
    NoHead = NoHead
    None = None
SPECIFICATION Spec
INVARIANTS
    FirstTitleIsTrue
SYMMETRY Symmetry
