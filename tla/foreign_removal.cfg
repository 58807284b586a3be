CONSTANTS
    PullRequests = {p1, p2}
    Users = {u1, u2}
    Shas = {s1}
    Requests = {r1}
    MaxReported = 1
    Workload = {"add", "remove", "opened", "foreignRemove"}
    NoInfo = NoInfo
    NoHead = NoHead
    None = None
SPECIFICATION Spec
INVARIANTS
    UnqueuedTitleIsTrue
SYMMETRY Symmetry
