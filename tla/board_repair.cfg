CONSTANTS
    PullRequests = {p1, p2, p3}
    Users = {u1, u2}
    Shas = {s1}
    Requests = {r1}
    MaxReported = 1
    Workload = {"add", "remove", "foreignRemove", "opened", "lateOpened", "sync", "closed", "githubFails", "restart"}
    NoInfo = NoInfo
    NoHead = NoHead
    None = None
SPECIFICATION Spec
INVARIANTS
    RemovalRepairs
SYMMETRY Symmetry
