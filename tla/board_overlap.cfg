CONSTANTS
    PullRequests = {p1, p2}
    Users = {u1, u2}
    Shas = {s1}
    Requests = {r1, r2}
    MaxReported = 0
    Workload = {"add", "remove", "foreignRemove", "closed", "sync", "status"}
    NoInfo = NoInfo
    NoHead = NoHead
    None = None
SPECIFICATION Spec
INVARIANTS
    HeadIsTold
    ClosedIsGone
    RemovalRepairs
CONSTRAINT FewPending
SYMMETRY Symmetry
