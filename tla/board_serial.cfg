CONSTANTS
    PullRequests = {p1, p2, p3, p4}
    Users = {u1}
    Shas = {s1}
    Requests = {r1}
    MaxReported = 1
    Workload = {"add", "remove", "opened", "sync", "status", "closed", "uninstall"}
    NoInfo = NoInfo
    NoHead = NoHead
    None = None
SPECIFICATION Spec
INVARIANTS
    TypeOK
    QuietBoardMatches
    FewAtATime
SYMMETRY Symmetry
