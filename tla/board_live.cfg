CONSTANTS
    PullRequests = {p1, p2}
    Users = {u1}
    Shas = {s1}
    Requests = {r1, r2}
    MaxReported = 0
    Workload = {"add", "remove", "closed", "uninstall"}
    NoInfo = NoInfo
    NoHead = NoHead
    None = None
SPECIFICATION FairSpec
PROPERTIES
    HeadGetsTold
    RequestsEnd
    ChainsDescend
