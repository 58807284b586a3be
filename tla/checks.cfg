CONSTANTS
    PullRequests = {p1, p2}
    Users = {u1}
    Apps = {a1}
    Conclusions = {"success"}
    Notices = {n1, n2}
    Requests = {r1, r2}
    Workload = {"rerun", "githubFails", "sendFails", "cancelFails",
                "answersLost", "mongoFails", "restart"}
    NoRecord = NoRecord
    NoId = NoId
SPECIFICATION Spec
INVARIANTS
    TypeOK
    NoticeIsKnown
    NoticeIsCurrent
    NoSecondNotice
CONSTRAINT Focus
SYMMETRY Symmetry
