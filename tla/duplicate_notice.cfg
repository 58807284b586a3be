CONSTANTS
    PullRequests = {p1}
    Users = {u1}
    Apps = {a1}
    Conclusions = {"success"}
    Notices = {n1, n2}
    Requests = {r1, r2}
    Workload = {}
    NoRecord = NoRecord
    NoId = NoId
SPECIFICATION Spec
INVARIANTS
    OneNoticePerBooking
SYMMETRY Symmetry
