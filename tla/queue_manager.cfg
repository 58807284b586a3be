CONSTANTS
    PullRequests = {p1, p2}
    Users = {u1, u2}
    Callers = {c1, c2}
    NoDoc = NoDoc
SPECIFICATION FairSpec
INVARIANTS
    TypeOK
    RefusedForCause
PROPERTIES
    ImplementsBookingQueue
    NobodyOvertakes
    CallsSettle
