CONSTANTS
    Parts <- MCParts
    Branches <- MCBranches
    Branch <- MCBranch
    PullRequests = {p1, p2}
    Users = {u1}
    Updates = {n1, n2}
    NoDoc = NoDoc
SPECIFICATION Spec
SYMMETRY Symmetry
INVARIANTS
    TypeOK
    FeedCatchesUp
    BookingsStayApart
PROPERTIES
    OwnersStayApart
    BranchIsABookingQueue
