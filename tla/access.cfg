CONSTANTS
    Ids = {i1, i2}
    Tokens = {t1, t2}
    Foreign = {t2}
    u1 = u1
    Users = {u1}
    UserOf <- MCUserOf
    Repos = {o1}
    Requests = {r1}
    Hooks = {h1}
    MaxOwed = 2
    NoId = NoId
    NoInfo = NoInfo
SPECIFICATION FairSpec
INVARIANTS
    TypeOK
    InfoIsCurrent
    InstallationIsKnown
    NothingIsLeft
    AdmittedOnAGrant
PROPERTIES
    RevocationEnds
    RevokedIsNotRenewed
