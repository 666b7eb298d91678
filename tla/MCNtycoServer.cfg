SPECIFICATION Spec
CONSTANTS
    k1 = k1
    k2 = k2
    v1 = v1
    Client = {c1, c2}
    Fd <- MCFd
    Key = {k1, k2}
    Value = {v1}
    NULL = NULL
    DupRet = 0
    MaxSurplus = 1
    Sent <- MCSent
INVARIANTS
    TypeOK
    OwnReader
    RequestConserved
PROPERTIES
    StoreFollowsRequests
    Answered
CHECK_DEADLOCK FALSE
