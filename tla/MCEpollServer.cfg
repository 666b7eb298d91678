SPECIFICATION Spec
CONSTANTS
    k1 = k1
    k2 = k2
    v1 = v1
    Client = {c1, c2}
    Fd <- MCFd
    Key = {k1, k2}
    Value = {v1}
    NULL = NULL
    DupRet = 1
    MaxSurplus = 1
    Sent <- MCSent
    BUFFER_LENGTH = 18
    OpLength <- MCOpLength
    KeyLength <- MCKeyLength
    ValueLength <- MCValueLength
INVARIANTS
    TypeOK
    RequestConserved
PROPERTIES
    Answered
CHECK_DEADLOCK FALSE
