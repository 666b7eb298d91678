SPECIFICATION Spec
CONSTANTS
    k1 = k1
    k2 = k2
    v1 = v1
    Client = {c1}
    Fd <- MCFd
    Key = {k1, k2}
    Value = {v1}
    NULL = NULL
    DupRet = 0
    MaxSurplus = 1
    Sent <- MCTestCase
    BUFFER_LENGTH = 18
    OpLength <- MCOpLength
    KeyLength <- MCKeyLength
    ValueLength <- MCValueLength
INVARIANTS
    ReadAsSent
CHECK_DEADLOCK FALSE
