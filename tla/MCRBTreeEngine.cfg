SPECIFICATION Spec
CONSTANTS
    Key <- MCKey
    Value = {v1}
    NULL = NULL
    UNINIT = UNINIT
    MaxSurplus = 1
    Few <- MCFew
VIEW View
INVARIANTS
    TypeOK
    LinksAgree
    SearchOrder
    Balanced
PROPERTIES
    ImplementsKVMap
CHECK_DEADLOCK FALSE
