SPECIFICATION Spec

CONSTANTS
    NULL = NULL
    Slot <- MCSlot
    Files = 2
    perLoadCnt = 1
    Fit = 1
    Place = {"above", "below"}
    MaxThrown = 1
    MaxTimer = 2

INVARIANT
    ActiveCounts

CHECK_DEADLOCK FALSE
