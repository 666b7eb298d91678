SPECIFICATION Spec
CONSTANTS
    k1 = k1
    k2 = k2
    k3 = k3
    k4 = k4
    Key = {k1, k2, k3, k4}
    Value = {v1, v2}
    NULL = NULL
    MAX_TABLE_SIZE = 3
    CharSum <- MCCharSum
SYMMETRY Symmetry
INVARIANTS
    TypeOK
    ChainsWellFormed
    CountExact
    HeapOwned
PROPERTIES
    ImplementsKVMap
CHECK_DEADLOCK FALSE
