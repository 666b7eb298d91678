SPECIFICATION Spec
CONSTANTS
    Key = {k1, k2, k3}
    Value = {v1, v2}
    NULL = NULL
    KVS_ARRAY_SIZE = 4
SYMMETRY Symmetry
INVARIANTS
    TypeOK
    SlotAccounting
    HeapOwned
PROPERTIES
    RepliesTruthful
    NoLiveOverwritten
    ImplementsPairStore
CHECK_DEADLOCK FALSE
