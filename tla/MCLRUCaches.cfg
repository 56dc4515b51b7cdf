CONSTANTS
    k1 = k1
    k2 = k2
    k3 = k3
    k4 = k4
    Keys = {k1, k2, k3, k4}
    Values = {v1, v2}
    NoValue = NoValue
    NULL = NULL
    Capacities = {1, 2, 3}
    hashFunction <- MCHash
SPECIFICATION BothSpec
INVARIANTS
    BothTypeOK
    SameEntries
    ListInOrder
PROPERTIES
    ImplementsLRU
CHECK_DEADLOCK FALSE
