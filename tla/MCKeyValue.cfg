SPECIFICATION KVSpec
CONSTANTS
    Keys = {k1, k2}
    Values = {v1, v2, none}
    Empty = none
    Content <- KVRows
    NoRow = NoRow
    MaxId = 3
    MaxQueue = 3
    MaxTimers = 2
    OpenMayFail = TRUE
INVARIANTS
    OneRowPerKey
    GetReturnsLastSet
