SPECIFICATION Spec
CONSTANTS
    Versions = 3
    MaxRows = 2
    MaxCrashes = 4
    MaxOpenFails = 1
INVARIANTS
    ReadyIsUsable
    StuckOnlyAfterDeath
PROPERTIES
    RowsKept
CHECK_DEADLOCK FALSE
