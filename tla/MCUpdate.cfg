SPECIFICATION Spec
CONSTANTS
    MaxCommits = 3
    MaxPresses = 3
    MaxRebuilds = 1
    MaxCrashes = 1
INVARIANTS
    RefNotAhead
    OneUpdatePerCell
PROPERTIES
    UpdateIsFresh
CHECK_DEADLOCK FALSE
