SPECIFICATION Spec
CONSTANTS
    MaxStarts = 3
    MaxPolls = 2
    MaxCrashes = 1
    Faults = {"fail", "remove", "reject"}
INVARIANTS
    CompleteIsWhole
    OneWriter
    TimerFollowsStatus
PROPERTIES
    Finishes
    Settles
CHECK_DEADLOCK FALSE
