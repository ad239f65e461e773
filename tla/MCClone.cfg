SPECIFICATION Spec
CONSTANTS
    Kinds = {"env", "library"}
    MaxClones = 2
    MaxDialogs = 2
    MaxQueue = 1
    MaxCrashes <- MCMaxCrashes
    Garbage = {TRUE, FALSE}
INVARIANTS
    FrameworkIsWhole
    NoCallbackLost
    OverlapOnlyAfterLeaving
    PageKept
PROPERTIES
    SuccessIsWhole
CHECK_DEADLOCK FALSE
