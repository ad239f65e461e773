SPECIFICATION Spec
CONSTANTS
    MaxPage = 2
    MaxLength = 3
    MaxTime = 4
    EXPIRE_TIME = 1
INVARIANTS
    LoadingIsRequest
    PagesInOrder
    ShownIsSaved
    TimeNotAhead
PROPERTIES
    LoadingEnds
