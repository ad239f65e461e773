SPECIFICATION Spec
CONSTANTS
    Content = {a, b}
    NoRow = NoRow
    MaxId = 2
    MaxQueue = 3
    MaxTimers = 2
    OpenMayFail = TRUE
INVARIANTS
    PendingIsArmed
    FlushDiscipline
    QueueLeadsToView
PROPERTIES
    DeletedStaysDeleted
    ImplementsStore
    QueueDrains
