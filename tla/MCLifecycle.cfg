SPECIFICATION Spec
CONSTANTS
    Objects = {o1, o2, o3, o4}
    Natives = {n1}
    None = None
    MaxHold = 2
INVARIANTS
    HeldIsAlive
PROPERTIES
    Collected
CHECK_DEADLOCK FALSE
