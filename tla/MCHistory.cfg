SPECIFICATION Spec
CONSTANTS
    Projects = {p, q}
    Links = {w, x, y, z}
    NotLoaded = NotLoaded
    NoItem = NoItem
    ITEM_COUNT = 2
    Second = 1
    MaxVisits = 4
    MaxCrashes = 1
    MaxFailed = 2
SYMMETRY Symmetric
INVARIANTS
    ListIsTable
    TargetsExist
    OneRowPerLink
