SPECIFICATION PlaylistSpec
CONSTANTS
    Roms = {r1, r2}
    MaxInstalls = 3
    MaxDeaths = 1
INVARIANTS
    OneEntryPerRom
    SerialIsExact
CHECK_DEADLOCK FALSE
