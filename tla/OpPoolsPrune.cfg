SPECIFICATION Spec
CONSTANTS
    Members = {0}
    Roots = {"a"}
    Items = {{0}}
    MAX_PER_SLOT = 2
    SLOTS_RETAINED = 3
    FirstSlot = 7
    MaxSlot = 11
INVARIANT KeepsMostRecent
CHECK_DEADLOCK FALSE
