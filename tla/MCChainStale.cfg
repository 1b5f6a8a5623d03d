CONSTANTS
    Roots = {1, 2, 3, 4, 5, 6}
    Genesis = 0
    Parent <- Chain
    Slot <- Slots
    BadTransition = {6}
    BadSignature = {5}
    Segments <- Lists
    SlotsPerEpoch = 2
    InitSlot = 5
    MaxSlot = 6
    MaxReceptions = 2
    MaxFailures = 1
    MaxLength = 3
    ArchiveRoots = {1, 2, 3, 4}
    ArchiveGenesis = 0
    ArchiveParent <- ForkedChain
    ArchiveSlot <- ForkedSlots
    BATCH_SIZE = 1
    MaxTasks = 1
    PERSIST_STATE_EVERY_EPOCHS = 2
    PERSIST_TEMP_STATE_EVERY_EPOCHS = 0
    MaxRestarts = 1
    v1 = v1
    v2 = v2
    v3 = v3
    PoolOperations <- OneSlashing
SPECIFICATION ProductionSpec
PROPERTY ProductionRecovers
CHECK_DEADLOCK FALSE
