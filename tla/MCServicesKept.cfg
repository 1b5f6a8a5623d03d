CONSTANTS
    Repos = {1, 2}
    Ids = {0, 1}
    Values = {1, 2}
    IdOf <- IdOfValue
    Nothing = Nothing
    Batches <- AllBatches
    SLOTS_PER_EPOCH = 1
    EPOCHS_PER_SYNC_COMMITTEE_PERIOD = 5
    SYNC_COMMITTEE_SIZE = 3
    PREV_DATA_MAX_SIZE = 2
    WsPeriod = 2
    BitCounts = {1, 2}
    MayBeEmpty = {1, 5}
    MayStall = {3, 7}
    LastLightSlot = 8
    MaxHandlers = 1
    MaxFinalizing = 2
    MaxConcurrency <- QueueOpts
    MaxTime = 30
    Members = {0, 1, 2}
    DataRoots = {"a", "b"}
    Items = {{0}, {1}, {2}}
    MAX_PER_SLOT = 2
    SLOTS_RETAINED = 3
    FirstSlot = 0
    LastSlot = 1
    SlotsPerEpoch = 2
    SYNC_TOLERANCE_EPOCHS = 1
    LastApiSlot = 4
    MaxBlocks = 3
    MaxAnswers = 2
    AttSubnets = {0, 1}
    SyncSubnets = {0}
    Validators = {10}
    EPOCHS_PER_RANDOM_SUBNET_SUBSCRIPTION = 1
    RANDOM_SUBNETS_PER_VALIDATOR = 1
    LAST_SEEN_VALIDATOR_TIMEOUT = 3
    ALTAIR_FORK_EPOCH = 3
    FORK_EPOCH_LOOKAHEAD = 2
    DutyLookahead = 1
    LastSubnetSlot = 12
SPECIFICATION Eth1Spec
INVARIANT PendingDepositsKept
CHECK_DEADLOCK FALSE
