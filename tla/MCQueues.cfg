CONSTANTS
    Jobs = {j1, j2, j3, j4}
    MaxLength = 2
    MaxConcurrency = 2
    Calls = {1, 2, 3, 4}
    SetsOf <- FourCalls
    BlsWorkers = {1, 2}
    SetsPerJob = 2
    ChainSlots <- BlockSlots
    Asked <- AllRequests
    MaxRequestBlocks = 3
SPECIFICATION MCSpec
INVARIANTS NoLostWakeup BlsVerdictsAreTrue HonestAnswerAccepted
PROPERTIES EveryJobSettles RequestEnds
CHECK_DEADLOCK FALSE
