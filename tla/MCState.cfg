CONSTANTS
    Roots = {1, 2}
    MaxEpoch = 7
    ValidatorCount = 2
    Eff <- Balances
    Duty <- DutySlots
    SlashedSets = {{}, {2}}
    SlotsPerEpoch = 2
    SqrtSlots = 1
    AltairEpoch = 3
    BaseRewardFactor = 64
    BaseRewardsPerEpoch = 4
    ProposerQuotient = 8
    InactivityQuotient = 2
    MinEpochsToLeak = 0
    Weight <- FlagWeights
    Denominator = 64
    ScoreBias = 4
    ScoreRecovery = 1
    LastEpoch = 4
    MaxIncluded = 1
    Values = {1}
    Statuses = {{2, 4}}
    MaxValidators = 2
    MaxStates = 3
    MaxWrites = 2
SPECIFICATION MCSpec
INVARIANTS FinalizedHasJustifiedChild  CachesFollowTheState CreditIsKept VectorsMatchTrees CommitteesAreExact
PROPERTIES EpochsOnlyGrow RewardsAreFair
CHECK_DEADLOCK FALSE
