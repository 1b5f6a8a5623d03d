CONSTANTS
    Roots = {2, 3, 4, 5, 6}
    Validators = {}
    SlotsPerEpoch = 2
    SafeSlots = 1
    BlockSlots <- LateSlots
    AttestationSlots = {}
    MaxSlot = 10
    EffectiveBalances <- NoBalance
    Voters = {v1, v2}
SPECIFICATION MCSpec
INVARIANTS HeadIsHeaviest StoreIsSound
PROPERTIES FinalityOnlyExtends
SYMMETRY VoterSymmetry
CHECK_DEADLOCK FALSE
