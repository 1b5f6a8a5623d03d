CONSTANTS
    MaxSlot = 2
    Roots = {1, 2, 3, 4, 5, 6}
    SlotOf <- TwoPerSlot
    ZERO_ROOT = 0
    ImportFiles <- Files
    Signers = {s1, s2}
    MaxCrashes = 1
    k1 = k1
    k2 = k2
    fa = fa
    fb = fb
    NoKey = NoKey
    NoRoot = NoRoot
    Machines = {"m1", "m2"}
    BlockRequests <- BlocksToSign
    AttRequests <- AttsToSign
    OldFiles <- FilesToImport
    UnknownRoot = "zero"
    Networks = {"mainnet"}
    MaxMoves = 2
    MaxCuts = 1
    Validators = {k1, k2}
    Forks = {fa, fb}
    Proposer <- ProposerOf
    AttesterSlot <- AttestsAt
    SLOTS_PER_EPOCH = 2
    TASKS_FORK_EPOCH = 1
    TaskSets = {{"block"}, {"attestation"}, {"syncCommittee"}}
    LastSlot = 3
    TaskReorgs = 2
    MaxCalls = 2
    Member <- MemberOf
    EPOCHS_PER_SYNC_COMMITTEE_PERIOD = 2
    DUTIES_FORK_EPOCH = 2
    MaxEpoch = 1
    DutyReorgs = 1
    MaxFailures = 1
SPECIFICATION MCSpec
INVARIANTS MovedKeysStaySafe DutiesAreServed
PROPERTY NeverDoubleProposes
CHECK_DEADLOCK FALSE
