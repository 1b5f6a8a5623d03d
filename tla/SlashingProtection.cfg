CONSTANTS
    MaxEpoch = 5
    Requests <- AllRequests
    ImportFiles <- HonestFiles
    ZERO_ROOT = 0
    Signers = {s1}
    MaxCrashes = 1
    AnyImport = FALSE
    Data <- StoreData
SPECIFICATION MCSpec
INVARIANTS NoSurroundVote OneAttestationPerTarget
PROPERTY NeverDoubleVotes
