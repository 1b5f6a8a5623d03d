CONSTANTS
    MAX_BATCH_DOWNLOAD_ATTEMPTS = 1
    MAX_BATCH_PROCESSING_ATTEMPTS = 1
    Peers = {q1, q2, q3}
    Faulty = {q3}
    Targets = {2}
    WithBlocks = {0, 2}
    SLOTS_PER_EPOCH = 1
    EPOCHS_PER_BATCH = 1
    BATCH_BUFFER_SIZE = 0
    FinalizedEpochs = {0, 1}
    q1 = q1
    q2 = q2
    q3 = q3
    ahead = ahead
    behind = behind
    Remotes = {q1}
    Subnets = {1}
    targetPeers = 0
    maxPeers = 1
    Statuses <- PeerStatuses
    local <- LocalStatus
    Actions <- ScoreActions
    MIN_SCORE <- MinScore
    MIN_SCORE_BEFORE_BAN <- BanScore
    MIN_SCORE_BEFORE_DISCONNECT <- DisconnectScore
    MaxBehaviour = 1
    MaxConnects = 3
SPECIFICATION MCSpec
INVARIANTS ChainIsSound SyncPeersAreConnected
PROPERTIES HonestSyncEnds EventuallySynced LowScoresLeave
CHECK_DEADLOCK FALSE
