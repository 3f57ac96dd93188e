SPECIFICATION ASpec
CONSTANTS
    W1 = W1
    W2 = W2
    Gpu = Gpu
    Capacity = Capacity
    Freshness = Freshness
    None = None
    Workers <- TwoWorkers
    ServiceKeys <- OneService
    PlainKeys <- NoKeys
    Statuses <- Seen
    MaxCollections = 4
    MaxSignals = 0
    MaxEras = 2
    MaxPerRun = 2
    MaxAttempts = 2
    MaxOutbox = 3
    Kept = 0
SYMMETRY WorkerSymmetry
INVARIANTS OneMessagePerEvent RecoveryFollowsAlarm
PROPERTIES MessageIsCurrent RecoveryIsNotMissed
CHECK_DEADLOCK FALSE
