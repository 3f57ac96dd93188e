SPECIFICATION ASpec
CONSTANTS
    W1 = W1
    W2 = W2
    Gpu = Gpu
    Capacity = Capacity
    Freshness = Freshness
    None = None
    Workers <- TwoWorkers
    ServiceKeys <- NoKeys
    PlainKeys <- TwoPlain
    Statuses <- Seen
    MaxCollections = 0
    MaxSignals = 2
    MaxEras = 1
    MaxPerRun = 2
    MaxAttempts = 2
    MaxOutbox = 2
    Kept = 1
SYMMETRY WorkerSymmetry
INVARIANT ATypeOK
PROPERTIES EvidenceIsKept
CHECK_DEADLOCK FALSE
