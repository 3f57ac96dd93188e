SPECIFICATION FairSpec
CONSTANTS
    Epochs <- OneEpoch
    MaxSequence = 2
    Minutes <- ThreeMinutes
    Outcomes <- OneOutcome
    ReceiveTimes <- OneTime
    MaxPendingSamples = 2
    None = None
    MaxExports = 1
    MaxCheckpoints = 1
    MaxBlocked = 1
    Faults <- NoFaults
PROPERTY EveryImportIsSettled
