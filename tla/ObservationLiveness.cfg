SPECIFICATION FairSpec
CONSTANTS
    Epochs <- OneEpoch
    MaxSequence = 2
    Minutes <- ThreeMinutes
    Outcomes <- BothOutcomes
    ReceiveTimes <- OneTime
    MaxPendingSamples = 3
    None = None
    MaxExports = 1
    MaxCheckpoints = 1
    MaxBlocked = 3
    Faults <- Kills
PROPERTY EveryImportIsSettled
