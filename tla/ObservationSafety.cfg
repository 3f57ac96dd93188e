SPECIFICATION Spec
CONSTANTS
    Epochs <- OneEpoch
    MaxSequence = 2
    Minutes <- FourMinutes
    Outcomes <- OneOutcome
    ReceiveTimes <- TwoTimes
    MaxPendingSamples = 2
    None = None
    MaxExports = 2
    MaxCheckpoints = 2
    MaxBlocked = 1
    Faults <- SourceFaults
INVARIANTS TypeOK OneBodyPerSample NoImportedSampleLost WatermarkIsExact
PROPERTY CheckpointNeverRegresses
