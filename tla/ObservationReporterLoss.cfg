SPECIFICATION Spec
CONSTANTS
    Epochs <- TwoEpochs
    MaxSequence = 2
    Minutes <- ThreeMinutes
    Outcomes <- OneOutcome
    ReceiveTimes <- TwoTimes
    MaxPendingSamples = 2
    None = None
    MaxExports = 1
    MaxCheckpoints = 1
    MaxBlocked = 1
    Faults <- ReporterFaults
INVARIANTS StoreStaysLoadable SequenceIdentifiesSample
CHECK_DEADLOCK FALSE
