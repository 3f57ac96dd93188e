\* One operator's job per behaviour: SDN, firewall plan, start-up readiness,
\* database backup, PBS monitors, health transport, container bootstraps.
SPECIFICATION OpsSpec
CONSTANTS
    Nodes = {n1, n2}
    InitialOwner = n1
    NoOwner = NoOwner
    MaxSdnRuns = 3
    Candidates <- SomeConfigs
    Packets <- SomePackets
    Clusters <- SomeClusters
    Links <- SomeLinks
    Layouts <- SomeLayouts
    Firewalls <- SomeFirewalls
    MaxAttempts = 3
    Keep = 1
    WarningAge = 1
    FailedAge = 2
    ReleaseAge = 0
    MaxEpoch = 2
    MaxMishaps = 2
    Cts = {"ct1", "ct2"}
    Manual = {"ct1"}
    Inventories <- SomeInventories
    Available = {0, 1, 2, 3, 5}
    Total = 4
    WarningBytes = 2
    CriticalBytes = 1
    MaxSequence = 3
    MaxCounted = 5
    Sources = {"s1", "s2"}
    Validity = 1
    MaxAge = 1
    MaxTime = 3
    MaxImports = 2
    Kinds = {"core", "services", "llm"}
    Runs = {1, 2}
INVARIANTS
    OwnerRecordCovers
    PolicyHolds
    ReadinessIsProven
    CheckpointIsRecoverable
    MonitorsTellTheTruth
    ImportsAreVerified
    BootstrapIsContained
PROPERTY
    AnswersAreTrue
CHECK_DEADLOCK FALSE
