SPECIFICATION HSpec
CONSTANTS
    MaxTime = 5
    Statuses <- FewStatuses
    FailureCount = 1
    Freshness = 2
    ObserverFailures = 2
    ObserverFreshness = 2
    RecoverySamples = 2
    RecoverySeconds = 2
    FutureSkew = 1
    RetryFirst = 1
    RetryNext = 1
    Notifications <- OnOrOff
INVARIANTS HTypeOK OneMailPerEvent
PROPERTIES MailIsCurrent RecoveryIsStable IncidentsAreNumbered
CHECK_DEADLOCK FALSE
