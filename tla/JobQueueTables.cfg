SPECIFICATION FairSpec
CONSTANTS
    d1 = d1
    d2 = d2
    Documents <- MCDocuments
    MaxAttempts = 2
    RetryBase = 1
    RetryMax = 1
    MaxJitter = 0
    LeaseSeconds = 2
    MaxClock = 7
    MaxLag = 1
    LastRequestAt = 1
    MaxRequests = 2
    MaxStops = 1
    MaxFaults = 1
INVARIANT IInv
INVARIANT FaultStrandsOneJob
INVARIANT AutomaticProcessingStartsOnce
INVARIANT WaitingJobIsOvertakenOnce
PROPERTY ClosedRunsStayClosed
PROPERTY ImplementsLifecycle
PROPERTY ActiveJobUntouchedByOthers
PROPERTY AcceptedDocumentsSettle
CHECK_DEADLOCK FALSE
