SPECIFICATION SpecWithRelease
CONSTANTS
    d1 = d1
    d2 = d2
    Documents <- MCDocuments
    MaxAttempts = 2
    RetryBase = 1
    RetryMax = 1
    MaxJitter = 0
    LeaseSeconds = 1
    MaxClock = 4
    MaxLag = 1
    LastRequestAt = 2
    MaxRequests = 2
    MaxStops = 0
    MaxFaults = 1
INVARIANT RunJobAgreement
PROPERTY ClosedRunsStayClosed
CHECK_DEADLOCK FALSE
