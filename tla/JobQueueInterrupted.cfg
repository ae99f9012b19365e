SPECIFICATION FairSpec
CONSTANTS
    d1 = d1
    d2 = d2
    Documents <- MCOneDocument
    MaxAttempts = 2
    RetryBase = 1
    RetryMax = 1
    MaxJitter = 0
    LeaseSeconds = 2
    MaxClock = 8
    MaxLag = 1
    LastRequestAt = 2
    MaxRequests = 2
    MaxStops = 0
    MaxFaults = 1
PROPERTY InterruptedWorkRunsAgain
CHECK_DEADLOCK FALSE
