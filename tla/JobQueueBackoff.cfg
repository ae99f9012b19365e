SPECIFICATION FairSpec
CONSTANTS
    d1 = d1
    d2 = d2
    Documents <- MCOneDocument
    MaxAttempts = 4
    RetryBase = 1
    RetryMax = 3
    MaxJitter = 1
    LeaseSeconds = 2
    MaxClock = 10
    MaxLag = 1
    LastRequestAt = 2
    MaxRequests = 2
    MaxStops = 1
    MaxFaults = 1
INVARIANT TypeOK
INVARIANT AttemptsWithinBudget
INVARIANT AttemptsFormCycles
INVARIANT AttemptsSpacedByBackoff
INVARIANT RetryIsDueInTime
PROPERTY ShutdownCompletes
CHECK_DEADLOCK FALSE
