SPECIFICATION Spec
CONSTANTS
    invoice = invoice
    NoOwner = NoOwner
    Document = 7
    Tags = {}
    Owners = {}
    Names = {invoice}
    NameOf <- MCNameOf
    MaxEdits = 1
    MaxVersions = 2
    MaxAttempts = 2
    RetryBase = 1
    RetryMax = 1
    MaxJitter = 0
    LeaseSeconds = 2
    MaxClock = 2
    MaxLag = 1
    LastRequestAt = 2
    MaxRequests = 2
    MaxStops = 1
    MaxFaults = 1
INVARIANT TypeOK
INVARIANT RequestedVersionIsRead
INVARIANT RunsAccountForWrites
PROPERTY ImplementsUpdate
CHECK_DEADLOCK FALSE
