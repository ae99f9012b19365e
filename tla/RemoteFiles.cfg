SPECIFICATION FairSpec
CONSTANTS
    MaxFiles = 3
    MaxPages = 3
    ChunkSize = 2
    CleanupBase = 1
    CleanupMax = 3
    MaxClock = 8
    MaxLag = 1
    LastJobAt = 2
    MaxFaults = 3
INVARIANT TypeOK
INVARIANT RegisteredFilesStayTracked
INVARIANT LostFilesHaveAFault
INVARIANT ContentHasEveryPage
INVARIANT PendingSnapshotIsCurrent
INVARIANT CleanupsBackOff
PROPERTY TrackedFilesAreDeleted
