SPECIFICATION Spec
CONSTANTS
    MaxFiles = 3
    MaxPages = 3
    ChunkSize = 2
    CleanupBase = 1
    CleanupMax = 3
    MaxClock = 6
    MaxLag = 1
    LastJobAt = 3
    MaxFaults = 2
PROPERTY NotFoundEndsCleanup
