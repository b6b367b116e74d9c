\* One group of two workers: interleavings within a group, and liveness.
SPECIFICATION FairSpec
CONSTANTS
    NumGroups = 1
    WorkersPerGroup = 2
    StreamStride = 100
    StreamsPerCache = 10
INVARIANTS
    TypeOK
    ActiveMatchesSessions
    RegisteredExactly
    ConfigAskedOnce
PROPERTIES
    CancelDrains
    StopOncePeersGone
    RetryAfterFailure
