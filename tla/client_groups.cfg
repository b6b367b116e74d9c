\* Two groups of one worker: interleavings across groups and with main().
SPECIFICATION Spec
CONSTANTS
    NumGroups = 2
    WorkersPerGroup = 1
    StreamStride = 100
    StreamsPerCache = 10
INVARIANTS
    StoppedIsQuiet
    OwnCredentials
PROPERTIES
    EvictsOwnGroup
    LifecycleKept
