\* A client with an established session does not stop when told to.
SPECIFICATION FairSpec
CONSTANTS
    NumGroups = 1
    WorkersPerGroup = 1
    StreamStride = 100
    StreamsPerCache = 10
PROPERTIES
    StopCompletes
