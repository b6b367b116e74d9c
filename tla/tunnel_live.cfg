\* Liveness: the shared channel holds one packet and is full with two. A session's
\* channel holds two, so that there is an order inside it.
SPECIFICATION FairSpec
CONSTANTS
    Sessions = {s1, s2}
    ChunkSize = 2
    SendBuf = 2
    ReturnBuf = 1
    MaxUp = 2
    MaxDown = 2
PROPERTIES
    UpResolves
    DownResolves
    UpIsRelay
