\* One error of recv_from stops readLoop for good.
SPECIFICATION FairSpec
CONSTANTS
    Sessions = {s1, s2}
    ChunkSize = 2
    SendBuf = 1
    ReturnBuf = 1
    MaxUp = 2
    MaxDown = 2
PROPERTIES
    ReadLoopRecovers
