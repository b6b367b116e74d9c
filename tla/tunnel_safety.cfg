\* Two sessions; channels to the sessions of one packet and a chunk of two, so that a
\* full channel, the search from either slot, and a drop after both refused happen
\* within three datagrams. The shared channel holds two packets, in an order.
SPECIFICATION Spec
CONSTANTS
    Sessions = {s1, s2}
    ChunkSize = 2
    SendBuf = 1
    ReturnBuf = 2
    MaxUp = 3
    MaxDown = 3
SYMMETRY SessionSymmetry
INVARIANTS
    TypeOK
    SlotsAreLive
PROPERTIES
    DropOnlyWhenAllFull
    UpIsRelay
    DownIsRelay
