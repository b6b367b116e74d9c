\* A peer that vanishes goes unnoticed.
SPECIFICATION FairSpec
CONSTANTS
    KeepaliveInterval = 15
    ReadTimeout = 40
PROPERTIES
    SilentPeerNoticed
CHECK_DEADLOCK FALSE
