\* A read timeout several intervals long.
SPECIFICATION Spec
CONSTANTS
    KeepaliveInterval = 15
    ReadTimeout = 40
INVARIANTS
    TypeOK
    ReadIsRestarted
CHECK_DEADLOCK FALSE
