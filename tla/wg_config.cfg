\* All configs of up to three lines; one interface with peers of up to three lines.
SPECIFICATION Spec
CONSTANTS
    Configs <- MCConfigs
    MaxRounds = 2
    MaxAny = 3
    MaxPeer = 3
INVARIANTS
    TypeOK
    LeadsIntoTunnel
    VariantsAgree
PROPERTIES
    SavedAgainUnchanged
CHECK_DEADLOCK FALSE
