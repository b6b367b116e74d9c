\* A sequence number of one bit, a timestamp of three: both wrap many times
\* within the sixteen packets for which nonces are unique.
SPECIFICATION Spec
CONSTANTS
    Senders = {t1, t2}
    SeqMod = 2
    TsMod = 8
    TsStep = 6
    InitSeqs = {0, 1}
    InitTss = {0, 5}
    PaddingMax = 3
    RecvBuf = 36
    Sizes = {1, 5, 6, 9}
    MaxPackets = 16
INVARIANTS
    TypeOK
    NoNonceReuse
    RoundTrip
