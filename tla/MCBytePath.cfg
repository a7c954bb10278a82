SPECIFICATION FairSpec
CONSTANTS
    Base = 2
    SizeBytes = 3
    SizeLimit = 5
    Total = 6
    MaxPacket = 4
    InCap = 4
    NetCap = 3
    PtyCap = 2
INVARIANTS InOrder NoLostWakeup
PROPERTIES BytesArrive
