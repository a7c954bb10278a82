SPECIFICATION FairSpec
CONSTANTS
    MaxConns = 1
    Packets <- NoData
    RemoteFirst = TRUE
    WriteResults = {"ok"}
    Faults = {"link"}
CHECK_DEADLOCK FALSE
PROPERTIES HandlersShutDown
