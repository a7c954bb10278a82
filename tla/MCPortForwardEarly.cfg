SPECIFICATION FairSpec
CONSTANTS
    MaxConns = 1
    Packets <- RequestReply
    RemoteFirst = TRUE
    WriteResults = {"ok"}
    Faults = {}
CHECK_DEADLOCK FALSE
PROPERTIES AcceptedIsForwarded
