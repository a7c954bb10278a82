SPECIFICATION FairSpec
CONSTANTS
    Pty = TRUE
    Packets <- In1
    MaxResizes = 0
    QueueCap = 1
    NetCap = 1
    WriteResults <- StdinBreaks
    Statuses <- TwoStatuses
    Failures = {}
INVARIANTS TypeOK ReceiversSurvive ExitCodeIsChilds
PROPERTIES CleanEnd StdinIsStream
