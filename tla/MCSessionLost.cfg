SPECIFICATION FairSpec
CONSTANTS
    Pty = TRUE
    Packets <- NoData
    MaxResizes = 0
    QueueCap = 1
    NetCap = 1
    WriteResults <- OkWrites
    Statuses <- OneStatus
    Failures = {"client", "server"}
PROPERTIES SessionEnds LostClientKillsChild LostServerEndsClient StdoutIsStream
