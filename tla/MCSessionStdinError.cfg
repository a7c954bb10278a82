SPECIFICATION FairSpec
CONSTANTS
    Pty = TRUE
    Packets <- In1
    MaxResizes = 0
    QueueCap = 1
    NetCap = 1
    WriteResults <- StdinFails
    Statuses <- OneStatus
    Failures = {}
CHECK_DEADLOCK FALSE
PROPERTIES SenderFollowsReceiver
