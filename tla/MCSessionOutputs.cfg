SPECIFICATION FairSpec
CONSTANTS
    Pty = FALSE
    Packets <- Out1
    MaxResizes = 0
    QueueCap = 1
    NetCap = 1
    WriteResults <- StdoutFails
    Statuses <- OneStatus
    Failures = {}
CHECK_DEADLOCK FALSE
INVARIANTS OutputDelivered FinishedIsLast
PROPERTIES FailedOutputIsReported
