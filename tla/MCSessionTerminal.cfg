SPECIFICATION Spec
CONSTANTS
    Pty = TRUE
    Packets <- Out1
    MaxResizes = 2
    QueueCap = 2
    NetCap = 1
    WriteResults <- OkWrites
    Statuses <- OneStatus
    Failures = {}
PROPERTIES SizesInOrder
