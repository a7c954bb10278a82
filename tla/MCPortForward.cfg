SPECIFICATION FairSpec
CONSTANTS
    MaxConns = 2
    Packets <- Request
    RemoteFirst = FALSE
    WriteResults = {"ok"}
    Faults = {}
INVARIANTS ReceiversSurvive ForwardedInFull
PROPERTIES AcceptedIsForwarded RequestIsAnswered SessionEnds ForwardIsStream
