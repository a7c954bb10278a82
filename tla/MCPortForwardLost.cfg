SPECIFICATION FairSpec
CONSTANTS
    MaxConns = 1
    Packets <- Reply
    RemoteFirst = FALSE
    WriteResults = {"ok", "broken"}
    Faults = {"link"}
CHECK_DEADLOCK FALSE
INVARIANTS ReceiversSurvive
PROPERTIES LostLinkClosesForwards
