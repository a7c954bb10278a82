SPECIFICATION FairSpec
CONSTANTS
    MaxPackets = 3
    WriteResults = {"ok", "broken", "other"}
    Faults = {"link", "receiver"}
INVARIANTS TypeOK OnePacket NoPanic OneBehind Complete NeverStalls NoStraySourceAction
PROPERTIES CloseEndsBoth LostLinkEndsTasks ImplementsPipe
