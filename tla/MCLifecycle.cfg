SPECIFICATION FairSpec
CONSTANTS
    Options <- AllOptions
    Addrs = 2
    Failures <- Everything
    MaxResizes = 2
INVARIANTS TypeOK TerminalRestored NoFalseSuccess SizeSettles
PROPERTIES ChildIsNotLeft RefusalIsReported
