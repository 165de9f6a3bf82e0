SPECIFICATION FairSpec
CONSTANTS
    Peers = {p1}
    MaxLinks = 2
PROPERTIES
    TerminateReturns
CHECK_DEADLOCK FALSE
