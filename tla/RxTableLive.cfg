\* A caller that receives in a loop, two busy peers.
CONSTANTS
    TableSize = 2
    Keys = {k1, k2}
    Conns = {c1, c2, c3}
    NULL = NULL
    TickMod = 2
    Backlog = 1
    Timeouts <- OneTimeout
    PollMs = 100
    FloorMs = 50
    DefaultMs = 1000
    RdpMs = 10000
    MaxFrags = 2
    MaxFails = 0
SPECIFICATION FairSpec
PROPERTIES ServedWhenQuiet
