\* Table of two and three peers: replacement, eviction, a wrapping counter.
CONSTANTS
    TableSize = 2
    Keys = {k1, k2, k3}
    Conns = {c1, c2, c3}
    NULL = NULL
    TickMod = 4
    Backlog = 1
    Timeouts <- ThreeTimeouts
    PollMs = 100
    FloorMs = 50
    DefaultMs = 1000
    RdpMs = 10000
    MaxFrags = 2
    MaxFails = 1
SYMMETRY RxSymmetry
SPECIFICATION Spec
INVARIANTS RxOwnsConns WaitBound
PROPERTIES EvictsIdlest
