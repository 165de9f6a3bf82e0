\* One sender that passed the unlocked check before the cleanup closed the pool.
CONSTANTS
    PoolSize = 1
    Dests <- OneDest
    Conns = {c1, c2}
    Threads = {t1}
    Adders = {}
    NULL = NULL
    TickMod = 64
    MaxAgeMs = 0
    QuiescentCleanup = FALSE
    ClockStep = 1000
    MaxClock = 0
    MaxOps = 2
SPECIFICATION Spec
INVARIANTS UninitializedMeansClosed
