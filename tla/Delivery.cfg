\* One sender, one pooled connection, two receiving nodes, two bundles of two
\* fragments, three links: room for a timeout, a retry, a reuse and an eviction.
CONSTANTS
    PoolSize = 1
    Dests <- MCDests
    Conns = {c1, c2}
    Threads = {t1}
    Adders = {}
    NULL = NULL
    TickMod = 64
    MaxAgeMs = 1000
    QuiescentCleanup = TRUE
    ClockStep = 1100
    MaxClock = 2200
    MaxOps = 2
    Fragments = 2
    MaxLinks = 3
SYMMETRY ConnSymmetry
VIEW DeliveryView
SPECIFICATION DeliverySpec
INVARIANTS CleanReuse
PROPERTIES ImplementsService ReuseAgeInSeconds
