\* Two entries, two destinations that share their address, one sender and one
\* caller of cspcl_conn_pool_add(), a cleanup at any moment, one step of the
\* clock that ages every pooled connection.
CONSTANTS
    PoolSize = 2
    Dests <- TwoDests
    Conns = {c1, c2, c3}
    Threads = {t1, t2}
    Adders = {t2}
    NULL = NULL
    TickMod = 64
    MaxAgeMs = 1000
    QuiescentCleanup = FALSE
    ClockStep = 2000
    MaxClock = 2000
    MaxOps = 3
VIEW PoolView
SPECIFICATION FairSpec
INVARIANTS EntriesOwnConns RoomToConnect
PROPERTIES NoLeak FailedConnClosed ImplementsLru CallsReturn
