\* Two streams opened and dropped, two concurrent closes, a listener.
CONSTANTS
    Streams = {s1, s2}
    Closers = {k1, k2}
    Listeners = {l1}
    NULL = NULL
    MaxBundles = 1
    MaxErrors = 1
SPECIFICATION FairSpec
INVARIANTS StreamsServed NoReopenAfterClose BundlesConserved OneReadAfterStop
PROPERTIES CallsReturn StopsForGood
CHECK_DEADLOCK FALSE
