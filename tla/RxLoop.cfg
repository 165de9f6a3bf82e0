SPECIFICATION FairSpec
CONSTANTS
    Adapters <- BothAdapters
    MaxBundles = 2
    MaxFails = 7
INVARIANTS StoppedForGood BundlesKept BackoffLaw
PROPERTIES EndNotRetried ShutdownReturns Reopens
CHECK_DEADLOCK FALSE
