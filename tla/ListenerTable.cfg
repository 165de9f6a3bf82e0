\* Table of one, one extra connection, one listener name to spare: eviction of
\* and by a newcomer, and the drop.
CONSTANTS
    Listeners = {l1, l2, l3}
    Keys = {k1, k2}
    MaxConns = 1
    ExtraConns = 1
    NULL = NULL
SPECIFICATION FairSpec
INVARIANTS OpenBound CleanupLast
PROPERTIES NewcomerKept AcceptsAgain EventuallyCleaned
CHECK_DEADLOCK FALSE
