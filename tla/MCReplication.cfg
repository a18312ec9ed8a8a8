CONSTANTS
    k1 = k1
    k2 = k2
    Keys = {k1, k2}
    FeedCap = 2
    RawCap = 1
    BacklogCap = 1
    TailCap = 1
    Unstamped = TRUE
    Races <- None
    MaxSeq = 5
    MaxLosses = 2
SPECIFICATION FairSpec
CHECK_DEADLOCK FALSE
INVARIANTS NothingMissed PrefixConsistent InOrder
PROPERTIES EventuallyCaughtUp
