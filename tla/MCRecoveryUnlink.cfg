SPECIFICATION Spec
CONSTANTS
    k1 = k1
    k2 = k2
    v1 = v1
    Keys = {k1, k2}
    Values = {v1}
    Del = Del
    FlushThreshold = 1
    CompactionTrigger = 2
    Retentions = {1}
    InitialStores <- NewStore
    Windows = {"unlink"}
    MaxSeq = 3
    MaxCrashes = 1
    MaxLog = 4
    MaxErrors = 0
INVARIANTS NothingLost
