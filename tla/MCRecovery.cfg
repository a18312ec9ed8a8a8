SPECIFICATION Spec
CONSTANTS
    k1 = k1
    k2 = k2
    v1 = v1
    Keys = {k1, k2}
    Values = {v1}
    Del = Del
    FlushThreshold = 2
    CompactionTrigger = 1
    Retentions = {0, 1}
    InitialStores <- NewOrOldStore
    Windows = {}
    MaxSeq = 3
    MaxCrashes = 2
    MaxLog = 3
    MaxErrors = 1
INVARIANTS NothingLost HistoryKept SequenceStands RunsOnDisk
CHECK_DEADLOCK FALSE
