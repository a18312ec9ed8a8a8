SPECIFICATION Spec
CONSTANTS
    Keys = {k1, k2}
    Values = {v1}
    Del = Del
    Closed = Closed
    Readers = {r1}
    Retentions = {0, 1}
    Floors = {3}
    FlushThreshold = 2
    CompactionTrigger = 1
    MaxSeq = 3
PROPERTIES ImplementsSnapshotStore
SYMMETRY KeySymmetry
