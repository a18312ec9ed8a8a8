CONSTANTS
    Absent = Absent
    Unread = Unread
    k = k
    v1 = v1
    v2 = v2
    r1 = r1
    r2 = r2
    CacheKeys = {k}
    Values = {v1, v2}
    Readers = {r1, r2}
    Images <- SmallImages
    Modes = {"fresh", "quiet"}
    MaxSnapshot = 4
SYMMETRY ReaderSymmetry
SPECIFICATION CacheSpec
CHECK_DEADLOCK FALSE
INVARIANTS ReadsExact AsOfExact
