SPECIFICATION Spec
CONSTANTS
    Keys = {k1}
    Values = {v1}
    Del = Del
    Closed = Closed
    Readers = {r1, r2}
    Retentions = {1}
    Floors = {}
    FlushThreshold = 1
    CompactionTrigger = 1
    MaxSeq = 4
SYMMETRY ReaderSymmetry
INVARIANTS ReaderStable AsOfFaithful WriterReadsLatest RangeAgreesWithGet
PROPERTIES SequencesAdvance
