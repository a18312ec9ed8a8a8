CONSTANTS
    None = None
    k1 = k1
    k2 = k2
    A = A
    B = B
    t1 = t1
    t2 = t2
    startup = startup
    side = side
    other = other
    Keys = {k1, k2}
    Labels = {A, B}
    Types = {t1, t2}
    Names = {startup, side, other}
    StartupName = startup
    LabelLists <- Lists
    Batches <- SmallBatches
    IdBatchSize = 2
    ChangeCap = 2
    Shipped <- NothingShipped
    MaxPlane = 1
    MaxNode = 4
    MaxEdge = 2
    MaxLabel = 3
    MaxSeq = 4
    MaxOps = 4
SPECIFICATION Spec
CHECK_DEADLOCK FALSE
INVARIANTS AdjacencyExact LookupsExact CountersExact RestoreFaithful
PROPERTIES FeedComplete IdsNeverReused
