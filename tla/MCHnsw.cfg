SPECIFICATION Spec
CONSTANTS
    a = a
    b = b
    c = c
    Ids = {a, b, c}
    Places = {0, 1}
    Levels = {0, 1}
    t1 = t1
    t2 = t2
    Threads = {t1, t2}
    ParallelMin = 3
    M = 1
    M0 = 8
    EfConstruction = 2
    EfSearch = 4
    None = None
    MaxChanges = 4
SYMMETRY Symmetry
INVARIANTS GraphWalkable AgreesWithExact
CHECK_DEADLOCK FALSE
