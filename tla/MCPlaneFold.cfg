CONSTANTS
    None = None
    a = a
    b = b
    m = m
    L1 = L1
    L2 = L2
    c1 = c1
    c2 = c2
    calls = calls
    Keys = {a, b, m}
    Labels = {L1, L2}
    Contents = {c1, c2}
    Types = {calls}
    Trees <- SmallTrees
    Foreign <- SmallForeign
    MaxNodes = 4
    MaxEdges = 4
    MaxFolds = 2
    MaxOthers = 2
SPECIFICATION Spec
CHECK_DEADLOCK FALSE
INVARIANTS WellFormed SkippedAreCurrent Converges
PROPERTIES LeftStanding
