CONSTANTS
    n1 = n1
    n2 = n2
    a = a
    b = b
    w1 = w1
    w2 = w2
    Absent = Absent
    Nodes = {n1, n2}
    Values = {a}
    Writers = {w1, w2}
    Roles = {"master", "replica"}
    Kinds = {"vector", "keyword"}
    BatchFaults = {"vector"}
    Overlap <- NoOverlap
    Leftovers = {}
    MaxSeq = 5
    MaxFaults = 1
    MaxCrashes = 1
SPECIFICATION Spec
CHECK_DEADLOCK FALSE
INVARIANTS Coherent StampValid ImageCoherent
