CONSTANTS
    None = None
    a = a
    Attachments = {a}
    Windows = {}
    MaxCommits = 3
    MaxPlugins = 2
    MaxPlanes = 4
    MaxFails = 1
    MaxCrashes = 1
SPECIFICATION Spec
CHECK_DEADLOCK FALSE
INVARIANTS MarkerHonest AttachmentsKept InSync
PROPERTIES CatchesUp
