SPECIFICATION Spec
CHECK_DEADLOCK FALSE
CONSTANTS
    Files = {f1, f2}
    Quota = 1
    Chats = {c1, c2}
    MaxMessages = 4
    MaxEdits = 1
    MaxPrevious = 1
    MaxWriters = 2
    Batch = 1
SYMMETRY Symmetry
CONSTRAINTS
    Bound
    OneAtATime
PROPERTY OriginalsKeepFiles
