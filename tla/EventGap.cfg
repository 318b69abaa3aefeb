SPECIFICATION Spec
CONSTANTS
    Client = {c1}
    NBranches = 1
    Slots = 2
    Frames <- OneThenTwo
    Capacity = 3
    PageLimit = 2
    NRecords = 3
    MaxBatch = 1
    MaxQueued = 1
    MaxExtras = 0
    MaxTroubles = 0
INVARIANT NoEventMissed
CHECK_DEADLOCK FALSE
