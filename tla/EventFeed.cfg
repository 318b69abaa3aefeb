SPECIFICATION Spec
CONSTANTS
    Client = {c1}
    NBranches = 1
    Slots = 2
    Frames <- OneThenTwo
    Capacity = 3
    PageLimit = 1
    NRecords = 2
    MaxBatch = 1
    MaxQueued = 2
    MaxExtras = 1
    MaxTroubles = 1
INVARIANTS NothingSkipped NothingLeftBehind OnceInOrder StatusForward
CHECK_DEADLOCK FALSE
