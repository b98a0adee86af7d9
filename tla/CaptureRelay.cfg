SPECIFICATION FairSpec
CONSTANTS
    MaxTyped = 4
    Suspend = {3}
    Chunk = 2
    Room = 1
    MaxStops = 1
    FgMayFail = TRUE
INVARIANTS KeysInOrder
PROPERTIES FinishEnds
CHECK_DEADLOCK FALSE
