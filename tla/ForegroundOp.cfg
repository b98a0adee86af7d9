SPECIFICATION FairSpec
CONSTANTS
    Emitters = {e1, e2}
    Reporters = {e1}
    Ready = Ready
    Capacity = 1
    MaxWork = 2
    MaxEvents = 2
    Sent = {"INT", "TERM"}
    MaxSignals = 1
    MaxOutFail = 2
    MaxOps = 1
INVARIANTS EventsDelivered
PROPERTIES CancelReturns
CHECK_DEADLOCK FALSE
