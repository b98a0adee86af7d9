SPECIFICATION Spec
CONSTANTS
    None = None
    Queue = 1
    Setups <- MCSetups
INVARIANTS
    NothingLost
    OutcomeHonest
    ResultExact
PROPERTIES
    EngineEnds
CHECK_DEADLOCK FALSE
