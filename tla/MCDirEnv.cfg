SPECIFICATION FairSpec
CONSTANTS
    s1 = s1
    s2 = s2
    Shells = {s1, s2}
    Processes <- MCProcesses
    Dirs = {"home", "p", "q"}
    PathUp <- MCPathUp
    Slots <- MCSlots
    Setups <- MCSetups
    Bodies <- MCBodies
    UsesBash <- MCUsesBash
    IsText <- MCIsText
    Effect <- MCEffect
    Names = {"x"}
    Values = {"0", "1", "2"}
    Typed = {"0"}
    None = None
    Malformed = Malformed
    Refused = Refused
INVARIANTS
    LayerExact
    TrustedOnly
    CandidateWhole
PROPERTIES
    OperationsReturn
CHECK_DEADLOCK FALSE
