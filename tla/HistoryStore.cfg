SPECIFICATION Spec
CONSTANTS
    Shells = {a, b}
    Legacy = 1
    Inos = {1, 2}
    MaxOcc = 3
    MaxGen = 2
    MaxOps = 5
    MaxFail = 1
    MaxCrash = 1
    MaxRot = 1
INVARIANTS AckedSurvives ViewExact NoSelfDamage
CHECK_DEADLOCK FALSE
