CONSTANTS
    Procs = {p1}
    Names = {n1, n2}
    Dst = Dst
    Objs = {o1, o2, o3}
    Sess = {s1}
    Legacy = {}
    MaxId = 1
    None = None
    MaxRuns = 1
    MaxEnv = 2
    MaxFail = 1
    MaxCrash = 1
SPECIFICATION BatchSpec
SYMMETRY Symmetric
INVARIANTS
    NothingElseLost
    BatchOutcomes
CHECK_DEADLOCK FALSE
