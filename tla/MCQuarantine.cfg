CONSTANTS
    p1 = p1  p2 = p2  n1 = n1
    o1 = o1  o2 = o2  o3 = o3  s1 = s1  s2 = s2  v1 = v1
    Procs = {p1, p2}
    Names = {n1}
    Dst = Dst
    Objs = {o1, o2, o3}
    Sess = {s1, s2, v1}
    Legacy = {v1}
    MaxId = 1
    None = None
    MaxRuns = 3
    MaxEnv = 1
    MaxFail = 1
    MaxCrash = 1
SPECIFICATION Spec
SYMMETRY Symmetric
INVARIANTS
    NothingLost
    Recoverable
    TruthfulReport
    OneSession
CHECK_DEADLOCK FALSE
