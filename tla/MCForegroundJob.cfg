SPECIFICATION FairSpec
CONSTANTS
    N = 2
    Options <- MCOptions
    Faults = {"wait", "refusal", "handoff", "reclaim", "cont", "steal", "kill", "relay"}
    MaxFaults = 2
    MaxResumes = 1
INVARIANTS StableStop ResultExact GroupSignalsSafe
PROPERTIES WaitReturns
CHECK_DEADLOCK FALSE
