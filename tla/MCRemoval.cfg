SPECIFICATION FairSpec
CONSTANTS
    Nodes = {"root", "a", "b", "c", "z"}
    Root = "root"
    Dirs = {"root", "a", "c"}
    Parent <- MCParent
    Late = {"z"}
    Faulty = {"c"}
    RootMayFail = TRUE
    Main = "main"
    Base = {"w1"}
    Extra = {"w2"}
    QueueCapacity = 1
    Budget = 1
    ChannelCapacity = 1
    PublishEntries = 2
    PublishReleases = 2
    HeldOpen = 2
    FinishBatch = 2
    OutputMayFail = TRUE
    Meddled = {"c", "z"}
    MaxMeddle = 1
    DeleteBatch = 2
    OutcomeBatch = 2
    DeleteChannel = 1
INVARIANTS ScanExact ReportExact
PROPERTIES FinishedInOrder RemovalEnds
CHECK_DEADLOCK FALSE
