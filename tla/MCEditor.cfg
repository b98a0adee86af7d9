CONSTANTS
    WideChars <- MCWideChars
    Listing <- MCListing
    Commands <- MCCommands
    Hosts <- MCHosts
    Home <- MCHome
    CdWord <- MCCdWord
    SshWords <- MCSshWords
    SudoWords <- MCSudoWords
    CharOrder <- MCCharOrder
    Entries <- MCEntries
    Session <- MCSession
    Limit = 2
    ReadBufSize = 6
    PasteLimit = 2
    MaxDigits = 3
    Aliases <- MCAliases
    PromptWidth = 2
    DirStack <- MCDirStack
    Setups <- MCSetups
SPECIFICATION Spec
INVARIANT EventsExact
INVARIANT SearchExact
INVARIANT CompletionDenotes
PROPERTY LineEnds
CHECK_DEADLOCK FALSE
