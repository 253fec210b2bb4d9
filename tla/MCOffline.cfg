SPECIFICATION OfflineSpec
CONSTANTS
    Markets = 2
    Roster <- TwoBooks
    Ticks = 4
    kMaxLag = 3
    kBufferRecords = 5
    StdioRecords = 1
    MaxJumps = 2
    EpisodeShift = 8
INVARIANTS
    OfflineTypeOK
    SessionInOrder
    QuotesLag
    AcceptedMeansComplete
    SettlementComesLast
    ClosingIsNewest
    BetsTaggedRight
    ValidationIsExact
PROPERTY
    ImplementsRecordSource
\* the simulator and its readers end
CHECK_DEADLOCK FALSE
