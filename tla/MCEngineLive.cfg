SPECIFICATION Spec
CONSTANTS
    Absent = Absent
    NotFinite = NotFinite
    One = 10
    MaxStaleMs = 5000
    DevigMethods = {"multiplicative", "power", "shin"}
    Commands <- LiveCommands
    OddsUnit = 10
    kMaxOutcomes = 4
    Converges <- MCConverges
    KellyStakes <- MCKellyStakes
    kBufferRecords = 2
    MaxMarkets = 2
    MaxBooks = 2
    kEmptySeq = 100
    Session <- MCSession
    HeaderMarkets = 2
    HeaderBooks = 2
    kRecordsPerDatagram = 2
    Options <- LiveOptions
    NsPerMs = 1
    WsMarkets = 1
    MaxRecords = 5
    MaxCommands = 1
INVARIANTS
    PricesFollowWhatArrived
    OrderedFeedKeepsCap
\* the run ends
CHECK_DEADLOCK FALSE
