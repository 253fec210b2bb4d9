SPECIFICATION Spec
CONSTANTS
    Absent = Absent
    NotFinite = NotFinite
    One = 10
    MaxStaleMs = 5000
    DevigMethods = {"multiplicative", "power", "shin"}
    Commands <- MCCommands
    OddsUnit = 10
    kMaxOutcomes = 4
    Converges <- MCConverges
    KellyStakes <- MCKellyStakes
    kBufferRecords = 2
    MaxMarkets = 2
    MaxBooks = 2
    kEmptySeq = 100
    Session <- MCSession
    HeaderMarkets = 2
    HeaderBooks = 2
    kRecordsPerDatagram = 2
    Options <- FileOptions
    NsPerMs = 1
    WsMarkets = 1
    MaxRecords = 10
    MaxCommands = 2
INVARIANTS
    TypeOK
    PricesAreAsOf
    EveryTickPricedOnce
    DigestIsReproducible
    BetLogIsAllOrTruncated
\* the run ends
CHECK_DEADLOCK FALSE
