SPECIFICATION FairSpec
CONSTANTS
    kRecordsPerDatagram = 2
    kAnnounceInterval = 2
    kOddsUpdateSize = 64
    Strays <- OtherBuild
    Sessions <- Restarted
    RunLength = 5
    MaxSendErrors = 0
    MaxDuplicates = 0
    MaxMalformed = 1
INVARIANTS
    TypeOK
    SequenceBalance
    LossIsMeasurable
    CleanCountersMeanCleanFeed
PROPERTIES
    ImplementsRecordSource
    SourceStops
\* the source ends, and the runs of the simulator are finitely many
CHECK_DEADLOCK FALSE
