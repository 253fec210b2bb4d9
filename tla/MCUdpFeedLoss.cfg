SPECIFICATION Spec
CONSTANTS
    kRecordsPerDatagram = 2
    kAnnounceInterval = 2
    kOddsUpdateSize = 64
    Strays <- OtherBuild
    Sessions <- OneRun
    RunLength = 6
    MaxSendErrors = 1
    MaxDuplicates = 1
    MaxMalformed = 1
INVARIANT
    GapsAreLoss
\* the source ends, and the runs of the simulator are finitely many
CHECK_DEADLOCK FALSE
