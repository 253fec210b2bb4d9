SPECIFICATION Spec
CONSTANTS
    kRecordsPerDatagram = 2
    kAnnounceInterval = 1
    kOddsUpdateSize = 64
    Strays = {}
    Sessions <- Reseeded
    RunLength = 3
    MaxSendErrors = 1
    MaxDuplicates = 1
    MaxMalformed = 1
INVARIANT
    NoSilentReconfiguration
\* the source ends, and the runs of the simulator are finitely many
CHECK_DEADLOCK FALSE
