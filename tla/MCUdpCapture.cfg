SPECIFICATION FairSpec
CONSTANTS
    kRecordsPerDatagram = 2
    kAnnounceInterval = 1
    kOddsUpdateSize = 64
    Strays = {}
    Sessions <- Restarted
    RunLength = 3
    MaxSendErrors = 1
    MaxDuplicates = 1
    MaxMalformed = 1
INVARIANTS
    TypeOK
    CleanCaptureIsPrefix
    VerdictIsSound
PROPERTY
    ListenerEnds
\* the tool ends, and the runs of the simulator are finitely many
CHECK_DEADLOCK FALSE
