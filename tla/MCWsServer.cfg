SPECIFICATION FairSpec
CONSTANTS
    Conns = {"a", "b"}
    Casts <- TwoOfThem
    max_backlog = 2
    MaxRequest = 2
    SocketBuffer = 1
    MaxPushes = 1
INVARIANTS
    TypeOK
    AcksGoHome
    CommandsRunOnce
    AnsweredOrCounted
    StreamIntact
PROPERTIES
    EndedIsReaped
    PageThenClose
CHECK_DEADLOCK FALSE
