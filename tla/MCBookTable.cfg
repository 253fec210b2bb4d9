SPECIFICATION Spec
CONSTANTS
    MaxMarkets = 2
    MaxBooks = 2
    kEmptySeq = 100
    MaxRejections = 3
    Updates <- MCUpdates
INVARIANTS
    TypeOK
    NewestWins
PROPERTIES
    NeverStepsBack
    FreshStaysFresh
\* the feed may simply end
CHECK_DEADLOCK FALSE
