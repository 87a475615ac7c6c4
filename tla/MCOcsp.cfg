SPECIFICATION FairSpec
CONSTANTS
    MaxCerts = 2
    MaxRetry = 2
    MaxEntries = 1
    Schemes <- AllSchemes
    Replies <- SomeReplies
INVARIANTS
    TypeOK
    ChainOfWaits
    GoodIsProved
PROPERTIES
    CheckSpec
    CheckEnds
CHECK_DEADLOCK FALSE
