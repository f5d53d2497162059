CONSTANTS
    Runs = {r1, r2}
    Dispatchers = {d1, d2}
    limit = 2
    MaxVersion = 2
    MaxCrashes = 1
    MaxRaises = 1
SPECIFICATION FairSpec
INVARIANTS
    OutboxTypeOK
    PublishedIsDelivered
    CopiesAreBounded
PROPERTY
    ImplementsStream
CHECK_DEADLOCK FALSE
