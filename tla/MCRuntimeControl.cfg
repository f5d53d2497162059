SPECIFICATION RuntimeSpec
CONSTANTS
    r1 = r1
    r2 = r2
    w1 = w1
    w2 = w2
    Creator = Creator
    Operator = Operator
    Runs = {r1}
    Workers = {w1}
    MCItemCount = 2
    MCAttempts = 2
    Items <- MCItems
    RunOf <- MCRunOf
    RevisionOf <- ChainRevisionOf
    kind <- Chainkind
    dependencies <- Chaindependencies
    max_attempts <- MCmax_attempts
    max_seconds <- MCmax_seconds
    capabilities <- MCcapabilities
    required_capabilities <- MCrequired_capabilities
    requires_approval = {1}
    required_work_item_ids <- MCItems
    require_verifier = TRUE
    max_total_seconds = NoLimit
    NoLimit = NoLimit
    AttemptLimit = 2
    MaxRevision = 1
    max_active_work_items = 2
    max_concurrent_runs = 1
    max_replans = 0
    MaxSequence = 1
    MaxTries = 2
    MaxCrashes = 1
    MaxRequests = 2
    MayStall = FALSE
    MayCancel = TRUE
    MayReport = FALSE
    Supervised = TRUE
INVARIANTS
    WaitingHasApproval
PROPERTIES
    ClaimsAreApproved
    LeasesEnd
CHECK_DEADLOCK FALSE
