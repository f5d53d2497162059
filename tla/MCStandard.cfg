SPECIFICATION Spec
CONSTANTS
    r1 = r1
    w1 = w1
    Runs = {r1}
    Workers = {w1}
    Items <- MCItems
    RunOf <- MCRunOf
    RevisionOf <- MCRevisionOf
    kind <- MCkind
    dependencies <- MCdependencies
    max_attempts <- MCmax_attempts
    max_seconds <- MCmax_seconds
    capabilities <- MCcapabilities
    required_capabilities <- MCrequired_capabilities
    requires_approval = {}
    required_work_item_ids <- MCItems
    require_verifier = TRUE
    max_total_seconds = NoLimit
    NoLimit = NoLimit
    AttemptLimit = 2
    MaxRevision = 2
    max_active_work_items = 2
    max_concurrent_runs = 1
    max_replans = 1
    MaxSequence = 0
INVARIANTS
    TypeOK
    Fencing
    RetryBudget
    OneSuccess
    ProjectionAgrees
    DependencyOrder
    CompletedMeansDone
    VerifiedRevisionIsCurrent
    CancelledIsQuiet
PROPERTIES
    SuccessIsFinal
    TerminalIsFinal
CHECK_DEADLOCK FALSE
