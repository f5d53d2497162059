SPECIFICATION Spec
CONSTANTS
    r1 = r1
    r2 = r2
    w2 = w2
    w1 = w1
    Runs = {r1, r2}
    Workers = {w1, w2}
    Items <- MCItems
    RunOf <- MCRunOf
    RevisionOf <- MCRevisionOf
    kind <- MCkind
    dependencies <- MCdependencies
    max_attempts <- MCmax_attempts
    max_seconds <- MCmax_seconds
    capabilities <- MCcapabilities
    required_capabilities <- MCrequired_capabilities
    requires_approval = {2}
    required_work_item_ids <- MCItems
    require_verifier = TRUE
    max_total_seconds = NoLimit
    NoLimit = NoLimit
    AttemptLimit = 2
    MaxRevision = 1
    max_active_work_items = 2
    max_concurrent_runs = 2
    max_replans = 0
    MaxSequence = 1
INVARIANTS
    LockIsHeldByOpenAttempt
    IdleRunsCanGoOn
PROPERTIES
    CheckpointsAdvance
CHECK_DEADLOCK FALSE
