SPECIFICATION Spec
CONSTANTS
    q1 = q1
    Profiles = {"app-builder", "terminal"}
    Scored = {"app-builder"}
    no_progress_limit = 2
    max_rounds = 2
    max_recovery_attempts = 1
    EditTools = {"edit_file"}
    Requests = {q1}
    RequestKinds = {"pause", "resume", "confirm"}
    Budgets = {"run"}
    MaxEdits = 1
    MaxTests = 2
    MaxErrors = 2
    MaxCrashes = 1
INVARIANTS
    LegacyTypeOK
    AcceptedIsVerified
    UnfinishedHasNext
CHECK_DEADLOCK FALSE
