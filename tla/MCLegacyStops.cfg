SPECIFICATION FairSpec
CONSTANTS
    q1 = q1
    Profiles = {"app-builder", "terminal"}
    Scored = {"app-builder"}
    no_progress_limit = 2
    max_rounds = 2
    max_recovery_attempts = 1
    EditTools = {"edit_file"}
    Requests = {q1}
    RequestKinds = {"resume", "confirm"}
    Budgets = {"task", "run"}
    MaxEdits = 1
    MaxTests = 1
    MaxErrors = 2
    MaxCrashes = 0
PROPERTIES
    WorkerStops
CHECK_DEADLOCK FALSE
