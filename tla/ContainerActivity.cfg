SPECIFICATION FairSpec
CONSTANTS
    max_attempts = 3
    EntryPoints = {"durable_activity"}
    Faults = {}
    MaxFaults = 2
    MaxLines = 1
PROPERTIES
    RoleIsExecuted
CHECK_DEADLOCK FALSE
