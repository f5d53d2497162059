SPECIFICATION WatchSpec
CONSTANTS
    max_attempts = 2
    EntryPoints = {"external", "durable_activity"}
    Faults <- FaultKinds
    MaxFaults = 2
    MaxLines = 1
INVARIANTS
    
    CheckpointsAreOwn
PROPERTIES
    StaleContainersStop
CHECK_DEADLOCK FALSE
