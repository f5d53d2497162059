SPECIFICATION Spec
CONSTANTS
    w1 = w1
    w2 = w2
    w3 = w3
    f1 = f1
    f2 = f2
    Workers <- MCWorkers
    Files <- MCFiles
    max_attempts = 2
    MaxEdits = 3
SYMMETRY MCSymmetry
INVARIANTS
    MergedWasVerified
    
CHECK_DEADLOCK FALSE
