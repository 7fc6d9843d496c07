\* One deployment; attempts fail or are given up by Bull while they go on, teardowns are cut short, and the process may restart once.
CONSTANTS
    d1 = d1
    d2 = d2
    p1 = p1
    p2 = p2
    Deployments <- MCOne
    Project <- MCSameProject
    Attempts = 2
    Budget = 3
    Faults = {"attempt", "progress", "cleanup", "mark", "crash", "timeout"}
    MaxMonths = 1
SPECIFICATION Spec
INVARIANTS
    NoOrphanedApp
    ActiveIsServed
PROPERTIES
    DeletedIsFinalAfterJob
CHECK_DEADLOCK FALSE
