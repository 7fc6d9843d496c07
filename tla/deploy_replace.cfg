\* A deployment and the redeployment of its project; deletes, INSERTs, the
\* queue, refunds and custom domains may fail.
CONSTANTS
    d1 = d1
    d2 = d2
    p1 = p1
    p2 = p2
    Deployments <- MCTwo
    Project <- MCSameProject
    Attempts = 1
    Budget = 3
    Faults = {"cleanup", "enqueue", "create", "refund", "domain"}
    MaxMonths = 1
SYMMETRY MCSymmetry
SPECIFICATION Spec
INVARIANTS
    NoOrphanedUpstream
    
PROPERTIES
    KeepsContract
CHECK_DEADLOCK FALSE
