\* Progress of one deployment and of those who watch it under FairStreamSpec,
\* through failing requests, retries, a restart and failing renewals.
CONSTANTS
    d1 = d1
    p1 = p1
    v1 = v1
    Deployments <- MCOne
    Project <- MCProject
    Attempts = 2
    Budget = 3
    Faults = {"attempt", "create", "enqueue", "charge", "advance", "crash"}
    MaxMonths = 1
    Viewers <- MCViewers
    LogsOf <- MCLogsOf
    Views <- MCViews
SPECIFICATION FairStreamSpec
INVARIANT
    CompleteIsTrue
PROPERTIES
    
    
    RenewalSettles
    StreamEnds
CHECK_DEADLOCK FALSE
