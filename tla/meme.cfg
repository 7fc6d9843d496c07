\* Three messages and a deletion in one session, whose owner can pay for two
\* researches and a little more.
CONSTANTS
    m1 = m1
    m2 = m2
    m3 = m3
    d1 = d1
    Messages <- MCMessages
    Deletes <- MCDeletes
    Calls <- MCCalls
    Cost <- MCCost
    MinCredits = 1
    Budget = 7
    Scenarios <- MCScenarios
SPECIFICATION Spec
INVARIANTS
    
    ResearchedOnce
    ReportIsPaidFor
CHECK_DEADLOCK FALSE
