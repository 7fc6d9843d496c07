\* Chats, a resume, a pause and a deletion beside the webhook, which two
\* instances may come to register.
CONSTANTS
    c1 = c1
    c2 = c2
    r1 = r1
    p1 = p1
    i1 = i1
    i2 = i2
    Chats <- MCChats
    Resumes <- MCResumes
    Pauses <- MCPauses
    Cost <- MCCost
    MinimumChat = 2
    CreditTicks = 2
    Budget = 4
    Scenarios <- MCScenarios
    Instances <- MCInstances
    MaxEvents <- MCEvents
    MaxTime = 4
SPECIFICATION FairSpec
INVARIANTS
    ChargedBySession
    
    
PROPERTIES
    ActiveEnds
CHECK_DEADLOCK FALSE
