\* A generation that is waited for, one that is not, and a background removal.
CONSTANTS
    g1 = g1
    g2 = g2
    r1 = r1
    Generations <- MCGenerations
    Removals <- MCRemovals
    Waits <- MCWaits
    Cost <- MCCost
    Budget = 2
    Faults <- MCFaults
    Deliveries <- MCDeliveries
    Looks <- MCOne
SPECIFICATION Spec
INVARIANTS
    OverdrawnOnlyByOverlap
    CompletedIsPaid
    RefundsAreExplained
CHECK_DEADLOCK FALSE
