\* One user: upgrades, renewals, top-ups, an x402 purchase, and cancellations while deliveries overlap, a statement fails and Atlos ignores a cancellation.
CONSTANTS
    a1 = a1
    a2 = a2
    h1 = h1
    h2 = h2
    Contracts <- MCContracts
    Handlers <- MCTwoHandlers
    Base <- MCBase
    TopUpCredits = 1
    MaxRows = 3
    MaxPayments = 2
    MaxFailures = 1
    MaxSpent = 1
    Scenarios <- MCScenarios
    Years <- MCYears
SPECIFICATION Spec
SYMMETRY MCSymmetry
INVARIANTS
    
    PaidIsGranted
    BilledIsServed
    

    
    
CHECK_DEADLOCK FALSE
