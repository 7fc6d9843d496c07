\* First logins and refreshes of one wallet; coupons redeemed,
\* edited and deleted beside withdrawals delivered twice.
CONSTANTS
    l1 = l1
    l2 = l2
    r1 = r1
    r2 = r2
    r3 = r3
    d1 = d1
    d2 = d2
    d3 = d3
    c1 = c1
    c2 = c2
    n1 = n1
    e1 = e1
    e2 = e2
    x1 = x1
    t1 = t1
    t2 = t2
    Logins <- MCLogins
    Refreshes <- MCRefreshes
    Redeems <- MCRedeems
    Code <- MCCode
    Coupons <- MCCoupons
    Uppercase <- MCCoupons
    Planned <- MCPlanned
    Creations <- MCCreations
    Edits <- MCEdits
    Removals <- MCRemovals
    About <- MCAbout
    Transactions <- MCTransactions
    Deliveries = 2
    Award <- MCAward
    FREE_CREDITS = 5
    Scenarios <- MCScenarios
    MaxNonce = 2
    MaxTime = 3
SPECIFICATION Spec
INVARIANTS
    GrantsAddUp
    RotationRetires
CHECK_DEADLOCK FALSE
