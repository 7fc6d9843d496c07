CONSTANTS
    d1 = d1
    c1 = c1
    i1 = i1
    a1 = a1
    s1 = s1
    s2 = s2
    Deploys <- MCOneDeploy
    Charges <- MCCharges
    Images <- MCImages
    Activations <- MCActivations
    SubRows <- MCSubRows
    Cost <- MCCost
    Grants = {2}
    MaxTotal = 3
SPECIFICATION Spec
SYMMETRY MCSymmetry
INVARIANTS
    WithinLimit
    NeverOvercharged
    ExactWithoutRace
    UsageIsStandingCharges
CHECK_DEADLOCK FALSE
