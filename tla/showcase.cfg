\* Two public deployments and a private one, listings under both keys, the
\* owner's list, a deletion, a termination and a verification of the domain.
CONSTANTS
    a = a
    b = b
    c = c
    l1 = l1
    l2 = l2
    l3 = l3
    o1 = o1
    x1 = x1
    t1 = t1
    v1 = v1
    k1 = k1
    Deployments = {a, b, c}
    Public = {a, b}
    Listings = {l1, l2, l3}
    KeyOf <- MCKeyOf
    Owners = {o1}
    Deletes = {x1}
    Terminations = {t1}
    Verifies = {v1}
    TargetOf <- MCTarget
    Clears = {k1}
    ShowcaseScenarios <- MCScenarios
SPECIFICATION ShowcaseSpec
INVARIANTS
    CachedIsTrue
    
CHECK_DEADLOCK FALSE
