\* A batch of two documents and a single one, two removals and a resume; two
\* generations, one of them completed twice, and a purge.
CONSTANTS
    u1 = u1
    u2 = u2
    u3 = u3
    d1 = d1
    d2 = d2
    r1 = r1
    s1 = s1
    w1 = w1
    s2 = s2
    x1 = x1
    i1 = i1
    i2 = i2
    Uploads <- MCUploads
    Batch <- MCBatch
    Removals = {d1, d2}
    Target <- MCTarget
    Resumes = {r1}
    Images = {i1, i2}
    Results = {s1, w1, s2}
    ImageOf <- MCImageOf
    Purges = {x1}
    Plain = {u1, s1, w1, s2}
    Scenarios <- MCScenarios
SPECIFICATION Spec
INVARIANTS
    MetadataIsExact
    
CHECK_DEADLOCK FALSE
