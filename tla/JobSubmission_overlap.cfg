SPECIFICATION Spec
CONSTANTS
    Calls = {c1, c2}
    Keys = {k1, k2}
    MaxRetries = 2
    MaxLifetimes = 2
    Overlapping = TRUE
    NoKey = NoKey
    NoJob = NoJob
    NoReply = NoReply
    c1 = c1
    c2 = c2
    k1 = k1
    k2 = k2
SYMMETRY Symmetry
INVARIANTS
    TypeOK
    CacheHoldsStoredJob
    ReturnedJobIsStored
    ErrorResponseLeftNoJob
    ResubmissionCreatesNothing
CHECK_DEADLOCK FALSE
