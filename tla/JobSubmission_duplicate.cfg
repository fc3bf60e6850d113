SPECIFICATION Spec
CONSTANTS
    Calls = {c1}
    Keys = {k1}
    MaxRetries = 2
    MaxLifetimes = 2
    Overlapping = TRUE
    NoKey = NoKey
    NoJob = NoJob
    NoReply = NoReply
    c1 = c1
    k1 = k1
SYMMETRY Symmetry
INVARIANTS
    OneJobPerKey
CHECK_DEADLOCK FALSE
