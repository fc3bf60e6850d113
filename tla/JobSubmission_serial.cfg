SPECIFICATION Spec
CONSTANTS
    Calls = {c1, c2}
    Keys = {k1}
    MaxRetries = 2
    MaxLifetimes = 2
    Overlapping = FALSE
    NoKey = NoKey
    NoJob = NoJob
    NoReply = NoReply
    c1 = c1
    c2 = c2
    k1 = k1
INVARIANTS
    OneJobPerKey
    ReplayReturnsOriginal
PROPERTIES
    ImplementsLedger
CHECK_DEADLOCK FALSE
