SPECIFICATION FairSpec
CONSTANTS
    Calls = {c1}
    Keys = {k1}
    MaxRetries = 3
    MaxLifetimes = 2
    Overlapping = TRUE
    NoKey = NoKey
    NoJob = NoJob
    NoReply = NoReply
    c1 = c1
    k1 = k1
PROPERTIES
    EveryCallEnds
    StoredJobBecomesReplayable
CHECK_DEADLOCK FALSE
