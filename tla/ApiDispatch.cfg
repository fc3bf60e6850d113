SPECIFICATION Spec
CONSTANTS
    Keys = {k1}
    k1 = k1
    Correlations = {x1, x2}
    x1 = x1
    x2 = x2
    Documents <- MCDocuments
    Requests <- MCRequests
    MaxJobs = 2
    NoKey = NoKey
    NoJob = NoJob
    NoReply = NoReply
    NoCorrelation = NoCorrelation
INVARIANTS
    TypeOK
    OnlyReplaysStray
    JobAnswersNameAJob
    StoredGeometryComesBack
PROPERTIES
    OnlyConfirmedJobsAreStored
