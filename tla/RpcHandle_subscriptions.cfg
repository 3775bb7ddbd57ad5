CONSTANTS
    r1 = r1  r2 = r2  n1 = n1  n2 = n2  j1 = j1  j2 = j2
    NoJob = NoJob  UnknownID = UnknownID
    Requests <- MCRequests
    ReqParams <- MCReqParams
    Items <- MCItems
    Matching <- MCMatching
    Jobs <- MCJobs
    Limit = 2
    MaxPub = 3
    Preconfigured = FALSE
SPECIFICATION FairSpec
CHECK_DEADLOCK FALSE
INVARIANT TypeOK FanOutBarrier
PROPERTY StreamsRefined DisconnectEndsSubscriptions
