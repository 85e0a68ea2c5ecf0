SPECIFICATION FairSpec
CONSTANTS
    p1 = p1
    p2 = p2
    a = a
    b = b
    None = None
    Projects = {p1, p2}
    Urls = {a}
    MasterFetchPeriod = 1
    RetryCap = 1
    MasterFetchRetryCap = 1
    MasterFetchInterval = 1
    RetryMin = 1
    RetryMax = 1
    MaxDelay = 0
    MaxNext = 1
    PollsPerTick = 2
    MaxSeqno = 0
    MaxFaults = 0
    MaxUser = 0
PROPERTIES
    PendingServed
