SPECIFICATION Spec
CONSTANTS
    p1 = p1
    p2 = p2
    a = a
    b = b
    None = None
    Projects = {p1}
    Urls = {a, b}
    MasterFetchPeriod = 2
    RetryCap = 2
    MasterFetchRetryCap = 2
    MasterFetchInterval = 2
    RetryMin = 1
    RetryMax = 2
    MaxDelay = 1
    MaxNext = 1
    PollsPerTick = 1
    MaxSeqno = 2
    MaxFaults = 1
    MaxUser = 1
INVARIANTS
    TypeOK
    OpConsistent
    SeqnoNeverStale
    SchedulerInv
PROPERTIES
    FailureBacksOff
