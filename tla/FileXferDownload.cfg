SPECIFICATION FairSpec
CONSTANTS
    d1 = d1
    d2 = d2
    d3 = d3
    u1 = u1
    p1 = p1
    p2 = p2
    Files = {d1}
    Outputs = {}
    Sticky = {}
    Signed = {d1}
    NoSignature = {}
    Hashed = {}
    Unsized = {}
    Images = {}
    ProjectOf <- TwoProjects
    NumUrls = 2
    MaxPerProject = 1
    MaxTotal = 1
    GiveUp = 2
    RetryMin = 1
    RetryMax = 2
    MaxRetry = 2
    MaxFaults = 2
INVARIANTS
    TypeOK
    XferConsistent
    PresentIsVerified
    TransferInv
PROPERTIES
    
    DownloadSettles
