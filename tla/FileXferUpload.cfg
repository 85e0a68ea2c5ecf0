SPECIFICATION FairSpec
CONSTANTS
    d1 = d1
    d2 = d2
    d3 = d3
    u1 = u1
    p1 = p1
    p2 = p2
    Files = {u1}
    Outputs = {u1}
    Sticky = {}
    Signed = {}
    NoSignature = {}
    Hashed = {}
    Unsized = {}
    Images = {}
    ProjectOf <- TwoProjects
    NumUrls = 1
    MaxPerProject = 1
    MaxTotal = 1
    GiveUp = 1
    RetryMin = 1
    RetryMax = 2
    MaxRetry = 2
    MaxFaults = 2
INVARIANTS
    UploadNotLost
PROPERTIES
    UploadedOnlyWhenSettled
    UploadSettles
