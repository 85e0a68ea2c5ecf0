SPECIFICATION Spec
CONSTANTS
    d1 = d1
    d2 = d2
    d3 = d3
    u1 = u1
    p1 = p1
    p2 = p2
    Files = {d1, d2, d3}
    Outputs = {}
    Sticky = {}
    Signed = {}
    NoSignature = {}
    Hashed = {d1, d2, d3}
    Unsized = {}
    Images = {}
    ProjectOf <- TwoProjects
    NumUrls = 1
    MaxPerProject = 1
    MaxTotal = 2
    GiveUp = 0
    RetryMin = 1
    RetryMax = 1
    MaxRetry = 0
    MaxFaults = 0
VIEW WithoutStateFile
SYMMETRY SameProjectFiles
INVARIANTS
    LimitsRespected
