SPECIFICATION FileSpec
CONSTANTS
    v1 = v1
    v2 = v2
    v3 = v3
    Values = {v1, v2, v3}
    None = None
    Partial = Partial
    MaxAttempts = 2
INVARIANTS FileTypeOK FileInv
PROPERTY StateKept
