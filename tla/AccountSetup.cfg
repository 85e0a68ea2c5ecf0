SPECIFICATION FairSpec
CONSTANTS
    m1 = m1
    m2 = m2
    a1 = a1
    x1 = x1
    Managers = {m1, m2}
    Accounts = {a1}
    AcctMgrs = {x1}
    None = None
    MaxTries = 2
INVARIANTS TypeOK InProgressIsServed ManagedHasManager
PROPERTY RepliesDelivered
CHECK_DEADLOCK FALSE
