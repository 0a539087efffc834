SPECIFICATION FairSpec
CONSTANTS
    n1 = n1
    xray = xray
    cpu = cpu
    a1 = a1
    a2 = a2
    Node = {n1}
    Unavailable = down
    StatusCategories <- MCStatusCategories
    Admins <- MCAdmins
    PollInterval = 1
    FailureDuration = 1
    AlertCooldown = 2
    IterationTimeout = 2
    None = None
    Gap = Gap
INVARIANTS TypeOK ActiveAsLongAsSaid RepeatsWaitForCooldown
PROPERTY EveryAdminTold
