CONSTANTS
    g1 = g1 g2 = g2 p1 = p1 p2 = p2 u1 = u1 u2 = u2
    Getters = {g1, g2}
    Processes = {p1, p2}
    Urls = {u1, u2}
    Deployments <- MCDeployments
    Ages = {0, 1}
    Interval = 2
    MaxAttempts = 2
    MaxRevision = 2
    MaxCalls = 3
    MaxTime = 2
SPECIFICATION Spec
INVARIANTS SlotsApart HonestClaim RevalidatedIsCurrent OutageIsHidden
CHECK_DEADLOCK FALSE
