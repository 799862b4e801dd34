CONSTANTS
    OpenInterval = 4
    A = A B = B C = C a1 = a1 b1 = b1 b2 = b2 b3 = b3 c1 = c1 missing = missing h1 = h1 h2 = h2
    s1 = s1 s2 = s2
    Handles = {h1, h2}
    Packages = {A, B, C}
    Versions = {a1, b1, b2, b3, c1, missing}
    Worlds <- MCWorlds
    EpochSets = {{1, 3}, {2, 3}, {1, 2, 3}}
    Fetchable <- MCFetchable
    MaxIngests = 2
    Clients = {s1, s2}
    Requests <- MCRequests
    MaxDepth = 2
    PathLimit = 2
SPECIFICATION Spec
INVARIANTS RosterIsPointwise WhoIsTheAuditReversed EveryKeyIsProved CutIsDominance UnknownIsNotClean HoldingIsObserved
SYMMETRY AnyOrder
CHECK_DEADLOCK FALSE
