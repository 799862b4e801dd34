CONSTANTS
    a = a b = b c = c d = d h1 = h1 h2 = h2 w1 = w1 w2 = w2 r1 = r1 r2 = r2 r3 = r3 r4 = r4
    Packages = {a, b, c, d}
    Kinds = {"exact", "hll"}
    Registers = {r1, r2, r3, r4}
    Hash <- MCHash
    LinearCount <- MCLinear
    AlphaMM = 9089
    Workers = {w1, w2}
    Handles = {h1, h2}
    Ingests <- MCIngests
    RunsOf <- MCRuns
    MaxRuns = 2
SPECIFICATION FairSpec
INVARIANTS SketchIsOfTheEpoch RunRepairs
PROPERTY EpochEnds
CHECK_DEADLOCK FALSE
