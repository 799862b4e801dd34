CONSTANTS
    a = a b = b c = c d = d
    OpenInterval = 4
    Nodes = {a, b, c, d}
    Graphs <- MCGraphs
    SourceSets <- MCSourceSets
    Within <- Zero
    MaxDepth = 2
    DefaultMaxDepth = 12
    Removals = {}
SPECIFICATION Spec
INVARIANT TruncationIsReported
CHECK_DEADLOCK FALSE
