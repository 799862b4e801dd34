CONSTANTS
    a = a b = b c = c d = d
    OpenInterval = 4
    Nodes = {a, b, c, d}
    Graphs <- MCGraphs
    SourceSets <- MCSourceSets
    Within <- Late
    MaxDepth = 0
    DefaultMaxDepth = 3
    Removals <- MCRemovals
SPECIFICATION FairSpec
INVARIANTS NoPhantom NothingMissed CoexistenceWithinUnion CacheServesReplay StreamIsTheAnswer
PROPERTIES SearchesEnd ImplementsReachability
CHECK_DEADLOCK FALSE
