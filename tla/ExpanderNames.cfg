CONSTANTS
    a = a b = b c = c d = d
    Urns <- MCUrns
    Matched <- Lower
    Edges <- MCEdges
    SourceChunk = 3
    ResultLimit = 2
SPECIFICATION HopSpec
INVARIANT ConstructedUrnsAreExpanded
CHECK_DEADLOCK FALSE
