CONSTANTS
    a = a b = b c = c d = d
    Urns <- MCUrns
    Matched <- MCUrns
    Edges <- MCEdges
    SourceChunk = 3
    ResultLimit = 2
SPECIFICATION HopSpec
INVARIANT SplittingPreventsTruncation
CHECK_DEADLOCK FALSE
