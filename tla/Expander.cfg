CONSTANTS
    a = a b = b c = c d = d
    Urns <- MCUrns
    Matched <- Lower
    Edges <- MCEdges
    SourceChunk = 3
    ResultLimit = 2
SPECIFICATION HopSpec
INVARIANTS NoSilentTruncation ReadsAreBounded
CHECK_DEADLOCK FALSE
