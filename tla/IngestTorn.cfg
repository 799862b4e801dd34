CONSTANTS
    ann = ann
    bob = bob
    Pieces <- MCPieces
    Names <- Two
    Ranking <- TwoRanking
    Packages <- MCPackages
    Deps <- TwoDeps
    Handles = {ann, bob}
    Holders <- TwoHolders
    Fetchers = 2
    FlushAt = 8
    MaxRuns = 2
SPECIFICATION Spec
CHECK_DEADLOCK FALSE
INVARIANT NeverClaimsMore
