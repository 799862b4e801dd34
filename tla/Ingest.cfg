CONSTANTS
    ann = ann
    bob = bob
    Pieces <- MCPieces
    Names <- Three
    Ranking <- MCRanking
    Packages <- MCPackages
    Deps <- MCDeps
    Handles = {ann, bob}
    Holders <- MCHolders
    Fetchers = 2
    FlushAt = 12
    MaxRuns = 2
SPECIFICATION FairSpec
INVARIANTS ClaimedIsWritten RunAccountsForAll HandOver
PROPERTY ImplementsResumablePass RunEnds
CHECK_DEADLOCK FALSE
