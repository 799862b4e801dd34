CONSTANTS
    OpenInterval = 7
    lib1 = lib1
    lib2 = lib2
    lib1b = lib1b
    util1 = util1
    Pieces <- MCPieces
    Names <- MCNames
    Versions <- MCVersions
    Precedence <- MCPrecedence
    Targets <- MCTargets
    Releases <- MCReleases
    Ingested <- MCIngested
    Declarations <- MCDeclarations
    Readers = 2
    FlushAt = 2
    Batch = 2
    MaxRuns = 3
SPECIFICATION Spec
INVARIANTS RecordedIsWritten NoStaleWindow SettlesEveryTarget
CHECK_DEADLOCK FALSE
