CONSTANTS
    OpenInterval = 4
    a = a b = b c = c d = d
    uses = uses near = near far = far odd = odd missing = missing
    Versions <- MCVersions
    Precedence <- MCPrecedence
    Timelines <- MCTimelines
    Ranges <- MCRanges
    Declared = {0, 2}
    Uses = uses
    Pins <- MCPins
    Ingested = {uses, near, far, odd, a, b, c, d}
    Named = {uses, near, far, missing, a, b, c, d}
    Links <- MCLinks
    PublishedAt <- MCPublishedAt
    MaxDepth = 3
    Lockfiles <- MCLockfiles
    LockTimes = {1, 3}
    Advisories <- MCAdvisories
    Zero = 0
    MaxRecords = 2
SPECIFICATION IncidentSpec
INVARIANTS IsResolution MatchesDefinition LiveIsInstall AffectsIsTheRanges IntroducedBeforeExposed ExposedAgrees
CHECK_DEADLOCK FALSE
