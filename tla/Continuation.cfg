CONSTANTS
    c1 = c1
    c2 = c2
    s1 = s1
    s2 = s2
    Clients = {c1}
    Sessions = {s1}
    MayUse <- Shared
    MaxTurns = 3
    MaxReplies = 0
    KeepRecent = 2
    MaxClock = 2
    MaxCrashes = 1
SPECIFICATION ContinuationSpec
INVARIANTS
    TypeOK
    ChainClosed
    OneTurnPerOwnedSession
    ClaimIsExact
    BoundaryIsDurable
