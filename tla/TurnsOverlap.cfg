CONSTANTS
    c1 = c1
    c2 = c2
    s1 = s1
    s2 = s2
    Clients = {c1, c2}
    Sessions = {s1}
    MayUse <- Shared
    MaxTurns = 2
    MaxReplies = 0
    KeepRecent = 2
    MaxClock = 1
    MaxCrashes = 0
SPECIFICATION Spec
INVARIANT OneTurnPerSession
