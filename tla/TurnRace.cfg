CONSTANTS
    c1 = c1
    c2 = c2
    s1 = s1
    s2 = s2
    Clients = {c1, c2}
    Sessions = {s1, s2}
    MayUse <- Mixed
    MaxTurns = 2
    MaxReplies = 1
    KeepRecent = 2
    MaxClock = 1
    MaxCrashes = 0
SPECIFICATION FairSpec
INVARIANTS
    EntryIsLive
    TerminalAccounted
    ToldIsRun
    NoLostUpdate
    ResumeIsPartOfConversation
PROPERTIES
    RequestAnswered
