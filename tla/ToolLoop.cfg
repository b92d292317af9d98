CONSTANTS
    t1 = t1
    t2 = t2
    p1 = p1
    p2 = p2
    c1 = c1
    c2 = c2
    s1 = s1
    s2 = s2
    Turns = {t1}
    Calls = {p1, p2}
    CallsOf <- TwoCalls
    Sessions = {s1}
    SessionOf <- OneSession
    Clients = {c1, c2}
    Modes = {"explore", "execute", "bypass"}
    Categories = {"file_write", "shell_unsafe"}
    MaxSteps = 2
    MaxErrors = 1
CHECK_DEADLOCK FALSE
SPECIFICATION FairSpec
INVARIANTS
    OnlyApprovedToolsRun
    OneDecision
    PromptIsLive
    LanesClosed
PROPERTIES
    AnswerReaches
