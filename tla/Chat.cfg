CONSTANTS
    c1 = c1
    c2 = c2
    Chats = {c1}
    SubQueue = 2
    MaxTurns = 3
    MaxTexts = 2
    MaxAsks = 2
CHECK_DEADLOCK FALSE
SPECIFICATION FairSpec
INVARIANT PlainEndIsOwn
PROPERTY ChatReturns
