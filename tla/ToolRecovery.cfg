CONSTANTS
    k1 = k1
    k2 = k2
    Keys = {k1, k2}
    Names = {"tool"}
    Operations = {k1, k2}
    OperationOf <- KeyItself
    Ids <- SomeIds
    NoKey = NoKey
    MaxEvents = 0
    MaxTurns = 3
    MaxTexts = 1
    MaxForeign = 1
    KeepRecent = 1
    MaxCrashes = 1
SYMMETRY Interchangeable
CHECK_DEADLOCK FALSE
SPECIFICATION Spec
INVARIANTS
    LedgerIsSound
    ResumedConversationIsValid
    DurableCallsAreOver
