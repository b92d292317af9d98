CONSTANTS
    k1 = k1
    k2 = k2
    o1 = o1
    o2 = o2
    a = a
    b = b
    Keys = {k1, k2}
    Names = {a, b}
    Operations = {o1, o2}
    Ids = {1, 2, 3, 4, 5}
    NoKey = NoKey
    MaxEvents = 5
SYMMETRY Interchangeable
CHECK_DEADLOCK FALSE
SPECIFICATION MCSpec
INVARIANT ScanFollowsRules
PROPERTY OnlyAnswersUnblock
