CONSTANTS
    p1 = p1
    p2 = p2
    Processes = {p1, p2}
    MaxLimit = 2
    Limits = {1, 2}
    Overlap = TRUE
    MaxErrors = 1
CHECK_DEADLOCK FALSE
SPECIFICATION Spec
INVARIANTS
    LedgerTellsRun
    LedgerIsWellFormed
PROPERTIES
    RunReports
