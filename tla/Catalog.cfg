CONSTANTS
    c1 = c1
    c2 = c2
    s1 = s1
    Sessions = {s1}
    Clients = {c1, c2}
    MaxRevision = 4
    MaxBirths = 3
SYMMETRY Interchangeable
CHECK_DEADLOCK FALSE
SPECIFICATION Spec
INVARIANTS
    RevisionNamesContent
PROPERTIES
    RefusedIfOvertaken
