CONSTANTS
    w1 = w1
    w2 = w2
    a = a
    b = b
    inside = inside
    outside = outside
    here = here
    tmp = tmp
    Placeholder = placeholder
    Missing = missing
    Workers = {w1, w2}
    Files = {inside, outside}
    Words = {a, b, placeholder}
    Calls <- SomeCalls
    RootOf <- Roots
    Cwd = here
    Tmp = tmp
    Sandboxed = TRUE
    Platforms <- Hosts
    ShellTexts <- Shells
    InitialFiles <- AnyFiles
    MaxCalls = 2
    MaxErrors = 1
SPECIFICATION Spec
INVARIANTS
    LoneCallIsAtomic
    RefusedCallTouchesNothing
    ShellStaysInside
CHECK_DEADLOCK FALSE
