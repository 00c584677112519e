CONSTANTS
    u = u
    f = f
    r = r
    None = None
    Udev = u
    Others = {f}
    Readers = {r}
    MaxVersion = 2
    MaxCalls = 2
    MayFail = TRUE
SPECIFICATION Spec
INVARIANTS NextCallIsFresh
CHECK_DEADLOCK FALSE
