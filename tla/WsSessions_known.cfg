CONSTANTS
    b1 = b1
    c1 = c1
    Components = {c1}
    Browsers = {b1}
    BufferSize = 1
    GuaranteedSize = 2
    MaxSetting = 1
    Reconnects = FALSE
    WriteMayFail = FALSE
    MayStick = FALSE
    None = None

SPECIFICATION Spec
INVARIANTS
    ComponentIsKnown
CHECK_DEADLOCK FALSE
