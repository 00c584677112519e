CONSTANTS
    c1 = c1
    Components = {c1}
    Browsers = {}
    BufferSize = 1
    GuaranteedSize = 2
    MaxSetting = 1
    Reconnects = FALSE
    WriteMayFail = TRUE
    MayStick = FALSE
    None = None

SPECIFICATION Spec
INVARIANTS
    NobodyIsRemembered
CHECK_DEADLOCK FALSE
