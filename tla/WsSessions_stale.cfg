CONSTANTS
    c1 = c1
    Components = {c1}
    Browsers = {}
    BufferSize = 0
    GuaranteedSize = 2
    MaxSetting = 1
    Reconnects = FALSE
    WriteMayFail = FALSE
    MayStick = FALSE
    None = None

SPECIFICATION FairSpec
PROPERTIES
    ViewBecomesCurrent
CHECK_DEADLOCK FALSE
