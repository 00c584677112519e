CONSTANTS
    b1 = b1
    Components = {}
    Browsers = {b1}
    BufferSize = 1
    GuaranteedSize = 2
    MaxSetting = 1
    Reconnects = FALSE
    WriteMayFail = FALSE
    MayStick = TRUE
    None = None

SPECIFICATION FairSpec
PROPERTIES
    StuckIsDropped
CHECK_DEADLOCK FALSE
