\* A component; a browser that may hang, or settings that change twice.
CONSTANTS
    None = None
    r1 = r1
    b1 = b1
    c1 = c1
    Components = {c1}
    Browsers = {b1}
    BufferSize = 1
    GuaranteedSize = 3
    MaxSetting = 2
    Reconnects = FALSE
    WriteMayFail = FALSE
    MayStick = TRUE
    Callers = {r1}
    MaxChanges = 2
    MaxFailures = 1

SPECIFICATION ReportsSpec
INVARIANTS NobodyIsRemembered ReadingsAreFresh
PROPERTIES
    HeloIsAnswered SettingsAreAnnounced ReadingsFollowHere
CHECK_DEADLOCK FALSE
