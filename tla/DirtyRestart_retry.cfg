CONSTANTS
    None = None
    a1 = a1
    t1 = t1
    w1 = w1
    Writers = {w1}
    Deleters = {}
    Appliers = {a1}
    Timers = {t1}
    Services = {"smbd"}
    Changing = {"Users"}
    MaxVersion = 2
    MayFail = TRUE
    MayDie = FALSE

SPECIFICATION FairSpec
PROPERTIES
    DirtyIsRetried
