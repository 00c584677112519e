CONSTANTS
    None = None
    t1 = t1
    t2 = t2
    t3 = t3
    w1 = w1
    w2 = w2
    Writers = {w1,w2}
    Deleters = {}
    Appliers = {}
    Timers = {t1,t2,t3}
    Services = {"smbd"}
    Changing = {"Shares","Settings"}
    MaxVersion = 2
    MayFail = FALSE
    MayDie = FALSE

SPECIFICATION Spec
INVARIANTS
    CleanMeansLoaded
