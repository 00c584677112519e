CONSTANTS
    None = None
    d1 = d1
    t1 = t1
    t2 = t2
    t3 = t3
    Writers = {}
    Deleters = {d1}
    Appliers = {}
    Timers = {t1,t2,t3}
    Services = {"smbd"}
    Changing = {"Shares","Settings"}
    MaxVersion = 2
    MayFail = FALSE
    MayDie = FALSE

SPECIFICATION Spec
INVARIANTS
    CleanMeansWritten
