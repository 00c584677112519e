CONSTANTS
    None = None
    d1 = d1
    t1 = t1
    t2 = t2
    w1 = w1
    Writers = {w1}
    Deleters = {d1}
    Appliers = {}
    Timers = {t1, t2}
    Services = {"smbd"}
    Changing = {"Settings"}
    MaxVersion = 2
    MayFail = TRUE
    MayDie = TRUE

SPECIFICATION Spec
INVARIANTS
    ReloadsVetted
    CleanReported
