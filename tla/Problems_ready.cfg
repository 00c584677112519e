CONSTANTS
    None = None
    a1 = a1
    k1 = k1
    Actors = {a1}
    Keys = {k1}
    Severities = {"warning", "error"}
    Overlap = FALSE
    Ops = {"upsert", "fix"}
    MaxRows = 2
    MaxQueue = 3
    MayFail = FALSE
    MayRestart = FALSE

SPECIFICATION FairSpec
PROPERTIES
    ReadyFlushes
