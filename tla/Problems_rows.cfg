CONSTANTS
    None = None
    a1 = a1
    a2 = a2
    k1 = k1
    Actors = {a1,a2}
    Keys = {k1}
    Severities = {"warning", "error"}
    Overlap = TRUE
    Ops = {"upsert"}
    MaxRows = 2
    MaxQueue = 3
    MayFail = FALSE
    MayRestart = FALSE

SPECIFICATION Spec
INVARIANTS
    OneRowPerKey
