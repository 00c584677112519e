\* Two callers, each at work on another problem, and a Home Assistant that answers.
CONSTANTS
    None = None
    a1 = a1
    a2 = a2
    k1 = k1
    k2 = k2
    Actors = {a1, a2}
    Keys = {k1, k2}
    Severities = {"warning"}
    Overlap = FALSE
    Ops = {"upsert", "fix"}
    MaxRows = 4
    MaxQueue = 4
    MayFail = FALSE
    MayRestart = FALSE

SPECIFICATION Spec
INVARIANTS
    WarningIsAnnounced
