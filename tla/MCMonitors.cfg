CONSTANTS
    None = None
    d1 = d1
    A = A
    B = B
    r1 = r1
    r2 = r2
    t = t
    w1 = w1
    Started = Started
    Stopped = Stopped
    c1 = c1
    c2 = c2
    Disks = {d1}
    Callers = {c1, c2}
    IdleTimes = {0, 1, 2}
    MaxPuts = 2
    MaxSleeps = 1
    MayFail = TRUE
SPECIFICATION MonitorsSpec
INVARIANTS StartedOnce
PROPERTIES OnlyIdleDisksSpinDown IdleDisksSpinDown NobodyWaits LastIsAnnounced
CHECK_DEADLOCK FALSE
