CONSTANTS
    d1 = d1
    d2 = d2
    p1 = p1
    p2 = p2
    x1 = x1
    x2 = x2
    Disks = {d1, d2}
    Partitions = {p1, p2}
    Paths = {x1, x2}
    DiskOf <- TwoDisks
    Home <- OneEach
    Actors = {a1}
    Udev = a1
    MountMayFail = TRUE
    UnmountMayFail = TRUE
    MaxEvents = 3
    None = None

SPECIFICATION Spec
INVARIANTS RightDevice
