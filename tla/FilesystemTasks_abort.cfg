CONSTANTS
    d1 = d1
    t1 = t1
    t2 = t2
    a1 = a1
    r1 = r1
    None = None
    Devices = {d1}
    Tasks = {t1,t2}
    Kinds = {"format", "check", "label"}
    Aborters = {a1}
    Readers = {r1}
    MaxLines = 1
    BufferSize = 2
    Overlap = FALSE
SPECIFICATION Spec
INVARIANTS OneToolPerDevice
CHECK_DEADLOCK FALSE
