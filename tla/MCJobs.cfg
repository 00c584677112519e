\* Two tasks at a time about one device.  The loop of the updates and a request or
\* a callback, with a dynamic build.
CONSTANTS
    d1 = d1
    t1 = t1
    t2 = t2
    a1 = a1
    r1 = r1
    j1 = j1
    j2 = j2
    None = None
    Devices = {d1}
    Tasks = {t1,t2}
    Kinds = {"format", "check", "label"}
    Aborters = {a1}
    Readers = {r1}
    MaxLines = 1
    BufferSize = 2
    Overlap = FALSE
    Jobs = {j1, j2}
    Loop = j1
    Callbacks = {j1}
    Files = {"cli", "musl", "static"}
    Channels = {"release", "develop"}
    LinkerSets = {{}, {"musl"}}
    MaxVersion = 3
    MaxTrouble = 2
SPECIFICATION JobsSpec
INVARIANTS ToolsExclude LastWordIsFinal AbortHitsItsCheck RestartIsWhole
PROPERTIES InstallsAreNewer StaticArrives
CHECK_DEADLOCK FALSE
