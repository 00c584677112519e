CONSTANTS
    j1 = j1
    j2 = j2
    None = None
    Jobs = {j1, j2}
    Loop = j1
    Callbacks = {j1}
    Files = {"cli", "musl", "static"}
    Channels = {"release"}
    LinkerSets = {{}, {"musl"}}
    MaxVersion = 2
    MaxTrouble = 0
SPECIFICATION FairSpec
PROPERTIES ReleaseArrives
CHECK_DEADLOCK FALSE
