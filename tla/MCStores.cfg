\* One disk with two partitions and a goroutine; two callers of everything else.  What
\* ext4 and APFS say of their state, and FAT and XFS when the tool fails, is not judged.
CONSTANTS
    a1 = a1
    a2 = a2
    k1 = k1
    k2 = k2
    d1 = d1
    d2 = d2
    p1 = p1
    p2 = p2
    x1 = x1
    x2 = x2
    Disks = {d1}
    Partitions = {p1, p2}
    Paths = {x1, x2}
    DiskOf <- OneDisk
    Home <- OneEach
    Actors = {a1}
    Udev = a1
    MountMayFail = TRUE
    UnmountMayFail = TRUE
    MaxEvents = 3
    Clients = {a1, a2}
    Overlap = FALSE
    ProblemKeys = {k1, k2}
    Severities = {"warning"}
    MaxRows = 2
    MaxQueue = 2
    Shown = {"warning", "error"}
    MaxBacklog = 4
    Length = 2
    Manifest = 2
    Embedded = 2
    Cut = 9
    Channels = {"release", "develop"}
    Develop = {0, 3}
    Initial = {0, 1}
    Requests = {"install", "uninstall", "status", "fixed", "core"}
    MaxRequests = 3
    MaxFailures = 1
    Others = {k1, k2}
    Readers = {}
    MaxVersion = 2
    MaxCalls = 2
    MayFail = TRUE
    Filesystems = {"ext4", "vfat", "exfat", "xfs", "btrfs", "ntfs", "f2fs", "gfs2", "hfsplus",
                   "reiserfs", "apfs", "zfs"}
    Labels = {k1, k2}
    Failing = {"exfat"}
    Trusted = {"vfat", "exfat", "xfs", "btrfs", "ntfs", "f2fs", "gfs2", "hfsplus", "reiserfs", "zfs"}
    MaxToolCalls = 3
    None = None

SPECIFICATION StoresSpec
INVARIANTS MapIsKernel StartupIsMountedOrShown StartupIsKept CacheIsStore FixedIsSilent
    LastRemoverGets RestartIsAsked AnswersAreTrue ChecksAreTrue
PROPERTIES MapNeverGoesBack
