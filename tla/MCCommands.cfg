\* A command with buffers and a pipe that fill.  Three users, two requests at a
\* time about different ones.
CONSTANTS
    BufferSize = 3
    PipeSize = 1
    MaxLines = 3
    MayOverrun = TRUE
    None = None
    c1 = c1
    c2 = c2
    Admin = "admin"
    Names = {"admin", "a", "b"}
    Aliases = {}
    Passwords = {"p", "q"}
    Default = "p"
    Callers = {c1, c2}
    Overlap = FALSE
    MaxRequests = 3
    MaxFailures = 1
    MaxStarts = 2
SPECIFICATION CommandsSpec
INVARIANTS SnapshotIsTrue LoginsWork
PROPERTIES KeepsTheLog FinishesOrBlocked RequestsEnd
CHECK_DEADLOCK FALSE
