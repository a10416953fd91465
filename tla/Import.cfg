SPECIFICATION Spec
CONSTANTS
    Sources <- TheSources
    MaxCommits = 4
    MaxTreeDepth = 2
    MaxPathBytes = 3
    MaxTagChain = 2
    MaxBlobBytes = 1
    MaxRevisionBytes = 3
    PipeSize = 1
    MaxDump = 13
    MaxStderr = 2
    MaxNodeText = 6
    MaxFiles = 3
    MaxRcsBytes = 2
INVARIANTS
    TypeOK
    GitSnapshotsAreFrontier
    RefusesExactly
    HistoryExact
    LossAccounts
    HgCopiesAreTrue
    SvnTreesExact
    SvnRefsShowRoots
    CaptureIsWhole
    CvsLinesExact
    ReplayIsExact
    VerdictIsFair
PROPERTIES
    CaptureEnds
CHECK_DEADLOCK FALSE
