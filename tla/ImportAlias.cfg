SPECIFICATION Spec
CONSTANTS
    Sources <- Aliased
    MaxCommits = 4
    MaxTreeDepth = 2
    MaxPathBytes = 3
    MaxTagChain = 2
    MaxBlobBytes = 1
    MaxRevisionBytes = 3
    PipeSize = 1
    MaxDump = 13
    MaxStderr = 2
    MaxNodeText = 6
    MaxFiles = 3
    MaxRcsBytes = 2
INVARIANTS
    BranchIsCheckout
CHECK_DEADLOCK FALSE
