SPECIFICATION FairSpec
CONSTANTS
    Nodes = {1, 2, 3}
    DataEdges <- BranchData
    FailureEdges <- BranchFailure
    Required = {}
    AnyJoin = {}
    Parallel = {2, 3}
    NeedsApproval = {1}
    Tries <- Once
    MaxTry = 1
    MaxParallel = 2
    Drivers = {d1, d2}
    MaxRestarts = 1
PROPERTIES
    DriveReturns
    CancelSettles
CHECK_DEADLOCK FALSE
